--------------------------- MODULE WorkItem_proofs ----------------------------
(***************************************************************************)
(* What WorkItem promises, proved for any set of items.  Crew implements   *)
(* WorkItem (Crew_proofs), so these hold of the crew too.                  *)
(***************************************************************************)
EXTENDS WorkItem, TLAPS

LEMMA TypeStep == ASSUME TypeOK, [Next]_vars PROVE TypeOK'
<1> USE DEF TypeOK, ChangeStates
<1>1. ASSUME NEW i \in Items, NEW born \in BirthPhases, File(i, born) PROVE TypeOK'
  BY <1>1 DEF File, BirthPhases, Phases
<1>2. ASSUME NEW i \in Items, NEW to \in Phases, Advance(i, to) PROVE TypeOK'
  BY <1>2 DEF Advance
<1>3. ASSUME NEW i \in Items, Attach(i) \/ AttachLate(i) \/ Land(i) PROVE TypeOK'
  BY <1>3 DEF Attach, AttachLate, Land, Phases
<1>4. ASSUME NEW i \in Items, Ship(i) \/ Close(i) PROVE TypeOK'
  BY <1>4 DEF Ship, Close, Phases
<1>5. ASSUME NEW S \in SUBSET Items, Recover(S) PROVE TypeOK'
  BY <1>5 DEF Recover, Phases
<1>6. CASE UNCHANGED vars BY <1>6 DEF vars
<1> QED BY <1>1, <1>2, <1>3, <1>4, <1>5, <1>6 DEF Next

LEMMA ShippedStep ==
  ASSUME TypeOK, ShippedInMain, [Next]_vars PROVE ShippedInMain'
<1> USE DEF TypeOK, ShippedInMain
<1>1. ASSUME NEW i \in Items, NEW born \in BirthPhases, File(i, born) PROVE ShippedInMain'
  BY <1>1 DEF File, BirthPhases
<1>2. ASSUME NEW i \in Items, NEW to \in Phases, Advance(i, to) PROVE ShippedInMain'
  BY <1>2 DEF Advance
<1>3. ASSUME NEW i \in Items, Attach(i) \/ AttachLate(i) \/ Land(i) PROVE ShippedInMain'
  BY <1>3 DEF Attach, AttachLate, Land
<1>4. ASSUME NEW i \in Items, Ship(i) \/ Close(i) PROVE ShippedInMain'
  BY <1>4 DEF Ship, Close
<1>5. ASSUME NEW S \in SUBSET Items, Recover(S) PROVE ShippedInMain'
  BY <1>5 DEF Recover
<1>6. CASE UNCHANGED vars BY <1>6 DEF vars
<1> QED BY <1>1, <1>2, <1>3, <1>4, <1>5, <1>6 DEF Next

\* What ships is in main and its change says merged, whoever ships it.
THEOREM ShipsFromMain == Spec => [](TypeOK /\ ShippedInMain)
<1>1. Init => TypeOK /\ ShippedInMain
  BY DEF Init, TypeOK, ShippedInMain, ChangeStates
<1>2. TypeOK /\ ShippedInMain /\ [Next]_vars => (TypeOK /\ ShippedInMain)'
  BY TypeStep, ShippedStep
<1> QED BY <1>1, <1>2, PTL DEF Spec

LEMMA FinalStep ==
  ASSUME TypeOK, [Next]_vars, NEW k \in Items, phase[k] \in {"shipped", "closed"}
  PROVE  phase'[k] = phase[k]
<1> USE DEF TypeOK
<1>1. ASSUME NEW i \in Items, NEW born \in BirthPhases, File(i, born) PROVE phase'[k] = phase[k]
  BY <1>1 DEF File
<1>2. ASSUME NEW i \in Items, NEW to \in Phases, Advance(i, to) PROVE phase'[k] = phase[k]
  BY <1>2 DEF Advance, WorkEdges
<1>3. ASSUME NEW i \in Items, Attach(i) \/ AttachLate(i) \/ Land(i) PROVE phase'[k] = phase[k]
  BY <1>3 DEF Attach, AttachLate, Land
<1>4. ASSUME NEW i \in Items, Ship(i) \/ Close(i) PROVE phase'[k] = phase[k]
  BY <1>4 DEF Ship, Close, WorkEdges
<1>5. ASSUME NEW S \in SUBSET Items, Recover(S) PROVE phase'[k] = phase[k]
  BY <1>5 DEF Recover
<1>6. CASE UNCHANGED vars BY <1>6 DEF vars
<1> QED BY <1>1, <1>2, <1>3, <1>4, <1>5, <1>6 DEF Next

\* Shipped and closed are final: no actor and no restart revives an item.
THEOREM FinalPhases == Spec => TerminalAbsorbs
<1>1. Init => TypeOK
  BY DEF Init, TypeOK, ChangeStates
<1>2. TypeOK /\ [Next]_vars => TypeOK'
  BY TypeStep
<1>3. TypeOK /\ [Next]_vars =>
        [\A i \in Items : phase[i] \in {"shipped", "closed"} => phase'[i] = phase[i]]_vars
  BY FinalStep
<1> QED BY <1>1, <1>2, <1>3, PTL DEF Spec, TerminalAbsorbs
===============================================================================
