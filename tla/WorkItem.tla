------------------------------- MODULE WorkItem -------------------------------
(***************************************************************************)
(* What the platform promises about a work item, whoever moves it: the     *)
(* crew, a human, a restart of the daemon.  An item is filed, walks the    *)
(* edges of WorkPhases, and ends shipped or closed; it ships only when     *)
(* code of its branch is in git's main; code lands in main only while the  *)
(* item carries an open change or a merge of it is still in flight.        *)
(*                                                                         *)
(* This is the abstract specification that Crew, which has the dispatcher, *)
(* the merges in flight and the crashes, is shown to implement.            *)
(***************************************************************************)
EXTENDS WorkPhases

CONSTANT Items            \* the work items that can be filed

VARIABLES
  phase,                  \* phase of each item, "none" before it is filed
  change,                 \* state of its change: none, open, merged, closed
  inMain                  \* the items of which some commit is in main

vars == <<phase, change, inMain>>

ChangeStates == {"none", "open", "merged", "closed"}

TypeOK ==
  /\ phase \in [Items -> Phases \cup {"none"}]
  /\ change \in [Items -> ChangeStates]
  /\ inMain \subseteq Items

Init ==
  /\ phase = [i \in Items |-> "none"]
  /\ change = [i \in Items |-> "none"]
  /\ inMain = {}

-------------------------------------------------------------------------------
\* An item filed with a branch is born reviewing, with its change open.
File(i, born) ==
  /\ phase[i] = "none"
  /\ born \in BirthPhases
  /\ phase' = [phase EXCEPT ![i] = born]
  /\ change' = [change EXCEPT ![i] = IF born = "reviewing" THEN "open" ELSE "none"]
  /\ UNCHANGED inMain

\* A step of the process that neither attaches nor resolves a change.
Advance(i, to) ==
  /\ to \in {"queued", "building", "reviewing", "reworking", "parked"}
  /\ phase[i] \in WorkEdges[to]
  /\ to = "reviewing" => change[i] = "open"
  /\ phase' = [phase EXCEPT ![i] = to]
  /\ UNCHANGED <<change, inMain>>

\* The builder hands its branch to review.
Attach(i) ==
  /\ phase[i] = "building"
  /\ phase' = [phase EXCEPT ![i] = "reviewing"]
  /\ change' = [change EXCEPT ![i] = "open"]
  /\ UNCHANGED inMain

\* A human closed the item while its builder ran: the branch is attached
\* all the same, so a closed item may carry an open change.
AttachLate(i) ==
  /\ phase[i] = "closed"
  /\ change' = [change EXCEPT ![i] = "open"]
  /\ UNCHANGED <<phase, inMain>>

\* A merge reaches main.  The item had an open change when the merge began;
\* it may have been closed or shipped while the merge ran.
Land(i) ==
  /\ change[i] # "none"
  /\ inMain' = inMain \cup {i}
  /\ UNCHANGED <<phase, change>>

Ship(i) ==
  /\ phase[i] \in WorkEdges["shipped"]
  /\ change[i] = "open"
  /\ i \in inMain
  /\ phase' = [phase EXCEPT ![i] = "shipped"]
  /\ change' = [change EXCEPT ![i] = "merged"]
  /\ UNCHANGED inMain

Close(i) ==
  /\ phase[i] \in WorkEdges["closed"]
  /\ phase' = [phase EXCEPT ![i] = "closed"]
  /\ change' = [change EXCEPT ![i] = IF @ = "open" THEN "closed" ELSE @]
  /\ UNCHANGED inMain

\* A restart re-queues, in one sweep, every build it cut short.
Recover(S) ==
  /\ S \subseteq {i \in Items : phase[i] \in {"building", "reworking"}}
  /\ phase' = [i \in Items |-> IF i \in S THEN "queued" ELSE phase[i]]
  /\ UNCHANGED <<change, inMain>>

Next ==
  \/ \E i \in Items :
       \/ \E born \in BirthPhases : File(i, born)
       \/ \E to \in Phases : Advance(i, to)
       \/ Attach(i) \/ AttachLate(i) \/ Land(i) \/ Ship(i) \/ Close(i)
  \/ \E S \in SUBSET Items : Recover(S)

Spec == Init /\ [][Next]_vars

-------------------------------------------------------------------------------
\* What ships is in main, and its change says so.
ShippedInMain ==
  \A i \in Items : phase[i] = "shipped" => i \in inMain /\ change[i] = "merged"

\* Shipped and closed have no way out: no actor, and no restart, revives an item.
TerminalAbsorbs ==
  [][\A i \in Items : phase[i] \in {"shipped", "closed"} => phase'[i] = phase[i]]_vars
===============================================================================
