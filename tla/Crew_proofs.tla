------------------------------ MODULE Crew_proofs -----------------------------
(***************************************************************************)
(* Proofs about Crew, for any set of items, any rework budget and any      *)
(* bounds.  The inductive invariant is built up in parts, each proved      *)
(* on top of the ones before: the types; which job owns which item; the    *)
(* change, the merges and what has landed; the graph of blockers; the      *)
(* ledger of attempts.  Every part has one lemma for the initial states    *)
(* and one for a step, with one step of the proof per action.              *)
(***************************************************************************)
EXTENDS Crew, TLAPS

LEMMA PhaseMembers ==
  /\ {"intent", "queued", "building", "reviewing", "reworking", "shipped",
      "parked", "closed"} \subseteq Phases
  /\ \A to \in Phases : WorkEdges[to] \subseteq Phases
BY DEF Phases, WorkEdges

LEMMA PointMembers ==
  {"idle", "build", "attach", "unwind", "attached", "preview", "review", "merge",
   "merged", "rework", "pushed", "rebuild"} \subseteq JobPoints
BY DEF JobPoints

LEMMA MoveToType ==
  ASSUME PhaseOK, NEW i \in Items, NEW to \in Phases, MoveTo(i, to)
  PROVE  PhaseOK'
BY DEF PhaseOK, MoveTo

LEMMA JobAtType ==
  ASSUME MemoryOK, NEW i \in Items, NEW p \in JobPoints, JobAt(i, p)
  PROVE  MemoryOK'
BY DEF MemoryOK, JobAt

LEMMA LoseMemoryType ==
  ASSUME NEW how \in {"down", "rejected"}, LoseMemory(how)
  PROVE  MemoryOK'
BY PointMembers DEF MemoryOK, LoseMemory, RepairPoints

LEMMA JobEndsType ==
  ASSUME MemoryOK, NEW i \in Items, JobEnds(i) PROVE MemoryOK'
BY PointMembers DEF MemoryOK, JobEnds

LEMMA JobThrowsType ==
  ASSUME MemoryOK, NEW i \in Items, JobThrows(i) PROVE MemoryOK'
BY JobEndsType, LoseMemoryType DEF JobThrows

LEMMA ParkType ==
  ASSUME PhaseOK, MemoryOK, NEW i \in Items, Park(i)
  PROVE  PhaseOK' /\ MemoryOK'
<1>1. CASE CanMove(i, "parked") /\ MoveTo(i, "parked") /\ JobEnds(i)
  BY <1>1, MoveToType, JobEndsType, PhaseMembers
<1>2. CASE ~CanMove(i, "parked") /\ UNCHANGED phase /\ JobThrows(i)
  BY <1>2, JobThrowsType DEF PhaseOK
<1> QED BY <1>1, <1>2 DEF Park

LEMMA TypeOKInit == ASSUME Init PROVE TypeOK
BY PointMembers DEF Init, TypeOK, StoreOK, GitOK, MemoryOK, BoundsOK, PhaseOK,
                    RepairPoints, NoMerge

LEMMA TypeOKNext == ASSUME TypeOK, [Next]_vars PROVE TypeOK'
<1> USE DEF TypeOK, store, gitRefs, memory, bounds
<1>1. ASSUME NEW i \in Items, Human(i) PROVE TypeOK'
  <2>1. ASSUME NEW born \in BirthPhases, File(i, born) PROVE TypeOK'
    <3>1. PhaseOK'
      BY <2>1, MoveToType, PhaseMembers DEF File, BirthPhases, StoreOK
    <3> QED BY <2>1, <3>1 DEF File, StoreOK, GitOK, MemoryOK, BoundsOK
  <2>2. CASE Queue(i)
    BY <2>2, MoveToType, PhaseMembers DEF Queue, StoreOK, GitOK, MemoryOK, BoundsOK
  <2>3. CASE Close(i)
    BY <2>3, MoveToType, PhaseMembers DEF Close, StoreOK, GitOK, MemoryOK, BoundsOK
  <2>4. CASE HumanMerge(i)
    BY <2>4 DEF HumanMerge, Commit, StoreOK, PhaseOK, GitOK, MemoryOK, BoundsOK
  <2>5. ASSUME NEW j \in Items, AddWorkDep(i, j) \/ RemoveWorkDep(i, j) PROVE TypeOK'
    BY <2>5 DEF AddWorkDep, RemoveWorkDep, StoreOK, PhaseOK, GitOK, MemoryOK, BoundsOK
  <2> QED BY <1>1, <2>1, <2>2, <2>3, <2>4, <2>5 DEF Human
<1>2. ASSUME NEW i \in Items, MergeGoesOn(i) PROVE TypeOK'
  <2>1. CASE HumanMergeLands(i)
    BY <2>1 DEF HumanMergeLands, StoreOK, PhaseOK, GitOK, MemoryOK, BoundsOK
  <2>2. CASE HumanMergeFails(i)
    BY <2>2 DEF HumanMergeFails, StoreOK, PhaseOK, GitOK, MemoryOK, BoundsOK
  <2>3. CASE HumanMergeReturns(i)
    <3>1. PhaseOK' /\ change' \in [Items -> {"none", "open", "merged", "closed"}]
      BY <2>3, MoveToType, PhaseMembers DEF HumanMergeReturns, StoreOK, PhaseOK
    <3> QED BY <2>3, <3>1 DEF HumanMergeReturns, StoreOK, GitOK, MemoryOK, BoundsOK
  <2> QED BY <1>2, <2>1, <2>2, <2>3 DEF MergeGoesOn
<1>3. ASSUME NEW i \in Items, Tick(i) PROVE TypeOK'
  BY <1>3, MoveToType, JobAtType, PhaseMembers, PointMembers
     DEF Tick, StoreOK, GitOK, BoundsOK
<1>4. ASSUME NEW i \in Items, Job(i) PROVE TypeOK'
  <2> USE PointMembers, PhaseMembers DEF StoreOK, GitOK, BoundsOK
  <2>1. CASE BuildParks(i) BY <2>1, ParkType DEF BuildParks
  <2>2. CASE BuildPushes(i) BY <2>2, JobAtType DEF BuildPushes, PhaseOK
  <2>3. CASE AttachChange(i)
    <3>1. PhaseOK' BY <2>3 DEF AttachChange, PhaseOK
    <3>2. MemoryOK' BY <2>3, JobAtType DEF AttachChange
    <3> QED BY <2>3, <3>1, <3>2 DEF AttachChange
  <2>4. CASE Propose(i) BY <2>4, ParkType DEF Propose
  <2>5. CASE AwaitPreview(i) BY <2>5, JobAtType DEF AwaitPreview, PhaseOK
  <2>6. CASE PreviewUp(i) BY <2>6, JobAtType DEF PreviewUp, PhaseOK
  <2>7. CASE PreviewNeverUp(i) BY <2>7, ParkType DEF PreviewNeverUp
  <2>8. CASE ReviewPasses(i)
    <3>1. PhaseOK' /\ MemoryOK'
      BY <2>8, JobAtType, ParkType DEF ReviewPasses, PhaseOK
    <3> QED BY <2>8, <3>1 DEF ReviewPasses
  <2>9. CASE ReviewUntestable(i) BY <2>9, ParkType DEF ReviewUntestable
  <2>10. CASE ReworkExhausted(i) BY <2>10, ParkType DEF ReworkExhausted
  <2>11. CASE ReworkStarts(i)
    <3>1. PhaseOK' /\ MemoryOK'
      BY <2>11, MoveToType, JobAtType, JobThrowsType DEF ReworkStarts, PhaseOK
    <3>2. attempts' \in [Items -> Nat] /\ reworks' \in [Items -> Nat]
      BY <2>11 DEF ReworkStarts
    <3> QED BY <2>11, <3>1, <3>2 DEF ReworkStarts
  <2>12. CASE ReworkParks(i) BY <2>12, ParkType DEF ReworkParks
  <2>13. CASE ReworkPushes(i) BY <2>13, JobAtType DEF ReworkPushes, PhaseOK
  <2>14. CASE ReworkReturns(i)
    <3>1. PhaseOK' /\ MemoryOK'
      BY <2>14, MoveToType, JobAtType, JobThrowsType DEF ReworkReturns, PhaseOK
    <3> QED BY <2>14, <3>1 DEF ReworkReturns
  <2>15. CASE CrewMergeLands(i)
    BY <2>15, JobAtType DEF CrewMergeLands, Commit, PhaseOK
  <2>16. CASE CrewMergeFails(i) BY <2>16, ParkType DEF CrewMergeFails
  <2>17. CASE CrewMergeReturns(i)
    <3>1. PhaseOK' /\ MemoryOK' /\ change' \in [Items -> {"none", "open", "merged", "closed"}]
      BY <2>17, MoveToType, JobEndsType, ParkType DEF CrewMergeReturns
    <3> QED BY <2>17, <3>1 DEF CrewMergeReturns
  <2>18. CASE AttachFails(i) BY <2>18, JobAtType DEF AttachFails, PhaseOK
  <2> QED BY <1>4, <2>1, <2>2, <2>3, <2>4, <2>5, <2>6, <2>7, <2>8, <2>9, <2>10,
             <2>11, <2>12, <2>13, <2>14, <2>15, <2>16, <2>17, <2>18 DEF Job
<1>5. ASSUME NEW i \in Items, Repair(i) PROVE TypeOK'
  <2>1. CASE RepairChecks(i)
    BY <2>1 DEF RepairChecks, RepairPoints, StoreOK, PhaseOK, GitOK, MemoryOK, BoundsOK
  <2>2. CASE RepairWrites(i)
    <3>1. PhaseOK' /\ change' \in [Items -> {"none", "open", "merged", "closed"}]
      BY <2>2, MoveToType, PhaseMembers DEF RepairWrites, StoreOK, PhaseOK
    <3> QED BY <2>2, <3>1 DEF RepairWrites, RepairPoints, StoreOK, GitOK, MemoryOK, BoundsOK
  <2> QED BY <1>5, <2>1, <2>2 DEF Repair
<1>6. CASE Crash
  BY <1>6, LoseMemoryType DEF Crash, StoreOK, PhaseOK, GitOK, BoundsOK
<1>7. CASE Restart
  <2>1. PhaseOK' BY <1>7, PhaseMembers DEF Restart, StoreOK, PhaseOK
  <2>2. MemoryOK'
    BY <1>7, PointMembers DEF Restart, StoreOK, MemoryOK, RepairPoints
  <2> QED BY <1>7, <2>1, <2>2 DEF Restart, StoreOK, GitOK, BoundsOK
<1>8. CASE UNCHANGED vars
  BY <1>8 DEF vars, StoreOK, PhaseOK, GitOK, MemoryOK, BoundsOK
<1> QED BY <1>1, <1>2, <1>3, <1>4, <1>5, <1>6, <1>7, <1>8 DEF Next

\* Type correctness.
THEOREM TypeCorrect == Spec => []TypeOK
BY TypeOKInit, TypeOKNext, PTL DEF Spec

-------------------------------------------------------------------------------
(***************************************************************************)
(* Jobs and the items they own.                                            *)
(***************************************************************************)
Owned == JobOwnsItem /\ NoOrphan

\* The only steps of a job that move its item lead to a phase its next point
\* allows; parking leaves the item to nobody.
LEMMA ParkOwned ==
  ASSUME TypeOK, Owned, NEW i \in Items, Park(i), UNCHANGED head
  PROVE  Owned'
<1> USE DEF TypeOK, StoreOK, PhaseOK, MemoryOK, Owned, JobOwnsItem, NoOrphan, OwnedPhases, Up
<1>1. CASE CanMove(i, "parked") /\ MoveTo(i, "parked") /\ JobEnds(i)
  BY <1>1 DEF MoveTo, JobEnds, Phases
<1>2. CASE ~CanMove(i, "parked") /\ UNCHANGED phase /\ JobThrows(i)
  <2>1. CASE resumed[i] BY <1>2, <2>1 DEF JobThrows, LoseMemory
  <2>2. CASE ~resumed[i]
    BY <1>2, <2>2 DEF JobThrows, JobEnds, CanMove, WorkEdges
  <2> QED BY <2>1, <2>2
<1> QED BY <1>1, <1>2 DEF Park

LEMMA OwnedInit == ASSUME Init PROVE Owned
BY DEF Init, Owned, JobOwnsItem, NoOrphan, OwnedPhases, Phases

LEMMA OwnedNext == ASSUME TypeOK, Owned, [Next]_vars PROVE Owned'
<1> USE DEF store, gitRefs, memory, bounds
<1>a. UNCHANGED <<phase, pc, head, daemon>> => Owned'
  BY DEF Owned, JobOwnsItem, NoOrphan, OwnedPhases, Up
<1>1. ASSUME NEW i \in Items, Human(i) PROVE Owned'
  <2> USE DEF TypeOK, StoreOK, PhaseOK, MemoryOK, Owned, JobOwnsItem, NoOrphan,
              OwnedPhases, Up, MoveTo, CanMove, WorkEdges, Phases
  <2>1. ASSUME NEW born \in BirthPhases, File(i, born) PROVE Owned'
    BY <2>1 DEF File, BirthPhases
  <2>2. CASE Queue(i) BY <2>2 DEF Queue
  <2>3. CASE Close(i) BY <2>3 DEF Close
  <2>4. CASE HumanMerge(i) BY <1>a, <2>4 DEF HumanMerge
  <2>5. ASSUME NEW j \in Items, AddWorkDep(i, j) \/ RemoveWorkDep(i, j) PROVE Owned'
    BY <1>a, <2>5 DEF AddWorkDep, RemoveWorkDep
  <2> QED BY <1>1, <2>1, <2>2, <2>3, <2>4, <2>5 DEF Human
<1>2. ASSUME NEW i \in Items, MergeGoesOn(i) PROVE Owned'
  <2>1. CASE HumanMergeLands(i) BY <1>a, <2>1 DEF HumanMergeLands
  <2>2. CASE HumanMergeFails(i) BY <1>a, <2>2 DEF HumanMergeFails
  <2>3. CASE HumanMergeReturns(i)
    BY <2>3 DEF HumanMergeReturns, TypeOK, StoreOK, PhaseOK, MemoryOK, Owned, JobOwnsItem,
         NoOrphan, OwnedPhases, Up, MoveTo, CanMove, WorkEdges, Phases
  <2> QED BY <1>2, <2>1, <2>2, <2>3 DEF MergeGoesOn
<1>3. ASSUME NEW i \in Items, Tick(i) PROVE Owned'
  BY <1>3 DEF Tick, TypeOK, StoreOK, PhaseOK, MemoryOK, Owned, JobOwnsItem, NoOrphan,
       OwnedPhases, Up, MoveTo, JobAt
<1>4. ASSUME NEW i \in Items, Job(i) PROVE Owned'
  <2> USE DEF TypeOK, StoreOK, PhaseOK, MemoryOK, Owned, JobOwnsItem, NoOrphan,
              OwnedPhases, Up, JobAt
  <2>1. CASE BuildParks(i) BY <2>1, ParkOwned DEF BuildParks
  <2>2. CASE BuildPushes(i) BY <2>2 DEF BuildPushes
  <2>3. CASE AttachChange(i) BY <2>3 DEF AttachChange, CanMove, WorkEdges
  <2>4. CASE Propose(i) BY <2>4, ParkOwned DEF Propose
  <2>5. CASE AwaitPreview(i) BY <2>5 DEF AwaitPreview
  <2>6. CASE PreviewUp(i) BY <2>6 DEF PreviewUp
  <2>7. CASE PreviewNeverUp(i) BY <2>7, ParkOwned DEF PreviewNeverUp
  <2>8. CASE ReviewPasses(i) BY <2>8, ParkOwned DEF ReviewPasses
  <2>9. CASE ReviewUntestable(i) BY <2>9, ParkOwned DEF ReviewUntestable
  <2>10. CASE ReworkExhausted(i) BY <2>10, ParkOwned DEF ReworkExhausted
  <2>11. CASE ReworkStarts(i)
    BY <2>11 DEF ReworkStarts, MoveTo, CanMove, WorkEdges, JobThrows, LoseMemory, JobEnds, Phases
  <2>12. CASE ReworkParks(i) BY <2>12, ParkOwned DEF ReworkParks
  <2>13. CASE ReworkPushes(i) BY <2>13 DEF ReworkPushes
  <2>14. CASE ReworkReturns(i)
    BY <2>14 DEF ReworkReturns, MoveTo, CanMove, WorkEdges, JobThrows, LoseMemory, JobEnds, Phases
  <2>15. CASE CrewMergeLands(i) BY <2>15 DEF CrewMergeLands
  <2>16. CASE CrewMergeFails(i) BY <2>16, ParkOwned DEF CrewMergeFails
  <2>17. CASE CrewMergeReturns(i)
    BY <2>17, ParkOwned DEF CrewMergeReturns, MoveTo, CanMove, WorkEdges, JobEnds, Phases
  <2>18. CASE AttachFails(i) BY <2>18 DEF AttachFails
  <2> QED BY <1>4, <2>1, <2>2, <2>3, <2>4, <2>5, <2>6, <2>7, <2>8, <2>9, <2>10,
             <2>11, <2>12, <2>13, <2>14, <2>15, <2>16, <2>17, <2>18 DEF Job
<1>5. ASSUME NEW i \in Items, Repair(i) PROVE Owned'
  <2>1. CASE RepairChecks(i) BY <1>a, <2>1 DEF RepairChecks
  <2>2. CASE RepairWrites(i)
    BY <2>2 DEF RepairWrites, TypeOK, StoreOK, PhaseOK, MemoryOK, Owned, JobOwnsItem,
         NoOrphan, OwnedPhases, Up, MoveTo, Phases
  <2> QED BY <1>5, <2>1, <2>2 DEF Repair
<1>6. CASE Crash
  BY <1>6 DEF Crash, LoseMemory, TypeOK, StoreOK, PhaseOK, Owned, JobOwnsItem, NoOrphan,
       OwnedPhases, Up
<1>7. CASE Restart
  BY <1>7 DEF Restart, TypeOK, StoreOK, PhaseOK, Owned, JobOwnsItem, NoOrphan, OwnedPhases, Up, Phases
<1>8. CASE UNCHANGED vars BY <1>a, <1>8 DEF vars
<1> QED BY <1>1, <1>2, <1>3, <1>4, <1>5, <1>6, <1>7, <1>8 DEF Next

\* A job never finds its item taken over by another, and no item in flight is
\* without its job while the daemon is up.
THEOREM JobsOwnTheirItems == Spec => [](JobOwnsItem /\ NoOrphan)
<1>1. Init => TypeOK /\ Owned BY TypeOKInit, OwnedInit
<1>2. TypeOK /\ Owned /\ [Next]_vars => (TypeOK /\ Owned)' BY TypeOKNext, OwnedNext
<1>3. Owned => JobOwnsItem /\ NoOrphan BY DEF Owned
<1> QED BY <1>1, <1>2, <1>3, PTL DEF Spec

\* While the daemon is up, no item the crew holds is without a job.
THEOREM NoItemOrphaned == Spec => []NoOrphan
BY JobsOwnTheirItems, PTL

-------------------------------------------------------------------------------
(***************************************************************************)
(* The change follows the phase, and what ships has landed.                *)
(***************************************************************************)
Landings == MergesLanded /\ ShippedIsLanded

\* What ending a job can do to what the other invariants speak of.
LEMMA ThrowEffect ==
  ASSUME MemoryOK, NEW i \in Items, JobThrows(i) \/ JobEnds(i), NEW k \in Items
  PROVE  /\ pc'[k] \in {pc[k], "idle"}
         /\ humanMerge'[k] \in {humanMerge[k], NoMerge}
         /\ repair'[k] \in {repair[k], "none"}
BY DEF JobThrows, JobEnds, LoseMemory, MemoryOK

LEMMA ParkEffect ==
  ASSUME TypeOK, NEW i \in Items, Park(i), NEW k \in Items
  PROVE  /\ \/ phase'[k] = phase[k]
            \/ phase[k] \in Active /\ phase'[k] = "parked"
         /\ pc'[k] \in {pc[k], "idle"}
         /\ humanMerge'[k] \in {humanMerge[k], NoMerge}
         /\ repair'[k] \in {repair[k], "none"}
BY ThrowEffect DEF Park, CanMove, MoveTo, WorkEdges, Active, TypeOK, StoreOK, PhaseOK

LEMMA ParkLandings ==
  ASSUME TypeOK, ChangeFollowsPhase, Landings, NEW i \in Items, Park(i),
         UNCHANGED <<change, landed>>
  PROVE  (ChangeFollowsPhase /\ Landings)'
BY ParkEffect DEF ChangeFollowsPhase, Landings, MergesLanded, ShippedIsLanded, Active,
                  NoMerge, Merged

LEMMA LandingsInit == ASSUME Init PROVE ChangeFollowsPhase /\ Landings
BY DEF Init, ChangeFollowsPhase, Landings, MergesLanded, ShippedIsLanded, NoMerge, Merged

LEMMA LandingsNext ==
  ASSUME TypeOK, Owned, ChangeFollowsPhase, Landings, [Next]_vars
  PROVE  (ChangeFollowsPhase /\ Landings)'
<1> DEFINE Inv == ChangeFollowsPhase /\ Landings
<1> USE DEF store, gitRefs, memory, bounds, TypeOK, StoreOK, PhaseOK, GitOK, MemoryOK,
      ChangeFollowsPhase, Landings, MergesLanded, ShippedIsLanded, NoMerge, Merged
<1>1. ASSUME NEW i \in Items, Human(i) PROVE Inv'
  <2> USE DEF MoveTo, CanMove, WorkEdges
  <2>1. ASSUME NEW born \in BirthPhases, File(i, born) PROVE Inv'
    BY <2>1 DEF File, BirthPhases
  <2>2. CASE Queue(i) BY <2>2 DEF Queue
  <2>3. CASE Close(i) BY <2>3 DEF Close
  <2>4. CASE HumanMerge(i) BY <2>4 DEF HumanMerge, Commit
  <2>5. ASSUME NEW j \in Items, AddWorkDep(i, j) \/ RemoveWorkDep(i, j) PROVE Inv'
    BY <2>5 DEF AddWorkDep, RemoveWorkDep
  <2> QED BY <1>1, <2>1, <2>2, <2>3, <2>4, <2>5 DEF Human
<1>2. ASSUME NEW i \in Items, MergeGoesOn(i) PROVE Inv'
  <2>1. CASE HumanMergeLands(i) BY <2>1 DEF HumanMergeLands
  <2>2. CASE HumanMergeFails(i) BY <2>2 DEF HumanMergeFails
  <2>3. CASE HumanMergeReturns(i)
    BY <2>3 DEF HumanMergeReturns, MoveTo, CanMove, WorkEdges
  <2> QED BY <1>2, <2>1, <2>2, <2>3 DEF MergeGoesOn
<1>3. ASSUME NEW i \in Items, Tick(i) PROVE Inv'
  BY <1>3 DEF Tick, MoveTo, JobAt
<1>4. ASSUME NEW i \in Items, Job(i) PROVE Inv'
  <2>1. CASE BuildParks(i) BY <2>1, ParkLandings DEF BuildParks
  <2>2. CASE BuildPushes(i) BY <2>2 DEF BuildPushes, JobAt
  <2>3. CASE AttachChange(i)
    BY <2>3 DEF AttachChange, JobAt, CanMove, WorkEdges, Owned, JobOwnsItem, OwnedPhases
  <2>4. CASE Propose(i) BY <2>4, ParkLandings DEF Propose
  <2>5. CASE AwaitPreview(i) BY <2>5 DEF AwaitPreview, JobAt
  <2>6. CASE PreviewUp(i) BY <2>6 DEF PreviewUp, JobAt
  <2>7. CASE PreviewNeverUp(i) BY <2>7, ParkLandings DEF PreviewNeverUp
  <2>8. CASE ReviewPasses(i) BY <2>8, ParkLandings DEF ReviewPasses, JobAt
  <2>9. CASE ReviewUntestable(i) BY <2>9, ParkLandings DEF ReviewUntestable
  <2>10. CASE ReworkExhausted(i) BY <2>10, ParkLandings DEF ReworkExhausted
  <2>11. CASE ReworkStarts(i)
    BY <2>11, ThrowEffect DEF ReworkStarts, MoveTo, CanMove, WorkEdges, JobAt
  <2>12. CASE ReworkParks(i) BY <2>12, ParkLandings DEF ReworkParks
  <2>13. CASE ReworkPushes(i) BY <2>13 DEF ReworkPushes, JobAt
  <2>14. CASE ReworkReturns(i)
    <3>1. CASE CanMove(i, "reviewing")
      BY <2>14, <3>1 DEF ReworkReturns, MoveTo, CanMove, WorkEdges, JobAt, Owned,
                         JobOwnsItem, OwnedPhases
    <3>2. CASE ~CanMove(i, "reviewing")
      BY <2>14, <3>2, ThrowEffect DEF ReworkReturns
    <3> QED BY <3>1, <3>2
  <2>15. CASE CrewMergeLands(i) BY <2>15 DEF CrewMergeLands, JobAt
  <2>16. CASE CrewMergeFails(i) BY <2>16, ParkLandings DEF CrewMergeFails
  <2>17. CASE CrewMergeReturns(i)
    BY <2>17, ParkLandings, ThrowEffect DEF CrewMergeReturns, MoveTo, CanMove, WorkEdges
  <2>18. CASE AttachFails(i) BY <2>18 DEF AttachFails, JobAt
  <2> QED BY <1>4, <2>1, <2>2, <2>3, <2>4, <2>5, <2>6, <2>7, <2>8, <2>9, <2>10,
             <2>11, <2>12, <2>13, <2>14, <2>15, <2>16, <2>17, <2>18 DEF Job
<1>5. ASSUME NEW i \in Items, Repair(i) PROVE Inv'
  <2>1. CASE RepairChecks(i) BY <2>1 DEF RepairChecks
  <2>2. CASE RepairWrites(i) BY <2>2 DEF RepairWrites, MoveTo
  <2> QED BY <1>5, <2>1, <2>2 DEF Repair
<1>6. CASE Crash BY <1>6 DEF Crash, LoseMemory
<1>7. CASE Restart BY <1>7 DEF Restart
<1>8. CASE UNCHANGED vars BY <1>8 DEF vars
<1> QED BY <1>1, <1>2, <1>3, <1>4, <1>5, <1>6, <1>7, <1>8 DEF Next

\* What is reviewed is open, what is shipped is merged, and an item says shipped
\* only if main has code of its branch.
THEOREM ShippedMeansMerged == Spec => [](ChangeFollowsPhase /\ ShippedIsLanded)
<1> DEFINE Inv == TypeOK /\ Owned /\ ChangeFollowsPhase /\ Landings
<1>1. Init => Inv BY TypeOKInit, OwnedInit, LandingsInit
<1>2. Inv /\ [Next]_vars => Inv' BY TypeOKNext, OwnedNext, LandingsNext
<1>3. Inv => ChangeFollowsPhase /\ ShippedIsLanded BY DEF Landings
<1> QED BY <1>1, <1>2, <1>3, PTL DEF Spec

\* Whoever ships an item, a merge of it reached main.
THEOREM ShippedAreLanded == Spec => []ShippedIsLanded
BY ShippedMeansMerged, PTL

-------------------------------------------------------------------------------
(***************************************************************************)
(* Every step moves an item along an edge of the table, or files it, or is *)
(* the sweep of a restart, which parks and queues in one go.               *)
(***************************************************************************)
LegalMove(k) ==
  \/ phase'[k] = phase[k]
  \/ phase[k] = "none" /\ phase'[k] \in BirthPhases
  \/ phase'[k] \in Phases /\ phase[k] \in WorkEdges[phase'[k]]
  \/ phase[k] \in {"building", "reworking"} /\ phase'[k] = "queued"

\* An item is claimed only when nothing blocks it.
FreeClaim(k) ==
  phase[k] # "building" /\ phase'[k] = "building" => OpenBlockers(k) = {}

LEMMA ParkMoves ==
  ASSUME TypeOK, NEW i \in Items, Park(i), NEW k \in Items
  PROVE  LegalMove(k) /\ FreeClaim(k)
BY ParkEffect DEF LegalMove, FreeClaim, Active, WorkEdges, Phases

LEMMA Moves ==
  ASSUME TypeOK, Owned, [Next]_vars, NEW k \in Items
  PROVE  LegalMove(k) /\ FreeClaim(k)
<1> DEFINE Goal == LegalMove(k) /\ FreeClaim(k)
<1>a. UNCHANGED phase => Goal BY DEF LegalMove, FreeClaim
<1>b. ASSUME NEW i \in Items, NEW to \in Phases \ {"building"}, CanMove(i, to), MoveTo(i, to)
      PROVE  Goal
  BY <1>b DEF LegalMove, FreeClaim, CanMove, MoveTo, TypeOK, StoreOK, PhaseOK
<1> USE DEF store, gitRefs, memory, bounds
<1>1. ASSUME NEW i \in Items, Human(i) PROVE Goal
  <2>1. ASSUME NEW born \in BirthPhases, File(i, born) PROVE Goal
    BY <2>1 DEF File, MoveTo, LegalMove, FreeClaim, BirthPhases, TypeOK, StoreOK, PhaseOK
  <2>2. CASE Queue(i) BY <1>b, <2>2, PhaseMembers DEF Queue
  <2>3. CASE Close(i) BY <1>b, <2>3, PhaseMembers DEF Close
  <2>4. CASE HumanMerge(i) BY <1>a, <2>4 DEF HumanMerge
  <2>5. ASSUME NEW j \in Items, AddWorkDep(i, j) \/ RemoveWorkDep(i, j) PROVE Goal
    BY <1>a, <2>5 DEF AddWorkDep, RemoveWorkDep
  <2> QED BY <1>1, <2>1, <2>2, <2>3, <2>4, <2>5 DEF Human
<1>2. ASSUME NEW i \in Items, MergeGoesOn(i) PROVE Goal
  BY <1>a, <1>b, <1>2, PhaseMembers
     DEF MergeGoesOn, HumanMergeLands, HumanMergeFails, HumanMergeReturns
<1>3. ASSUME NEW i \in Items, Tick(i) PROVE Goal
  BY <1>3 DEF Tick, MoveTo, LegalMove, FreeClaim, WorkEdges, Phases, TypeOK, StoreOK, PhaseOK
<1>4. ASSUME NEW i \in Items, Job(i) PROVE Goal
  <2>1. CASE BuildParks(i) BY <2>1, ParkMoves DEF BuildParks
  <2>2. CASE BuildPushes(i) BY <1>a, <2>2 DEF BuildPushes
  <2>3. CASE AttachChange(i)
    BY <2>3 DEF AttachChange, CanMove, WorkEdges, Phases, LegalMove, FreeClaim, Owned, JobOwnsItem,
         OwnedPhases, TypeOK, StoreOK, PhaseOK
  <2>4. CASE Propose(i) BY <2>4, ParkMoves DEF Propose
  <2>5. CASE AwaitPreview(i) BY <1>a, <2>5 DEF AwaitPreview
  <2>6. CASE PreviewUp(i) BY <1>a, <2>6 DEF PreviewUp
  <2>7. CASE PreviewNeverUp(i) BY <2>7, ParkMoves DEF PreviewNeverUp
  <2>8. CASE ReviewPasses(i) BY <1>a, <2>8, ParkMoves DEF ReviewPasses
  <2>9. CASE ReviewUntestable(i) BY <2>9, ParkMoves DEF ReviewUntestable
  <2>10. CASE ReworkExhausted(i) BY <2>10, ParkMoves DEF ReworkExhausted
  <2>11. CASE ReworkStarts(i) BY <1>a, <1>b, <2>11, PhaseMembers DEF ReworkStarts
  <2>12. CASE ReworkParks(i) BY <2>12, ParkMoves DEF ReworkParks
  <2>13. CASE ReworkPushes(i) BY <1>a, <2>13 DEF ReworkPushes
  <2>14. CASE ReworkReturns(i) BY <1>a, <1>b, <2>14, PhaseMembers DEF ReworkReturns
  <2>15. CASE CrewMergeLands(i) BY <1>a, <2>15 DEF CrewMergeLands
  <2>16. CASE CrewMergeFails(i) BY <2>16, ParkMoves DEF CrewMergeFails
  <2>17. CASE CrewMergeReturns(i)
    BY <1>b, <2>17, ParkMoves, PhaseMembers DEF CrewMergeReturns
  <2>18. CASE AttachFails(i) BY <1>a, <2>18 DEF AttachFails
  <2> QED BY <1>4, <2>1, <2>2, <2>3, <2>4, <2>5, <2>6, <2>7, <2>8, <2>9, <2>10,
             <2>11, <2>12, <2>13, <2>14, <2>15, <2>16, <2>17, <2>18 DEF Job
<1>5. ASSUME NEW i \in Items, Repair(i) PROVE Goal
  <2>1. CASE RepairChecks(i) BY <1>a, <2>1 DEF RepairChecks
  <2>2. CASE RepairWrites(i)
    BY <1>a, <1>b, <2>2, PhaseMembers DEF RepairWrites, CanMove, WorkEdges
  <2> QED BY <1>5, <2>1, <2>2 DEF Repair
<1>6. CASE Crash BY <1>a, <1>6 DEF Crash
<1>7. CASE Restart BY <1>7 DEF Restart, LegalMove, FreeClaim
<1>8. CASE UNCHANGED vars BY <1>a, <1>8 DEF vars
<1> QED BY <1>1, <1>2, <1>3, <1>4, <1>5, <1>6, <1>7, <1>8 DEF Next

\* The phase machine: whoever moves an item and whatever crashes, it moves along
\* the table; in particular shipped and closed are final.
THEOREM PhaseMachine == Spec => [][\A k \in Items : LegalMove(k)]_vars
<1>1. Init => TypeOK /\ Owned BY TypeOKInit, OwnedInit
<1>2. TypeOK /\ Owned /\ [Next]_vars => (TypeOK /\ Owned)' BY TypeOKNext, OwnedNext
<1>3. TypeOK /\ Owned /\ [Next]_vars => [\A k \in Items : LegalMove(k)]_vars
  BY Moves
<1> QED BY <1>1, <1>2, <1>3, PTL DEF Spec

-------------------------------------------------------------------------------
(***************************************************************************)
(* The graph of blockers.                                                  *)
(***************************************************************************)
LEMMA DepsStep ==
  ASSUME [Next]_vars
  PROVE  \/ deps' = deps
         \/ \E i, j \in Items : AddWorkDep(i, j) \/ RemoveWorkDep(i, j)
<1> USE DEF store, gitRefs, memory, bounds
<1>1. ASSUME NEW i \in Items, Human(i)
      PROVE  deps' = deps \/ \E x, y \in Items : AddWorkDep(x, y) \/ RemoveWorkDep(x, y)
  BY <1>1 DEF Human, File, Queue, Close, HumanMerge
<1>2. ASSUME NEW i \in Items, MergeGoesOn(i) \/ Tick(i) \/ Repair(i) PROVE deps' = deps
  BY <1>2 DEF MergeGoesOn, HumanMergeLands, HumanMergeFails, HumanMergeReturns, Tick,
       Repair, RepairChecks, RepairWrites
<1>3. ASSUME NEW i \in Items, Job(i) PROVE deps' = deps
  BY <1>3 DEF Job, BuildParks, BuildPushes, AttachChange, AttachFails, Propose, AwaitPreview, PreviewUp,
       PreviewNeverUp, ReviewPasses, ReviewUntestable, ReworkExhausted, ReworkStarts,
       ReworkParks, ReworkPushes, ReworkReturns, CrewMergeLands, CrewMergeFails,
       CrewMergeReturns
<1>4. CASE Crash \/ Restart \/ UNCHANGED vars BY <1>4 DEF Crash, Restart, vars
<1> QED BY <1>1, <1>2, <1>3, <1>4 DEF Next

\* A new edge from i to j closes no cycle when j does not depend on i.  For the
\* new edge itself the witness of ~DependsOn(j, i) serves again: it does not
\* hold i.  For an old edge it is cut with, or added to, the edge's own witness.
LEMMA NewEdgeAcyclic ==
  ASSUME TypeOK, Acyclic, NEW i \in Items, NEW j \in Items,
         ~DependsOn(j, i), deps' = deps \cup {<<i, j>>}
  PROVE  Acyclic'
<1> DEFINE Closed(R) == \A e \in deps : e[1] \in R => e[2] \in R
<1>1. PICK R \in SUBSET Items : j \in R /\ Closed(R) /\ i \notin R
  BY DEF DependsOn
<1>2. ~DependsOn(j, i)'
  BY <1>1 DEF DependsOn
<1>3. ASSUME NEW e \in deps PROVE ~DependsOn(e[2], e[1])'
  <2>1. e[1] \in Items /\ e[2] \in Items BY DEF TypeOK, StoreOK
  <2>2. PICK Q \in SUBSET Items : e[2] \in Q /\ Closed(Q) /\ e[1] \notin Q
    BY <2>1 DEF Acyclic, DependsOn
  <2>3. CASE i \notin Q
    BY <2>2, <2>3 DEF DependsOn
  <2>4. CASE i \in Q /\ e[1] \notin R
    <3>1. \A d \in deps' : d[1] \in Q \cup R => d[2] \in Q \cup R BY <1>1, <2>2
    <3>2. e[2] \in Q \cup R /\ e[1] \notin Q \cup R BY <2>2, <2>4
    <3>3. Q \cup R \in SUBSET Items OBVIOUS
    <3> QED BY <3>1, <3>2, <3>3 DEF DependsOn
  <2>5. CASE e[1] \in R
    <3>1. e[2] \in R BY <1>1, <2>5
    <3>2. \A d \in deps' : d[1] \in Q \cap R => d[2] \in Q \cap R BY <1>1, <2>2
    <3>3. e[2] \in Q \cap R /\ e[1] \notin Q \cap R BY <2>2, <3>1
    <3>4. Q \cap R \in SUBSET Items OBVIOUS
    <3> QED BY <3>2, <3>3, <3>4 DEF DependsOn
  <2> QED BY <2>3, <2>4, <2>5
<1> QED BY <1>2, <1>3 DEF Acyclic

LEMMA FewerEdgesAcyclic ==
  ASSUME Acyclic, deps' \subseteq deps PROVE Acyclic'
<1>1. ASSUME NEW e \in deps' PROVE ~DependsOn(e[2], e[1])'
  BY <1>1 DEF Acyclic, DependsOn
<1> QED BY <1>1 DEF Acyclic

Graph == DepsFiled /\ BlockersFirst /\ Acyclic

LEMMA GraphInit == ASSUME Init PROVE Graph
BY DEF Init, Graph, DepsFiled, BlockersFirst, Acyclic

LEMMA GraphNext ==
  ASSUME TypeOK, Owned, Graph, [Next]_vars PROVE Graph'
<1>1. \A k \in Items : LegalMove(k) /\ FreeClaim(k) BY Moves
<1>2. \A e \in deps : e[1] \in Items /\ e[2] \in Items /\ e = <<e[1], e[2]>>
  BY DEF TypeOK, StoreOK
<1>3. CASE deps' = deps
  <2>1. DepsFiled'
    BY <1>1, <1>2, <1>3 DEF Graph, DepsFiled, LegalMove, BirthPhases, Phases
  <2>2. ASSUME NEW i \in Items, NEW j \in Items, <<i, j>> \in deps,
               phase'[i] \in {"building", "reviewing", "reworking", "parked", "shipped"}
        PROVE  phase'[j] \in {"shipped", "closed"}
    <3>1. phase[i] # "none" BY <2>2 DEF Graph, DepsFiled
    <3>2. phase[j] \in {"shipped", "closed"}
      <4>1. CASE phase[i] \in {"building", "reviewing", "reworking", "parked", "shipped"}
        BY <2>2, <4>1 DEF Graph, BlockersFirst
      <4>2. CASE phase[i] \notin {"building", "reviewing", "reworking", "parked", "shipped"}
        <5>1. phase[i] = "queued" /\ phase'[i] = "building"
          BY <1>1, <2>2, <3>1, <4>2 DEF LegalMove, WorkEdges, Phases
        <5> QED BY <1>1, <2>2, <5>1 DEF FreeClaim, OpenBlockers, Terminal
      <4> QED BY <4>1, <4>2
    <3> QED BY <1>1, <3>2 DEF LegalMove, WorkEdges, Phases
  <2>3. BlockersFirst' BY <1>3, <2>2 DEF BlockersFirst
  <2>4. Acyclic' BY <1>3, FewerEdgesAcyclic DEF Graph
  <2> QED BY <2>1, <2>3, <2>4 DEF Graph
<1>4. ASSUME NEW i \in Items, NEW j \in Items, AddWorkDep(i, j) PROVE Graph'
  <2>1. Acyclic' BY <1>4, NewEdgeAcyclic DEF AddWorkDep, Graph
  <2>2. DepsFiled' /\ BlockersFirst'
    BY <1>4 DEF AddWorkDep, Graph, DepsFiled, BlockersFirst
  <2> QED BY <2>1, <2>2 DEF Graph
<1>5. ASSUME NEW i \in Items, NEW j \in Items, RemoveWorkDep(i, j) PROVE Graph'
  <2>1. Acyclic' BY <1>5, FewerEdgesAcyclic DEF RemoveWorkDep, Graph
  <2>2. DepsFiled' /\ BlockersFirst'
    BY <1>5 DEF RemoveWorkDep, Graph, DepsFiled, BlockersFirst
  <2> QED BY <2>1, <2>2 DEF Graph
<1> QED BY <1>3, <1>4, <1>5, DepsStep

\* The graph stays a DAG, and an item that left the queue has no open blocker.
THEOREM BlockersComeFirst == Spec => [](Acyclic /\ BlockersFirst)
<1> DEFINE Inv == TypeOK /\ Owned /\ Graph
<1>1. Init => Inv BY TypeOKInit, OwnedInit, GraphInit
<1>2. Inv /\ [Next]_vars => Inv' BY TypeOKNext, OwnedNext, GraphNext
<1>3. Inv => Acyclic /\ BlockersFirst BY DEF Graph
<1> QED BY <1>1, <1>2, <1>3, PTL DEF Spec

\* No call makes items wait on each other in a circle.
THEOREM BlockersNeverCircle == Spec => []Acyclic
BY BlockersComeFirst, PTL

-------------------------------------------------------------------------------
(***************************************************************************)
(* The ledger and the rework budget.                                       *)
(***************************************************************************)
Ledger == LedgerOK /\ ReworkBudget

\* The phases an item may be in while all its rows are reworks.
LateMove(k) ==
  phase[k] \in {"reworking", "parked", "queued", "shipped", "closed"} =>
    phase'[k] \in {"reworking", "parked", "queued", "shipped", "closed"}

\* A step that opens no row, pushes nothing and starts no job.
LEMMA LedgerUntouched ==
  ASSUME Ledger, UNCHANGED <<attempts, reworks, branch>>,
         \A k \in Items : LateMove(k) /\ pc'[k] \notin {"build", "rework", "pushed"} \ {pc[k]}
  PROVE  Ledger'
BY DEF Ledger, LedgerOK, ReworkBudget, LateMove

LEMMA LedgerInit == ASSUME Init PROVE Ledger
BY CrewAssumption DEF Init, Ledger, LedgerOK, ReworkBudget

LEMMA LedgerNext ==
  ASSUME TypeOK, Owned, Ledger, [Next]_vars PROVE Ledger'
<1> DEFINE Quiet == \A k \in Items : pc'[k] \notin {"build", "rework", "pushed"} \ {pc[k]}
<1> DEFINE Leaves(k) == \/ phase[k] = "queued" /\ phase'[k] = "building"
                        \/ phase[k] = "reworking" /\ phase'[k] = "reviewing"
<1>a. ASSUME NEW k \in Items, ~Leaves(k) PROVE LateMove(k)
  BY <1>a, Moves DEF LegalMove, LateMove, WorkEdges, Phases
<1>b. ASSUME Quiet, UNCHANGED <<attempts, reworks, branch>>,
             \A k \in Items : ~Leaves(k)
      PROVE  Ledger'
  BY <1>a, <1>b, LedgerUntouched
<1>c. ASSUME NEW i \in Items, Park(i), UNCHANGED <<attempts, reworks, branch>> PROVE Ledger'
  BY <1>b, <1>c, ParkEffect
<1> USE DEF store, gitRefs, memory, bounds
<1>1. ASSUME NEW i \in Items, Human(i) PROVE Ledger'
  <2>1. Quiet /\ UNCHANGED <<attempts, reworks, branch>>
    BY <1>1 DEF Human, File, Queue, Close, HumanMerge, AddWorkDep, RemoveWorkDep
  <2>2. \A k \in Items : ~Leaves(k)
    BY <1>1 DEF Human, File, Queue, Close, HumanMerge, AddWorkDep, RemoveWorkDep, MoveTo,
         CanMove, WorkEdges, BirthPhases, TypeOK, StoreOK, PhaseOK
  <2> QED BY <1>b, <2>1, <2>2
<1>2. ASSUME NEW i \in Items, MergeGoesOn(i) PROVE Ledger'
  BY <1>b, <1>2 DEF MergeGoesOn, HumanMergeLands, HumanMergeFails, HumanMergeReturns, MoveTo,
       TypeOK, StoreOK, PhaseOK
<1>3. ASSUME NEW i \in Items, Tick(i) PROVE Ledger'
  <2> USE DEF Tick, MoveTo, JobAt, TypeOK, StoreOK, PhaseOK, GitOK, MemoryOK
  <2>1. attempts' = [attempts EXCEPT ![i] = @ + 1] /\ UNCHANGED <<reworks, branch>>
    BY <1>3
  <2>2. phase' = [phase EXCEPT ![i] = "building"] /\ pc' = [pc EXCEPT ![i] = "build"]
    BY <1>3
  <2>3. ASSUME NEW k \in Items, k # i
        PROVE  attempts'[k] = attempts[k] /\ phase'[k] = phase[k] /\ pc'[k] = pc[k]
    BY <2>1, <2>2, <2>3
  <2>4. attempts'[i] = attempts[i] + 1 /\ phase'[i] = "building" /\ pc'[i] = "build"
    BY <2>1, <2>2
  <2> QED BY <2>1, <2>3, <2>4 DEF Ledger, LedgerOK, ReworkBudget
<1>4. ASSUME NEW i \in Items, Job(i) PROVE Ledger'
  <2> USE DEF TypeOK, StoreOK, PhaseOK, GitOK, MemoryOK, JobAt
  <2>1. CASE BuildParks(i) BY <1>c, <2>1 DEF BuildParks
  <2>2. CASE BuildPushes(i)
    BY <2>2 DEF BuildPushes, Ledger, LedgerOK, ReworkBudget
  <2>3. CASE AttachChange(i)
    <3>1. \A k \in Items : ~Leaves(k)
      BY <2>3 DEF AttachChange, Owned, JobOwnsItem, OwnedPhases
    <3>2. Quiet BY <2>3 DEF AttachChange
    <3> QED BY <1>b, <2>3, <3>1, <3>2 DEF AttachChange
  <2>4. CASE Propose(i) BY <1>c, <2>4 DEF Propose
  <2>5. CASE AwaitPreview(i) BY <1>b, <2>5 DEF AwaitPreview
  <2>6. CASE PreviewUp(i) BY <1>b, <2>6 DEF PreviewUp
  <2>7. CASE PreviewNeverUp(i) BY <1>c, <2>7 DEF PreviewNeverUp
  <2>8. CASE ReviewPasses(i) BY <1>b, <1>c, <2>8 DEF ReviewPasses
  <2>9. CASE ReviewUntestable(i) BY <1>c, <2>9 DEF ReviewUntestable
  <2>10. CASE ReworkExhausted(i) BY <1>c, <2>10 DEF ReworkExhausted
  <2>11. CASE ReworkStarts(i)
    <3>1. CASE CanMove(i, "reworking")
      <4>1. reworks[i] < attempts[i] \/ attempts[i] = 0
        BY <3>1 DEF CanMove, WorkEdges, Ledger, LedgerOK
      <4>2. reworks[i] + 1 <= MaxRework
        BY <2>11, <4>1, CrewAssumption DEF ReworkStarts, AttemptNo, Ledger, LedgerOK
      <4> QED BY <2>11, <3>1, <4>1, <4>2
              DEF ReworkStarts, MoveTo, Ledger, LedgerOK, ReworkBudget
    <3>2. CASE ~CanMove(i, "reworking")
      BY <1>b, <2>11, <3>2, ThrowEffect DEF ReworkStarts
    <3> QED BY <3>1, <3>2
  <2>12. CASE ReworkParks(i) BY <1>c, <2>12 DEF ReworkParks
  <2>13. CASE ReworkPushes(i)
    BY <2>13 DEF ReworkPushes, Ledger, LedgerOK, ReworkBudget
  <2>14. CASE ReworkReturns(i)
    <3>1. CASE CanMove(i, "reviewing")
      BY <2>14, <3>1 DEF ReworkReturns, MoveTo, Ledger, LedgerOK, ReworkBudget
    <3>2. CASE ~CanMove(i, "reviewing")
      BY <1>b, <2>14, <3>2, ThrowEffect DEF ReworkReturns
    <3> QED BY <3>1, <3>2
  <2>15. CASE CrewMergeLands(i) BY <1>b, <2>15 DEF CrewMergeLands
  <2>16. CASE CrewMergeFails(i) BY <1>c, <2>16 DEF CrewMergeFails
  <2>17. CASE CrewMergeReturns(i)
    BY <1>b, <1>c, <2>17, ThrowEffect DEF CrewMergeReturns, MoveTo
  <2>18. CASE AttachFails(i) BY <1>b, <2>18 DEF AttachFails
  <2> QED BY <1>4, <2>1, <2>2, <2>3, <2>4, <2>5, <2>6, <2>7, <2>8, <2>9, <2>10,
             <2>11, <2>12, <2>13, <2>14, <2>15, <2>16, <2>17, <2>18 DEF Job
<1>5. ASSUME NEW i \in Items, Repair(i) PROVE Ledger'
  BY <1>b, <1>5 DEF Repair, RepairChecks, RepairWrites, MoveTo, TypeOK, StoreOK, PhaseOK
<1>6. CASE Crash BY <1>b, <1>6 DEF Crash, LoseMemory
<1>7. CASE Restart BY <1>b, <1>7 DEF Restart
<1>8. CASE UNCHANGED vars BY <1>b, <1>8 DEF vars
<1> QED BY <1>1, <1>2, <1>3, <1>4, <1>5, <1>6, <1>7, <1>8 DEF Next

\* No sequence of reviews, re-queues and crashes gives an item more than
\* maxRework reworks.
THEOREM ReworkIsBounded == Spec => []ReworkBudget
<1> DEFINE Inv == TypeOK /\ Owned /\ Ledger
<1>1. Init => Inv BY TypeOKInit, OwnedInit, LedgerInit
<1>2. Inv /\ [Next]_vars => Inv' BY TypeOKNext, OwnedNext, LedgerNext
<1>3. Inv => ReworkBudget BY DEF Ledger
<1> QED BY <1>1, <1>2, <1>3, PTL DEF Spec

-------------------------------------------------------------------------------
(***************************************************************************)
(* The whole invariant, and that Crew implements WorkItem.                 *)
(***************************************************************************)
LEMMA ParkCarries ==
  ASSUME TypeOK, MergesCarryChange, NEW i \in Items, Park(i), UNCHANGED change
  PROVE  MergesCarryChange'
BY ParkEffect DEF MergesCarryChange, Active

LEMMA CarriesInit == ASSUME Init PROVE MergesCarryChange
BY DEF Init, MergesCarryChange

LEMMA CarriesNext ==
  ASSUME TypeOK, Owned, ChangeFollowsPhase, MergesCarryChange, [Next]_vars
  PROVE  MergesCarryChange'
<1> DEFINE Inv == MergesCarryChange
<1> USE DEF store, gitRefs, memory, bounds, TypeOK, StoreOK, PhaseOK, MemoryOK, MergesCarryChange
<1>1. ASSUME NEW i \in Items, Human(i) PROVE Inv'
  <2>1. ASSUME NEW born \in BirthPhases, File(i, born) PROVE Inv'
    BY <2>1 DEF File, BirthPhases, MoveTo
  <2>2. CASE Queue(i) BY <2>2 DEF Queue, MoveTo
  <2>3. CASE Close(i) BY <2>3 DEF Close, MoveTo
  <2>4. CASE HumanMerge(i) BY <2>4 DEF HumanMerge
  <2>5. ASSUME NEW j \in Items, AddWorkDep(i, j) \/ RemoveWorkDep(i, j) PROVE Inv'
    BY <2>5 DEF AddWorkDep, RemoveWorkDep
  <2> QED BY <1>1, <2>1, <2>2, <2>3, <2>4, <2>5 DEF Human
<1>2. ASSUME NEW i \in Items, MergeGoesOn(i) PROVE Inv'
  <2>1. CASE HumanMergeLands(i) BY <2>1 DEF HumanMergeLands, NoMerge, Merged
  <2>2. CASE HumanMergeFails(i) BY <2>2 DEF HumanMergeFails, NoMerge, Merged
  <2>3. CASE HumanMergeReturns(i) BY <2>3 DEF HumanMergeReturns, MoveTo
  <2> QED BY <1>2, <2>1, <2>2, <2>3 DEF MergeGoesOn
<1>3. ASSUME NEW i \in Items, Tick(i) PROVE Inv' BY <1>3 DEF Tick, MoveTo, JobAt
<1>4. ASSUME NEW i \in Items, Job(i) PROVE Inv'
  <2> USE DEF JobAt
  <2>1. CASE BuildParks(i) BY <2>1, ParkCarries DEF BuildParks
  <2>2. CASE BuildPushes(i) BY <2>2 DEF BuildPushes
  <2>3. CASE AttachChange(i)
    BY <2>3 DEF AttachChange, Owned, JobOwnsItem, OwnedPhases
  <2>4. CASE Propose(i) BY <2>4, ParkCarries DEF Propose
  <2>5. CASE AwaitPreview(i) BY <2>5 DEF AwaitPreview
  <2>6. CASE PreviewUp(i) BY <2>6 DEF PreviewUp
  <2>7. CASE PreviewNeverUp(i) BY <2>7, ParkCarries DEF PreviewNeverUp
  <2>8. CASE ReviewPasses(i) BY <2>8, ParkCarries DEF ReviewPasses
  <2>9. CASE ReviewUntestable(i) BY <2>9, ParkCarries DEF ReviewUntestable
  <2>10. CASE ReworkExhausted(i) BY <2>10, ParkCarries DEF ReworkExhausted
  <2>11. CASE ReworkStarts(i) BY <2>11, ThrowEffect DEF ReworkStarts, MoveTo
  <2>12. CASE ReworkParks(i) BY <2>12, ParkCarries DEF ReworkParks
  <2>13. CASE ReworkPushes(i) BY <2>13 DEF ReworkPushes
  <2>14. CASE ReworkReturns(i) BY <2>14, ThrowEffect DEF ReworkReturns, MoveTo
  <2>15. CASE CrewMergeLands(i) BY <2>15 DEF CrewMergeLands
  <2>16. CASE CrewMergeFails(i) BY <2>16, ParkCarries DEF CrewMergeFails
  <2>17. CASE CrewMergeReturns(i)
    BY <2>17, ParkCarries, ThrowEffect DEF CrewMergeReturns, MoveTo
  <2>18. CASE AttachFails(i) BY <2>18 DEF AttachFails
  <2> QED BY <1>4, <2>1, <2>2, <2>3, <2>4, <2>5, <2>6, <2>7, <2>8, <2>9, <2>10,
             <2>11, <2>12, <2>13, <2>14, <2>15, <2>16, <2>17, <2>18 DEF Job
<1>5. ASSUME NEW i \in Items, Repair(i) PROVE Inv'
  BY <1>5 DEF Repair, RepairChecks, RepairWrites, MoveTo
<1>6. CASE Crash BY <1>6 DEF Crash, LoseMemory
<1>7. CASE Restart BY <1>7 DEF Restart
<1>8. CASE UNCHANGED vars BY <1>8 DEF vars
<1> QED BY <1>1, <1>2, <1>3, <1>4, <1>5, <1>6, <1>7, <1>8 DEF Next

\* All the parts together are inductive: the invariant the other theorems are
\* consequences of.
THEOREM InductiveInvariant == Spec => []IInv
<1> DEFINE Inv == /\ TypeOK /\ Owned /\ ChangeFollowsPhase /\ Landings
                  /\ MergesCarryChange /\ Graph /\ Ledger
<1>1. Init => Inv
  BY TypeOKInit, OwnedInit, LandingsInit, CarriesInit, GraphInit, LedgerInit
<1>2. Inv /\ [Next]_vars => Inv'
  BY TypeOKNext, OwnedNext, LandingsNext, CarriesNext, GraphNext, LedgerNext
<1>3. Inv => IInv BY DEF IInv, Owned, Landings, Graph, Ledger
<1> QED BY <1>1, <1>2, <1>3, PTL DEF Spec

inMain == {i \in Items : landed[i] # {}}
Stutter == UNCHANGED <<phase, change, inMain>>

\* The instance of WorkPhases inside WI is the same table.
LEMMA SameTable ==
  WI!WorkEdges = WorkEdges /\ WI!Phases = Phases /\ WI!BirthPhases = BirthPhases
BY DEF WI!WorkEdges, WorkEdges, WI!Phases, Phases, WI!BirthPhases, BirthPhases

LEMMA ParkRefines ==
  ASSUME TypeOK, NEW i \in Items, Park(i), UNCHANGED <<change, landed>>
  PROVE  (\E to \in WI!Phases : WI!Advance(i, to)) \/ Stutter
<1>1. CASE CanMove(i, "parked") /\ MoveTo(i, "parked")
  <2>1. WI!Advance(i, "parked") BY <1>1, SameTable DEF WI!Advance, CanMove, MoveTo
  <2> QED BY <2>1, SameTable, PhaseMembers
<1>2. CASE UNCHANGED phase BY <1>2 DEF Stutter, inMain
<1> QED BY <1>1, <1>2 DEF Park

LEMMA AdvanceRefines ==
  ASSUME NEW i \in Items, NEW to \in {"queued", "building", "reviewing", "reworking", "parked"},
         CanMove(i, to), MoveTo(i, to), UNCHANGED <<change, landed>>,
         to = "reviewing" => change[i] = "open"
  PROVE  WI!Next
<1>1. WI!Advance(i, to) BY SameTable DEF WI!Advance, CanMove, MoveTo
<1>2. to \in WI!Phases BY SameTable, PhaseMembers
<1> QED BY <1>1, <1>2 DEF WI!Next

LEMMA LandRefines ==
  ASSUME TypeOK, NEW i \in Items, NEW c, landed' = [landed EXCEPT ![i] = @ \cup {c}],
         change[i] # "none", UNCHANGED <<phase, change>>
  PROVE  WI!Next
<1>1. inMain' = inMain \cup {i} BY DEF inMain, TypeOK, GitOK
<1>2. WI!Land(i) BY <1>1 DEF WI!Land, inMain
<1> QED BY <1>2 DEF WI!Next

LEMMA ShipRefines ==
  ASSUME TypeOK, ChangeFollowsPhase, MergesCarryChange, NEW i \in Items,
         CanMove(i, "shipped"), MoveTo(i, "shipped"), landed[i] # {}, change[i] # "none",
         change' = [change EXCEPT ![i] = "merged"], UNCHANGED landed
  PROVE  WI!Next
<1>1. change[i] = "open"
  BY DEF TypeOK, StoreOK, ChangeFollowsPhase, CanMove, WorkEdges
<1>2. WI!Ship(i) BY <1>1, SameTable DEF WI!Ship, CanMove, MoveTo
<1> QED BY <1>2 DEF WI!Next

LEMMA StepRefines ==
  ASSUME TypeOK, Owned, ChangeFollowsPhase, Landings, MergesCarryChange, [Next]_vars
  PROVE  WI!Next \/ Stutter
<1> DEFINE Goal == WI!Next \/ Stutter
<1>a. UNCHANGED <<phase, change, landed>> => Goal BY DEF Stutter, inMain
<1>b. ASSUME NEW i \in Items, Park(i), UNCHANGED <<change, landed>> PROVE Goal
  BY <1>b, ParkRefines DEF WI!Next
<1> USE DEF store, gitRefs, memory, bounds
<1>1. ASSUME NEW i \in Items, Human(i) PROVE Goal
  <2>1. ASSUME NEW born \in BirthPhases, File(i, born) PROVE Goal
    <3>1. WI!File(i, born) BY <2>1, SameTable DEF File, MoveTo, WI!File
    <3> QED BY <2>1, <3>1, SameTable DEF WI!Next
  <2>2. CASE Queue(i) BY <2>2, AdvanceRefines DEF Queue
  <2>3. CASE Close(i)
    <3>1. WI!Close(i) BY <2>3, SameTable DEF Close, CanMove, MoveTo, WI!Close
    <3> QED BY <3>1 DEF WI!Next
  <2>4. CASE HumanMerge(i) BY <1>a, <2>4 DEF HumanMerge
  <2>5. ASSUME NEW j \in Items, AddWorkDep(i, j) \/ RemoveWorkDep(i, j) PROVE Goal
    BY <1>a, <2>5 DEF AddWorkDep, RemoveWorkDep
  <2> QED BY <1>1, <2>1, <2>2, <2>3, <2>4, <2>5 DEF Human
<1>2. ASSUME NEW i \in Items, MergeGoesOn(i) PROVE Goal
  <2>1. CASE HumanMergeLands(i)
    <3>1. change[i] # "none"
      BY <2>1 DEF HumanMergeLands, MergesCarryChange, NoMerge
    <3> QED BY <2>1, <3>1, LandRefines DEF HumanMergeLands
  <2>2. CASE HumanMergeFails(i) BY <1>a, <2>2 DEF HumanMergeFails
  <2>3. CASE HumanMergeReturns(i)
    <3>1. change[i] # "none" /\ landed[i] # {}
      BY <2>3 DEF HumanMergeReturns, MergesCarryChange, Landings, MergesLanded, NoMerge, Merged
    <3>2. CASE CanMove(i, "shipped")
      BY <2>3, <3>1, <3>2, ShipRefines DEF HumanMergeReturns
    <3>3. CASE ~CanMove(i, "shipped") BY <1>a, <2>3, <3>3 DEF HumanMergeReturns
    <3> QED BY <3>2, <3>3
  <2> QED BY <1>2, <2>1, <2>2, <2>3 DEF MergeGoesOn
<1>3. ASSUME NEW i \in Items, Tick(i) PROVE Goal
  BY <1>3, AdvanceRefines DEF Tick, CanMove, WorkEdges
<1>4. ASSUME NEW i \in Items, Job(i) PROVE Goal
  <2>1. CASE BuildParks(i) BY <1>b, <2>1 DEF BuildParks
  <2>2. CASE BuildPushes(i) BY <1>a, <2>2 DEF BuildPushes
  <2>3. CASE AttachChange(i)
    <3>1. CASE phase[i] = "building"
      <4>1. WI!Attach(i)
        BY <2>3, <3>1 DEF AttachChange, CanMove, WorkEdges, WI!Attach
      <4> QED BY <4>1 DEF WI!Next
    <3>2. CASE phase[i] = "closed"
      <4>1. WI!AttachLate(i)
        BY <2>3, <3>2 DEF AttachChange, CanMove, WorkEdges, WI!AttachLate
      <4> QED BY <4>1 DEF WI!Next
    <3> QED BY <2>3, <3>1, <3>2 DEF AttachChange, Owned, JobOwnsItem, OwnedPhases
  <2>4. CASE Propose(i) BY <1>b, <2>4 DEF Propose
  <2>5. CASE AwaitPreview(i) BY <1>a, <2>5 DEF AwaitPreview
  <2>6. CASE PreviewUp(i) BY <1>a, <2>6 DEF PreviewUp
  <2>7. CASE PreviewNeverUp(i) BY <1>b, <2>7 DEF PreviewNeverUp
  <2>8. CASE ReviewPasses(i) BY <1>a, <1>b, <2>8 DEF ReviewPasses
  <2>9. CASE ReviewUntestable(i) BY <1>b, <2>9 DEF ReviewUntestable
  <2>10. CASE ReworkExhausted(i) BY <1>b, <2>10 DEF ReworkExhausted
  <2>11. CASE ReworkStarts(i) BY <1>a, <2>11, AdvanceRefines DEF ReworkStarts
  <2>12. CASE ReworkParks(i) BY <1>b, <2>12 DEF ReworkParks
  <2>13. CASE ReworkPushes(i) BY <1>a, <2>13 DEF ReworkPushes
  <2>14. CASE ReworkReturns(i)
    <3>1. CASE CanMove(i, "reviewing")
      <4>1. change[i] = "open"
        BY <2>14, <3>1 DEF ReworkReturns, CanMove, WorkEdges, ChangeFollowsPhase, Owned,
                           JobOwnsItem, OwnedPhases
      <4> QED BY <2>14, <3>1, <4>1, AdvanceRefines DEF ReworkReturns
    <3>2. CASE ~CanMove(i, "reviewing") BY <1>a, <2>14, <3>2 DEF ReworkReturns
    <3> QED BY <3>1, <3>2
  <2>15. CASE CrewMergeLands(i)
    <3>1. change[i] # "none" BY <2>15 DEF CrewMergeLands, MergesCarryChange
    <3> QED BY <2>15, <3>1, LandRefines DEF CrewMergeLands
  <2>16. CASE CrewMergeFails(i) BY <1>b, <2>16 DEF CrewMergeFails
  <2>17. CASE CrewMergeReturns(i)
    <3>1. change[i] # "none" /\ landed[i] # {}
      BY <2>17 DEF CrewMergeReturns, MergesCarryChange, Landings, MergesLanded
    <3>2. CASE CanMove(i, "shipped")
      BY <2>17, <3>1, <3>2, ShipRefines DEF CrewMergeReturns
    <3>3. CASE ~CanMove(i, "shipped") BY <1>b, <2>17, <3>3 DEF CrewMergeReturns
    <3> QED BY <3>2, <3>3
  <2>18. CASE AttachFails(i) BY <1>a, <2>18 DEF AttachFails
  <2> QED BY <1>4, <2>1, <2>2, <2>3, <2>4, <2>5, <2>6, <2>7, <2>8, <2>9, <2>10,
             <2>11, <2>12, <2>13, <2>14, <2>15, <2>16, <2>17, <2>18 DEF Job
<1>5. ASSUME NEW i \in Items, Repair(i) PROVE Goal
  <2>1. CASE RepairChecks(i) BY <1>a, <2>1 DEF RepairChecks
  <2>2. CASE RepairWrites(i)
    <3>1. CASE phase[i] = "parked" /\ change[i] = "open"
      BY <2>2, <3>1, ShipRefines DEF RepairWrites, CanMove, WorkEdges, Landings, MergesLanded
    <3>2. CASE ~(phase[i] = "parked" /\ change[i] = "open")
      BY <1>a, <2>2, <3>2 DEF RepairWrites
    <3> QED BY <3>1, <3>2
  <2> QED BY <1>5, <2>1, <2>2 DEF Repair
<1>6. CASE Crash BY <1>a, <1>6 DEF Crash
<1>7. CASE Restart
  <2> DEFINE S == {i \in Items : phase[i] \in {"building", "reworking"}}
  <2>1. WI!Recover(S)
    BY <1>7 DEF Restart, WI!Recover
  <2> QED BY <2>1 DEF WI!Next
<1>8. CASE UNCHANGED vars BY <1>a, <1>8 DEF vars
<1> QED BY <1>1, <1>2, <1>3, <1>4, <1>5, <1>6, <1>7, <1>8 DEF Next

\* What each caller may rely on: every behaviour of the crew is one the abstract
\* specification allows.
THEOREM CrewImplementsWorkItem == Spec => ImplementsWorkItem
<1> DEFINE Inv == TypeOK /\ Owned /\ ChangeFollowsPhase /\ Landings /\ MergesCarryChange
<1>1. Init => Inv BY TypeOKInit, OwnedInit, LandingsInit, CarriesInit
<1>2. Inv /\ [Next]_vars => Inv'
  BY TypeOKNext, OwnedNext, LandingsNext, CarriesNext
<1>3. Init => WI!Init BY DEF Init, WI!Init
<1>4. Inv /\ [Next]_vars => [WI!Next]_(WI!vars)
  BY StepRefines DEF Stutter, inMain, WI!vars
<1> QED BY <1>1, <1>2, <1>3, <1>4, PTL DEF Spec, WI!Spec, ImplementsWorkItem
===============================================================================
