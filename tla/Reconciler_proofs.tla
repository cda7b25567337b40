-------------------------- MODULE Reconciler_proofs ---------------------------
(***************************************************************************)
(* Proofs about Reconciler, for any apps, changes, ports, bounds: types,   *)
(* one writer, routes of one's own, apps that stay up, passes that serve   *)
(* what is asked for and sweep the rest, a teardown that leaves nothing.   *)
(* Each has its strengthening, with one step of the proof per action.      *)
(***************************************************************************)
EXTENDS Reconciler, TLAPS

-------------------------------------------------------------------------------
\* Types.

LEMMA Constants ==
  /\ MaxHead \in Nat \ {0} /\ MaxQueue \in Nat \ {0} /\ MaxEdits \in Nat
  /\ MaxFaults \in Nat /\ MaxCrashes \in Nat
  /\ App \subseteq Variant /\ Change \subseteq Variant
  /\ \A v \in Variant : Owner(v) \in App
BY ReconcilerAssumption DEF Variant, Owner

LEMMA NoPassType == NoPass \in [full : BOOLEAN, specs : SUBSET App,
                                previews : BOOLEAN, todo : SUBSET Variant]
BY DEF NoPass

LEMMA NoJobType == NoJob \in [v : Variant, sha : 0..MaxHead, img : 0..MaxHead,
                              old : SUBSET Container]
<1>1. (CHOOSE a \in App : TRUE) \in Variant
  BY Constants, ReconcilerAssumption
<1> QED BY <1>1, Constants DEF NoJob

LEMMA KickType ==
  ASSUME QueueOK, NEW k \in {All} \cup App, Kick(k) PROVE QueueOK'
<1>1. mode' = mode /\ queue \in Seq({All} \cup App) /\ Len(queue) < MaxQueue
      /\ queue' = Append(queue, k)
  BY DEF QueueOK, Kick
<1>2. queue' \in Seq({All} \cup App)
  BY <1>1
<1>3. Len(queue') <= MaxQueue
  BY <1>1, Constants
<1> QED BY <1>1, <1>2, <1>3 DEF QueueOK

LEMMA FaultType ==
  ASSUME HistoryOK, NEW v, NEW sort \in SUBSET Harms, Fault(v, sort)
  PROVE  HistoryOK'
BY Constants DEF HistoryOK, Fault

LEMMA NoFaultType ==
  ASSUME HistoryOK, NoFault PROVE HistoryOK'
BY DEF HistoryOK, NoFault

LEMMA SetErrorType ==
  ASSUME RowsOK, NEW v \in Variant, SetError(v)
  PROVE  status' \in [App -> States]
BY DEF RowsOK, SetError, States

LEMMA StopType ==
  ASSUME HistoryOK, box \subseteq Container, NEW b \in box, StopAndRemove(b)
  PROVE  HistoryOK' /\ box' \subseteq Container
<1>1. HistoryOK'
  BY FaultType DEF StopAndRemove, HistoryOK, Harms
<1>2. [b EXCEPT !.port = NoPort] \in Container
  BY DEF Container
<1> QED BY <1>1, <1>2 DEF StopAndRemove

LEMMA TypeInit == ASSUME Init PROVE TypeOK
<1> USE Constants DEF Init
<1>1. DesiredOK BY DEF DesiredOK, Variant
<1>2. RowsOK BY DEF RowsOK, States
<1>3. QueueOK BY DEF QueueOK
<1>4. PassOK /\ JobOK BY NoPassType, NoJobType DEF PassOK, JobOK
<1>5. HistoryOK BY DEF HistoryOK
<1> QED BY <1>1, <1>2, <1>3, <1>4, <1>5 DEF TypeOK, Points

LEMMA TypeNext == ASSUME TypeOK, [Next]_vars PROVE TypeOK'
<1> USE Constants DEF TypeOK, Steps, Points, rows, history, counters, daemon, desired
<1>0. swept' \in BOOLEAN
  <2>1. UNCHANGED swept \/ swept' = FALSE \/ swept' = TRUE \/ Begin
        \/ \E b \in box : PruneStop(b)
    BY DEF Next, Asks, List, Unlist, Push, DeleteBranch, Open, Close, Merge, Overtakes,
           PassStep, SkipQueued, ReadHead, Previews, ListContainers, Clone, Build,
           StopOld, Stopped, ProvisionData, CreateContainer, StartContainer,
           Publish, EndRepoPass, BeginPrune, PruneForget, EndFullPass, BeginTeardown,
           TeardownStop, EndTeardown, AskToStop, Crash, Boot, vars
  <2>2. ASSUME Begin PROVE swept' \in BOOLEAN
    <3>1. swept' = swept \/ swept' = (Head(queue) = All \/ swept)
      BY <2>2 DEF Begin
    <3> QED BY <3>1
  <2>3. ASSUME NEW b \in box, PruneStop(b) PROVE swept' \in BOOLEAN
    <3>1. swept' = (swept /\ faults' = faults)
      BY <2>3 DEF PruneStop
    <3> QED BY <3>1
  <2> QED BY <2>1, <2>2, <2>3
<1>1. ASSUME Asks PROVE TypeOK'
  <2>1. QueueOK'
    BY <1>1, KickType DEF Asks, List, Unlist, Push, DeleteBranch, Open, Close, Merge
  <2>2. DesiredOK'
    BY <1>1 DEF Asks, List, Unlist, Push, DeleteBranch, Open, Close, Merge,
                DesiredOK, Version
  <2>3. HistoryOK'
    BY <1>1 DEF Asks, List, Unlist, Push, DeleteBranch, Open, Close, Merge,
                HistoryOK, Kick, Overtakes
  <2>4. UNCHANGED <<box, host, tcp, status, data, at, pass, job>>
    BY <1>1 DEF Asks, List, Unlist, Push, DeleteBranch, Open, Close, Merge, Kick
  <2> QED
    BY <1>0, <2>1, <2>2, <2>3, <2>4 DEF RowsOK, PassOK, JobOK
<1>2. CASE Begin
  <2>1. QueueOK'
    BY <1>2 DEF Begin, QueueOK
  <2>2. PassOK'
    <3> DEFINE Of(f, S) == [full |-> f, specs |-> S, previews |-> FALSE, todo |-> S]
    <3>1. ASSUME NEW f \in BOOLEAN, NEW S \in SUBSET App
          PROVE  Of(f, S) \in [full : BOOLEAN, specs : SUBSET App,
                               previews : BOOLEAN, todo : SUBSET Variant]
      OBVIOUS
    <3>2. \E f \in BOOLEAN, S \in SUBSET App : pass' = pass \/ pass' = Of(f, S)
      <4>1. PICK f \in BOOLEAN : f = (Head(queue) = All)
        OBVIOUS
      <4>2. PICK S \in SUBSET App :
              S = IF Head(queue) = All THEN listed ELSE listed \cap {Head(queue)}
        BY DEF DesiredOK
      <4>3. pass' = pass \/ pass' = Of(Head(queue) = All, S)
        BY <1>2, <4>2 DEF Begin
      <4> QED BY <4>1, <4>3
    <3> QED BY <3>1, <3>2 DEF PassOK
  <2>3. HistoryOK'
    BY <1>2 DEF Begin, HistoryOK, DesiredOK
  <2> QED BY <1>2, <2>1, <2>2, <2>3 DEF Begin, DesiredOK, RowsOK, JobOK
<1>3. CASE SkipQueued
  BY <1>3 DEF SkipQueued, DesiredOK, RowsOK, QueueOK, PassOK, JobOK, HistoryOK
<1>4. ASSUME NEW v \in Variant, ReadHead(v) PROVE TypeOK'
  <2>1. PassOK' /\ JobOK'
    BY <1>4 DEF ReadHead, PassOK, JobOK, DesiredOK
  <2>2. HistoryOK'
    BY <1>4, NoFaultType, FaultType DEF ReadHead, HistoryOK
  <2>3. RowsOK'
    BY <1>4, SetErrorType DEF ReadHead, RowsOK
  <2> QED BY <1>4, <2>1, <2>2, <2>3 DEF ReadHead, DesiredOK, QueueOK
<1>5. CASE Previews
  BY <1>5 DEF Previews, DesiredOK, RowsOK, QueueOK, PassOK, JobOK, HistoryOK
<1>6. CASE ListContainers
  <2>1. JobOK'
    BY <1>6 DEF ListContainers, JobOK, Boxes
  <2>2. HistoryOK'
    BY <1>6, NoFaultType, FaultType DEF ListContainers, HistoryOK
  <2>3. status' \in [App -> States]
    BY <1>6, SetErrorType DEF ListContainers, RowsOK, JobOK, States
  <2>4. \A b \in Converged : Refresh(b) => /\ host' \in [Variant -> Port \cup {NoPort}]
                                          /\ tcp' \in [App -> Port \cup {NoPort, NoRow}]
    BY DEF Converged, Refresh, Boxes, Binding, Container, RowsOK, JobOK
  <2>5. RowsOK'
    BY <1>6, <2>3, <2>4 DEF ListContainers, RowsOK
  <2> QED BY <1>6, <2>1, <2>2, <2>5 DEF ListContainers, DesiredOK, QueueOK, PassOK
<1>7. CASE Clone
  <2>1. JobOK'
    BY <1>7 DEF Clone, JobOK, DesiredOK
  <2>2. HistoryOK'
    BY <1>7, NoFaultType, FaultType DEF Clone, HistoryOK
  <2>3. RowsOK'
    BY <1>7, SetErrorType DEF Clone, RowsOK, JobOK, States
  <2> QED BY <1>7, <2>1, <2>2, <2>3 DEF Clone, DesiredOK, QueueOK, PassOK
<1>8. CASE Build
  <2>1. HistoryOK'
    BY <1>8, NoFaultType, FaultType DEF Build, HistoryOK
  <2>2. RowsOK'
    BY <1>8, SetErrorType DEF Build, RowsOK, JobOK
  <2> QED BY <1>8, <2>1, <2>2 DEF Build, DesiredOK, QueueOK, PassOK, JobOK
<1>9. ASSUME NEW b \in box, StopOld(b) PROVE TypeOK'
  <2>1. HistoryOK' /\ box' \subseteq Container
    BY <1>9, StopType DEF StopOld, HistoryOK
  <2>2. JobOK'
    BY <1>9 DEF StopOld, JobOK
  <2> QED BY <1>9, <2>1, <2>2 DEF StopOld, DesiredOK, RowsOK, QueueOK, PassOK
<1>10. CASE Stopped
  BY <1>10 DEF Stopped, DesiredOK, RowsOK, QueueOK, PassOK, JobOK, HistoryOK
<1>11. CASE ProvisionData
  <2>1. HistoryOK'
    BY <1>11, NoFaultType, FaultType DEF ProvisionData, HistoryOK, Harms
  <2>2. RowsOK'
    BY <1>11, SetErrorType DEF ProvisionData, RowsOK, JobOK
  <2> QED BY <1>11, <2>1, <2>2 DEF ProvisionData, DesiredOK, QueueOK, PassOK, JobOK
<1>12. CASE CreateContainer
  <2>1. HistoryOK'
    BY <1>12, NoFaultType, FaultType DEF CreateContainer, HistoryOK, Harms
  <2>2. RowsOK'
    BY <1>12, SetErrorType DEF CreateContainer, RowsOK, JobOK
  <2>3. Created \in Container
    BY DEF Created, Container, JobOK
  <2> QED BY <1>12, <2>1, <2>2, <2>3
             DEF CreateContainer, DesiredOK, QueueOK, PassOK, JobOK
<1>13. CASE StartContainer
  <2>1. HistoryOK'
    BY <1>13, NoFaultType, FaultType DEF StartContainer, HistoryOK, Harms
  <2>2. RowsOK'
    BY <1>13, SetErrorType DEF StartContainer, RowsOK, JobOK
  <2>3. \A p \in FreePorts : [Created EXCEPT !.port = p] \in Container
    BY DEF Created, Container, JobOK, FreePorts
  <2> QED BY <1>13, <2>1, <2>2, <2>3
             DEF StartContainer, DesiredOK, QueueOK, PassOK, JobOK
<1>14. CASE Publish
  <2>1. HistoryOK'
    BY <1>14, FaultType DEF Publish, HistoryOK, Harms, DesiredOK
  <2>2. \A b \in Converged : b.port \in Port
    BY DEF Converged, Boxes, On, Container
  <2>3. RowsOK'
    BY <1>14, <2>2, SetErrorType DEF Publish, RowsOK, JobOK, States
  <2> QED BY <1>14, <2>1, <2>3 DEF Publish, DesiredOK, QueueOK, PassOK, JobOK
<1>15. CASE EndRepoPass
  BY <1>15, NoPassType, NoJobType
     DEF EndRepoPass, DesiredOK, RowsOK, QueueOK, PassOK, JobOK, HistoryOK
<1>16. CASE BeginPrune
  <2>1. JobOK' /\ PassOK'
    BY <1>16, NoPassType, NoJobType DEF BeginPrune, JobOK, PassOK, Doomed
  <2>2. HistoryOK'
    BY <1>16 DEF BeginPrune, HistoryOK
  <2> QED BY <1>16, <2>1, <2>2 DEF BeginPrune, DesiredOK, RowsOK, QueueOK
<1>17. ASSUME NEW b \in box, PruneStop(b) PROVE TypeOK'
  <2>1. HistoryOK' /\ box' \subseteq Container
    BY <1>17, StopType DEF PruneStop, HistoryOK
  <2>2. b.v \in Variant
    BY DEF Container
  <2>3. JobOK'
    BY <1>17, <2>2 DEF PruneStop, JobOK
  <2> QED BY <1>17, <2>1, <2>3 DEF PruneStop, DesiredOK, RowsOK, QueueOK, PassOK
<1>18. CASE PruneForget
  <2>1. RowsOK'
    BY <1>18 DEF PruneForget, RowsOK, JobOK
  <2>2. HistoryOK'
    BY <1>18 DEF PruneForget, HistoryOK, Harms
  <2> QED BY <1>18, <2>1, <2>2 DEF PruneForget, DesiredOK, QueueOK, PassOK, JobOK
<1>19. CASE EndFullPass
  BY <1>19, NoPassType, NoJobType
     DEF EndFullPass, DesiredOK, RowsOK, QueueOK, PassOK, JobOK, HistoryOK
<1>20. CASE BeginTeardown
  <2>1. JobOK'
    BY <1>20, NoJobType DEF BeginTeardown, JobOK
  <2>2. HistoryOK'
    BY <1>20 DEF BeginTeardown, HistoryOK, Harms
  <2>3. QueueOK'
    BY <1>20 DEF BeginTeardown, QueueOK
  <2> QED BY <1>20, <2>1, <2>2, <2>3 DEF BeginTeardown, DesiredOK, RowsOK, PassOK
<1>20a. ASSUME NEW b \in box, TeardownStop(b) PROVE TypeOK'
  <2>1. HistoryOK' /\ box' \subseteq Container
    BY <1>20a, StopType DEF TeardownStop, HistoryOK
  <2>2. JobOK'
    BY <1>20a DEF TeardownStop, JobOK
  <2> QED BY <1>20a, <2>1, <2>2 DEF TeardownStop, DesiredOK, RowsOK, QueueOK, PassOK
<1>20b. CASE EndTeardown
  BY <1>20b, NoJobType
     DEF EndTeardown, DesiredOK, RowsOK, QueueOK, PassOK, JobOK, HistoryOK
<1>21. CASE AskToStop
  BY <1>21 DEF AskToStop, DesiredOK, RowsOK, QueueOK, PassOK, JobOK, HistoryOK
<1>22. CASE Crash
  <2>1. PassOK' /\ JobOK'
    BY <1>22, NoPassType, NoJobType DEF Crash, PassOK, JobOK
  <2>2. HistoryOK'
    BY <1>22 DEF Crash, HistoryOK, Harms
  <2>3. QueueOK'
    BY <1>22 DEF Crash, QueueOK
  <2> QED BY <1>0, <1>22, <2>1, <2>2, <2>3 DEF Crash, DesiredOK, RowsOK
<1>23. CASE Boot
  BY <1>23 DEF Boot, DesiredOK, RowsOK, QueueOK, PassOK, JobOK, HistoryOK
<1>24. CASE UNCHANGED vars
  BY <1>24 DEF vars, DesiredOK, RowsOK, QueueOK, PassOK, JobOK, HistoryOK
<1> QED
  BY <1>1, <1>2, <1>3, <1>4, <1>5, <1>6, <1>7, <1>8, <1>9, <1>10, <1>11, <1>12,
     <1>13, <1>14, <1>15, <1>16, <1>17, <1>18, <1>19, <1>20, <1>20a, <1>20b, <1>21, <1>22, <1>23,
     <1>24 DEF Next, PassStep

-------------------------------------------------------------------------------
(***************************************************************************)
(* While a deploy has old containers to stop, they are all on its list;    *)
(* once it has stopped them none of the variant's runs.                    *)
(***************************************************************************)
WriterInv ==
  "stop" \notin harm =>
    /\ ExactlyOneWriter
    /\ at \in {"clone", "build", "stop"} =>
         \A b \in Boxes(job.v) : On(b) => b \in job.old
    /\ at \in {"data", "create", "start"} =>
         \A b \in Boxes(job.v) : ~On(b)

LEMMA WriterInit == ASSUME Init PROVE WriterInv
BY DEF Init, WriterInv, ExactlyOneWriter

LEMMA WriterNext == ASSUME TypeOK, WriterInv, [Next]_vars PROVE WriterInv'
<1> USE DEF WriterInv, ExactlyOneWriter, Boxes, On, Steps, NoFault, Fault,
            rows, history, counters, daemon, desired
<1>1. CASE Asks
  BY <1>1 DEF Asks, List, Unlist, Push, DeleteBranch, Open, Close, Merge, Kick
<1>2. CASE Begin
  BY <1>2 DEF Begin
<1>3. CASE SkipQueued
  BY <1>3 DEF SkipQueued
<1>4. ASSUME NEW v \in Variant, ReadHead(v) PROVE WriterInv'
  BY <1>4 DEF ReadHead
<1>5. CASE Previews
  BY <1>5 DEF Previews
<1>6. CASE ListContainers
  BY <1>6 DEF ListContainers, TypeOK, JobOK
<1>7. CASE Clone
  BY <1>7 DEF Clone, TypeOK, JobOK
<1>8. CASE Build
  BY <1>8 DEF Build
<1>9. ASSUME NEW b \in box, StopOld(b) PROVE WriterInv'
  BY <1>9 DEF StopOld, StopAndRemove, TypeOK, JobOK, Container
<1>10. CASE Stopped
  BY <1>10 DEF Stopped
<1>11. CASE ProvisionData
  BY <1>11 DEF ProvisionData
<1>12. CASE CreateContainer
  BY <1>12 DEF CreateContainer, Created
<1>13. CASE StartContainer
  BY <1>13 DEF StartContainer, Created, TypeOK, JobOK
<1>14. CASE Publish
  BY <1>14 DEF Publish
<1>15. CASE EndRepoPass
  BY <1>15 DEF EndRepoPass
<1>16. CASE BeginPrune
  BY <1>16 DEF BeginPrune
<1>17. ASSUME NEW b \in box, PruneStop(b) PROVE WriterInv'
  BY <1>17 DEF PruneStop, StopAndRemove, TypeOK, JobOK, Container
<1>18. CASE PruneForget
  BY <1>18 DEF PruneForget
<1>19. CASE EndFullPass
  BY <1>19 DEF EndFullPass
<1>20. CASE BeginTeardown
  BY <1>20 DEF BeginTeardown
<1>20a. ASSUME NEW b \in box, TeardownStop(b) PROVE WriterInv'
  BY <1>20a DEF TeardownStop, StopAndRemove, TypeOK, JobOK, Container
<1>20b. CASE EndTeardown
  BY <1>20b DEF EndTeardown
<1>21. CASE AskToStop
  BY <1>21 DEF AskToStop
<1>22. CASE Crash
  BY <1>22 DEF Crash
<1>23. CASE Boot
  BY <1>23 DEF Boot
<1>24. CASE UNCHANGED vars
  BY <1>24 DEF vars
<1> QED
  BY <1>1, <1>2, <1>3, <1>4, <1>5, <1>6, <1>7, <1>8, <1>9, <1>10, <1>11, <1>12,
     <1>13, <1>14, <1>15, <1>16, <1>17, <1>18, <1>19, <1>20, <1>20a, <1>20b, <1>21, <1>22, <1>23,
     <1>24 DEF Next, PassStep

-------------------------------------------------------------------------------
(***************************************************************************)
(* A host row leads to the port of a container of its variant, except of   *)
(* the variant whose container is being replaced; a port is given to one   *)
(* container only.                                                         *)
(***************************************************************************)
OldIsOwn == at \in {"clone", "build", "stop"} => \A b \in job.old : b.v = job.v

RouteInv ==
  harm = {} =>
    /\ OldIsOwn
    /\ \A b1, b2 \in box : On(b1) /\ b1.port = b2.port => b1 = b2
    /\ \A v \in Variant : host[v] # NoPort =>
         \/ \E b \in box : b.v = v /\ b.port = host[v]
         \/ job.v = v /\ at \in {"stop", "data", "create", "start", "inspect", "forget"}
    /\ at # "teardown"
    /\ RoutesAreOwn

LEMMA RouteInit == ASSUME Init PROVE RouteInv
BY DEF Init, RouteInv, RoutesAreOwn, OldIsOwn

LEMMA RouteNext ==
  ASSUME TypeOK, RouteInv, [Next]_vars PROVE RouteInv'
<1> USE DEF RouteInv, OldIsOwn, RoutesAreOwn, Boxes, On, Steps, NoFault,
            Fault, rows, history, counters, daemon, desired
<1>1. CASE Asks
  BY <1>1 DEF Asks, List, Unlist, Push, DeleteBranch, Open, Close, Merge,
     Kick
<1>2. CASE Begin
  BY <1>2 DEF Begin
<1>3. CASE SkipQueued
  BY <1>3 DEF SkipQueued
<1>4. ASSUME NEW v \in Variant, ReadHead(v) PROVE RouteInv'
  BY <1>4 DEF ReadHead
<1>5. CASE Previews
  BY <1>5 DEF Previews
<1>6. CASE ListContainers
  BY <1>6 DEF ListContainers, Converged, Refresh, TypeOK, JobOK, RowsOK
<1>7. CASE Clone
  BY <1>7 DEF Clone, TypeOK, JobOK
<1>8. CASE Build
  BY <1>8 DEF Build
<1>9. ASSUME NEW b \in box, StopOld(b) PROVE RouteInv'
  BY <1>9 DEF StopOld, StopAndRemove, TypeOK, JobOK, Container
<1>10. CASE Stopped
  BY <1>10 DEF Stopped
<1>11. CASE ProvisionData
  BY <1>11 DEF ProvisionData
<1>12. CASE CreateContainer
  BY <1>12 DEF CreateContainer, Created, TypeOK
<1>13. CASE StartContainer
  BY <1>13, ReconcilerAssumption DEF StartContainer, Created, FreePorts,
     TypeOK, JobOK, RowsOK, Container
<1>14. CASE Publish
  BY <1>14 DEF Publish, Converged, TypeOK, JobOK, RowsOK
<1>15. CASE EndRepoPass
  BY <1>15 DEF EndRepoPass
<1>16. CASE BeginPrune
  BY <1>16 DEF BeginPrune
<1>17. ASSUME NEW b \in box, PruneStop(b) PROVE RouteInv'
  BY <1>17 DEF PruneStop, StopAndRemove, TypeOK, JobOK, Container
<1>18. CASE PruneForget
  BY <1>18 DEF PruneForget, Owner, TypeOK, JobOK, RowsOK
<1>19. CASE EndFullPass
  BY <1>19 DEF EndFullPass
<1>20. CASE BeginTeardown
  BY <1>20 DEF BeginTeardown
<1>20a. ASSUME NEW b \in box, TeardownStop(b) PROVE RouteInv'
  BY <1>20a DEF TeardownStop, StopAndRemove, TypeOK, JobOK, Container
<1>20b. CASE EndTeardown
  BY <1>20b DEF EndTeardown
<1>21. CASE AskToStop
  BY <1>21 DEF AskToStop
<1>22. CASE Crash
  BY <1>22 DEF Crash
<1>23. CASE Boot
  BY <1>23 DEF Boot
<1>24. CASE UNCHANGED vars
  BY <1>24 DEF vars
<1> QED
  BY <1>1, <1>2, <1>3, <1>4, <1>5, <1>6, <1>7, <1>8, <1>9, <1>10, <1>11, <1>12,
     <1>13, <1>14, <1>15, <1>16, <1>17, <1>18, <1>19, <1>20, <1>20a, <1>20b, <1>21,
     <1>22, <1>23, <1>24 DEF Next, PassStep

-------------------------------------------------------------------------------
\* What a pass starts with: the specs, all of them if it is a full one.
LEMMA BeginReads ==
  ASSUME Begin
  PROVE  \/ UNCHANGED <<at, pass, swept, fresh>>
         \/ /\ at' = "loop" /\ pass'.todo = pass'.specs /\ ~pass'.previews
            /\ fresh' = fresh \cup pass'.specs
            /\ pass'.specs \subseteq listed
            /\ pass'.full => pass'.specs = listed
            /\ pass'.full \/ (swept' => swept)
<1> DEFINE S == IF Head(queue) = All THEN listed ELSE listed \cap {Head(queue)}
<1>1. PICK f \in BOOLEAN : f = (Head(queue) = All)
  OBVIOUS
<1>2. \/ UNCHANGED <<at, pass, swept, fresh>>
      \/ /\ at' = "loop" /\ swept' = (f \/ swept) /\ fresh' = fresh \cup S
         /\ pass' = [full |-> f, specs |-> S, previews |-> FALSE, todo |-> S]
  BY <1>1 DEF Begin
<1>3. S \subseteq listed /\ (f => S = listed)
  BY <1>1
<1>4. CASE f
  <2>1. pass' = [full |-> TRUE, specs |-> S, previews |-> FALSE, todo |-> S]
        => pass'.full /\ pass'.specs = S /\ pass'.todo = S /\ ~pass'.previews
    OBVIOUS
  <2> QED BY <1>2, <1>3, <1>4, <2>1
<1>5. CASE ~f
  <2>1. pass' = [full |-> FALSE, specs |-> S, previews |-> FALSE, todo |-> S]
        => ~pass'.full /\ pass'.specs = S /\ pass'.todo = S /\ ~pass'.previews
    OBVIOUS
  <2>2. swept' = (f \/ swept) => (swept' => swept)
    BY <1>5
  <2> QED BY <1>2, <1>3, <1>5, <2>1, <2>2
<1> QED BY <1>4, <1>5

-------------------------------------------------------------------------------
(***************************************************************************)
(* An app that ran has a container, except while its next one replaces it; *)
(* a full pass prunes none such, since they were listed when it began.     *)
(***************************************************************************)
Deploying == at \in {"list", "clone", "build", "stop", "data", "create",
                     "start", "inspect"}

KeepInv ==
  harm = {} =>
    /\ KeepsServing
    /\ OldIsOwn /\ at # "teardown"
    /\ kept \subseteq listed
    /\ pass.full /\ at # "idle" => kept \subseteq pass.specs
    /\ pass.todo \cap App \subseteq pass.specs
    /\ Deploying /\ job.v \in App => job.v \in pass.specs
    /\ at \in {"prune", "forget"} =>
         pass.full /\ \A b \in job.old : b.v \notin kept

LEMMA KeepInit == ASSUME Init PROVE KeepInv
BY DEF Init, KeepInv, KeepsServing, OldIsOwn, NoPass, Deploying

LEMMA KeepNext ==
  ASSUME TypeOK, KeepInv, [Next]_vars PROVE KeepInv'
<1> USE DEF KeepInv, OldIsOwn, KeepsServing, Deploying, Boxes, On, Steps,
            NoFault, Fault, rows, history, counters, daemon, desired
<1>1. CASE Asks
  BY <1>1 DEF Asks, List, Unlist, Push, DeleteBranch, Open, Close, Merge,
     Kick
<1>2. CASE Begin
  <2>1. \/ UNCHANGED <<at, pass>>
       \/ /\ at' = "loop"
          /\ pass'.full => pass'.specs = listed
          /\ pass'.todo = pass'.specs
    BY <1>2, BeginReads
  <2>2. UNCHANGED <<listed, kept, box, job, harm>> /\ at = "idle"
    BY <1>2 DEF Begin
  <2> QED BY <2>1, <2>2
<1>3. CASE SkipQueued
  BY <1>3 DEF SkipQueued
<1>4. ASSUME NEW v \in Variant, ReadHead(v) PROVE KeepInv'
  BY <1>4 DEF ReadHead, TypeOK, PassOK
<1>5. CASE Previews
  BY <1>5, ReconcilerAssumption DEF Previews, TypeOK, PassOK
<1>6. CASE ListContainers
  BY <1>6 DEF ListContainers, TypeOK, JobOK
<1>7. CASE Clone
  BY <1>7 DEF Clone, TypeOK, JobOK
<1>8. CASE Build
  BY <1>8 DEF Build
<1>9. ASSUME NEW b \in box, StopOld(b) PROVE KeepInv'
  BY <1>9 DEF StopOld, StopAndRemove, TypeOK, JobOK, Container
<1>10. CASE Stopped
  BY <1>10 DEF Stopped
<1>11. CASE ProvisionData
  BY <1>11 DEF ProvisionData
<1>12. CASE CreateContainer
  BY <1>12 DEF CreateContainer, Created
<1>13. CASE StartContainer
  <2>1. harm' # {} \/ \E p \in FreePorts :
                       box' = (box \ {Created}) \cup {[Created EXCEPT !.port = p]}
    BY <1>13 DEF StartContainer
  <2>2. ASSUME harm = {}, NEW p \in FreePorts,
               box' = (box \ {Created}) \cup {[Created EXCEPT !.port = p]}
        PROVE  \A a \in kept : \E b \in box' : b.v = a /\ b.port # NoPort
    <3>1. p # NoPort
      BY ReconcilerAssumption DEF FreePorts
    <3>2. Created.port = NoPort /\ [Created EXCEPT !.port = p].port = p
          /\ [Created EXCEPT !.port = p].v = job.v
      BY DEF Created
    <3> QED BY <1>13, <2>2, <3>1, <3>2 DEF StartContainer
  <2>3. at' \in {"inspect", "loop"} /\ UNCHANGED <<kept, listed, job, pass>>
        /\ at = "start" /\ (harm' = {} => harm = {})
    BY <1>13 DEF StartContainer
  <2> QED BY <2>1, <2>2, <2>3
<1>14. CASE Publish
  BY <1>14 DEF Publish, Converged, TypeOK, DesiredOK, HistoryOK
<1>15. CASE EndRepoPass
  BY <1>15 DEF EndRepoPass, NoPass, NoJob
<1>16. CASE BeginPrune
  BY <1>16, ReconcilerAssumption DEF BeginPrune, Doomed, Owner, NoPass,
     NoJob, TypeOK, HistoryOK
<1>17. ASSUME NEW b \in box, PruneStop(b) PROVE KeepInv'
  BY <1>17 DEF PruneStop, StopAndRemove, TypeOK, JobOK, Container
<1>18. CASE PruneForget
  BY <1>18 DEF PruneForget
<1>19. CASE EndFullPass
  BY <1>19 DEF EndFullPass, NoPass, NoJob
<1>20. CASE BeginTeardown
  BY <1>20 DEF BeginTeardown
<1>20a. ASSUME NEW b \in box, TeardownStop(b) PROVE KeepInv'
  BY <1>20a DEF TeardownStop, StopAndRemove
<1>20b. CASE EndTeardown
  BY <1>20b DEF EndTeardown
<1>21. CASE AskToStop
  BY <1>21 DEF AskToStop
<1>22. CASE Crash
  BY <1>22 DEF Crash, NoPass, NoJob
<1>23. CASE Boot
  BY <1>23 DEF Boot
<1>24. CASE UNCHANGED vars
  BY <1>24 DEF vars
<1> QED
  BY <1>1, <1>2, <1>3, <1>4, <1>5, <1>6, <1>7, <1>8, <1>9, <1>10, <1>11, <1>12,
     <1>13, <1>14, <1>15, <1>16, <1>17, <1>18, <1>19, <1>20, <1>20a, <1>20b, <1>21,
     <1>22, <1>23, <1>24 DEF Next, PassStep

-------------------------------------------------------------------------------
(***************************************************************************)
(* While a teardown has containers to stop they are all on its list, and a *)
(* daemon that was torn down begins nothing.                               *)
(***************************************************************************)
TeardownInv ==
  /\ at = "teardown" => mode = "stopping" /\ queue = <<>>
  /\ mode = "torn" => at = "idle" /\ queue = <<>>
  /\ at = "teardown" /\ "stop" \notin harm => \A b \in box : On(b) => b \in job.old
  /\ TeardownIsClean

LEMMA TeardownInit == ASSUME Init PROVE TeardownInv
BY DEF Init, TeardownInv, TeardownIsClean

LEMMA TeardownNext ==
  ASSUME TypeOK, TeardownInv, [Next]_vars PROVE TeardownInv'
<1> USE DEF TeardownInv, TeardownIsClean, Boxes, On, Steps, NoFault, Fault,
            rows, history, counters, daemon, desired
<1>1. CASE Asks
  BY <1>1 DEF Asks, List, Unlist, Push, DeleteBranch, Open, Close, Merge,
     Kick
<1>2. CASE Begin
  BY <1>2 DEF Begin
<1>3. CASE SkipQueued
  BY <1>3 DEF SkipQueued
<1>4. ASSUME NEW v \in Variant, ReadHead(v) PROVE TeardownInv'
  BY <1>4 DEF ReadHead
<1>5. CASE Previews
  BY <1>5 DEF Previews
<1>6. CASE ListContainers
  BY <1>6 DEF ListContainers
<1>7. CASE Clone
  BY <1>7 DEF Clone
<1>8. CASE Build
  BY <1>8 DEF Build
<1>9. ASSUME NEW b \in box, StopOld(b) PROVE TeardownInv'
  BY <1>9 DEF StopOld, StopAndRemove
<1>10. CASE Stopped
  BY <1>10 DEF Stopped
<1>11. CASE ProvisionData
  BY <1>11 DEF ProvisionData
<1>12. CASE CreateContainer
  BY <1>12 DEF CreateContainer, Created
<1>13. CASE StartContainer
  BY <1>13 DEF StartContainer, Created
<1>14. CASE Publish
  BY <1>14 DEF Publish
<1>15. CASE EndRepoPass
  BY <1>15 DEF EndRepoPass
<1>16. CASE BeginPrune
  BY <1>16 DEF BeginPrune
<1>17. ASSUME NEW b \in box, PruneStop(b) PROVE TeardownInv'
  BY <1>17 DEF PruneStop, StopAndRemove
<1>18. CASE PruneForget
  BY <1>18 DEF PruneForget
<1>19. CASE EndFullPass
  BY <1>19 DEF EndFullPass
<1>20. CASE BeginTeardown
  BY <1>20 DEF BeginTeardown, TypeOK, JobOK, NoJob
<1>20a. ASSUME NEW b \in box, TeardownStop(b) PROVE TeardownInv'
  BY <1>20a DEF TeardownStop, StopAndRemove, TypeOK, JobOK, Container
<1>20b. CASE EndTeardown
  BY <1>20b DEF EndTeardown
<1>21. CASE AskToStop
  BY <1>21 DEF AskToStop
<1>22. CASE Crash
  BY <1>22 DEF Crash
<1>23. CASE Boot
  BY <1>23 DEF Boot
<1>24. CASE UNCHANGED vars
  BY <1>24 DEF vars
<1> QED
  BY <1>1, <1>2, <1>3, <1>4, <1>5, <1>6, <1>7, <1>8, <1>9, <1>10, <1>11, <1>12,
     <1>13, <1>14, <1>15, <1>16, <1>17, <1>18, <1>19, <1>20, <1>20a, <1>20b, <1>21,
     <1>22, <1>23, <1>24 DEF Next, PassStep

-------------------------------------------------------------------------------
(***************************************************************************)
(* While nothing overtakes the passes, they deploy only what is wanted; a  *)
(* full pass, once it prunes, has the rest on its list, and after it there *)
(* is no rest.                                                             *)
(***************************************************************************)
SweepInv ==
  swept =>
    /\ at # "teardown"
    /\ pass.specs \subseteq listed
    /\ pass.full /\ at # "idle" => pass.specs = listed
    /\ \A v \in pass.todo : Wanted(v)
    /\ Deploying => Wanted(job.v)
    /\ at = "idle" \/ ~pass.full => \A b \in box : Wanted(b.v)
    /\ at \in {"prune", "forget"} =>
         pass.full /\ \A b \in box : Wanted(b.v) \/ b \in job.old

LEMMA SweepInit == ASSUME Init PROVE SweepInv
BY DEF Init, SweepInv

LEMMA SweepNext ==
  ASSUME TypeOK, SweepInv, [Next]_vars PROVE SweepInv'
<1> USE DEF SweepInv, Deploying, Wanted, Boxes, On, Steps, NoFault, Fault,
            rows, history, counters, daemon, desired
<1>1. CASE Asks
  BY <1>1 DEF Asks, List, Unlist, Push, DeleteBranch, Open, Close, Merge,
     Kick, Overtakes
<1>2. CASE Begin
  <2>1. \/ UNCHANGED <<at, pass, swept>>
       \/ /\ at' = "loop" /\ pass'.todo = pass'.specs
          /\ pass'.specs \subseteq listed
          /\ pass'.full => pass'.specs = listed
          /\ pass'.full \/ (swept' => swept)
    BY <1>2, BeginReads
  <2>2. UNCHANGED <<listed, change, box, job>> /\ at = "idle"
    BY <1>2 DEF Begin
  <2>3. \A a \in listed : Wanted(a) /\ Wanted(a)'
    BY <2>2, ReconcilerAssumption DEF Owner, TypeOK, DesiredOK
  <2> QED BY <2>1, <2>2, <2>3
<1>3. CASE SkipQueued
  BY <1>3 DEF SkipQueued
<1>4. ASSUME NEW v \in Variant, ReadHead(v) PROVE SweepInv'
  BY <1>4 DEF ReadHead, TypeOK, PassOK, JobOK
<1>5. CASE Previews
  BY <1>5, ReconcilerAssumption DEF Previews, Owner, TypeOK, PassOK,
     DesiredOK
<1>6. CASE ListContainers
  BY <1>6 DEF ListContainers, TypeOK, JobOK
<1>7. CASE Clone
  BY <1>7 DEF Clone, TypeOK, JobOK
<1>8. CASE Build
  BY <1>8 DEF Build
<1>9. ASSUME NEW b \in box, StopOld(b) PROVE SweepInv'
  BY <1>9 DEF StopOld, StopAndRemove, TypeOK, JobOK, Container
<1>10. CASE Stopped
  BY <1>10 DEF Stopped
<1>11. CASE ProvisionData
  BY <1>11 DEF ProvisionData
<1>12. CASE CreateContainer
  BY <1>12 DEF CreateContainer, Created, TypeOK
<1>13. CASE StartContainer
  BY <1>13 DEF StartContainer, Created, TypeOK
<1>14. CASE Publish
  BY <1>14 DEF Publish
<1>15. CASE EndRepoPass
  BY <1>15 DEF EndRepoPass, NoPass, NoJob
<1>16. CASE BeginPrune
  <2>1. \A b \in box : Wanted(b.v) \/ b \in Doomed \/ ~swept
    BY <1>16 DEF BeginPrune, Doomed
  <2>2. ~swept' \/ (at' = "prune" /\ job'.old = Doomed /\ UNCHANGED <<pass, swept>>)
    BY <1>16 DEF BeginPrune, NoJob
  <2> QED BY <1>16, <2>1, <2>2 DEF BeginPrune
<1>17. ASSUME NEW b \in box, PruneStop(b) PROVE SweepInv'
  <2>1. swept' => swept /\ faults' = faults
    BY <1>17 DEF PruneStop
  <2>2. ASSUME swept' PROVE box' = box \ {b}
    BY <1>17, <2>1, <2>2 DEF PruneStop, StopAndRemove, TypeOK, HistoryOK
  <2> QED BY <1>17, <2>1, <2>2 DEF PruneStop, TypeOK, JobOK
<1>18. CASE PruneForget
  BY <1>18 DEF PruneForget
<1>19. CASE EndFullPass
  BY <1>19 DEF EndFullPass, NoPass, NoJob
<1>20. CASE BeginTeardown
  BY <1>20 DEF BeginTeardown
<1>20a. ASSUME NEW b \in box, TeardownStop(b) PROVE SweepInv'
  BY <1>20a DEF TeardownStop, StopAndRemove
<1>20b. CASE EndTeardown
  BY <1>20b DEF EndTeardown
<1>21. CASE AskToStop
  BY <1>21 DEF AskToStop
<1>22. CASE Crash
  BY <1>22 DEF Crash
<1>23. CASE Boot
  BY <1>23 DEF Boot
<1>24. CASE UNCHANGED vars
  BY <1>24 DEF vars
<1> QED
  BY <1>1, <1>2, <1>3, <1>4, <1>5, <1>6, <1>7, <1>8, <1>9, <1>10, <1>11, <1>12,
     <1>13, <1>14, <1>15, <1>16, <1>17, <1>18, <1>19, <1>20, <1>20a, <1>20b, <1>21,
     <1>22, <1>23, <1>24 DEF Next, PassStep

-------------------------------------------------------------------------------
(***************************************************************************)
(* What a container was built from is at most as old as its tag, and never *)
(* ahead of its branch; the public port of an app keeps its row while a    *)
(* container of it runs.                                                   *)
(***************************************************************************)
Grown(v, n)  == head[v] = 0 \/ n <= head[v]
Attached(v)  == v \in Change => change[v] # "none"
HasSource    == at \in {"build", "stop", "data", "create", "start", "inspect"}

VersionsGrow ==
  /\ \A a \in App : head[a] > 0
  /\ \A b \in box : b.tag <= b.built /\ Grown(b.v, b.built) /\ Attached(b.v)
  /\ \A v \in pass.todo : Attached(v)
  /\ Deploying => Attached(job.v) /\ Grown(job.v, job.sha)
  /\ HasSource => job.sha <= job.img /\ Grown(job.v, job.img)

RowsStay ==
  /\ at \in {"stop", "data", "create", "start"} /\ NeedsTcp => tcp[job.v] # NoRow
  /\ "lost" \notin harm =>
       \A b \in box : On(b) /\ b.v \in App /\ b.built \in TcpVersions
                      => tcp[b.v] # NoRow

LEMMA GroundInit == ASSUME Init PROVE VersionsGrow /\ RowsStay
<1>1. \A a \in App : head[a] = 1
  BY Constants DEF Init
<1>2. at = "idle" /\ box = {} /\ pass.todo = {}
  BY DEF Init, NoPass
<1> QED BY <1>1, <1>2 DEF VersionsGrow, RowsStay, Deploying, HasSource

\* What a request does to what is asked for, and what it leaves alone.
RequestKeeps ==
  /\ UNCHANGED <<box, rows, at, pass, job, harm>>
  /\ \A a \in App : head[a] > 0 => head'[a] > 0
  /\ \A v \in Variant : Attached(v) =>
       /\ Attached(v)'
       /\ \/ head'[v] = 0 \/ head'[v] = head[v]
          \/ (head[v] > 0 \/ v \in App) /\ head'[v] > head[v]
  /\ fresh' \subseteq fresh /\ fresh' \cap listed' \subseteq listed
  /\ \A v \in Variant : Owner(v) \in fresh' =>
       head'[v] = head[v] /\ (Wanted(v)' <=> Wanted(v))

LEMMA Requests == ASSUME TypeOK, Asks PROVE RequestKeeps
<1> USE ReconcilerAssumption DEF TypeOK, DesiredOK, Kick, Overtakes, Attached, Owner,
                                 Wanted, Variant, Version, RequestKeeps
<1>1. ASSUME NEW a \in App, List(a) PROVE RequestKeeps
  BY <1>1 DEF List
<1>2. ASSUME NEW a \in App, Unlist(a) PROVE RequestKeeps
  BY <1>2 DEF Unlist
<1>3. ASSUME NEW v \in Variant, Push(v) PROVE RequestKeeps
  BY <1>3 DEF Push
<1>4. ASSUME NEW c \in Change, Open(c) PROVE RequestKeeps
  BY <1>4 DEF Open
<1>5. ASSUME NEW c \in Change, Close(c) PROVE RequestKeeps
  BY <1>5 DEF Close
<1>6. ASSUME NEW c \in Change, Merge(c) PROVE RequestKeeps
  BY <1>6 DEF Merge
<1>7. ASSUME NEW c \in Change, DeleteBranch(c) PROVE RequestKeeps
  BY <1>7 DEF DeleteBranch
<1> QED BY <1>1, <1>2, <1>3, <1>4, <1>5, <1>6, <1>7 DEF Asks

LEMMA GrowNext ==
  ASSUME TypeOK, VersionsGrow, [Next]_vars PROVE VersionsGrow'
<1> USE DEF VersionsGrow, Deploying, HasSource, Grown, Attached, Boxes, On,
            Steps, NoFault, Fault, rows, history, counters, daemon, desired
<1>0. TypeOK'
  BY TypeNext
<1>1. CASE Asks
  <2>1. RequestKeeps
    BY <1>1, Requests
  <2>2. /\ job.v \in Variant /\ job.sha \in Nat /\ job.img \in Nat
        /\ pass.todo \subseteq Variant
        /\ \A b \in box : b.v \in Variant /\ b.built \in Nat
        /\ \A v \in Variant : head[v] \in Nat /\ head'[v] \in Nat
    BY <1>0 DEF TypeOK, JobOK, PassOK, Container, DesiredOK
  <2>3. \A v \in Variant, n \in Nat :
          Attached(v) /\ Grown(v, n) => Attached(v)' /\ Grown(v, n)'
    BY <2>1, <2>2 DEF RequestKeeps
  <2> QED BY <2>1, <2>2, <2>3 DEF RequestKeeps
<1>2. CASE Begin
  <2>1. UNCHANGED <<at, pass>> \/ (at' = "loop" /\ pass'.todo \subseteq App)
    BY <1>2, BeginReads DEF TypeOK, DesiredOK
  <2> QED BY <1>2, <2>1, ReconcilerAssumption DEF Begin
<1>3. CASE SkipQueued
  BY <1>3 DEF SkipQueued
<1>4. ASSUME NEW v \in Variant, ReadHead(v) PROVE VersionsGrow'
  BY <1>4 DEF ReadHead, TypeOK, PassOK, DesiredOK
<1>5. CASE Previews
  BY <1>5 DEF Previews
<1>6. CASE ListContainers
  BY <1>6 DEF ListContainers, TypeOK, JobOK
<1>7. CASE Clone
  BY <1>7 DEF Clone, TypeOK, JobOK, DesiredOK
<1>8. CASE Build
  BY <1>8 DEF Build
<1>9. ASSUME NEW b \in box, StopOld(b) PROVE VersionsGrow'
  BY <1>9 DEF StopOld, StopAndRemove, TypeOK, JobOK, Container
<1>10. CASE Stopped
  BY <1>10 DEF Stopped
<1>11. CASE ProvisionData
  BY <1>11 DEF ProvisionData
<1>12. CASE CreateContainer
  BY <1>12 DEF CreateContainer, Created
<1>13. CASE StartContainer
  BY <1>13 DEF StartContainer, Created
<1>14. CASE Publish
  BY <1>14 DEF Publish
<1>15. CASE EndRepoPass
  BY <1>15 DEF EndRepoPass, NoPass, NoJob
<1>16. CASE BeginPrune
  BY <1>16 DEF BeginPrune, NoPass, NoJob
<1>17. ASSUME NEW b \in box, PruneStop(b) PROVE VersionsGrow'
  BY <1>17 DEF PruneStop, StopAndRemove, TypeOK, JobOK, Container
<1>18. CASE PruneForget
  BY <1>18 DEF PruneForget
<1>19. CASE EndFullPass
  BY <1>19 DEF EndFullPass, NoPass, NoJob
<1>20. CASE BeginTeardown
  BY <1>20 DEF BeginTeardown, NoJob
<1>20a. ASSUME NEW b \in box, TeardownStop(b) PROVE VersionsGrow'
  BY <1>20a DEF TeardownStop, StopAndRemove, TypeOK, JobOK, Container
<1>20b. CASE EndTeardown
  BY <1>20b DEF EndTeardown, NoJob
<1>21. CASE AskToStop
  BY <1>21 DEF AskToStop
<1>22. CASE Crash
  BY <1>22 DEF Crash, NoPass, NoJob
<1>23. CASE Boot
  BY <1>23 DEF Boot
<1>24. CASE UNCHANGED vars
  BY <1>24 DEF vars
<1> QED
  BY <1>1, <1>2, <1>3, <1>4, <1>5, <1>6, <1>7, <1>8, <1>9, <1>10, <1>11, <1>12,
     <1>13, <1>14, <1>15, <1>16, <1>17, <1>18, <1>19, <1>20, <1>20a, <1>20b, <1>21,
     <1>22, <1>23, <1>24 DEF Next, PassStep

LEMMA RowsNext ==
  ASSUME TypeOK, RowsStay, [Next]_vars PROVE RowsStay'
<1> USE DEF RowsStay, NeedsTcp, Boxes, On, Steps, NoFault, Fault, rows,
            history, counters, daemon, desired
<1>1. CASE Asks
  BY <1>1 DEF Asks, List, Unlist, Push, DeleteBranch, Open, Close, Merge,
     Kick
<1>2. CASE Begin
  BY <1>2 DEF Begin
<1>3. CASE SkipQueued
  BY <1>3 DEF SkipQueued
<1>4. ASSUME NEW v \in Variant, ReadHead(v) PROVE RowsStay'
  BY <1>4 DEF ReadHead
<1>5. CASE Previews
  BY <1>5 DEF Previews
<1>6. CASE ListContainers
  BY <1>6, ReconcilerAssumption DEF ListContainers, Refresh, Binding,
     Converged, TypeOK, RowsOK, JobOK, Container
<1>7. CASE Clone
  BY <1>7 DEF Clone, TypeOK, JobOK
<1>8. CASE Build
  BY <1>8, ReconcilerAssumption DEF Build, TypeOK, RowsOK, JobOK
<1>9. ASSUME NEW b \in box, StopOld(b) PROVE RowsStay'
  BY <1>9 DEF StopOld, StopAndRemove, TypeOK, JobOK, Container
<1>10. CASE Stopped
  BY <1>10 DEF Stopped
<1>11. CASE ProvisionData
  BY <1>11 DEF ProvisionData
<1>12. CASE CreateContainer
  BY <1>12 DEF CreateContainer, Created, TypeOK, RowsOK
<1>13. CASE StartContainer
  BY <1>13 DEF StartContainer, Created, TypeOK, JobOK
<1>14. CASE Publish
  BY <1>14, ReconcilerAssumption DEF Publish, Converged, TypeOK, RowsOK,
     JobOK, Container
<1>15. CASE EndRepoPass
  BY <1>15 DEF EndRepoPass
<1>16. CASE BeginPrune
  BY <1>16 DEF BeginPrune
<1>17. ASSUME NEW b \in box, PruneStop(b) PROVE RowsStay'
  BY <1>17 DEF PruneStop, StopAndRemove, TypeOK, JobOK, Container
<1>18. CASE PruneForget
  BY <1>18 DEF PruneForget, TypeOK, RowsOK, JobOK
<1>19. CASE EndFullPass
  BY <1>19 DEF EndFullPass
<1>20. CASE BeginTeardown
  BY <1>20 DEF BeginTeardown
<1>20a. ASSUME NEW b \in box, TeardownStop(b) PROVE RowsStay'
  BY <1>20a DEF TeardownStop, StopAndRemove, TypeOK, JobOK, Container
<1>20b. CASE EndTeardown
  BY <1>20b DEF EndTeardown
<1>21. CASE AskToStop
  BY <1>21 DEF AskToStop
<1>22. CASE Crash
  BY <1>22 DEF Crash
<1>23. CASE Boot
  BY <1>23 DEF Boot
<1>24. CASE UNCHANGED vars
  BY <1>24 DEF vars
<1> QED
  BY <1>1, <1>2, <1>3, <1>4, <1>5, <1>6, <1>7, <1>8, <1>9, <1>10, <1>11, <1>12,
     <1>13, <1>14, <1>15, <1>16, <1>17, <1>18, <1>19, <1>20, <1>20a, <1>20b, <1>21,
     <1>22, <1>23, <1>24 DEF Next, PassStep

-------------------------------------------------------------------------------
(***************************************************************************)
(* A variant of a fresh app that is to be served is served, or the pass    *)
(* has it before it, or is at work on it with the commit its branch has.   *)
(***************************************************************************)
Fulfilled(v) == Served(v) /\ ("lost" \notin harm => TcpServed(v))
InHand(v) ==
  \/ v \in pass.todo
  \/ v \in Change /\ at # "idle" /\ ~pass.previews /\ AppOf[v] \in pass.specs
  \/ Deploying /\ job.v = v

PassInv ==
  /\ OldIsOwn
  /\ at \in {"idle", "prune", "forget", "teardown"} => pass.todo = {}
  /\ at \in {"prune", "forget"} => pass.full /\ pass.previews
  /\ at = "teardown" => fresh = {}
  /\ at # "idle" /\ pass.full => fresh \cap listed \subseteq pass.specs
  /\ Deploying /\ Owner(job.v) \in fresh => job.sha = head[job.v]
  /\ HasSource /\ Owner(job.v) \in fresh => job.img = head[job.v]
  /\ at \in {"prune", "forget"} =>
       \A b \in job.old : Owner(b.v) \in fresh => ~Wanted(b.v)
  /\ at = "forget" /\ Owner(job.v) \in fresh => ~Wanted(job.v)

ServeInv ==
  \A v \in Variant :
    Owner(v) \in fresh /\ Serveable(v) => Fulfilled(v) \/ InHand(v)

LEMMA ServeInit == ASSUME Init PROVE PassInv /\ ServeInv
BY DEF Init, PassInv, ServeInv, OldIsOwn, NoPass, Deploying, HasSource

LEMMA PassNext ==
  ASSUME TypeOK, PassInv, [Next]_vars PROVE PassInv'
<1> USE DEF PassInv, OldIsOwn, Deploying, HasSource, Wanted, Owner, Boxes, On,
            Steps, NoFault, Fault, rows, history, counters, daemon, desired
<1>1. CASE Asks
  <2>1. RequestKeeps
    BY <1>1, Requests
  <2>2. job.v \in Variant /\ \A b \in job.old : b.v \in Variant
    BY DEF TypeOK, JobOK, Container
  <2> QED BY <2>1, <2>2 DEF RequestKeeps
<1>2. CASE Begin
  <2>1. UNCHANGED job /\ at = "idle" /\ fresh' \subseteq fresh \cup pass'.specs
        /\ UNCHANGED listed
    BY <1>2 DEF Begin
  <2> QED BY <1>2, <2>1, BeginReads
<1>3. CASE SkipQueued
  BY <1>3 DEF SkipQueued
<1>4. ASSUME NEW v \in Variant, ReadHead(v) PROVE PassInv'
  BY <1>4 DEF ReadHead, TypeOK, PassOK
<1>5. CASE Previews
  BY <1>5 DEF Previews
<1>6. CASE ListContainers
  BY <1>6 DEF ListContainers, TypeOK, JobOK
<1>7. CASE Clone
  BY <1>7 DEF Clone, TypeOK, JobOK
<1>8. CASE Build
  BY <1>8 DEF Build
<1>9. ASSUME NEW b \in box, StopOld(b) PROVE PassInv'
  BY <1>9 DEF StopOld, StopAndRemove, TypeOK, JobOK, Container
<1>10. CASE Stopped
  BY <1>10 DEF Stopped
<1>11. CASE ProvisionData
  BY <1>11 DEF ProvisionData
<1>12. CASE CreateContainer
  BY <1>12 DEF CreateContainer, Created
<1>13. CASE StartContainer
  BY <1>13 DEF StartContainer, Created
<1>14. CASE Publish
  BY <1>14 DEF Publish, TypeOK
<1>15. CASE EndRepoPass
  BY <1>15 DEF EndRepoPass, NoPass, NoJob
<1>16. CASE BeginPrune
  BY <1>16 DEF BeginPrune, Doomed, NoPass, NoJob
<1>17. ASSUME NEW b \in box, PruneStop(b) PROVE PassInv'
  BY <1>17 DEF PruneStop, StopAndRemove, TypeOK, JobOK, Container
<1>18. CASE PruneForget
  BY <1>18 DEF PruneForget
<1>19. CASE EndFullPass
  BY <1>19 DEF EndFullPass, NoPass, NoJob
<1>20. CASE BeginTeardown
  BY <1>20 DEF BeginTeardown, NoJob
<1>20a. ASSUME NEW b \in box, TeardownStop(b) PROVE PassInv'
  BY <1>20a DEF TeardownStop, StopAndRemove, TypeOK, JobOK, Container
<1>20b. CASE EndTeardown
  BY <1>20b DEF EndTeardown, NoJob
<1>21. CASE AskToStop
  BY <1>21 DEF AskToStop
<1>22. CASE Crash
  BY <1>22 DEF Crash, NoPass, NoJob
<1>23. CASE Boot
  BY <1>23 DEF Boot
<1>24. CASE UNCHANGED vars
  BY <1>24 DEF vars
<1> QED
  BY <1>1, <1>2, <1>3, <1>4, <1>5, <1>6, <1>7, <1>8, <1>9, <1>10, <1>11, <1>12,
     <1>13, <1>14, <1>15, <1>16, <1>17, <1>18, <1>19, <1>20, <1>20a, <1>20b, <1>21,
     <1>22, <1>23, <1>24 DEF Next, PassStep

LEMMA ServeNext ==
  ASSUME TypeOK, VersionsGrow, RowsStay, PassInv, ServeInv, [Next]_vars PROVE ServeInv'
<1> USE DEF ServeInv, PassInv, OldIsOwn, Deploying, HasSource, Wanted, Owner,
            Serveable, Fulfilled, InHand, Served, TcpServed, Serves, Boxes,
            On, Steps, NoFault, Fault, rows, history, counters, daemon,
            desired
<1>1. CASE Asks
  <2>1. RequestKeeps
    BY <1>1, Requests
  <2> QED BY <2>1 DEF RequestKeeps
<1>2. CASE Begin
  <2>1. \/ UNCHANGED <<at, pass, fresh>>
        \/ /\ at' = "loop" /\ pass'.todo = pass'.specs /\ ~pass'.previews
           /\ fresh' = fresh \cup pass'.specs
    BY <1>2, BeginReads
  <2>2. at = "idle" /\ UNCHANGED <<listed, head, change, box, host, tcp, job, harm>>
    BY <1>2 DEF Begin
  <2>3. \A v \in Variant : Owner(v) \in fresh /\ Serveable(v) => Fulfilled(v)
    BY <2>2
  <2>4. ASSUME at' = "loop", pass'.todo = pass'.specs, ~pass'.previews
        PROVE  \A v \in Variant : Owner(v) \in pass'.specs => InHand(v)'
    BY <2>4 DEF Variant
  <2> QED BY <2>1, <2>2, <2>3, <2>4
<1>3. CASE SkipQueued
  BY <1>3 DEF SkipQueued
<1>4. ASSUME NEW v \in Variant, ReadHead(v) PROVE ServeInv'
  <2>1. UNCHANGED <<listed, head, change, box, host, tcp, harm>> /\ at = "loop"
        /\ fresh' \subseteq fresh /\ pass'.previews = pass.previews
        /\ pass'.specs = pass.specs /\ pass'.todo = pass.todo \ {v} /\ job'.v = v
    BY <1>4 DEF ReadHead, TypeOK, PassOK
  <2>2. \/ at' = "list"
        \/ at' = "loop" /\ (head[v] = 0 \/ Owner(v) \notin fresh')
    BY <1>4 DEF ReadHead
  <2>3. head[v] = 0 => ~Serveable(v)
    BY DEF Version
  <2> QED BY <2>1, <2>2, <2>3
<1>5. CASE Previews
  BY <1>5 DEF Previews
<1>6. CASE ListContainers
  <2>1. /\ UNCHANGED <<listed, head, change, box, harm, pass>> /\ at = "list"
        /\ at' \in {"clone", "loop"} /\ fresh' \subseteq fresh /\ job'.v = job.v /\ job.v \in Variant
    BY <1>6 DEF ListContainers, TypeOK, JobOK
  <2>2. CASE UNCHANGED <<host, tcp>> /\ (at' = "clone" \/ Owner(job.v) \notin fresh')
    BY <2>1, <2>2
  <2>3. ASSUME NEW b \in Converged, Refresh(b), at' = "loop", UNCHANGED <<fresh, job>>,
               Owner(job.v) \in fresh
        PROVE  ServeInv'
    <3>1. b \in box /\ b.v = job.v /\ b.tag = head[job.v] /\ b.port # NoPort
      BY <2>1, <2>3 DEF Converged
    <3>2. Serveable(job.v) => b.built = b.tag
      BY <2>1, <3>1 DEF VersionsGrow, Grown, TypeOK, Container, Version, DesiredOK
    <3>3. host' = [host EXCEPT ![job.v] = b.port] /\ host \in [Variant -> Port \cup {NoPort}]
      BY <2>3 DEF Refresh, TypeOK, RowsOK
    <3>4. \A a \in App : a # job.v => tcp'[a] = tcp[a]
      BY <2>3 DEF Refresh, TypeOK, RowsOK
    <3>5. job.v \in App /\ tcp[job.v] # NoRow /\ b.built \in TcpVersions
            => tcp'[job.v] = b.port
      BY <2>3 DEF Refresh, Binding, TypeOK, RowsOK
    <3>6. job.v \in App /\ "lost" \notin harm /\ b.built \in TcpVersions
            => tcp[job.v] # NoRow
      BY <3>1 DEF RowsStay
    <3>7. Serveable(job.v) => Fulfilled(job.v)'
      BY <2>1, <3>1, <3>2, <3>3, <3>5, <3>6
    <3>8. ASSUME NEW v \in Variant, v # job.v, Fulfilled(v) PROVE Fulfilled(v)'
      BY <2>1, <3>3, <3>4, <3>8
    <3>9. ASSUME NEW v \in Variant, v # job.v, InHand(v) PROVE InHand(v)'
      BY <2>1, <2>3, <3>9
    <3> QED BY <2>1, <2>3, <3>7, <3>8, <3>9
  <2>4. \/ UNCHANGED <<host, tcp>> /\ (at' = "clone" \/ Owner(job.v) \notin fresh')
        \/ \E b \in Converged : Refresh(b) /\ at' = "loop" /\ UNCHANGED <<fresh, job>>
    BY <1>6 DEF ListContainers
  <2>5. ASSUME NEW b \in Converged, Refresh(b), Owner(job.v) \notin fresh PROVE ServeInv'
    <3>1. \A v \in Variant : v # job.v => host'[v] = host[v]
      BY <2>5 DEF Refresh, TypeOK, RowsOK
    <3>2. \A a \in App : a # job.v => tcp'[a] = tcp[a]
      BY <2>5 DEF Refresh, TypeOK, RowsOK
    <3>3. ASSUME NEW v \in Variant, v # job.v, Fulfilled(v) PROVE Fulfilled(v)'
      BY <2>1, <3>1, <3>2, <3>3
    <3>4. \A v \in Variant : Owner(v) \in fresh' /\ Serveable(v)'
            => v # job.v /\ (Fulfilled(v) \/ (InHand(v) /\ InHand(v)'))
      BY <2>1, <2>5
    <3> QED BY <3>3, <3>4
  <2> QED BY <2>2, <2>3, <2>4, <2>5
<1>7. CASE Clone
  <2>1. /\ UNCHANGED <<listed, head, change, box, host, tcp, pass>> /\ at = "clone"
        /\ fresh' \subseteq fresh /\ harm' = harm /\ job'.v = job.v
    BY <1>7 DEF Clone, TypeOK, JobOK
  <2>2. at' = "build" \/ (at' = "loop" /\ (~Serveable(job.v) \/ Owner(job.v) \notin fresh'))
    BY <1>7 DEF Clone, Version
  <2> QED BY <2>1, <2>2
<1>8. CASE Build
  BY <1>8 DEF Build
<1>9. ASSUME NEW b \in box, StopOld(b) PROVE ServeInv'
  BY <1>9 DEF StopOld, StopAndRemove
<1>10. CASE Stopped
  BY <1>10 DEF Stopped
<1>11. CASE ProvisionData
  BY <1>11 DEF ProvisionData
<1>12. CASE CreateContainer
  BY <1>12 DEF CreateContainer, Created
<1>13. CASE StartContainer
  BY <1>13 DEF StartContainer, Created
<1>14. CASE Publish
  <2>1. /\ UNCHANGED <<listed, head, change, box, pass, job>> /\ at = "inspect"
        /\ at' = "loop" /\ fresh' \subseteq fresh /\ job.v \in Variant
        /\ ("lost" \in harm => "lost" \in harm')
    BY <1>14 DEF Publish, TypeOK, JobOK
  <2>2. CASE Owner(job.v) \notin fresh' /\ UNCHANGED <<host, tcp>>
    BY <2>1, <2>2
  <2>3. ASSUME NEW b \in Converged, Owner(job.v) \in fresh,
               host' = [host EXCEPT ![job.v] = b.port],
               tcp' = IF NeedsTcp THEN [tcp EXCEPT ![job.v] = b.port] ELSE tcp
        PROVE  ServeInv'
    <3>1. b \in box /\ b.v = job.v /\ b.tag = head[job.v] /\ b.port # NoPort
      BY <2>1, <2>3 DEF Converged
    <3>2. Serveable(job.v) => b.built = b.tag
      BY <2>1, <3>1 DEF VersionsGrow, Grown, TypeOK, Container, Version, DesiredOK
    <3>3. host \in [Variant -> Port \cup {NoPort}] /\ tcp \in [App -> Port \cup {NoPort, NoRow}]
      BY DEF TypeOK, RowsOK
    <3>4. \A a \in App : a # job.v => tcp'[a] = tcp[a]
      BY <2>3, <3>3
    <3>5. job.v \in App /\ head[job.v] \in TcpVersions => tcp'[job.v] = b.port
      BY <2>1, <2>3, <3>3 DEF NeedsTcp
    <3>6. Serveable(job.v) => Fulfilled(job.v)'
      BY <2>1, <2>3, <3>1, <3>2, <3>3, <3>5
    <3>7. ASSUME NEW v \in Variant, v # job.v, Fulfilled(v) PROVE Fulfilled(v)'
      BY <2>1, <2>3, <3>3, <3>4, <3>7
    <3>8. ASSUME NEW v \in Variant, v # job.v, InHand(v) PROVE InHand(v)'
      BY <2>1, <3>8
    <3> QED BY <2>1, <3>6, <3>7, <3>8
  <2>4. \/ Owner(job.v) \notin fresh' /\ UNCHANGED <<host, tcp>>
        \/ \E b \in Converged :
             /\ host' = [host EXCEPT ![job.v] = b.port]
             /\ tcp' = IF NeedsTcp THEN [tcp EXCEPT ![job.v] = b.port] ELSE tcp
    BY <1>14 DEF Publish
  <2>5. Owner(job.v) \notin fresh => Owner(job.v) \notin fresh'
    BY <2>1
  <2>6. ASSUME Owner(job.v) \notin fresh,
               NEW b \in Converged,
               host' = [host EXCEPT ![job.v] = b.port],
               tcp' = IF NeedsTcp THEN [tcp EXCEPT ![job.v] = b.port] ELSE tcp
        PROVE  ServeInv'
    <3>1. \A v \in Variant : v # job.v => host'[v] = host[v]
      BY <2>6 DEF TypeOK, RowsOK
    <3>2. \A a \in App : a # job.v => tcp'[a] = tcp[a]
      BY <2>6 DEF TypeOK, RowsOK
    <3>3. ASSUME NEW v \in Variant, v # job.v, Fulfilled(v) PROVE Fulfilled(v)'
      BY <2>1, <3>1, <3>2, <3>3
    <3>4. \A v \in Variant : Owner(v) \in fresh' /\ Serveable(v)'
            => v # job.v /\ (Fulfilled(v) \/ (InHand(v) /\ InHand(v)'))
      BY <2>1, <2>6
    <3> QED BY <3>3, <3>4
  <2> QED BY <2>2, <2>3, <2>4, <2>6
<1>15. CASE EndRepoPass
  BY <1>15 DEF EndRepoPass
<1>16. CASE BeginPrune
  BY <1>16 DEF BeginPrune
<1>17. ASSUME NEW b \in box, PruneStop(b) PROVE ServeInv'
  BY <1>17 DEF PruneStop, StopAndRemove
<1>18. CASE PruneForget
  <2>1. /\ UNCHANGED <<listed, head, change, box, pass, job, fresh>> /\ at = "forget"
        /\ at' = "prune" /\ job.v \in Variant
        /\ ("lost" \in harm => "lost" \in harm')
    BY <1>18 DEF PruneForget, TypeOK, JobOK
  <2>2. /\ \A v \in Variant : v # job.v /\ Owner(v) # job.v => host'[v] = host[v]
        /\ \A a \in App : a # job.v => tcp'[a] = tcp[a]
    BY <1>18 DEF PruneForget, TypeOK, RowsOK
  <2>3. ASSUME NEW v \in Variant, Owner(v) \in fresh, Serveable(v)
        PROVE  v # job.v /\ Owner(v) # job.v
    BY <2>1, <2>3, ReconcilerAssumption DEF Variant
  <2>4. ASSUME NEW v \in Variant, Owner(v) \in fresh, Serveable(v), Fulfilled(v)
        PROVE  Fulfilled(v)'
    BY <2>1, <2>2, <2>3, <2>4
  <2> QED BY <2>1, <2>4
<1>19. CASE EndFullPass
  BY <1>19 DEF EndFullPass
<1>20. CASE BeginTeardown
  BY <1>20 DEF BeginTeardown
<1>20a. ASSUME NEW b \in box, TeardownStop(b) PROVE ServeInv'
  BY <1>20a DEF TeardownStop, StopAndRemove
<1>20b. CASE EndTeardown
  BY <1>20b DEF EndTeardown
<1>21. CASE AskToStop
  BY <1>21 DEF AskToStop
<1>22. CASE Crash
  BY <1>22 DEF Crash
<1>23. CASE Boot
  BY <1>23 DEF Boot
<1>24. CASE UNCHANGED vars
  BY <1>24 DEF vars
<1> QED
  BY <1>1, <1>2, <1>3, <1>4, <1>5, <1>6, <1>7, <1>8, <1>9, <1>10, <1>11, <1>12,
     <1>13, <1>14, <1>15, <1>16, <1>17, <1>18, <1>19, <1>20, <1>20a, <1>20b, <1>21,
     <1>22, <1>23, <1>24 DEF Next, PassStep

-------------------------------------------------------------------------------
(***************************************************************************)
(* What a settled branch is given and what is taken from it: a pass works  *)
(* for it only while it is wanted, and replaces only what is of another    *)
(* commit.                                                                 *)
(***************************************************************************)
SettledInv ==
  /\ \A c \in Change : change[c] = "none" => head[c] = 0
  /\ pass.specs \cap fresh \subseteq listed
  /\ \A v \in pass.todo : Owner(v) \in fresh => Wanted(v)
  /\ Deploying /\ Owner(job.v) \in fresh => Wanted(job.v)
  /\ at \in {"clone", "build", "stop"} => \A b \in job.old : On(b) => b.tag # job.sha

LEMMA SettledInit == ASSUME Init PROVE SettledInv
BY ReconcilerAssumption DEF Init, SettledInv, NoPass, Deploying, Variant

LEMMA SettledNext ==
  ASSUME TypeOK, SettledInv, PassInv, [Next]_vars PROVE SettledInv'
<1> USE DEF SettledInv, Deploying, Wanted, Owner, Boxes, On, Steps, NoFault, Fault, rows,
            history, counters, daemon, desired
<1>1. CASE Asks
  <2>1. RequestKeeps BY <1>1, Requests
  <2>2. \A c \in Change : change'[c] = "none" => head'[c] = 0
    BY <1>1, ReconcilerAssumption DEF Asks, List, Unlist, Push, DeleteBranch, Open, Close, Merge,
       Variant, TypeOK, DesiredOK
  <2>3. job.v \in Variant /\ pass.todo \subseteq Variant /\ pass.specs \subseteq App
    BY DEF TypeOK, JobOK, PassOK
  <2>4. fresh' \cap listed \subseteq listed'
    BY <1>1 DEF Asks, List, Unlist, Push, DeleteBranch, Open, Close, Merge, Overtakes
  <2>5. pass'.specs \cap fresh' \subseteq listed' BY <2>1, <2>4 DEF RequestKeeps
  <2>6. \A v \in Variant : Owner(v) \in fresh' => (Wanted(v)' <=> Wanted(v)) /\ Owner(v) \in fresh
    BY <2>1 DEF RequestKeeps
  <2>7. UNCHANGED <<at, pass, job>> BY <2>1 DEF RequestKeeps
  <2> HIDE DEF Wanted, Owner
  <2> QED BY <2>2, <2>3, <2>5, <2>6, <2>7
<1>2. CASE Begin
  BY <1>2, BeginReads, ReconcilerAssumption DEF Begin, PassInv, TypeOK, DesiredOK
<1>3. CASE SkipQueued
  BY <1>3 DEF SkipQueued
<1>4. ASSUME NEW v \in Variant, ReadHead(v) PROVE SettledInv'
  BY <1>4 DEF ReadHead, TypeOK, PassOK
<1>5. CASE Previews
  BY <1>5, ReconcilerAssumption DEF Previews, TypeOK, PassOK
<1>6. CASE ListContainers
  BY <1>6 DEF ListContainers, Converged, TypeOK, JobOK
<1>7. CASE Clone
  BY <1>7 DEF Clone, TypeOK, JobOK
<1>8. CASE Build
  BY <1>8 DEF Build
<1>9. ASSUME NEW b \in box, StopOld(b) PROVE SettledInv'
  BY <1>9 DEF StopOld, StopAndRemove, TypeOK, JobOK, Container
<1>10. CASE Stopped
  BY <1>10 DEF Stopped
<1>11. CASE ProvisionData
  BY <1>11 DEF ProvisionData
<1>12. CASE CreateContainer
  BY <1>12 DEF CreateContainer, Created
<1>13. CASE StartContainer
  BY <1>13 DEF StartContainer, Created
<1>14. CASE Publish
  BY <1>14 DEF Publish
<1>15. CASE EndRepoPass
  BY <1>15 DEF EndRepoPass, NoPass, NoJob
<1>16. CASE BeginPrune
  BY <1>16 DEF BeginPrune, NoPass, NoJob
<1>17. ASSUME NEW b \in box, PruneStop(b) PROVE SettledInv'
  BY <1>17 DEF PruneStop, StopAndRemove, TypeOK, JobOK, Container
<1>18. CASE PruneForget
  BY <1>18 DEF PruneForget
<1>19. CASE EndFullPass
  BY <1>19 DEF EndFullPass, NoPass, NoJob
<1>20. CASE BeginTeardown
  BY <1>20 DEF BeginTeardown, NoJob
<1>21. ASSUME NEW b \in box, TeardownStop(b) PROVE SettledInv'
  BY <1>21 DEF TeardownStop, StopAndRemove, TypeOK, JobOK, Container
<1>22. CASE EndTeardown
  BY <1>22 DEF EndTeardown, NoJob
<1>23. CASE AskToStop
  BY <1>23 DEF AskToStop
<1>24. CASE Crash
  BY <1>24 DEF Crash, NoPass, NoJob
<1>25. CASE Boot
  BY <1>25 DEF Boot
<1>26. CASE UNCHANGED vars
  BY <1>26 DEF vars
<1> QED
  BY <1>1, <1>2, <1>3, <1>4, <1>5, <1>6, <1>7, <1>8, <1>9, <1>10, <1>11, <1>12, <1>13,
     <1>14, <1>15, <1>16, <1>17, <1>18, <1>19, <1>20, <1>21, <1>22, <1>23, <1>24, <1>25,
     <1>26 DEF Next, PassStep

-------------------------------------------------------------------------------
(***************************************************************************)
(* The refinement of Rollout.  Only the start and the stops change what    *)
(* runs, only requests what is asked for, and only Begin makes apps fresh. *)
(***************************************************************************)
Running == {b \in box : On(b)}

\* What a settled branch asks for.
Needed(b) == Owner(b.v) \in fresh /\ Wanted(b.v) /\ R!Current(b)

LEMMA NothingMoves ==
  ASSUME UNCHANGED <<desired, Running>>, fresh' \subseteq fresh, harm \subseteq harm'
  PROVE  R!Next
<1>1. /\ UNCHANGED <<head, {v \in Variant : Wanted(v)}, {b \in box : On(b)}>>
      /\ {v \in Variant : Owner(v) \in fresh}' \subseteq {v \in Variant : Owner(v) \in fresh}
      /\ "stop" \in harm => "stop" \in harm'
  BY DEF desired, Running, Wanted
<1>2. R!Unsettle BY <1>1 DEF R!Unsettle
<1> QED BY <1>2 DEF R!Next

LEMMA StopRefines ==
  ASSUME TypeOK, UNCHANGED desired, NEW b \in box, StopAndRemove(b), ~Needed(b)
  PROVE  R!Next
<1> USE DEF On, Fault
<1>1. b \in Container /\ box' \subseteq box \cup {[b EXCEPT !.port = NoPort]}
  BY DEF StopAndRemove, TypeOK
<1>2. [b EXCEPT !.port = NoPort].port = NoPort BY <1>1 DEF Container
<1>3. fresh' \subseteq fresh /\ harm \subseteq harm' BY DEF StopAndRemove
<1>4. \/ UNCHANGED <<box>>
      \/ Running' = Running \ {b} /\ harm' = harm
  BY <1>2 DEF StopAndRemove, Running
<1>5. CASE UNCHANGED <<box>> BY <1>3, <1>5, NothingMoves DEF Running
<1>6. CASE Running' = Running \ {b} /\ harm' = harm /\ b \notin Running
  BY <1>3, <1>6, NothingMoves
<1>7. CASE Running' = Running \ {b} /\ harm' = harm /\ b \in Running
  <2>1. UNCHANGED <<head, {v \in Variant : Wanted(v)}>> BY DEF desired, Wanted
  <2>2. {v \in Variant : Owner(v) \in fresh}' \subseteq {v \in Variant : Owner(v) \in fresh}
    BY <1>3
  <2>3. ~(b.v \in {v \in Variant : Owner(v) \in fresh} \cap {v \in Variant : Wanted(v)}
            /\ R!Current(b))
    BY DEF Needed
  <2>4. R!Stop(b) BY <1>7, <2>1, <2>2, <2>3 DEF R!Stop, Running
  <2> QED BY <1>1, <2>4 DEF R!Next
<1> QED BY <1>4, <1>5, <1>6, <1>7

LEMMA StartRefines ==
  ASSUME TypeOK, WriterInv, VersionsGrow, PassInv, SettledInv, StartContainer
  PROVE  R!Next
<1> USE DEF On
<1>1. at = "start" /\ job \in [v : Variant, sha : 0..MaxHead, img : 0..MaxHead,
                               old : SUBSET Container]
  BY DEF StartContainer, Steps, TypeOK, JobOK
<1>2. Created.port = NoPort BY DEF Created
<1>3. CASE UNCHANGED box
  BY <1>3, NothingMoves DEF StartContainer, Fault, NoFault, Running
<1>4. ASSUME NEW p \in FreePorts, box' = (box \ {Created}) \cup {[Created EXCEPT !.port = p]},
             NoFault
      PROVE  R!Next
  <2>1. p \in Port /\ p # NoPort BY ReconcilerAssumption DEF FreePorts
  <2>2. PICK b \in Container : b = [Created EXCEPT !.port = p]
    BY <1>1, <2>1 DEF Created, Container
  <2>3. b.v = job.v /\ b.tag = job.sha /\ b.built = job.img /\ b.port = p
    BY <2>2 DEF Created
  <2>4. Running' = Running \cup {b} BY <1>2, <1>4, <2>1, <2>2, <2>3 DEF Running
  <2>5. "stop" \in harm \/ \A c \in Running : c.v # b.v
    BY <1>1, <2>3 DEF WriterInv, Boxes, Running
  <2>6. head[b.v] = 0 \/ b.built <= head[b.v]
    BY <1>1, <2>3 DEF VersionsGrow, HasSource, Grown
  <2>7. Owner(b.v) \in fresh => Wanted(b.v) /\ b.tag = head[b.v] /\ b.built = head[b.v]
    BY <1>1, <2>3 DEF PassInv, SettledInv, Deploying, HasSource
  <2>8. UNCHANGED <<head, {v \in Variant : Wanted(v)}, {v \in Variant : Owner(v) \in fresh},
                    "stop" \in harm>>
    BY <1>4 DEF StartContainer, desired, Wanted, NoFault
  <2>9. b.v \in Variant BY <1>1, <2>3
  <2>10. R!Start(b) BY <2>4, <2>5, <2>6, <2>7, <2>8, <2>9 DEF R!Start, R!Current, Running
  <2> QED BY <2>10 DEF R!Next
<1> QED BY <1>3, <1>4 DEF StartContainer

LEMMA AskRefines == ASSUME TypeOK, TypeOK', SettledInv, Asks PROVE R!Next
<1> DEFINE asked == {v \in Variant : Owner(v) \notin fresh'}
<1>1. RequestKeeps BY Requests
<1>2. head' \in [Variant -> Nat] /\ head \in [Variant -> Nat]
  BY DEF TypeOK, DesiredOK
<1>3. \A v \in Variant : head'[v] = 0 \/ head'[v] >= head[v]
  BY <1>1, <1>2 DEF RequestKeeps, SettledInv, Attached, Variant
<1>4. \A v \in Variant \ asked : head'[v] = head[v] /\ (Wanted(v)' <=> Wanted(v))
  BY <1>1 DEF RequestKeeps
<1>5. {v \in Variant : Owner(v) \in fresh}' \subseteq {v \in Variant : Owner(v) \in fresh} \ asked
  BY <1>1 DEF RequestKeeps, Owner
<1>6. UNCHANGED <<{b \in box : On(b)}, "stop" \in harm>> BY <1>1 DEF RequestKeeps
<1> HIDE DEF asked
<1>7. \A v \in Variant \ asked :
        v \in {w \in Variant : Wanted(w)}' <=> v \in {w \in Variant : Wanted(w)}
  BY <1>4
<1>8. {w \in Variant : Wanted(w)}' \subseteq Variant OBVIOUS
<1>9. R!Ask(asked) BY <1>2, <1>3, <1>4, <1>5, <1>6, <1>7, <1>8 DEF R!Ask
<1>10. asked \in SUBSET Variant BY DEF asked
<1> QED BY <1>9, <1>10 DEF R!Next

LEMMA BeginRefines == ASSUME TypeOK, Begin PROVE R!Next
<1>1. UNCHANGED <<desired, box, harm>> BY DEF Begin
<1>2. CASE UNCHANGED fresh BY <1>1, <1>2, NothingMoves DEF Running
<1>3. CASE fresh' = fresh \cup pass'.specs
  <2> DEFINE seen == {v \in Variant : Owner(v) \in pass'.specs}
  <2>1. {v \in Variant : Owner(v) \in fresh}' = {v \in Variant : Owner(v) \in fresh} \cup seen
    BY <1>3 DEF Owner
  <2>2. UNCHANGED <<head, {v \in Variant : Wanted(v)}, {b \in box : On(b)}, "stop" \in harm>>
    BY <1>1 DEF desired, Wanted
  <2>3. R!Read(seen) BY <2>1, <2>2 DEF R!Read
  <2>4. seen \in SUBSET Variant OBVIOUS
  <2> QED BY <2>3, <2>4 DEF R!Next
<1> QED BY <1>2, <1>3, BeginReads

LEMMA RolloutInit == ASSUME Init PROVE R!Init
<1>1. head \in [Variant -> Nat] BY DEF Init
<1>2. box = {} /\ fresh = {} /\ harm = {} BY DEF Init
<1> QED BY <1>1, <1>2 DEF R!Init

LEMMA RolloutStep ==
  ASSUME TypeOK, WriterInv, VersionsGrow, PassInv, SettledInv, [Next]_vars
  PROVE  [R!Next]_R!vars
<1> USE DEF Steps, NoFault, Fault, rows, history, counters, daemon
<1>1. CASE Asks BY <1>1, AskRefines, TypeNext
<1>2. CASE Begin BY <1>2, BeginRefines
<1>3. CASE StartContainer BY <1>3, StartRefines
<1>4. ASSUME NEW b \in box, StopOld(b) PROVE R!Next
  <2>1. On(b) => ~Needed(b)
    BY <1>4 DEF StopOld, Needed, R!Current, SettledInv, PassInv, OldIsOwn, Deploying
  <2>2. CASE On(b) BY <1>4, <2>1, <2>2, StopRefines DEF StopOld
  <2>3. CASE ~On(b)
    <3>1. Running' = Running
      BY <1>4, <2>3 DEF StopOld, StopAndRemove, Running, On, TypeOK, Container
    <3> QED BY <1>4, <3>1, NothingMoves DEF StopOld, StopAndRemove
  <2> QED BY <2>2, <2>3
<1>5. ASSUME NEW b \in box, PruneStop(b) PROVE R!Next
  <2>1. ~Needed(b) BY <1>5 DEF PruneStop, Needed, PassInv
  <2> QED BY <1>5, <2>1, StopRefines DEF PruneStop
<1>6. ASSUME NEW b \in box, TeardownStop(b) PROVE R!Next
  <2>1. ~Needed(b) BY <1>6 DEF TeardownStop, Needed, PassInv
  <2> QED BY <1>6, <2>1, StopRefines DEF TeardownStop
<1>7. CASE SkipQueued
  BY <1>7, NothingMoves DEF SkipQueued, Running
<1>8. ASSUME NEW v \in Variant, ReadHead(v) PROVE R!Next
  BY <1>8, NothingMoves DEF ReadHead, Running
<1>9. CASE Previews
  BY <1>9, NothingMoves DEF Previews, Running
<1>10. CASE ListContainers
  BY <1>10, NothingMoves DEF ListContainers, Running
<1>11. CASE Clone
  BY <1>11, NothingMoves DEF Clone, Running
<1>12. CASE Build
  BY <1>12, NothingMoves DEF Build, Running
<1>13. CASE Stopped
  BY <1>13, NothingMoves DEF Stopped, Running
<1>14. CASE ProvisionData
  BY <1>14, NothingMoves DEF ProvisionData, Running
<1>15. CASE CreateContainer
  <2>1. Running' = Running BY <1>15 DEF CreateContainer, Created, Running, On
  <2> QED BY <1>15, <2>1, NothingMoves DEF CreateContainer
<1>16. CASE Publish
  BY <1>16, NothingMoves DEF Publish, Running
<1>17. CASE EndRepoPass
  BY <1>17, NothingMoves DEF EndRepoPass, Running
<1>18. CASE BeginPrune
  BY <1>18, NothingMoves DEF BeginPrune, Running
<1>19. CASE PruneForget
  BY <1>19, NothingMoves DEF PruneForget, Running
<1>20. CASE EndFullPass
  BY <1>20, NothingMoves DEF EndFullPass, Running
<1>21. CASE BeginTeardown
  BY <1>21, NothingMoves DEF BeginTeardown, Running
<1>22. CASE EndTeardown
  BY <1>22, NothingMoves DEF EndTeardown, Running
<1>23. CASE AskToStop
  BY <1>23, NothingMoves DEF AskToStop, Running
<1>24. CASE Crash
  BY <1>24, NothingMoves DEF Crash, Running
<1>25. CASE Boot
  BY <1>25, NothingMoves DEF Boot, Running
<1>26. CASE UNCHANGED vars
  BY <1>26, NothingMoves DEF vars, Running, desired
<1> QED
  BY <1>1, <1>2, <1>3, <1>4, <1>5, <1>6, <1>7, <1>8, <1>9, <1>10, <1>11, <1>12, <1>13,
     <1>14, <1>15, <1>16, <1>17, <1>18, <1>19, <1>20, <1>21, <1>22, <1>23, <1>24, <1>25,
     <1>26 DEF Next, PassStep

-------------------------------------------------------------------------------
\* Theorems.

\* Every variable keeps its type: no queue, pass or row holds what it should
\* not, for any apps, changes, ports and bounds.
THEOREM ReconcilerTypes == Spec => []TypeOK
BY TypeInit, TypeNext, PTL DEF Spec

\* Single writer: as long as no stop has failed, no two containers of one
\* variant run at once, whatever else fails and wherever the daemon dies.
THEOREM OneContainerWrites == Spec => []OneWriter
<1>1. WriterInv => OneWriter
  BY DEF WriterInv, OneWriter
<1> QED BY <1>1, WriterInit, WriterNext, ReconcilerTypes, PTL DEF Spec

\* Isolation of the routes: as long as no deploy was cut short, the gate never
\* sends a request for one variant to the container of another.
THEOREM RoutesLeadHome == Spec => []RoutesAreOwn
<1>1. RouteInv => RoutesAreOwn
  BY DEF RouteInv, RoutesAreOwn
<1> QED BY <1>1, RouteInit, RouteNext, ReconcilerTypes, PTL DEF Spec

\* Availability: an app that came up stays up through failures to read, clone
\* and build, and through the prunes of other passes.
THEOREM AppsKeepServing == Spec => []KeepsServing
<1>1. KeepInv => KeepsServing
  BY DEF KeepInv, KeepsServing
<1> QED BY <1>1, KeepInit, KeepNext, ReconcilerTypes, PTL DEF Spec

\* A full pass that nothing overtook and whose engine calls did not fail leaves
\* no container that nobody asks for.
THEOREM PassesSweep == Spec => []PassSweeps
<1>1. SweepInv => PassSweeps
  BY DEF SweepInv, PassSweeps, Settled
<1> QED BY <1>1, SweepInit, SweepNext, ReconcilerTypes, PTL DEF Spec

\* A platform that was stopped by its operator leaves no container running.
THEOREM TeardownLeavesNone == Spec => []TeardownIsClean
<1>1. TeardownInv => TeardownIsClean
  BY DEF TeardownInv
<1> QED BY <1>1, TeardownInit, TeardownNext, ReconcilerTypes, PTL DEF Spec

\* Convergence: a pass over an app that nothing overtook and in which no call
\* failed leaves the app and its previews running their branches' commits behind
\* their routes, whatever crashes and half-done deploys came before it.
THEOREM PassesServe == Spec => []PassServes
<1> DEFINE PInv == VersionsGrow /\ RowsStay /\ PassInv /\ ServeInv
<1>1. Init => PInv
  BY GroundInit, ServeInit
<1>2. TypeOK /\ PInv /\ [Next]_vars => PInv'
  BY GrowNext, RowsNext, PassNext, ServeNext
<1>3. PInv => PassServes
  BY DEF PassInv, ServeInv, PassServes, Settled, Fulfilled, InHand, Deploying
<1> QED BY <1>1, <1>2, <1>3, ReconcilerTypes, PTL DEF Spec

\* The reconciler, with its passes, failures and crashes, implements Rollout: one container
\* of a branch at a time, of a commit it had; and a settled branch is given what it asks for
\* and keeps it.
THEOREM RolloutIsKept == Spec => ImplementsRollout
<1> DEFINE Inv == WriterInv /\ VersionsGrow /\ PassInv /\ SettledInv
<1>1. Init => Inv BY WriterInit, GroundInit, ServeInit, SettledInit
<1>2. TypeOK /\ Inv /\ [Next]_vars => Inv' BY WriterNext, GrowNext, PassNext, SettledNext
<1>3. TypeOK /\ Inv /\ [Next]_vars => [R!Next]_R!vars BY RolloutStep
<1>4. Init => R!Init BY RolloutInit
<1> QED BY <1>1, <1>2, <1>3, <1>4, ReconcilerTypes, PTL DEF Spec, ImplementsRollout, R!Spec

\* So it keeps what Rollout promises: no two containers of a branch at once, and no restart
\* of one that is what the branch asks for.
THEOREM ServedIsLeftAlone == Spec => []R!OneEach /\ R!LeftAlone
<1>1. R!Init => R!OneEach BY DEF R!Init, R!OneEach
<1>2. R!OneEach /\ [R!Next]_R!vars => R!OneEach'
  BY DEF R!OneEach, R!Next, R!vars, R!Ask, R!Read, R!Unsettle, R!Start, R!Stop
<1>3. [R!Next]_R!vars => [R!LeavesAlone]_R!vars
  BY DEF R!LeavesAlone, R!Next, R!vars, R!Ask, R!Read, R!Unsettle, R!Start, R!Stop
<1>4. Spec => R!Spec BY RolloutIsKept DEF ImplementsRollout
<1> QED BY <1>1, <1>2, <1>3, <1>4, PTL DEF R!Spec, R!LeftAlone
===============================================================================
