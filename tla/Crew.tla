--------------------------------- MODULE Crew ---------------------------------
(***************************************************************************)
(* The crew dispatcher (packages/opd/src/crew/dispatcher.ts) driving work  *)
(* items from queued to shipped, together with the forge verbs a human     *)
(* uses on the same items (packages/forge/src/forge.ts), the store they    *)
(* share (packages/store/src/index.ts) and the commits of the items'       *)
(* branches in git.                                                        *)
(*                                                                         *)
(* The daemon is one JavaScript process: between two awaits nothing else   *)
(* runs, so one action below is what happens from the end of one await to  *)
(* the beginning of the next.  Everything a human or another item's job    *)
(* does while a job waits is an interleaving of actions.  The store and    *)
(* git survive a crash of the daemon; pc, resumed, repair and the merges   *)
(* in flight are memory, and do not.                                       *)
(*                                                                         *)
(* Abstracted: the callers are authorised for what they do; the items      *)
(* belong to one owner (addWorkDep rejects edges between owners);          *)
(* comments, costs and verdict texts; what the agents write.  A verdict,   *)
(* a preview that comes up or not, a failing git command are choices.      *)
(***************************************************************************)
EXTENDS WorkPhases, Integers, FiniteSets

CONSTANTS
  Items,            \* the work items that can be filed
  ProposalOnly,     \* the items of self repos and templates: no preview, no auto-merge
  MaxRework,        \* crew.maxRework of the platform settings
  Credentialed,     \* runAgent and oauthToken are configured
  MaxRequeues,      \* bound: how often a human queues each item
  MaxCrashes        \* bound: how often the daemon crashes

ASSUME CrewAssumption ==
  /\ ProposalOnly \subseteq Items
  /\ MaxRework \in Nat
  /\ MaxRequeues \in Nat
  /\ MaxCrashes \in Nat
  /\ Credentialed \in BOOLEAN

VARIABLES
  phase,            \* issues.phase, "none" before the item is filed
  change,           \* issues.change_state
  head,             \* issues.head_ref: no branch, a human's, or agent/issue-N
  deps,             \* work_deps: <<i, j>> when i is blocked by j
  attempts,         \* rows of the item's work_attempts ledger, numbered 1..n
  reworks,          \* how many of those rows a failed review opened (history)
  branch,           \* agent/issue-N in git: the attempt it was last pushed by, 0 if none
  landed,           \* the commits of the item's branches that are in main
  pc,               \* where the item's job (process or resumeReview) waits
  resumed,          \* the job is a resumeReview: no .catch is attached to it
  humanMerge,       \* a human's mergeWork in flight: the commit it merges
  repair,           \* the boot sweep's isAncestor check in flight
  daemon,           \* up; down after a crash; rejected after an unhandled rejection
  requeues,         \* counters for the two bounds
  crashes

store  == <<phase, change, head, deps, attempts, reworks>>
gitRefs == <<branch, landed>>
memory == <<pc, resumed, humanMerge, repair, daemon>>
bounds == <<requeues, crashes>>
vars   == <<store, gitRefs, memory, bounds>>

\* The awaits of process(), reviewLoop() and resumeReview() a job can be at.
JobPoints == {"idle", "build", "attach", "unwind", "attached", "preview",
              "review", "merge", "merged", "rework", "pushed", "rebuild"}

\* The sweep's check of a parked item holds the head_ref it read in the row.
RepairPoints == {"none", "human", "agent", "landed"}

\* A branch is known by the commit it points at: 0 is the human's branch, n the
\* agent branch as attempt n pushed it.
Commit(i, ref) == IF ref = "human" THEN 0 ELSE branch[i]

\* A human's merge holds the commit it cloned until main has it.
NoMerge == -1
Merged  == -2

PhaseOK == phase \in [Items -> Phases \cup {"none"}]

StoreOK ==
  /\ PhaseOK
  /\ change \in [Items -> {"none", "open", "merged", "closed"}]
  /\ head \in [Items -> {"none", "human", "agent"}]
  /\ deps \subseteq Items \X Items
  /\ attempts \in [Items -> Nat]
  /\ reworks \in [Items -> Nat]

GitOK ==
  /\ branch \in [Items -> Nat]
  /\ landed \in [Items -> SUBSET Nat]

MemoryOK ==
  /\ pc \in [Items -> JobPoints]
  /\ resumed \in [Items -> BOOLEAN]
  /\ humanMerge \in [Items -> Nat \cup {NoMerge, Merged}]
  /\ repair \in [Items -> RepairPoints]
  /\ daemon \in {"up", "down", "rejected"}

BoundsOK ==
  /\ requeues \in [Items -> Nat]
  /\ crashes \in Nat

TypeOK == StoreOK /\ GitOK /\ MemoryOK /\ BoundsOK

Init ==
  /\ phase = [i \in Items |-> "none"]
  /\ change = [i \in Items |-> "none"]
  /\ head = [i \in Items |-> "none"]
  /\ deps = {}
  /\ attempts = [i \in Items |-> 0]
  /\ reworks = [i \in Items |-> 0]
  /\ branch = [i \in Items |-> 0]
  /\ landed = [i \in Items |-> {}]
  /\ pc = [i \in Items |-> "idle"]
  /\ resumed = [i \in Items |-> FALSE]
  /\ humanMerge = [i \in Items |-> NoMerge]
  /\ repair = [i \in Items |-> "none"]
  /\ daemon = "up"
  /\ requeues = [i \in Items |-> 0]
  /\ crashes = 0

-------------------------------------------------------------------------------
(***************************************************************************)
(* The store: transitions and the dependency graph.                        *)
(***************************************************************************)

\* setWorkPhase fires only along a legal edge; otherwise it throws.
CanMove(i, to) == phase[i] \in WorkEdges[to]
MoveTo(i, to)  == phase' = [phase EXCEPT ![i] = to]

\* Variant: a closed blocker keeps blocking.
OpenBlockersUnlessShipped(i) ==
  {j \in Items : <<i, j>> \in deps /\ phase[j] # "shipped"}

\* openWorkBlockers: the blockers whose phase is not terminal.
OpenBlockers(i) == {j \in Items : <<i, j>> \in deps /\ phase[j] \notin Terminal}

\* j is x or a transitive blocker of x: it is in every set that holds x and
\* is closed under "blocked by".
DependsOn(x, j) ==
  \A R \in SUBSET Items :
    (x \in R /\ \A e \in deps : e[1] \in R => e[2] \in R) => j \in R

(***************************************************************************)
(* How a job ends.  A job started by tick() swallows what it throws; a job *)
(* started by sweepStranded() has no .catch, so what it throws is an       *)
(* unhandled rejection and the process exits with all its memory.          *)
(***************************************************************************)
LoseMemory(how) ==
  /\ pc' = [i \in Items |-> "idle"]
  /\ resumed' = [i \in Items |-> FALSE]
  /\ humanMerge' = [i \in Items |-> NoMerge]
  /\ repair' = [i \in Items |-> "none"]
  /\ daemon' = how

JobAt(i, p) ==
  /\ pc' = [pc EXCEPT ![i] = p]
  /\ UNCHANGED <<resumed, humanMerge, repair, daemon>>

JobEnds(i) ==
  /\ pc' = [pc EXCEPT ![i] = "idle"]
  /\ resumed' = [resumed EXCEPT ![i] = FALSE]
  /\ UNCHANGED <<humanMerge, repair, daemon>>

JobThrows(i) == IF resumed[i] THEN LoseMemory("rejected") ELSE JobEnds(i)

\* Variant: the job returns without parking.
ParkForgotten(i) == UNCHANGED phase /\ JobEnds(i)

Park(i) ==
  \/ /\ CanMove(i, "parked")
     /\ MoveTo(i, "parked")
     /\ JobEnds(i)
  \/ /\ ~CanMove(i, "parked")
     /\ UNCHANGED phase
     /\ JobThrows(i)

Up == daemon = "up"

-------------------------------------------------------------------------------
(***************************************************************************)
(* What a human does through the API.                                      *)
(***************************************************************************)

\* createWork: a plain intent, an item filed with agent-work, or an item
\* filed with a branch the human pushed.
File(i, born) ==
  /\ Up
  /\ phase[i] = "none"
  /\ born \in BirthPhases
  /\ MoveTo(i, born)
  /\ change' = [change EXCEPT ![i] = IF born = "reviewing" THEN "open" ELSE "none"]
  /\ head' = [head EXCEPT ![i] = IF born = "reviewing" THEN "human" ELSE "none"]
  /\ UNCHANGED <<deps, attempts, reworks, gitRefs, memory, bounds>>

\* Variant: the enqueue verb stamps the phase without looking at it.
QueueUnchecked(i) ==
  /\ Up
  /\ requeues[i] < MaxRequeues
  /\ phase[i] \notin Terminal \cup {"none"}
  /\ MoveTo(i, "queued")
  /\ requeues' = [requeues EXCEPT ![i] = @ + 1]
  /\ UNCHANGED <<change, head, deps, attempts, reworks, gitRefs, memory, crashes>>

\* queueWork, and setIssueLabels when it adds agent-work.
Queue(i) ==
  /\ Up
  /\ requeues[i] < MaxRequeues
  /\ CanMove(i, "queued")
  /\ MoveTo(i, "queued")
  /\ requeues' = [requeues EXCEPT ![i] = @ + 1]
  /\ UNCHANGED <<change, head, deps, attempts, reworks, gitRefs, memory, crashes>>

\* closeWork: from any non-terminal phase; an open change closes with it.
Close(i) ==
  /\ Up
  /\ CanMove(i, "closed")
  /\ MoveTo(i, "closed")
  /\ change' = [change EXCEPT ![i] = IF @ = "open" THEN "closed" ELSE @]
  /\ UNCHANGED <<head, deps, attempts, reworks, gitRefs, memory, bounds>>

\* Variant: no phase gate.
AddWorkDepAnytime(i, j) ==
  /\ Up
  /\ i # j
  /\ phase[i] # "none" /\ phase[j] # "none"
  /\ ~DependsOn(j, i)
  /\ deps' = deps \cup {<<i, j>>}
  /\ UNCHANGED <<phase, change, head, attempts, reworks, gitRefs, memory, bounds>>

\* Variant: an item may not block itself, and that is all.
AddWorkDepUnchecked(i, j) ==
  /\ Up
  /\ i # j
  /\ phase[j] # "none"
  /\ phase[i] \in {"intent", "queued"}
  /\ deps' = deps \cup {<<i, j>>}
  /\ UNCHANGED <<phase, change, head, attempts, reworks, gitRefs, memory, bounds>>

\* addWorkDep: only before the crew claims the item, and never a cycle.
AddWorkDep(i, j) ==
  /\ Up
  /\ i # j
  /\ phase[j] # "none"
  /\ phase[i] \in {"intent", "queued"}
  /\ ~DependsOn(j, i)
  /\ deps' = deps \cup {<<i, j>>}
  /\ UNCHANGED <<phase, change, head, attempts, reworks, gitRefs, memory, bounds>>

RemoveWorkDep(i, j) ==
  /\ Up
  /\ <<i, j>> \in deps
  /\ deps' = deps \ {<<i, j>>}
  /\ UNCHANGED <<phase, change, head, attempts, reworks, gitRefs, memory, bounds>>

\* mergeWork by a human: any phase will do as long as the change is open.  The
\* clone that mergeBranch makes at once fixes the commit it will merge.
HumanMerge(i) ==
  /\ Up
  /\ humanMerge[i] = NoMerge
  /\ change[i] = "open"
  /\ head[i] # "none"
  /\ humanMerge' = [humanMerge EXCEPT ![i] = Commit(i, head[i])]
  /\ UNCHANGED <<store, gitRefs, pc, resumed, repair, daemon, bounds>>

\* mergeBranch pushes main; the caller has yet to write it down.
HumanMergeLands(i) ==
  /\ humanMerge[i] \in Nat
  /\ landed' = [landed EXCEPT ![i] = @ \cup {humanMerge[i]}]
  /\ humanMerge' = [humanMerge EXCEPT ![i] = Merged]
  /\ UNCHANGED <<store, branch, pc, resumed, repair, daemon, bounds>>

HumanMergeFails(i) ==
  /\ humanMerge[i] \in Nat
  /\ humanMerge' = [humanMerge EXCEPT ![i] = NoMerge]
  /\ UNCHANGED <<store, gitRefs, pc, resumed, repair, daemon, bounds>>

\* Variant: the change is written before the transition is tried.
HumanMergeReturnsChangeFirst(i) ==
  /\ humanMerge[i] = Merged
  /\ humanMerge' = [humanMerge EXCEPT ![i] = NoMerge]
  /\ change' = [change EXCEPT ![i] = "merged"]
  /\ phase' = IF CanMove(i, "shipped") THEN [phase EXCEPT ![i] = "shipped"] ELSE phase
  /\ UNCHANGED <<head, deps, attempts, reworks, gitRefs, pc, resumed, repair,
                 daemon, bounds>>

\* Variant: the transition is not a compare-and-swap.
HumanMergeReturnsUnchecked(i) ==
  /\ humanMerge[i] = Merged
  /\ humanMerge' = [humanMerge EXCEPT ![i] = NoMerge]
  /\ MoveTo(i, "shipped")
  /\ change' = [change EXCEPT ![i] = "merged"]
  /\ UNCHANGED <<head, deps, attempts, reworks, gitRefs, pc, resumed, repair,
                 daemon, bounds>>

\* The tail of mergeWork: an illegal transition leaves the row as it is and
\* is reported to the caller, though main already has the code.
HumanMergeReturns(i) ==
  /\ humanMerge[i] = Merged
  /\ humanMerge' = [humanMerge EXCEPT ![i] = NoMerge]
  /\ \/ /\ CanMove(i, "shipped")
        /\ MoveTo(i, "shipped")
        /\ change' = [change EXCEPT ![i] = "merged"]
     \/ /\ ~CanMove(i, "shipped")
        /\ UNCHANGED <<phase, change>>
  /\ UNCHANGED <<head, deps, attempts, reworks, gitRefs, pc, resumed, repair,
                 daemon, bounds>>

Human(i) ==
  \/ \E born \in BirthPhases : File(i, born)
  \/ Queue(i) \/ Close(i) \/ HumanMerge(i)
  \/ \E j \in Items : AddWorkDep(i, j) \/ RemoveWorkDep(i, j)

-------------------------------------------------------------------------------
(***************************************************************************)
(* tick() and process(): claim, build, attach.                             *)
(***************************************************************************)

\* The claim, the new ledger row and the start of runBuilder are one
\* synchronous stretch.  A job of the item that has not settled holds it
\* back through the inflight set.
Tick(i) ==
  /\ Up
  /\ Credentialed
  /\ phase[i] = "queued"
  /\ pc[i] = "idle"
  /\ OpenBlockers(i) = {}
  /\ MoveTo(i, "building")
  /\ attempts' = [attempts EXCEPT ![i] = @ + 1]
  /\ JobAt(i, "build")
  /\ UNCHANGED <<change, head, deps, reworks, gitRefs, bounds>>

\* runBuilder returned an error or the agent declined.
BuildParks(i) ==
  /\ pc[i] \in {"build", "unwind"}
  /\ Park(i)
  /\ UNCHANGED <<change, head, deps, attempts, reworks, gitRefs, bounds>>

\* The driver force-pushes a branch cut from main.
BuildPushes(i) ==
  /\ pc[i] = "build"
  /\ branch' = [branch EXCEPT ![i] = attempts[i]]
  /\ JobAt(i, "attach")
  /\ UNCHANGED <<store, landed, bounds>>

\* Forge.attachChange writes the refs first, whatever the phase, and only
\* then moves to reviewing; from queued it re-asserts the claim.
AttachChange(i) ==
  /\ pc[i] = "attach"
  /\ head' = [head EXCEPT ![i] = "agent"]
  /\ change' = [change EXCEPT ![i] = "open"]
  /\ LET taken == CanMove(i, "reviewing") \/ CanMove(i, "building")
     IN  /\ phase' = IF taken THEN [phase EXCEPT ![i] = "reviewing"] ELSE phase
         /\ JobAt(i, IF taken THEN "attached" ELSE "unwind")
  /\ UNCHANGED <<deps, attempts, reworks, gitRefs, bounds>>

\* ... or does not come to them: the head of a branch cannot be read, and the builder
\* returns the error.
AttachFails(i) ==
  /\ pc[i] = "attach"
  /\ JobAt(i, "unwind")
  /\ UNCHANGED <<store, gitRefs, bounds>>

\* Variant: the proposal is not parked for its human.
ProposeOnly(i) ==
  /\ pc[i] = "attached"
  /\ i \in ProposalOnly
  /\ JobEnds(i)
  /\ UNCHANGED <<store, gitRefs, bounds>>

\* Self repos and templates are proposed to a human.
Propose(i) ==
  /\ pc[i] = "attached"
  /\ i \in ProposalOnly
  /\ Park(i)
  /\ UNCHANGED <<change, head, deps, attempts, reworks, gitRefs, bounds>>

\* Variant: the wait for the preview is stamped as a phase of its own.
AwaitPreviewStamped(i) ==
  /\ pc[i] = "attached"
  /\ i \notin ProposalOnly
  /\ MoveTo(i, "previewing")
  /\ JobAt(i, "preview")
  /\ UNCHANGED <<change, head, deps, attempts, reworks, gitRefs, bounds>>

AwaitPreview(i) ==
  /\ pc[i] = "attached"
  /\ i \notin ProposalOnly
  /\ JobAt(i, "preview")
  /\ UNCHANGED <<store, gitRefs, bounds>>

-------------------------------------------------------------------------------
(***************************************************************************)
(* reviewLoop(): preview, review, merge or rework.                         *)
(***************************************************************************)

\* Only deployed apps have previews.
PreviewUp(i) ==
  /\ pc[i] \in {"preview", "rebuild"}
  /\ i \notin ProposalOnly
  /\ JobAt(i, "review")
  /\ UNCHANGED <<store, gitRefs, bounds>>

PreviewNeverUp(i) ==
  /\ pc[i] \in {"preview", "rebuild"}
  /\ Park(i)
  /\ UNCHANGED <<change, head, deps, attempts, reworks, gitRefs, bounds>>

\* The attempt under review: the last row of the ledger, 1 when it is empty.
AttemptNo(i) == IF attempts[i] = 0 THEN 1 ELSE attempts[i]

\* Pass or concerns: mergeWork re-reads the row before it starts the merge.
ReviewPasses(i) ==
  /\ pc[i] = "review"
  /\ \/ /\ change[i] = "open"
        /\ UNCHANGED phase
        /\ JobAt(i, "merge")
     \/ /\ change[i] # "open"
        /\ Park(i)
  /\ UNCHANGED <<change, head, deps, attempts, reworks, gitRefs, bounds>>

\* Untestable, or the reviewer could not run.
ReviewUntestable(i) ==
  /\ pc[i] = "review"
  /\ Park(i)
  /\ UNCHANGED <<change, head, deps, attempts, reworks, gitRefs, bounds>>

ReworkExhausted(i) ==
  /\ pc[i] = "review"
  /\ AttemptNo(i) > MaxRework
  /\ Park(i)
  /\ UNCHANGED <<change, head, deps, attempts, reworks, gitRefs, bounds>>

\* Variant: a rework opens no row of the ledger.
ReworkStartsUncounted(i) ==
  /\ pc[i] = "review"
  /\ AttemptNo(i) <= MaxRework
  /\ CanMove(i, "reworking")
  /\ MoveTo(i, "reworking")
  /\ reworks' = [reworks EXCEPT ![i] = @ + 1]
  /\ JobAt(i, "rework")
  /\ UNCHANGED <<change, head, deps, attempts, gitRefs, bounds>>

\* Fail, or a verdict the parser does not know.
ReworkStarts(i) ==
  /\ pc[i] = "review"
  /\ AttemptNo(i) <= MaxRework
  /\ \/ /\ CanMove(i, "reworking")
        /\ MoveTo(i, "reworking")
        /\ attempts' = [attempts EXCEPT ![i] = @ + 1]
        /\ reworks' = [reworks EXCEPT ![i] = @ + 1]
        /\ JobAt(i, "rework")
     \/ /\ ~CanMove(i, "reworking")
        /\ UNCHANGED <<phase, attempts, reworks>>
        /\ JobThrows(i)
  /\ UNCHANGED <<change, head, deps, gitRefs, bounds>>

ReworkParks(i) ==
  /\ pc[i] = "rework"
  /\ Park(i)
  /\ UNCHANGED <<change, head, deps, attempts, reworks, gitRefs, bounds>>

\* A rework checks out origin/agent/issue-N: without one the build fails.
ReworkPushes(i) ==
  /\ pc[i] = "rework"
  /\ branch[i] > 0
  /\ branch' = [branch EXCEPT ![i] = attempts[i]]
  /\ JobAt(i, "pushed")
  /\ UNCHANGED <<store, landed, bounds>>

ReworkReturns(i) ==
  /\ pc[i] = "pushed"
  /\ \/ /\ CanMove(i, "reviewing")
        /\ MoveTo(i, "reviewing")
        /\ JobAt(i, "rebuild")
     \/ /\ ~CanMove(i, "reviewing")
        /\ UNCHANGED phase
        /\ JobThrows(i)
  /\ UNCHANGED <<change, head, deps, attempts, reworks, gitRefs, bounds>>

CrewMergeLands(i) ==
  /\ pc[i] = "merge"
  /\ landed' = [landed EXCEPT ![i] = @ \cup {Commit(i, head[i])}]
  /\ JobAt(i, "merged")
  /\ UNCHANGED <<store, branch, bounds>>

CrewMergeFails(i) ==
  /\ pc[i] = "merge"
  /\ Park(i)
  /\ UNCHANGED <<change, head, deps, attempts, reworks, gitRefs, bounds>>

CrewMergeReturns(i) ==
  /\ pc[i] = "merged"
  /\ \/ /\ CanMove(i, "shipped")
        /\ MoveTo(i, "shipped")
        /\ change' = [change EXCEPT ![i] = "merged"]
        /\ JobEnds(i)
     \/ /\ ~CanMove(i, "shipped")
        /\ Park(i)
        /\ UNCHANGED change
  /\ UNCHANGED <<head, deps, attempts, reworks, gitRefs, bounds>>

\* Every step by which a job that waits goes on.
Job(i) ==
  \/ BuildParks(i) \/ BuildPushes(i) \/ AttachChange(i) \/ AttachFails(i)
  \/ Propose(i) \/ AwaitPreview(i) \/ PreviewUp(i) \/ PreviewNeverUp(i)
  \/ ReviewPasses(i) \/ ReviewUntestable(i) \/ ReworkExhausted(i)
  \/ ReworkStarts(i) \/ ReworkParks(i) \/ ReworkPushes(i) \/ ReworkReturns(i)
  \/ CrewMergeLands(i) \/ CrewMergeFails(i) \/ CrewMergeReturns(i)

MergeGoesOn(i) == HumanMergeLands(i) \/ HumanMergeFails(i) \/ HumanMergeReturns(i)

-------------------------------------------------------------------------------
(***************************************************************************)
(* Crash and restart.                                                      *)
(***************************************************************************)

Crash ==
  /\ Up
  /\ crashes < MaxCrashes
  /\ crashes' = crashes + 1
  /\ LoseMemory("down")
  /\ UNCHANGED <<store, gitRefs, requeues>>

\* Variant: the sweep re-queues builds and forgets reworks.
RestartSweepsBuilds ==
  /\ ~Up
  /\ LET resume == {i \in Items : phase[i] = "reviewing" /\ head[i] # "none" /\ Credentialed}
     IN  /\ pc' = [i \in Items |-> IF i \in resume THEN "preview" ELSE "idle"]
         /\ resumed' = [i \in Items |-> i \in resume]
  /\ phase' = [i \in Items |-> IF phase[i] = "building" THEN "queued" ELSE phase[i]]
  /\ daemon' = "up"
  /\ UNCHANGED <<change, head, deps, attempts, reworks, gitRefs, humanMerge, repair, bounds>>

\* sweepStranded: a merge check for the parked items, builds back to queued
\* (parked, then queued), reviews resumed.
Restart ==
  /\ ~Up
  /\ LET resume == {i \in Items : phase[i] = "reviewing" /\ head[i] # "none" /\ Credentialed}
         check  == {i \in Items : phase[i] = "parked" /\ change[i] = "open" /\ head[i] # "none"}
     IN  /\ pc' = [i \in Items |-> IF i \in resume THEN "preview" ELSE "idle"]
         /\ resumed' = [i \in Items |-> i \in resume]
         /\ repair' = [i \in Items |-> IF i \in check THEN head[i] ELSE "none"]
  /\ phase' = [i \in Items |-> IF phase[i] \in {"building", "reworking"}
                               THEN "queued" ELSE phase[i]]
  /\ daemon' = "up"
  /\ UNCHANGED <<change, head, deps, attempts, reworks, gitRefs, humanMerge, bounds>>

\* Variant: a parked item with an open change is taken for merged.
RepairUnchecked(i) ==
  /\ repair[i] \in {"human", "agent"}
  /\ repair' = [repair EXCEPT ![i] = "landed"]
  /\ UNCHANGED <<store, gitRefs, pc, resumed, humanMerge, daemon, bounds>>

\* git merge-base --is-ancestor of the branch the sweep read; a failure of git
\* reads as not merged.
RepairChecks(i) ==
  /\ repair[i] \in {"human", "agent"}
  /\ \E answer \in {"landed", "none"} :
       /\ answer = "landed" => Commit(i, repair[i]) \in landed[i]
       /\ repair' = [repair EXCEPT ![i] = answer]
  /\ UNCHANGED <<store, gitRefs, pc, resumed, humanMerge, daemon, bounds>>

\* The row is read again after the check; both writes follow at once.
RepairWrites(i) ==
  /\ repair[i] = "landed"
  /\ repair' = [repair EXCEPT ![i] = "none"]
  /\ \/ /\ phase[i] = "parked" /\ change[i] = "open"
        /\ MoveTo(i, "shipped")
        /\ change' = [change EXCEPT ![i] = "merged"]
     \/ /\ ~(phase[i] = "parked" /\ change[i] = "open")
        /\ UNCHANGED <<phase, change>>
  /\ UNCHANGED <<head, deps, attempts, reworks, gitRefs, pc, resumed, humanMerge,
                 daemon, bounds>>

Repair(i) == RepairChecks(i) \/ RepairWrites(i)

Next ==
  \/ \E i \in Items : Human(i) \/ MergeGoesOn(i) \/ Tick(i) \/ Job(i) \/ Repair(i)
  \/ Crash \/ Restart

Spec == Init /\ [][Next]_vars

\* The tick is a timer, every await of a job and of a merge is bounded by a
\* timeout, and the supervisor restarts a daemon that died.  Nothing makes a
\* human act or a crash happen.
Fairness ==
  /\ WF_vars(Restart)
  /\ \A i \in Items :
       WF_vars(Tick(i)) /\ WF_vars(Job(i)) /\ WF_vars(MergeGoesOn(i)) /\ WF_vars(Repair(i))

FairSpec == Spec /\ Fairness

-------------------------------------------------------------------------------
(***************************************************************************)
(* Properties.                                                             *)
(***************************************************************************)

\* The phases in which a waiting job may find its item.  No one but the job
\* moves the item, except a human who closes it or merges its branch.
OwnedPhases(p) ==
  CASE p \in {"build", "attach", "unwind"} -> {"building", "closed"}
    [] p \in {"rework", "pushed"}   -> {"reworking", "shipped", "closed"}
    [] p = "idle"                  -> Phases \cup {"none"}
    [] OTHER                       -> {"reviewing", "shipped", "closed"}

\* A job never finds its item taken over by another: after a crash, a re-queue
\* or a merge, an item in flight is in a phase its own job left it in, or a
\* human ended it.  In particular attachChange never finds the item back at
\* queued, the drift its self-heal is written for.
JobOwnsItem == \A i \in Items : phase[i] \in OwnedPhases(pc[i])

\* No item in flight is without a job while the daemon is up: sweepStranded
\* and the inflight set leave no building, reworking or crew-built reviewing
\* item behind.
NoOrphan ==
  Up /\ Credentialed =>
    \A i \in Items :
      /\ phase[i] = "building" => pc[i] \in {"build", "attach", "unwind"}
      /\ phase[i] = "reworking" => pc[i] \in {"rework", "pushed"}
      /\ phase[i] = "reviewing" /\ head[i] = "agent" => pc[i] # "idle"

\* The change follows the phase across two separate writes: what is reviewed
\* or reworked is open, what is shipped is merged and the converse, and only
\* a closed item carries a closed change.
ChangeFollowsPhase ==
  \A i \in Items :
    /\ phase[i] \in {"reviewing", "reworking"} => change[i] = "open"
    /\ phase[i] = "shipped" <=> change[i] = "merged"
    /\ change[i] = "closed" => phase[i] = "closed"

\* An item says shipped only if main has code of its branch, whether the
\* crew, a human or the boot sweep wrote it.
ShippedIsLanded == \A i \in Items : phase[i] = "shipped" => landed[i] # {}

\* Once an item has left the queue, and whatever happened to it since, all its
\* blockers are shipped or closed.
BlockersFirst ==
  \A i \in Items :
    phase[i] \in {"building", "reviewing", "reworking", "parked", "shipped"} =>
      \A j \in Items : <<i, j>> \in deps => phase[j] \in {"shipped", "closed"}

\* addWorkDep keeps the graph a DAG, so no items wait on each other forever.
Acyclic == \A e \in deps : ~DependsOn(e[2], e[1])

\* The ledger is the counter: no sequence of reviews, re-queues and crashes
\* gives an item more than maxRework reworks.
ReworkBudget == \A i \in Items : reworks[i] <= MaxRework

\* What the inductive argument for the invariants above rests on besides them.

\* A merge that has yet to be written down has reached main.
MergesLanded ==
  \A i \in Items :
    humanMerge[i] = Merged \/ pc[i] = "merged" \/ repair[i] = "landed" => landed[i] # {}

\* Both ends of an edge have been filed.
DepsFiled == \A e \in deps : phase[e[1]] # "none" /\ phase[e[2]] # "none"

\* Not every row of the ledger is a rework: the agent branch was first pushed by
\* a build, and the one rework of a human's branch cannot push.
LedgerOK ==
  \A i \in Items :
    /\ reworks[i] <= attempts[i]
    /\ branch[i] <= attempts[i]
    /\ pc[i] = "build" \/ branch[i] > 0 => reworks[i] < attempts[i]
    /\ pc[i] = "rework" => attempts[i] > 0
    /\ pc[i] = "pushed" => branch[i] > 0
    /\ reworks[i] = attempts[i] /\ attempts[i] > 0 =>
         phase[i] \in {"reworking", "parked", "queued", "shipped", "closed"}

\* A merge, of the crew, a human or the sweep, is of an item that carries a change.
MergesCarryChange ==
  \A i \in Items :
    /\ pc[i] \in {"merge", "merged"} \/ humanMerge[i] # NoMerge \/ repair[i] # "none"
         => change[i] # "none"
    /\ change[i] # "none" => phase[i] # "none"

\* The inductive invariant.
IInv ==
  /\ TypeOK
  /\ JobOwnsItem /\ NoOrphan
  /\ ChangeFollowsPhase
  /\ MergesLanded /\ MergesCarryChange /\ ShippedIsLanded
  /\ DepsFiled /\ BlockersFirst /\ Acyclic
  /\ LedgerOK /\ ReworkBudget

\* What each caller may rely on: Crew implements WorkItem.
WI == INSTANCE WorkItem WITH inMain <- {i \in Items : landed[i] # {}}
ImplementsWorkItem == WI!Spec

\* The crew always lets go of an item it took: it ends shipped, closed or
\* parked for a human, or a restart puts it back in the queue.
CrewLetsGo ==
  \A i \in Items :
    phase[i] \in {"building", "reworking"} ~>
      phase[i] \in {"shipped", "closed", "parked", "queued"}

\* An item does not wait in the queue forever while nothing blocks it.
QueueDrains ==
  \A i \in Items :
    ~<>[](/\ phase[i] = "queued"
          /\ \A j \in Items : <<i, j>> \in deps => phase[j] \in {"shipped", "closed"})

-------------------------------------------------------------------------------
(***************************************************************************)
(* What the repository says of the crew, and the code does not keep.       *)
(***************************************************************************)

\* "`closed` items with a change carry a closed one" (test/sim/invariants.ts):
\* a build that outlives a Close attaches an open change to the closed item.
ClosedChangeIsClosed ==
  \A i \in Items : phase[i] = "closed" /\ head[i] # "none" => change[i] = "closed"

\* A job's late transition is swallowed and logged, it does not take the daemon
\* down (the comment in tick()): a review resumed after a restart has no .catch.
DaemonSurvives == daemon # "rejected"

\* "a branch you push by hand enters the same review machinery as a crew
\* branch" (work-items.md): no reviewer looks at it until the daemon restarts.
HandPushedIsReviewed ==
  \A i \in Items : phase[i] = "reviewing" /\ Credentialed ~> phase[i] # "reviewing"
===============================================================================
