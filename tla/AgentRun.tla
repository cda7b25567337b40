------------------------------ MODULE AgentRun --------------------------------
(***************************************************************************)
(* One run of a crew agent: the sandbox image and network made on first    *)
(* use, the caged container run to its end while its log is read, and what *)
(* the driver makes of it: a builder's working tree becomes a pushed       *)
(* branch, a reviewer's last words a verdict.  The agent is free inside    *)
(* its cage; every call of the engine and of git may fail; the daemon may  *)
(* die.  Crew has the runs of an item one after the other; here is what    *)
(* happens inside one.                                                     *)
(***************************************************************************)
EXTENDS Naturals

CONSTANTS
  Builders,        \* runs that build or rework a change
  ConfigBuilders,  \* those of them in plat/platform, where only prompts may change
  Reviewers,       \* runs that review a preview
  MaxAgentKills    \* deaths of the daemon (bound of the model)

ASSUME AgentRunAssumption ==
  /\ ConfigBuilders \subseteq Builders /\ Builders \cap Reviewers = {}
  /\ MaxAgentKills \in Nat

Runs == Builders \cup Reviewers

\* What an agent may change: a path of the allowlist of plat/platform, and any other path.
Files == {"prompt", "code"}
Allowed == {"prompt"}

\* The agent's result line; "rambling" has neither a decline nor a verdict in it.
ResultLines(r) == IF r \in Builders THEN {"rambling", "declined"} ELSE {"rambling", "passing"}

Lines == {"rambling", "declined", "passing", "none"}

VARIABLES
  sandbox,     \* the parts of the sandbox that the engine has: image, network
  runPc,       \* the next call of the run's driver
  hadImage,    \* what imageExists said at the start of the run
  cage,        \* the run's container
  said,        \* the result line in the container's log, or "none"
  heard,       \* the result line the driver has read, or "none"
  unsaved,       \* files changed in the checkout and not committed
  committed,   \* files in the agent's own commits
  staged,      \* files in the driver's backstop commit
  pushed,      \* files changed on the pushed branch
  answer,      \* what the run returned to the dispatcher
  refused,     \* the engine refused to delete the container
  agentKills   \* deaths of the daemon

runVars == <<sandbox, runPc, hadImage, cage, said, heard, unsaved, committed, staged,
               pushed, answer, refused, agentKills>>

boxVars == <<sandbox, hadImage>>
treeVars == <<unsaved, committed, staged, pushed>>

\* What the driver does once the agent's result line is in its hands.
DriverPcs == {"judge", "stage", "allow", "count", "push", "attach", "verdict"}

AgentTypeOK ==
  /\ sandbox \subseteq {"image", "network"}
  /\ runPc \in [Runs -> {"unasked", "clone", "image", "network", "connect", "build", "create",
                         "start", "stream", "wait", "remove", "parse", "done", "dead"}
                        \cup DriverPcs]
  /\ hadImage \in [Runs -> BOOLEAN] /\ refused \in [Runs -> BOOLEAN]
  /\ cage \in [Runs -> {"none", "created", "running", "exited"}]
  /\ said \in [Runs -> Lines] /\ heard \in [Runs -> Lines]
  /\ \A r \in Runs : said[r] \in ResultLines(r) \cup {"none"} /\ heard[r] \in {said[r], "none"}
  /\ unsaved \in [Runs -> SUBSET Files] /\ committed \in [Runs -> SUBSET Files]
  /\ staged \in [Runs -> SUBSET Files] /\ pushed \in [Runs -> SUBSET Files]
  /\ answer \in [Runs -> {"none", "failed", "declined", "built", "pass", "unknown"}]
  /\ agentKills \in 0..MaxAgentKills
  /\ \A r \in Runs : runPc[r] = "done" => answer[r] # "none"

First(r) == IF r \in Builders THEN "clone" ELSE "image"

\* The sandbox may be there from an earlier run; not every run is asked for.
AgentInit ==
  /\ sandbox \in SUBSET {"image", "network"}
  /\ runPc \in [Runs -> {"unasked", "clone", "image"}]
  /\ \A r \in Runs : runPc[r] \in {"unasked", First(r)}
  /\ hadImage = [r \in Runs |-> FALSE]
  /\ cage = [r \in Runs |-> "none"]
  /\ said = [r \in Runs |-> "none"] /\ heard = [r \in Runs |-> "none"]
  /\ unsaved = [r \in Runs |-> {}] /\ committed = [r \in Runs |-> {}]
  /\ staged = [r \in Runs |-> {}] /\ pushed = [r \in Runs |-> {}]
  /\ answer = [r \in Runs |-> "none"]
  /\ refused = [r \in Runs |-> FALSE]
  /\ agentKills = 0

Goes(r, pc) == runPc' = [runPc EXCEPT ![r] = pc]

Heads(r, pc) == Goes(r, pc) /\ UNCHANGED answer

\* The run returns; what it had made of its checkout is removed with it.
Returns(r, a) == Goes(r, "done") /\ answer' = [answer EXCEPT ![r] = a]

-------------------------------------------------------------------------------
(***************************************************************************)
(* The sandbox, made by whoever needs it first.                            *)
(***************************************************************************)

\* A reviewer has its files written and a session fetched instead.
CloneRepo(r) ==
  /\ runPc[r] = "clone"
  /\ Heads(r, "image") \/ Returns(r, "failed")
  /\ UNCHANGED <<boxVars, cage, said, heard, treeVars, refused, agentKills>>

AskImage(r) ==
  /\ runPc[r] = "image"
  /\ \/ Heads(r, "network") /\ hadImage' = [hadImage EXCEPT ![r] = "image" \in sandbox]
     \/ Returns(r, "failed") /\ UNCHANGED hadImage
  /\ UNCHANGED <<sandbox, cage, said, heard, treeVars, refused, agentKills>>

AfterNetwork(r) == IF hadImage[r] THEN "create" ELSE "build"

AskNetwork(r) ==
  /\ runPc[r] = "network"
  /\ \/ Heads(r, IF "network" \in sandbox THEN AfterNetwork(r) ELSE "connect")
     \/ Returns(r, "failed")
  /\ UNCHANGED <<boxVars, cage, said, heard, treeVars, refused, agentKills>>

\* The engine refuses a second network of that name: another run was faster.
CreateNetwork(r) ==
  /\ runPc[r] = "connect"
  /\ \/ /\ "network" \notin sandbox
        /\ sandbox' = sandbox \cup {"network"}
        /\ Heads(r, AfterNetwork(r))
     \/ Returns(r, "failed") /\ UNCHANGED sandbox
  /\ UNCHANGED <<hadImage, cage, said, heard, treeVars, refused, agentKills>>

BuildSandbox(r) ==
  /\ runPc[r] = "build"
  /\ \/ Heads(r, "create") /\ sandbox' = sandbox \cup {"image"}
     \/ Returns(r, "failed") /\ UNCHANGED sandbox
  /\ UNCHANGED <<hadImage, cage, said, heard, treeVars, refused, agentKills>>

(***************************************************************************)
(* The cage.                                                               *)
(***************************************************************************)

CreateCage(r) ==
  /\ runPc[r] = "create"
  /\ \/ Heads(r, "start") /\ cage' = [cage EXCEPT ![r] = "created"]
     \/ Returns(r, "failed") /\ UNCHANGED cage
  /\ UNCHANGED <<boxVars, said, heard, treeVars, refused, agentKills>>

\* Variant: the removal covers only what follows the start.
StartCageUncovered(r) ==
  /\ runPc[r] = "start"
  /\ \/ Heads(r, "stream") /\ cage' = [cage EXCEPT ![r] = "running"]
     \/ Returns(r, "failed") /\ UNCHANGED cage
  /\ UNCHANGED <<boxVars, said, heard, treeVars, refused, agentKills>>

\* From here on every way out goes through the removal.
StartCage(r) ==
  /\ runPc[r] = "start"
  /\ \/ Heads(r, "stream") /\ cage' = [cage EXCEPT ![r] = "running"]
     \/ /\ Goes(r, "remove") /\ answer' = [answer EXCEPT ![r] = "failed"]
        /\ UNCHANGED cage
  /\ UNCHANGED <<boxVars, said, heard, treeVars, refused, agentKills>>

AgentEdits(r) ==
  /\ cage[r] = "running" /\ r \in Builders
  /\ \E f \in Files : unsaved' = [unsaved EXCEPT ![r] = @ \cup {f}]
  /\ UNCHANGED <<boxVars, runPc, cage, said, heard, committed, staged, pushed, answer,
                 refused, agentKills>>

AgentCommits(r) ==
  /\ cage[r] = "running" /\ r \in Builders /\ unsaved[r] # {}
  /\ committed' = [committed EXCEPT ![r] = @ \cup unsaved[r]]
  /\ unsaved' = [unsaved EXCEPT ![r] = {}]
  /\ UNCHANGED <<boxVars, runPc, cage, said, heard, staged, pushed, answer, refused,
                 agentKills>>

AgentSays(r) ==
  /\ cage[r] = "running" /\ said[r] = "none"
  /\ \E l \in ResultLines(r) : said' = [said EXCEPT ![r] = l]
  /\ UNCHANGED <<boxVars, runPc, cage, heard, treeVars, answer, refused, agentKills>>

AgentExits(r) ==
  /\ cage[r] = "running"
  /\ cage' = [cage EXCEPT ![r] = "exited"]
  /\ UNCHANGED <<boxVars, runPc, said, heard, treeVars, answer, refused, agentKills>>

\* The log is read to its end, or only so far: the connection breaks, or a line comes after
\* the deadline.  Neither ends the agent.
StreamEnds(r) ==
  /\ runPc[r] = "stream"
  /\ \/ cage[r] = "exited" /\ heard' = [heard EXCEPT ![r] = said[r]]
     \/ \E l \in {"none", said[r]} : heard' = [heard EXCEPT ![r] = l]
  /\ Heads(r, "wait")
  /\ UNCHANGED <<boxVars, cage, said, treeVars, refused, agentKills>>

\* Variant: the wait is for the result line.
WaitReturnsOnResult(r) ==
  /\ runPc[r] = "wait"
  /\ cage[r] = "exited" /\ heard[r] # "none" /\ Heads(r, "remove")
  /\ UNCHANGED <<boxVars, cage, said, heard, treeVars, refused, agentKills>>

\* The wait returns when the container has exited.  It may fail at any time, and an error
\* that the engine answers with is taken for the end: its status is not looked at.
WaitReturns(r) ==
  /\ runPc[r] = "wait"
  /\ \/ Heads(r, "remove")
     \/ Goes(r, "remove") /\ answer' = [answer EXCEPT ![r] = "failed"]
  /\ UNCHANGED <<boxVars, cage, said, heard, treeVars, refused, agentKills>>

\* Variant: without a result line there is nothing to return to.
RemoveCageQuietly(r) ==
  /\ runPc[r] = "remove"
  /\ cage' = [cage EXCEPT ![r] = "none"] /\ UNCHANGED refused
  /\ Heads(r, IF heard[r] = "none" THEN "done" ELSE "parse")
  /\ UNCHANGED <<boxVars, said, heard, treeVars, agentKills>>

\* Variant: the removal is for runs that failed.
RemoveCageOfFailed(r) ==
  /\ runPc[r] = "remove"
  /\ cage' = [cage EXCEPT ![r] = IF answer[r] = "failed" THEN "none" ELSE @]
  /\ UNCHANGED refused
  /\ Heads(r, IF answer[r] = "failed" THEN "done" ELSE "parse")
  /\ UNCHANGED <<boxVars, said, heard, treeVars, agentKills>>

\* The removal ends an agent that still runs.  A refusal of the engine is ignored.
RemoveCage(r) ==
  /\ runPc[r] = "remove"
  /\ \/ cage' = [cage EXCEPT ![r] = "none"] /\ UNCHANGED refused
     \/ refused' = [refused EXCEPT ![r] = TRUE] /\ UNCHANGED cage
  /\ Heads(r, IF answer[r] = "failed" THEN "done" ELSE "parse")
  /\ UNCHANGED <<boxVars, said, heard, treeVars, agentKills>>

\* Variant: a run without a result line is a run with an empty one.
ParseResultLenient(r) ==
  /\ runPc[r] = "parse"
  /\ Heads(r, IF r \in Builders THEN "judge" ELSE "verdict")
  /\ UNCHANGED <<boxVars, cage, said, heard, treeVars, refused, agentKills>>

\* Only a missing result line fails the run: an agent that says it failed has answered.
ParseResult(r) ==
  /\ runPc[r] = "parse"
  /\ IF heard[r] = "none"
       THEN Returns(r, "failed")
       ELSE Heads(r, IF r \in Builders THEN "judge" ELSE "verdict")
  /\ UNCHANGED <<boxVars, cage, said, heard, treeVars, refused, agentKills>>

(***************************************************************************)
(* What the driver makes of it.                                            *)
(***************************************************************************)

Change(r) == committed[r] \cup staged[r]

\* Variant: the decline is looked at only when there is nothing at all to commit.
JudgeLate(r) ==
  /\ runPc[r] = "judge"
  /\ IF heard[r] = "declined" /\ committed[r] \cup unsaved[r] = {}
       THEN Returns(r, "declined") ELSE Heads(r, "stage")
  /\ UNCHANGED <<boxVars, cage, said, heard, treeVars, refused, agentKills>>

\* An agent that declined and committed nothing is taken at its word, whatever it left behind.
Judge(r) ==
  /\ runPc[r] = "judge"
  /\ IF heard[r] = "declined" /\ committed[r] = {}
       THEN Returns(r, "declined") ELSE Heads(r, "stage")
  /\ UNCHANGED <<boxVars, cage, said, heard, treeVars, refused, agentKills>>

\* Variant: the backstop is for agents that committed nothing.
BackstopIfBare(r) ==
  /\ runPc[r] = "stage"
  /\ IF committed[r] = {}
       THEN staged' = [staged EXCEPT ![r] = unsaved[r]] /\ unsaved' = [unsaved EXCEPT ![r] = {}]
       ELSE UNCHANGED <<staged, unsaved>>
  /\ Heads(r, "allow")
  /\ UNCHANGED <<boxVars, cage, said, heard, committed, pushed, refused, agentKills>>

\* The backstop commit: whatever the agent left uncommitted.
Backstop(r) ==
  /\ runPc[r] = "stage"
  /\ \/ /\ staged' = [staged EXCEPT ![r] = unsaved[r]] /\ unsaved' = [unsaved EXCEPT ![r] = {}]
        /\ Heads(r, "allow")
     \/ Returns(r, "failed") /\ UNCHANGED <<staged, unsaved>>
  /\ UNCHANGED <<boxVars, cage, said, heard, committed, pushed, refused, agentKills>>

\* Variant: the allowlist is held against the agent's own commits.
CheckPathsOfAgent(r) ==
  /\ runPc[r] = "allow"
  /\ IF r \in ConfigBuilders /\ ~(committed[r] \subseteq Allowed)
       THEN Returns(r, "failed") ELSE Heads(r, "count")
  /\ UNCHANGED <<boxVars, cage, said, heard, treeVars, refused, agentKills>>

CheckPaths(r) ==
  /\ runPc[r] = "allow"
  /\ IF r \in ConfigBuilders /\ ~(Change(r) \subseteq Allowed)
       THEN Returns(r, "failed") ELSE Heads(r, "count")
  /\ UNCHANGED <<boxVars, cage, said, heard, treeVars, refused, agentKills>>

CountChanges(r) ==
  /\ runPc[r] = "count"
  /\ IF Change(r) = {} THEN Returns(r, "failed") ELSE Heads(r, "push")
  /\ UNCHANGED <<boxVars, cage, said, heard, treeVars, refused, agentKills>>

PushBranch(r) ==
  /\ runPc[r] = "push"
  /\ \/ Heads(r, "attach") /\ pushed' = [pushed EXCEPT ![r] = Change(r)]
     \/ Returns(r, "failed") /\ UNCHANGED pushed
  /\ UNCHANGED <<boxVars, cage, said, heard, unsaved, committed, staged, refused, agentKills>>

\* A rework returns at once; a build attaches its branch to the item, which may be refused.
AttachBranch(r) ==
  /\ runPc[r] = "attach"
  /\ Returns(r, "built") \/ Returns(r, "failed")
  /\ UNCHANGED <<boxVars, cage, said, heard, treeVars, refused, agentKills>>

\* No verdict line: unknown, which the dispatcher takes for a failure.
ParseVerdict(r) ==
  /\ runPc[r] = "verdict"
  /\ Returns(r, IF heard[r] = "passing" THEN "pass" ELSE "unknown")
  /\ UNCHANGED <<boxVars, cage, said, heard, treeVars, refused, agentKills>>

\* The daemon dies.  Nothing at the next start looks for the containers of its runs.
AgentKill ==
  /\ agentKills < MaxAgentKills
  /\ agentKills' = agentKills + 1
  /\ runPc' = [r \in Runs |-> IF runPc[r] \in {"done", "unasked"} THEN runPc[r] ELSE "dead"]
  /\ UNCHANGED <<boxVars, cage, said, heard, treeVars, answer, refused>>

DriverStep(r) ==
  \/ CloneRepo(r) \/ AskImage(r) \/ AskNetwork(r) \/ CreateNetwork(r) \/ BuildSandbox(r)
  \/ CreateCage(r) \/ StartCage(r) \/ StreamEnds(r) \/ WaitReturns(r) \/ RemoveCage(r)
  \/ ParseResult(r) \/ Judge(r) \/ Backstop(r) \/ CheckPaths(r) \/ CountChanges(r)
  \/ PushBranch(r) \/ AttachBranch(r) \/ ParseVerdict(r)

AgentNext ==
  \/ \E r \in Runs :
       \/ DriverStep(r)
       \/ AgentEdits(r) \/ AgentCommits(r) \/ AgentSays(r) \/ AgentExits(r)
  \/ AgentKill

\* Every call returns, and the agent ends by itself: nothing else ends it.
AgentFairness == \A r \in Runs : WF_runVars(DriverStep(r)) /\ WF_runVars(AgentExits(r))

AgentSpec == AgentInit /\ [][AgentNext]_runVars /\ AgentFairness

-------------------------------------------------------------------------------
(***************************************************************************)
(* Properties.                                                             *)
(***************************************************************************)

\* While the driver judges, commits, checks and pushes a checkout, the agent that could
\* still write to it is not running, though its log broke off, its deadline passed or the
\* wait for it was answered with an error: only a refused removal leaves it there.
DriverAlone == \A r \in Runs : runPc[r] \in DriverPcs => cage[r] # "running" \/ refused[r]

\* Nothing outside the allowlist reaches a branch of plat/platform, committed by the agent
\* or swept up by the backstop, unless an agent that could not be removed slips it in.
PushedIsAllowed == \A r \in ConfigBuilders : pushed[r] \subseteq Allowed \/ refused[r]

\* An agent that declines and commits nothing ships nothing, whatever files it leaves behind.
DeclineShipsNothing ==
  \A r \in Builders : heard[r] = "declined" /\ committed[r] = {} => pushed[r] = {}

\* A change that is built has everything the agent wrote, committed by it or not.
NothingLeftBehind ==
  \A r \in Builders : answer[r] = "built" => unsaved[r] = {} \/ refused[r]

\* No branch is pushed for an agent whose result line never came: a crash inside the cage,
\* or a log that broke off, is not taken for a finished work.
OnlyFinishedWork == \A r \in Builders : pushed[r] # {} => heard[r] # "none"

\* A run that has returned leaves no container, on any way out, unless the engine refused.
CageEmptied == \A r \in Runs : runPc[r] = "done" => cage[r] = "none" \/ refused[r]

\* Every run that is asked for returns to the dispatcher, unless the daemon dies first.
RunsReturn == <>(\A r \in Runs : runPc[r] \in {"done", "dead", "unasked"})

\* Whatever the agent does and whichever call fails: the driver judges and pushes what the
\* agent finished and may ship, all of it, alone with the checkout, and leaves no container.
AgentRunSafe ==
  /\ DriverAlone /\ PushedIsAllowed /\ DeclineShipsNothing
  /\ NothingLeftBehind /\ OnlyFinishedWork /\ CageEmptied
===============================================================================
