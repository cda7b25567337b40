-------------------------------- MODULE Intake --------------------------------
(***************************************************************************)
(* How an app comes to exist: POST /api/v1/apps, /onramp, /apps/import and *)
(* POST /api/v1/repos, from the row of its repository to its spec in       *)
(* sys/gitops and its first work item.                                     *)
(*                                                                         *)
(* The requests run interleaved at their awaits and share three things: a  *)
(* table of repository rows, the bare repositories on disk, and the main   *)
(* branch of sys/gitops, which each one clones, commits to and pushes.     *)
(* One owner is modelled: names of different owners never meet.  A daemon  *)
(* that dies takes its requests with it and leaves what they wrote.        *)
(***************************************************************************)
EXTENDS Naturals, FiniteSets

CONSTANTS
  AppNames,        \* names of repositories
  MaxRequests,     \* bound: requests served
  MaxIntakeKills   \* bound: deaths of the daemon

ASSUME IntakeAssumption == AppNames # {} /\ MaxRequests \in Nat /\ MaxIntakeKills \in Nat

VARIABLES
  repoRows,      \* names with a row in the repos table
  rowMaker,      \* rowMaker[n]: the kind of request that made the last row of n
  repoDir,       \* repoDir[n]: "absent", "partial" (a clone runs), "bare" or "content"
  appSpecs,      \* names with a spec at main of sys/gitops
  gitopsCommits, \* number of commits at main of sys/gitops
  request,       \* request[q]: what it asks for and how far it is
  swept,         \* names whose repository a failed clone removed from under another request
  intakeKills    \* deaths so far

intakeVars == <<repoRows, rowMaker, repoDir, appSpecs, gitopsCommits, request,
                swept, intakeKills>>

Requests     == 1..MaxRequests
RequestKinds == {"app", "onramp", "import", "repo"}
Templated    == {"app", "onramp"}
RequestPcs   == {"new", "init", "populate", "row", "rowInit", "clone", "cloning", "rollback",
                 "specClone", "specPush", "file", "ok", "failed"}
NobodyYet    == [kind |-> "repo", name |-> CHOOSE n \in AppNames : TRUE, pc |-> "new",
                 base |-> 0, seen |-> {}]

IntakeTypeOK ==
  /\ repoRows \subseteq AppNames
  /\ rowMaker \in [AppNames -> RequestKinds \cup {"none"}]
  /\ repoDir \in [AppNames -> {"absent", "partial", "bare", "content"}]
  /\ appSpecs \subseteq AppNames
  /\ gitopsCommits \in Nat
  /\ request \in [Requests -> [kind : RequestKinds, name : AppNames, pc : RequestPcs,
                               base : Nat, seen : SUBSET AppNames]]
  /\ swept \subseteq AppNames
  /\ intakeKills \in Nat

IntakeInit ==
  /\ repoRows = {}
  /\ rowMaker = [n \in AppNames |-> "none"]
  /\ repoDir = [n \in AppNames |-> "absent"]
  /\ appSpecs = {}
  /\ gitopsCommits = 0
  /\ request = [q \in Requests |-> NobodyYet]
  /\ swept = {}
  /\ intakeKills = 0

Name(q) == request[q].name
At(q, pc) == request[q].pc = pc
\* Requests are numbered in the order in which they arrive.
Arrives(q) == At(q, "new") /\ \A p \in Requests : p < q => ~At(p, "new")

Step(q, pc) == request' = [request EXCEPT ![q].pc = pc]

\* What an error leaves of a request.
Failed  == [NobodyYet EXCEPT !.pc = "failed"]
Fail(q) == request' = [request EXCEPT ![q] = Failed]

\* Variant: owner and name swapped in the insert.
InsertRowSwapped(k, n) ==
  /\ n \notin repoRows
  /\ repoRows' = repoRows \cup {n}
  /\ rowMaker' = [rowMaker EXCEPT ![n] = n]

\* Variant: an upsert instead of an insert.
InsertRowAgain(k, n) ==
  /\ repoRows' = repoRows \cup {n}
  /\ rowMaker' = [rowMaker EXCEPT ![n] = k]

\* The row is inserted unless the name has one (UNIQUE).
InsertRow(k, n) ==
  /\ n \notin repoRows
  /\ repoRows' = repoRows \cup {n}
  /\ rowMaker' = [rowMaker EXCEPT ![n] = k]

-------------------------------------------------------------------------------
(***************************************************************************)
(* From a template: the repository first, its row last.                    *)
(***************************************************************************)

\* An onramp derives a name without a row, or takes the one it is given; in both
\* cases another request may take the same name before it is done.
BeginTemplated(q, k, n) ==
  /\ Arrives(q) /\ k \in Templated
  /\ request' = [request EXCEPT ![q] = [kind |-> k, name |-> n, pc |-> "init",
                                        base |-> 0, seen |-> {}]]
  /\ UNCHANGED <<repoRows, rowMaker, repoDir, appSpecs, gitopsCommits, swept, intakeKills>>

\* Variant: the row as soon as the repository is initialised.
TemplateInitRowFirst(q) ==
  /\ At(q, "init")
  /\ repoDir' = [repoDir EXCEPT ![Name(q)] = IF @ = "absent" THEN "bare" ELSE @]
  /\ Step(q, "row")
  /\ UNCHANGED <<repoRows, rowMaker, appSpecs, gitopsCommits, swept, intakeKills>>

\* initBareRepo does nothing when the directory exists.
TemplateInit(q) ==
  /\ At(q, "init")
  /\ repoDir' = [repoDir EXCEPT ![Name(q)] = IF @ = "absent" THEN "bare" ELSE @]
  /\ Step(q, "populate")
  /\ UNCHANGED <<repoRows, rowMaker, appSpecs, gitopsCommits, swept, intakeKills>>

\* The template's tree is pushed as a first commit: refused by a main that exists.
\* A repository that is being cloned into takes it or not.
MayPopulate(n) == repoDir[n] \in {"bare", "partial"}

Populate(q) ==
  /\ At(q, "populate")
  /\ MayPopulate(Name(q))
  /\ repoDir' = [repoDir EXCEPT ![Name(q)] = "content"]
  /\ Step(q, "row")
  /\ UNCHANGED <<repoRows, rowMaker, appSpecs, gitopsCommits, swept, intakeKills>>

PopulateFails(q) ==
  /\ At(q, "populate")
  /\ Fail(q)
  /\ UNCHANGED <<repoRows, rowMaker, repoDir, appSpecs, gitopsCommits, swept, intakeKills>>

\* The row makes the repository visible; createRepo then initialises once more.
RowAfterContent(q) ==
  /\ At(q, "row")
  /\ \/ /\ InsertRow(request[q].kind, Name(q))
        /\ repoDir' = [repoDir EXCEPT ![Name(q)] = IF @ = "absent" THEN "bare" ELSE @]
        /\ Step(q, "specClone")
     \/ /\ Name(q) \in repoRows
        /\ Fail(q)
        /\ UNCHANGED <<repoRows, rowMaker, repoDir>>
  /\ UNCHANGED <<appSpecs, gitopsCommits, swept, intakeKills>>

-------------------------------------------------------------------------------
(***************************************************************************)
(* From nothing (POST /repos) and from a remote: the row first.            *)
(***************************************************************************)

BeginRepo(q, n) ==
  /\ Arrives(q)
  /\ \/ InsertRow("repo", n)
        /\ request' = [request EXCEPT ![q] = [@ EXCEPT !.kind = "repo", !.name = n,
                                                       !.pc = "rowInit"]]
     \/ /\ n \in repoRows
        /\ Fail(q)
        /\ UNCHANGED <<repoRows, rowMaker>>
  /\ UNCHANGED <<repoDir, appSpecs, gitopsCommits, swept, intakeKills>>

\* A `git init` that fails leaves the row.
RepoInit(q) ==
  /\ At(q, "rowInit")
  /\ \/ /\ repoDir' = [repoDir EXCEPT ![Name(q)] = IF @ = "absent" THEN "bare" ELSE @]
        /\ Step(q, "ok")
     \/ Fail(q) /\ UNCHANGED repoDir
  /\ UNCHANGED <<repoRows, rowMaker, appSpecs, gitopsCommits, swept, intakeKills>>

\* The row, and in the same turn the check that there is no such repository.
BeginImport(q, n) ==
  /\ Arrives(q)
  /\ \/ InsertRow("import", n)
        /\ request' = [request EXCEPT ![q] = [@ EXCEPT !.kind = "import", !.name = n,
                         !.pc = IF repoDir[n] = "absent" THEN "clone" ELSE "rollback"]]
     \/ /\ n \in repoRows
        /\ Fail(q)
        /\ UNCHANGED <<repoRows, rowMaker>>
  /\ UNCHANGED <<repoDir, appSpecs, gitopsCommits, swept, intakeKills>>

\* `git clone` refuses a directory that came into being since the check.
CloneStarts(q) ==
  /\ At(q, "clone")
  /\ repoDir[Name(q)] = "absent"
  /\ repoDir' = [repoDir EXCEPT ![Name(q)] = "partial"]
  /\ Step(q, "cloning")
  /\ UNCHANGED <<repoRows, rowMaker, appSpecs, gitopsCommits, swept, intakeKills>>

CloneSucceeds(q) ==
  /\ At(q, "cloning")
  /\ repoDir' = [repoDir EXCEPT ![Name(q)] = "content"]
  /\ Step(q, "specClone")
  /\ UNCHANGED <<repoRows, rowMaker, appSpecs, gitopsCommits, swept, intakeKills>>

\* Variant: the error of the clone is not looked at.
CloneFailsIgnored(q) ==
  /\ At(q, "cloning")
  /\ repoDir' = [repoDir EXCEPT ![Name(q)] = "absent"]
  /\ Step(q, "specClone")
  /\ UNCHANGED <<repoRows, rowMaker, appSpecs, gitopsCommits, swept, intakeKills>>

\* Refused, cut off or timed out: the directory is removed, whoever filled it.
CloneFails(q) ==
  /\ At(q, "cloning") \/ (At(q, "clone") /\ repoDir[Name(q)] # "absent")
  /\ repoDir' = [repoDir EXCEPT ![Name(q)] = "absent"]
  /\ swept' = IF At(q, "clone") \/ repoDir[Name(q)] = "content"
                THEN swept \cup {Name(q)} ELSE swept
  /\ Step(q, "rollback")
  /\ UNCHANGED <<repoRows, rowMaker, appSpecs, gitopsCommits, intakeKills>>

\* Variant: the row stays.
RollbackRowForgotten(q) ==
  /\ At(q, "rollback")
  /\ Fail(q)
  /\ UNCHANGED <<repoRows, rowMaker, repoDir, appSpecs, gitopsCommits, swept, intakeKills>>

\* The row of a failed import goes.
RollbackRow(q) ==
  /\ At(q, "rollback")
  /\ repoRows' = repoRows \ {Name(q)}
  /\ Fail(q)
  /\ UNCHANGED <<rowMaker, repoDir, appSpecs, gitopsCommits, swept, intakeKills>>

-------------------------------------------------------------------------------
(***************************************************************************)
(* commitFiles on sys/gitops, and the first work item.                     *)
(***************************************************************************)

SpecClone(q) ==
  /\ At(q, "specClone")
  /\ request' = [request EXCEPT ![q] = [@ EXCEPT !.pc = "specPush", !.base = gitopsCommits,
                                                 !.seen = appSpecs]]
  /\ UNCHANGED <<repoRows, rowMaker, repoDir, appSpecs, gitopsCommits, swept, intakeKills>>

\* Variant: a forced push.
ForcedPush(q) == request[q].base <= gitopsCommits

\* Only a commit on top of what main is now is accepted.
FastForward(q) == request[q].base = gitopsCommits

AfterSpec(q) == IF request[q].kind = "app" THEN "ok" ELSE "file"

SpecPush(q) ==
  /\ At(q, "specPush")
  /\ FastForward(q)
  /\ appSpecs' = request[q].seen \cup {Name(q)}
  /\ gitopsCommits' = gitopsCommits + 1
  /\ request' = [request EXCEPT ![q] = [@ EXCEPT !.pc = AfterSpec(q), !.base = 0, !.seen = {}]]
  /\ UNCHANGED <<repoRows, rowMaker, repoDir, swept, intakeKills>>

\* The loser of two concurrent pushes, or any failure of git, ends with an error.
SpecPushFails(q) ==
  /\ At(q, "specPush")
  /\ Fail(q)
  /\ UNCHANGED <<repoRows, rowMaker, repoDir, appSpecs, gitopsCommits, swept, intakeKills>>

\* createWork: the item is born queued, for the crew to build or to tune.
FileFirstWork(q) ==
  /\ At(q, "file")
  /\ Step(q, "ok") \/ Fail(q)
  /\ UNCHANGED <<repoRows, rowMaker, repoDir, appSpecs, gitopsCommits, swept, intakeKills>>

\* The daemon dies: its requests end, answered by nobody.
IntakeKill ==
  /\ intakeKills < MaxIntakeKills
  /\ \E q \in Requests : request[q].pc \notin {"new", "ok", "failed"}
  /\ intakeKills' = intakeKills + 1
  /\ request' = [q \in Requests |->
       IF request[q].pc \in {"new", "ok"} THEN request[q] ELSE Failed]
  /\ UNCHANGED <<repoRows, rowMaker, repoDir, appSpecs, gitopsCommits, swept>>

IntakeNext ==
  \/ \E q \in Requests :
       \/ \E n \in AppNames :
            (\E k \in Templated : BeginTemplated(q, k, n)) \/ BeginRepo(q, n) \/ BeginImport(q, n)
       \/ TemplateInit(q) \/ Populate(q) \/ PopulateFails(q) \/ RowAfterContent(q)
       \/ RepoInit(q) \/ CloneStarts(q) \/ CloneSucceeds(q) \/ CloneFails(q) \/ RollbackRow(q)
       \/ SpecClone(q) \/ SpecPush(q) \/ SpecPushFails(q) \/ FileFirstWork(q)
  \/ IntakeKill

IntakeSpec == IntakeInit /\ [][IntakeNext]_intakeVars

-------------------------------------------------------------------------------
(***************************************************************************)
(* Properties.                                                             *)
(***************************************************************************)

\* A row made from a template means a repository one can clone, also for a work
\* item filed at that very moment -- unless the failed clone of an import of the
\* same name removed the directory the template was being written to.
VisibleIsClonable ==
  \A n \in repoRows \ swept : rowMaker[n] \in Templated => repoDir[n] = "content"

\* What the reconciler is told to deploy has a repository with content.
SpecIsDeployable ==
  \A n \in appSpecs \ swept : n \in repoRows /\ repoDir[n] = "content"

\* A failed import leaves no row behind, unless the daemon died under it.
NoPhantomRepo ==
  \A n \in repoRows :
    rowMaker[n] = "import" /\ intakeKills = 0 =>
      \/ repoDir[n] = "content"
      \/ \E q \in Requests :
           /\ Name(q) = n /\ request[q].kind = "import"
           /\ request[q].pc \in {"clone", "cloning", "rollback"}

\* Two requests for one name are never both told that they made it.
OneMaker ==
  \A q, p \in Requests : q # p /\ At(q, "ok") /\ At(p, "ok") => Name(q) # Name(p)

\* A spec that was committed is never undone by the commit of another request.
SpecsNeverLost == [][appSpecs \subseteq appSpecs']_intakeVars

\* However requests overlap, fail and die: what is listed can be cloned and deployed, a
\* failed import leaves nothing, a name is made once and no spec is lost.
AppsComeWhole ==
  [](VisibleIsClonable /\ SpecIsDeployable /\ NoPhantomRepo /\ OneMaker) /\ SpecsNeverLost
===============================================================================
