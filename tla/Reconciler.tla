------------------------------ MODULE Reconciler ------------------------------
(***************************************************************************)
(* The reconciler (packages/opd/src/reconcile.ts): what git and the work   *)
(* items ask for, what the engine runs, and the passes that bring the      *)
(* second to the first, with the rows they leave for the two gates.        *)
(*                                                                         *)
(* Passes run one at a time from a queue.  An action is what a pass does   *)
(* between two awaits; between any two of them git may be pushed to, a     *)
(* change may be opened, closed or merged, an app listed or removed, and   *)
(* the daemon may die.  Every call of git, the engine or the disk may fail.*)
(*                                                                         *)
(* Abstracted: a commit is a number that grows with each push, a           *)
(* container is its variant, the commit its tag names, the commit it was   *)
(* built from and its loopback port (its TCP binding goes with it).        *)
(* Manifest, assets and port range are among the failures of a build.      *)
(***************************************************************************)
EXTENDS Integers, Sequences

CONSTANTS
  App,              \* the apps that may be listed in sys/gitops
  Change,           \* the work items that may have a change, each a preview
  AppOf,            \* the app each change is to
  Port,             \* loopback ports the engine hands out
  NoPort,           \* no container there, or one that does not run
  NoRow,            \* an app without a row in app_ports
  NoDockerfile,     \* the commits that have no Dockerfile
  TcpVersions,      \* the commits whose op.json declares a TCP port
  MaxHead,          \* bound: commits per branch
  MaxQueue,         \* bound: passes that wait
  MaxEdits,         \* bound: how often an app is listed or removed
  MaxFaults,        \* bound: calls that fail
  MaxCrashes        \* bound: ends of the daemon

ASSUME ReconcilerAssumption ==
  /\ AppOf \in [Change -> App]
  /\ App # {} /\ App \cap Change = {}
  /\ NoPort \notin Port /\ NoRow \notin Port \cup {NoPort}
  /\ MaxHead \in Nat \ {0}
  /\ NoDockerfile \subseteq 1..MaxHead /\ TcpVersions \subseteq 1..MaxHead
  /\ MaxQueue \in Nat \ {0}
  /\ {MaxEdits, MaxFaults, MaxCrashes} \subseteq Nat

VARIABLES
  listed, head, change,       \* gitops, the branches, the changes of the items
  box,                        \* the containers that carry the platform's label
  host, tcp, status, data,    \* hosts, app_ports, app_status, preview data
  mode, queue, at, pass, job, \* the daemon
  fresh, swept, kept, harm,   \* history
  faults, crashes, edits      \* counters for the bounds

desired  == <<listed, head, change>>
rows     == <<host, tcp, status, data>>
daemon   == <<mode, queue, at, pass, job>>
history  == <<fresh, swept, kept, harm>>
counters == <<faults, crashes, edits>>
vars     == <<desired, box, rows, daemon, history, counters>>

Variant  == App \cup Change
Version  == 1..MaxHead
Owner(v) == IF v \in App THEN v ELSE AppOf[v]
All      == "all"

\* A container; without a port it was created but not started, or stopped and
\* not removed.  Two such containers of one image are not told apart.
Container == [v : Variant, tag : 0..MaxHead, built : 0..MaxHead,
              port : Port \cup {NoPort}]
On(b)     == b.port # NoPort
Boxes(v)  == {b \in box : b.v = v}
FreePorts == Port \ {b.port : b \in box}

Points == {"idle", "loop", "list", "clone", "build", "stop", "data",
           "create", "start", "inspect", "prune", "forget", "teardown"}
States == {"none", "pending", "building", "running", "error"}
Harms  == {"late", "stop", "lost", "down"}

DesiredOK ==
  /\ listed \subseteq App
  /\ head \in [Variant -> 0..MaxHead]
  /\ change \in [Change -> {"none", "open", "ended"}]

RowsOK ==
  /\ host \in [Variant -> Port \cup {NoPort}]
  /\ tcp \in [App -> Port \cup {NoPort, NoRow}]
  /\ status \in [App -> States]
  /\ data \subseteq Change

QueueOK ==
  /\ mode \in {"up", "stopping", "down", "torn"}
  /\ queue \in Seq({All} \cup App) /\ Len(queue) <= MaxQueue

PassOK ==
  pass \in [full : BOOLEAN, specs : SUBSET App, previews : BOOLEAN,
            todo : SUBSET Variant]

JobOK ==
  job \in [v : Variant, sha : 0..MaxHead, img : 0..MaxHead,
           old : SUBSET Container]

HistoryOK ==
  /\ fresh \subseteq App /\ kept \subseteq App /\ harm \subseteq Harms
  /\ faults \in 0..MaxFaults /\ crashes \in 0..MaxCrashes
  /\ edits \in 0..MaxEdits

TypeOK ==
  /\ DesiredOK /\ box \subseteq Container /\ RowsOK
  /\ QueueOK /\ at \in Points /\ PassOK /\ JobOK
  /\ HistoryOK /\ swept \in BOOLEAN

NoPass == [full |-> FALSE, specs |-> {}, previews |-> FALSE, todo |-> {}]
NoJob  == [v |-> CHOOSE a \in App : TRUE, sha |-> 0, img |-> 0, old |-> {}]

\* A daemon that has just started, with every app's template commit in git and
\* some of the apps already listed.
Init ==
  /\ listed \in SUBSET App
  /\ head = [v \in Variant |-> IF v \in App THEN 1 ELSE 0]
  /\ change = [c \in Change |-> "none"]
  /\ box = {}
  /\ host = [v \in Variant |-> NoPort]
  /\ tcp = [a \in App |-> NoRow]
  /\ status = [a \in App |-> "none"]
  /\ data = {}
  /\ mode = "up" /\ queue = <<All>> /\ at = "idle"
  /\ pass = NoPass /\ job = NoJob
  /\ fresh = {} /\ swept = FALSE /\ kept = {} /\ harm = {}
  /\ faults = 0 /\ crashes = 0 /\ edits = 0

Wanted(v) ==
  /\ Owner(v) \in listed
  /\ v \in Change => change[v] = "open"

-------------------------------------------------------------------------------
\* What the platform is asked for.  Each request ends in a kick.

\* Variant: a kick while a pass runs is taken to be covered by it.
KickCoalesced(k) ==
  /\ mode = "up"
  /\ Len(queue) < MaxQueue
  /\ queue' = IF at = "idle" THEN Append(queue, k) ELSE queue
  /\ UNCHANGED <<box, rows, mode, at, pass, job, harm, faults, crashes>>

Kick(k) ==
  /\ mode = "up"
  /\ Len(queue) < MaxQueue
  /\ queue' = Append(queue, k)
  /\ UNCHANGED <<box, rows, mode, at, pass, job, harm, faults, crashes>>

Overtakes(a) == fresh' = fresh \ {a} /\ swept' = FALSE

\* An app's spec is committed to sys/gitops, or removed from it by a push.
List(a) ==
  /\ a \notin listed /\ edits < MaxEdits
  /\ listed' = listed \cup {a} /\ edits' = edits + 1
  /\ Kick(All) /\ Overtakes(a)
  /\ UNCHANGED <<head, change, kept>>

Unlist(a) ==
  /\ a \in listed /\ edits < MaxEdits
  /\ listed' = listed \ {a} /\ edits' = edits + 1
  /\ kept' = kept \ {a}
  /\ Kick(All) /\ Overtakes(a)
  /\ UNCHANGED <<head, change>>

\* Variant: a push to a change's branch kicks the change.
PushKicksBranch(v) ==
  /\ v \in Change => change[v] = "open"
  /\ head[v] \in 1..(MaxHead - 1)
  /\ head' = [head EXCEPT ![v] = @ + 1]
  /\ Kick(v) /\ Overtakes(Owner(v))
  /\ UNCHANGED <<listed, change, kept, edits>>

\* A push to a branch of the app's repository.
Push(v) ==
  /\ v \in Change => change[v] = "open"
  /\ head[v] \in 1..(MaxHead - 1)
  /\ head' = [head EXCEPT ![v] = @ + 1]
  /\ Kick(Owner(v)) /\ Overtakes(Owner(v))
  /\ UNCHANGED <<listed, change, kept, edits>>

\* A push that deletes the branch of an open change.
DeleteBranch(c) ==
  /\ change[c] = "open" /\ head[c] > 0
  /\ head' = [head EXCEPT ![c] = 0]
  /\ Kick(Owner(c)) /\ Overtakes(Owner(c))
  /\ UNCHANGED <<listed, change, kept, edits>>

\* A change is attached, by the crew or with the item.
Open(c) ==
  /\ change[c] = "none"
  /\ \E n \in Version : head' = [head EXCEPT ![c] = n]
  /\ change' = [change EXCEPT ![c] = "open"]
  /\ Kick(All) /\ Overtakes(Owner(c))
  /\ UNCHANGED <<listed, kept, edits>>

Close(c) ==
  /\ change[c] = "open"
  /\ change' = [change EXCEPT ![c] = "ended"]
  /\ Kick(All) /\ Overtakes(Owner(c))
  /\ UNCHANGED <<listed, head, kept, edits>>

Merge(c) ==
  /\ change[c] = "open" /\ head[c] > 0 /\ head[Owner(c)] < MaxHead
  /\ head' = [head EXCEPT ![Owner(c)] = @ + 1]
  /\ change' = [change EXCEPT ![c] = "ended"]
  /\ Kick(All) /\ Overtakes(Owner(c))
  /\ UNCHANGED <<listed, kept, edits>>

-------------------------------------------------------------------------------
\* One pass.

Steps(from, to) ==
  /\ mode # "down"
  /\ at = from
  /\ at' = to

\* A call made for a variant fails.  sort says what it may leave behind.
Fault(v, sort) ==
  /\ faults < MaxFaults
  /\ faults' = faults + 1
  /\ harm' = harm \cup sort
  /\ fresh' = fresh \ {Owner(v)}
  /\ UNCHANGED <<kept, crashes, edits>>

NoFault == UNCHANGED <<harm, fresh, kept, faults, crashes, edits>>

\* setError for an app; a preview only says so in its events.
SetError(v) ==
  status' = IF v \in App THEN [status EXCEPT ![v] = "error"] ELSE status

\* Variant: specs that cannot be read are read as none.
BeginBlind ==
  /\ mode = "up" /\ at = "idle" /\ queue # <<>>
  /\ queue' = Tail(queue)
  /\ at' = "loop"
  /\ \E specs \in {listed, {}} :
       /\ pass' = [full |-> Head(queue) = All, specs |-> specs,
                   previews |-> FALSE, todo |-> specs]
       /\ fresh' = fresh \cup specs
  /\ swept' = (Head(queue) = All \/ swept)
  /\ UNCHANGED <<desired, box, rows, mode, job, kept, harm, counters>>

\* The next pass starts: it reads the specs, or cannot.
Begin ==
  LET k     == Head(queue)
      specs == IF k = All THEN listed ELSE listed \cap {k}
  IN
  /\ mode = "up" /\ at = "idle" /\ queue # <<>>
  /\ queue' = Tail(queue)
  /\ \/ /\ at' = "loop"
        /\ pass' = [full |-> k = All, specs |-> specs, previews |-> FALSE,
                    todo |-> specs]
        /\ fresh' = fresh \cup specs
        /\ swept' = (k = All \/ swept)
        /\ UNCHANGED <<harm, faults>>
     \/ /\ faults < MaxFaults /\ faults' = faults + 1
        /\ UNCHANGED <<at, pass, fresh, swept, harm>>
  /\ UNCHANGED <<desired, box, rows, mode, job, kept, crashes, edits>>

\* enqueue skips what is left once stop() was called.
SkipQueued ==
  /\ mode = "stopping" /\ at = "idle" /\ queue # <<>>
  /\ queue' = <<>>
  /\ UNCHANGED <<desired, box, rows, mode, at, pass, job, history, counters>>

\* headSha of the next variant.  A branch that is gone skips its preview.
ReadHead(v) ==
  /\ v \in pass.todo
  /\ pass' = [pass EXCEPT !.todo = @ \ {v}]
  /\ job' = [v |-> v, sha |-> head[v], img |-> 0, old |-> {}]
  /\ \/ head[v] > 0 /\ Steps("loop", "list") /\ NoFault /\ UNCHANGED status
     \/ head[v] = 0 /\ Steps("loop", "loop") /\ NoFault /\ UNCHANGED status
     \/ Steps("loop", "loop") /\ Fault(v, {}) /\ SetError(v)
  /\ UNCHANGED <<desired, box, host, tcp, data, mode, queue, swept>>

\* After the apps the previews, of the changes that are open now.
Previews ==
  /\ pass.todo = {} /\ ~pass.previews
  /\ Steps("loop", "loop")
  /\ pass' = [pass EXCEPT !.previews = TRUE,
                !.todo = {c \in Change : change[c] = "open"
                                         /\ AppOf[c] \in pass.specs}]
  /\ UNCHANGED <<desired, box, rows, mode, queue, job, history, counters>>

\* Variant: any container of the variant that runs will do.
ConvergedAny == {b \in Boxes(job.v) : On(b)}

\* The engine's containers of the variant.  One that runs the image of the
\* commit is all there is to do: its bindings are written down again.
Converged ==
  {b \in Boxes(job.v) : On(b) /\ b.tag = job.sha}

Binding(b) == IF b.built \in TcpVersions THEN b.port ELSE NoPort

Refresh(b) ==
  /\ host' = [host EXCEPT ![job.v] = b.port]
  /\ tcp' = IF job.v \in App /\ tcp[job.v] # NoRow
              THEN [tcp EXCEPT ![job.v] = Binding(b)] ELSE tcp

\* Variant: every pass deploys, also what is converged.
ListRedeploys ==
  /\ job' = [job EXCEPT !.old = Boxes(job.v)]
  /\ status' = IF job.v \in App THEN [status EXCEPT ![job.v] = "building"] ELSE status
  /\ Steps("list", "clone") /\ NoFault
  /\ UNCHANGED <<desired, box, host, tcp, data, mode, queue, pass, swept>>

ListContainers ==
  /\ \/ /\ \E b \in Converged : Refresh(b)
        /\ Steps("list", "loop") /\ NoFault
        /\ UNCHANGED <<status, job>>
     \/ /\ Converged = {}
        /\ job' = [job EXCEPT !.old = Boxes(job.v)]
        /\ status' = IF job.v \in App
                       THEN [status EXCEPT ![job.v] = "building"] ELSE status
        /\ Steps("list", "clone") /\ NoFault
        /\ UNCHANGED <<host, tcp>>
     \/ /\ Steps("list", "loop") /\ Fault(job.v, {}) /\ SetError(job.v)
        /\ UNCHANGED <<host, tcp, job>>
  /\ UNCHANGED <<desired, box, data, mode, queue, pass, swept>>

\* The clone is by branch: it gets what the branch has now.
Clone ==
  LET now == head[job.v] IN
  /\ \/ /\ now > 0 /\ now \notin NoDockerfile
        /\ job' = [job EXCEPT !.img = now]
        /\ Steps("clone", "build") /\ NoFault /\ UNCHANGED status
     \/ /\ now \in NoDockerfile
        /\ status' = IF job.v \in App
                       THEN [status EXCEPT ![job.v] = "pending"] ELSE status
        /\ Steps("clone", "loop") /\ NoFault /\ UNCHANGED job
     \/ /\ now = 0
        /\ SetError(job.v) /\ Steps("clone", "loop") /\ NoFault /\ UNCHANGED job
     \/ /\ Steps("clone", "loop") /\ Fault(job.v, {}) /\ SetError(job.v)
        /\ UNCHANGED job
  /\ UNCHANGED <<desired, box, host, tcp, data, mode, queue, pass, swept>>

\* The public port is claimed before the build, and kept if the build fails.
NeedsTcp == job.v \in App /\ job.img \in TcpVersions

Build ==
  /\ tcp' = IF NeedsTcp /\ tcp[job.v] = NoRow
              THEN [tcp EXCEPT ![job.v] = NoPort] ELSE tcp
  /\ \/ Steps("build", "stop") /\ NoFault /\ UNCHANGED status
     \/ Steps("build", "loop") /\ Fault(job.v, {}) /\ SetError(job.v)
  /\ UNCHANGED <<desired, box, host, data, mode, queue, pass, job, swept>>

\* stopAndRemove is two calls: the container may be left, running or stopped.
StopAndRemove(b) ==
  \/ box' = box \ {b} /\ UNCHANGED <<harm, fresh, faults, kept, crashes, edits>>
  \/ Fault(b.v, {"stop"}) /\ UNCHANGED box
  \/ Fault(b.v, {}) /\ box' = (box \ {b}) \cup {[b EXCEPT !.port = NoPort]}

\* A failure is only warned of.
StopOld(b) ==
  /\ b \in job.old
  /\ job' = [job EXCEPT !.old = @ \ {b}]
  /\ StopAndRemove(b)
  /\ Steps("stop", "stop")
  /\ UNCHANGED <<desired, rows, mode, queue, pass, swept>>

\* Variant: the new container does not wait for the old ones.
StoppedUnasked ==
  /\ Steps("stop", "data")
  /\ UNCHANGED <<desired, box, rows, mode, queue, pass, job, history, counters>>

Stopped ==
  /\ job.old = {}
  /\ Steps("stop", "data")
  /\ UNCHANGED <<desired, box, rows, mode, queue, pass, job, history, counters>>

\* An app has its directory; a preview forks it once and finds it again.
ProvisionData ==
  /\ \/ /\ data' = data \cup ({job.v} \cap Change)
        /\ Steps("data", "create") /\ NoFault /\ UNCHANGED status
     \/ /\ Steps("data", "loop") /\ Fault(job.v, {"late"}) /\ SetError(job.v)
        /\ UNCHANGED data
  /\ UNCHANGED <<desired, box, host, tcp, mode, queue, pass, job, swept>>

\* runApp: create, start, and read the ports the engine has given.
Created == [v |-> job.v, tag |-> job.sha, built |-> job.img, port |-> NoPort]

CreateContainer ==
  /\ \/ /\ box' = box \cup {Created}
        /\ Steps("create", "start") /\ NoFault /\ UNCHANGED status
     \/ /\ Steps("create", "loop") /\ Fault(job.v, {"late"}) /\ SetError(job.v)
        /\ UNCHANGED box
  /\ UNCHANGED <<desired, host, tcp, data, mode, queue, pass, job, swept>>

StartContainer ==
  /\ \/ /\ \E p \in FreePorts :
             box' = (box \ {Created}) \cup {[Created EXCEPT !.port = p]}
        /\ Steps("start", "inspect") /\ NoFault /\ UNCHANGED status
     \/ /\ Steps("start", "loop") /\ Fault(job.v, {"late"}) /\ SetError(job.v)
        /\ UNCHANGED box
  /\ UNCHANGED <<desired, host, tcp, data, mode, queue, pass, job, swept>>

\* The container is up and known: the rows follow it.
Publish ==
  /\ \/ /\ Steps("inspect", "loop")
        /\ \E ran \in Converged :
             /\ host' = [host EXCEPT ![job.v] = ran.port]
             /\ tcp' = IF NeedsTcp THEN [tcp EXCEPT ![job.v] = ran.port] ELSE tcp
        /\ status' = IF job.v \in App
                       THEN [status EXCEPT ![job.v] = "running"] ELSE status
        /\ kept' = kept \cup ({job.v} \cap listed)
        /\ UNCHANGED <<harm, fresh, faults, crashes, edits>>
     \/ /\ Steps("inspect", "loop") /\ Fault(job.v, {"late"}) /\ SetError(job.v)
        /\ UNCHANGED <<host, tcp>>
  /\ UNCHANGED <<desired, box, data, mode, queue, pass, job, swept>>

\* A pass of one repository ends here.
EndRepoPass ==
  /\ pass.todo = {} /\ pass.previews /\ ~pass.full
  /\ Steps("loop", "idle")
  /\ pass' = NoPass /\ job' = NoJob
  /\ UNCHANGED <<desired, box, rows, mode, queue, history, counters>>

\* Variant: only the apps are looked at.
DoomedApps == {b \in box : Owner(b.v) \notin pass.specs}

\* prune: the specs as the pass read them, the changes as they are now, and the
\* containers as the engine lists them, those that do not run included.
Doomed ==
  {b \in box : \/ Owner(b.v) \notin pass.specs
               \/ b.v \in Change /\ change[b.v] # "open"}

BeginPrune ==
  /\ pass.todo = {} /\ pass.previews /\ pass.full
  /\ \/ /\ Steps("loop", "prune")
        /\ job' = [NoJob EXCEPT !.old = Doomed]
        /\ UNCHANGED <<pass, swept, faults>>
     \/ /\ Steps("loop", "idle")
        /\ faults < MaxFaults /\ faults' = faults + 1
        /\ swept' = FALSE /\ pass' = NoPass /\ job' = NoJob
  /\ UNCHANGED <<desired, box, rows, mode, queue, fresh, kept, harm,
                 crashes, edits>>

PruneStop(b) ==
  /\ b \in job.old
  /\ job' = [job EXCEPT !.v = b.v, !.old = @ \ {b}]
  /\ StopAndRemove(b)
  /\ swept' = (swept /\ faults' = faults)
  /\ Steps("prune", "forget")
  /\ UNCHANGED <<desired, rows, mode, queue, pass>>

\* Variant: the host of a preview stays.
PruneForgetKeepsHost ==
  /\ Steps("forget", "prune")
  /\ IF job.v \in App
       THEN /\ host' = [v \in Variant |->
                          IF Owner(v) = job.v THEN NoPort ELSE host[v]]
            /\ tcp' = [tcp EXCEPT ![job.v] = NoRow]
            /\ UNCHANGED data
       ELSE data' = data \ {job.v} /\ UNCHANGED <<host, tcp>>
  /\ UNCHANGED <<desired, box, status, mode, queue, pass, job, history, counters>>

\* What the platform knew of it goes too, whether or not the stop took.
PruneForget ==
  /\ Steps("forget", "prune")
  /\ IF job.v \in App
       THEN /\ host' = [v \in Variant |->
                          IF Owner(v) = job.v THEN NoPort ELSE host[v]]
            /\ tcp' = [tcp EXCEPT ![job.v] = NoRow]
            /\ harm' = IF \E b \in Boxes(job.v) : On(b)
                         THEN harm \cup {"lost"} ELSE harm
            /\ UNCHANGED data
       ELSE /\ host' = [host EXCEPT ![job.v] = NoPort]
            /\ data' = data \ {job.v}
            /\ UNCHANGED <<tcp, harm>>
  /\ UNCHANGED <<desired, box, status, mode, queue, pass, job,
                 fresh, swept, kept, counters>>

EndFullPass ==
  /\ job.old = {}
  /\ Steps("prune", "idle")
  /\ pass' = NoPass /\ job' = NoJob
  /\ UNCHANGED <<desired, box, rows, mode, queue, history, counters>>

-------------------------------------------------------------------------------
\* The life of the daemon.

\* The operator stops the platform and its apps: no new pass begins and the one
\* that runs ends.
AskToStop ==
  /\ mode = "up"
  /\ mode' = "stopping"
  /\ crashes < MaxCrashes /\ crashes' = crashes + 1
  /\ UNCHANGED <<desired, box, rows, queue, at, pass, job, history, faults, edits>>

\* Variant: the containers are removed while a pass still runs.
TeardownAtOnce ==
  /\ mode = "stopping"
  /\ mode' = "torn"
  /\ box' = {}
  /\ fresh' = {} /\ swept' = FALSE /\ kept' = {}
  /\ harm' = harm \cup {"down"}
  /\ UNCHANGED <<desired, rows, queue, at, pass, job, counters>>

\* Once the pass is over what runs is listed, or cannot be, and removed one by
\* one.
BeginTeardown ==
  /\ mode = "stopping" /\ queue = <<>>
  /\ \/ /\ Steps("idle", "teardown")
        /\ job' = [NoJob EXCEPT !.old = box]
        /\ harm' = harm \cup {"down"}
        /\ UNCHANGED <<mode, faults>>
     \/ /\ Steps("idle", "idle") /\ mode' = "torn" /\ UNCHANGED job
        /\ faults < MaxFaults /\ faults' = faults + 1
        /\ harm' = harm \cup {"down", "stop"}
  /\ fresh' = {} /\ swept' = FALSE /\ kept' = {}
  /\ UNCHANGED <<desired, box, rows, queue, pass, crashes, edits>>

\* A failure is only warned of.
TeardownStop(b) ==
  /\ b \in job.old
  /\ job' = [job EXCEPT !.old = @ \ {b}]
  /\ StopAndRemove(b)
  /\ Steps("teardown", "teardown")
  /\ UNCHANGED <<desired, rows, mode, queue, pass, swept>>

EndTeardown ==
  /\ job.old = {}
  /\ Steps("teardown", "idle")
  /\ mode' = "torn" /\ job' = NoJob
  /\ UNCHANGED <<desired, box, rows, queue, pass, history, counters>>

\* The apps' containers outlive the daemon.
Crash ==
  /\ mode \in {"up", "stopping"}
  /\ crashes < MaxCrashes /\ crashes' = crashes + 1
  /\ mode' = "down" /\ queue' = <<>> /\ at' = "idle"
  /\ pass' = NoPass /\ job' = NoJob
  /\ fresh' = {} /\ swept' = FALSE
  /\ harm' = harm \cup {"down"}
  /\ UNCHANGED <<desired, box, rows, kept, faults, edits>>

Boot ==
  /\ mode \in {"down", "torn"}
  /\ mode' = "up" /\ queue' = <<All>>
  /\ UNCHANGED <<desired, box, rows, at, pass, job, history, counters>>

-------------------------------------------------------------------------------
Asks ==
  \/ \E a \in App : List(a) \/ Unlist(a)
  \/ \E v \in Variant : Push(v)
  \/ \E c \in Change : Open(c) \/ Close(c) \/ Merge(c) \/ DeleteBranch(c)

PassStep ==
  \/ Begin \/ SkipQueued
  \/ \E v \in Variant : ReadHead(v)
  \/ Previews \/ ListContainers \/ Clone \/ Build
  \/ \E b \in box : StopOld(b)
  \/ Stopped \/ ProvisionData \/ CreateContainer \/ StartContainer \/ Publish
  \/ EndRepoPass \/ BeginPrune
  \/ \E b \in box : PruneStop(b)
  \/ PruneForget \/ EndFullPass
  \/ BeginTeardown \/ (\E b \in box : TeardownStop(b)) \/ EndTeardown

Next == Asks \/ PassStep \/ AskToStop \/ Crash \/ Boot

Spec == Init /\ [][Next]_vars

\* Every await of a pass has a timeout or ends, and the supervisor starts a
\* daemon that died.  Nobody has to start one that was stopped.
FairSpec ==
  /\ Spec
  /\ WF_vars(PassStep)
  /\ WF_vars(Boot /\ mode = "down")

-------------------------------------------------------------------------------
\* Properties.

\* The variant is served: a container runs the image of the commit its branch
\* points at, built from that commit, and the gates route to it.
Serves(b) == On(b) /\ b.tag = head[b.v] /\ b.built = head[b.v]

Served(v) ==
  \E b \in Boxes(v) : Serves(b) /\ host[v] = b.port

TcpServed(v) ==
  v \in App /\ head[v] \in TcpVersions =>
    \E b \in Boxes(v) : Serves(b) /\ tcp[v] = b.port

Serveable(v) == Wanted(v) /\ head[v] \in Version \ NoDockerfile

Settled == mode = "up" /\ at = "idle"

\* A pass over an app in which no call failed and which no request overtook
\* leaves the app and its previews served, whatever failures, crashes and
\* half-done deploys came before it.  Only the public port has an exception: a
\* container that outlives the prune of its app, because its stop failed or the
\* daemon died before it, has lost its row, and no pass that finds it running
\* claims another.
PassServes ==
  Settled =>
    \A v \in Variant :
      Owner(v) \in fresh /\ Serveable(v) =>
        Served(v) /\ ("lost" \notin harm => TcpServed(v))

\* Such a full pass leaves no container of an app that is not listed or of a
\* change that is not open.
PassSweeps ==
  Settled /\ swept => \A b \in box : Wanted(b.v)

\* At most one container of each variant runs.
ExactlyOneWriter ==
  \A b1, b2 \in box : On(b1) /\ On(b2) /\ b1.v = b2.v => b1 = b2

\* As long as no stop failed, never two containers of a variant run on the
\* same data, through crashes and failures everywhere else.
OneWriter == "stop" \notin harm => ExactlyOneWriter

\* As long as nothing failed between the stop of a container and the start of
\* the next, no host row leads to the container of another variant, however the
\* engine reuses ports.
RoutesAreOwn ==
  harm = {} => \A b \in box, v \in Variant : On(b) /\ host[v] = b.port => b.v = v

\* An app that ran keeps running through failures to read, clone or build: it
\* is down only while the built image replaces it.
KeepsServing ==
  harm = {} =>
    \A a \in kept :
      \/ \E b \in Boxes(a) : On(b)
      \/ job.v = a /\ at \in {"stop", "data", "create", "start"}

\* A stopped platform leaves no container running, unless the engine refused to
\* list or to stop one.
TeardownIsClean ==
  mode = "torn" /\ "stop" \notin harm => \A b \in box : ~On(b)

\* What the apps' users may rely on: Reconciler implements Rollout.  A branch is settled
\* while its app is fresh.
R == INSTANCE Rollout WITH
       tip <- head, wanted <- {v \in Variant : Wanted(v)}, running <- {b \in box : On(b)},
       settled <- {v \in Variant : Owner(v) \in fresh}, excused <- "stop" \in harm
ImplementsRollout == R!Spec

\* When nobody asks for more and no call fails, in the end every app and every
\* preview is served, crashes notwithstanding.
EventuallyServed ==
  <>[](faults = 0 /\ mode = "up" =>
         \A v \in Variant : Serveable(v) => Served(v) /\ TcpServed(v))

\* A claim of the reconciler's comment: a crash in the middle of a pass costs
\* nothing, the next pass converges.  Here: the status of what is served says
\* so, and nothing is left of what is no longer wanted.
StatusFollows == \A a \in listed : Served(a) => status[a] = "running"
NothingLeft   == \A v \in Variant : ~Wanted(v) => host[v] = NoPort /\ v \notin data

NextPassConverges ==
  Settled /\ swept /\ fresh = listed => StatusFollows /\ NothingLeft
===============================================================================
