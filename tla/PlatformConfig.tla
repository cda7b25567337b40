---------------------------- MODULE PlatformConfig ----------------------------
(***************************************************************************)
(* The platform's own configuration, a repository whose head is re-read on *)
(* each push into a cache that every consumer asks, and the agents' files, *)
(* which are read from it at each job.                                     *)
(*                                                                         *)
(* A commit of plat/platform is a number.  Its platform.json is admitted   *)
(* or not, and raises the memory cap enough for the app that waits for it  *)
(* or does not.  The defaults are 0.  A read of git is one step between    *)
(* two awaits: pushes, other reloads and passes may come in between.       *)
(***************************************************************************)
EXTENDS Naturals, FiniteSets

CONSTANTS
  Reloads,          \* reloads that may be under way at once
  MaxConfigs,       \* bound: commits of plat/platform
  MaxConfigFailures,\* bound: reads of git that fail
  MaxConfigRestarts \* bound: starts of the daemon

ASSUME PlatformConfigAssumption ==
  {MaxConfigs, MaxConfigFailures, MaxConfigRestarts} \subseteq Nat /\ MaxConfigs > 0

VARIABLES
  tip,         \* the head of plat/platform
  admissible,  \* the commits that admitPlatformConfig takes
  roomy,       \* the commits whose cap lets the app in
  cache,       \* the commit the cache is of
  reload,      \* reload[r]: "idle", "reading" or "read", and what it read
  since,       \* the head when the reloads that are under way, or the last, began
  unread,      \* one of those, or the start after them, could not read
  kicked,      \* a pass is asked for
  passing,     \* a pass is under way and has not come to the app
  admitted,    \* the app's manifest was admitted and it runs
  agentPc,     \* loadAgent: "idle", "skills" or "loaded"
  agent,       \* the commits it read from, and the head when it began
  configFailures, configRestarts

configVars == <<tip, admissible, roomy, cache, reload, since, unread, kicked, passing,
                admitted, agentPc, agent, configFailures, configRestarts>>

repoVars  == <<tip, admissible, roomy>>
asOf      == <<since, unread>>
passVars  == <<kicked, passing, admitted>>
agentVars == <<agentPc, agent>>

Versions == 1..MaxConfigs
Defaults == 0
NoAgent  == [asked |-> 0, instructions |-> 0, skills |-> 0]
Idle     == [pc |-> "idle", got |-> Defaults]

ConfigTypeOK ==
  /\ tip \in Versions /\ admissible \subseteq Versions /\ roomy \subseteq admissible
  /\ cache \in (admissible \cap 1..tip) \cup {Defaults}
  /\ reload \in [Reloads -> [pc : {"idle", "reading", "read"}, got : 0..tip]]
  /\ since \in 1..tip
  /\ {unread, kicked, passing, admitted} \subseteq BOOLEAN
  /\ agentPc \in {"idle", "skills", "loaded"}
  /\ agent \in [asked : 0..tip, instructions : 0..tip, skills : 0..tip]
  /\ configFailures \in 0..MaxConfigFailures /\ configRestarts \in 0..MaxConfigRestarts

\* The daemon has started with genesis' platform.json; the app waits for more room.
ConfigInit ==
  /\ tip = 1
  /\ admissible \in {{1} \cup s : s \in SUBSET (2..MaxConfigs)}
  /\ roomy \in SUBSET (admissible \ {1})
  /\ cache = 1
  /\ reload = [r \in Reloads |-> Idle]
  /\ since = 1 /\ unread = FALSE
  /\ kicked = TRUE /\ passing = FALSE /\ admitted = FALSE
  /\ agentPc = "idle" /\ agent = NoAgent
  /\ configFailures = 0 /\ configRestarts = 0

-------------------------------------------------------------------------------
(***************************************************************************)
(* The push handler and reload.                                            *)
(***************************************************************************)

Quiet == \A r \in Reloads : reload[r].pc = "idle"

PushConfig(r) ==
  /\ tip < MaxConfigs /\ reload[r].pc = "idle"
  /\ tip' = tip + 1
  /\ reload' = [reload EXCEPT ![r].pc = "reading"]
  /\ since' = IF Quiet THEN tip' ELSE since
  /\ unread' = (unread /\ ~Quiet)
  /\ UNCHANGED <<admissible, roomy, cache, passVars, agentVars, configFailures, configRestarts>>

ReloadReads(r) ==
  /\ reload[r].pc = "reading"
  /\ reload' = [reload EXCEPT ![r] = [pc |-> "read", got |-> tip]]
  /\ UNCHANGED <<repoVars, cache, asOf, passVars, agentVars, configFailures, configRestarts>>

\* readFile reports an error: the cache stays, and the passes are asked for.
ReloadFails(r) ==
  /\ reload[r].pc = "reading" /\ configFailures < MaxConfigFailures
  /\ configFailures' = configFailures + 1
  /\ reload' = [reload EXCEPT ![r] = Idle]
  /\ unread' = TRUE /\ kicked' = TRUE
  /\ UNCHANGED <<repoVars, cache, since, passing, admitted, agentVars, configRestarts>>

\* Variant: whatever parses.
AdmitAnyConfig(v) == v \in Versions

\* admitPlatformConfig: what does not parse or is out of range is refused.
AdmitPlatformConfig(v) == v \in admissible

\* Variant: what is refused leaves the defaults.
AppliedOrDefaults(v) == IF AdmitPlatformConfig(v) THEN v ELSE Defaults

\* Variant: the first commit that is admitted stays.
AppliedOnce(v) == IF AdmitPlatformConfig(v) /\ cache = Defaults THEN v ELSE cache

\* What the cache becomes.
Applied(v) == IF AdmitPlatformConfig(v) THEN v ELSE cache

\* Variant: the passes were asked for when the reload began.
ReloadAppliesKickless(r) ==
  /\ reload[r].pc = "read"
  /\ cache' = Applied(reload[r].got)
  /\ reload' = [reload EXCEPT ![r] = Idle]
  /\ UNCHANGED <<repoVars, asOf, passVars, agentVars, configFailures, configRestarts>>

\* kickAll comes after the reload.
ReloadApplies(r) ==
  /\ reload[r].pc = "read"
  /\ cache' = Applied(reload[r].got)
  /\ reload' = [reload EXCEPT ![r] = Idle]
  /\ kicked' = TRUE
  /\ UNCHANGED <<repoVars, asOf, passing, admitted, agentVars, configFailures, configRestarts>>

\* A start reads the head before it serves, and has nothing older to fall back on when the
\* read fails or the commit is refused.
RestartConfig ==
  /\ configRestarts < MaxConfigRestarts
  /\ configRestarts' = configRestarts + 1
  /\ since' = tip
  /\ \/ /\ cache' = IF AdmitPlatformConfig(tip) THEN tip ELSE Defaults
        /\ unread' = FALSE /\ UNCHANGED configFailures
     \/ /\ configFailures < MaxConfigFailures
        /\ configFailures' = configFailures + 1
        /\ cache' = Defaults /\ unread' = TRUE
  /\ reload' = [r \in Reloads |-> Idle]
  /\ kicked' = TRUE /\ passing' = FALSE
  /\ agentPc' = "idle"
  /\ agent' = NoAgent
  /\ UNCHANGED <<repoVars, admitted>>

-------------------------------------------------------------------------------
(***************************************************************************)
(* A pass of the reconciler over an app that needs the room.               *)
(***************************************************************************)

PassStarts ==
  /\ kicked /\ ~passing
  /\ kicked' = FALSE /\ passing' = TRUE
  /\ UNCHANGED <<repoVars, cache, reload, asOf, admitted, agentVars, configFailures,
                 configRestarts>>

\* Converged, or its manifest admitted by the policy of the moment, or refused.
PassAdmits ==
  /\ passing
  /\ passing' = FALSE
  /\ admitted' = (admitted \/ cache \in roomy)
  /\ UNCHANGED <<repoVars, cache, reload, asOf, kicked, agentVars, configFailures,
                 configRestarts>>

-------------------------------------------------------------------------------
(***************************************************************************)
(* loadAgent, for the next job of the crew: the instructions, the list of  *)
(* the skills, then each skill, all from the head of the moment.           *)
(***************************************************************************)

\* Variant: the instructions of the last job are good enough.
LoadInstructionsOnce ==
  /\ agentPc \in {"idle", "loaded"}
  /\ agent' = [asked |-> tip, skills |-> 0,
               instructions |-> IF agentPc = "loaded" THEN agent.instructions ELSE tip]
  /\ agentPc' = "skills"
  /\ UNCHANGED <<repoVars, cache, reload, asOf, passVars, configFailures, configRestarts>>

LoadInstructions ==
  /\ agentPc \in {"idle", "loaded"}
  /\ agent' = [asked |-> tip, instructions |-> tip, skills |-> 0]
  /\ agentPc' = "skills"
  /\ UNCHANGED <<repoVars, cache, reload, asOf, passVars, configFailures, configRestarts>>

\* The list and the first skill; those that follow are no older.
LoadSkills ==
  /\ agentPc = "skills"
  /\ agent' = [agent EXCEPT !.skills = tip]
  /\ agentPc' = "loaded"
  /\ UNCHANGED <<repoVars, cache, reload, asOf, passVars, configFailures, configRestarts>>

-------------------------------------------------------------------------------
\* A push comes from outside, and so do a failure, a restart and a job.
ConfigProgress ==
  \/ \E r \in Reloads : ReloadReads(r) \/ ReloadApplies(r)
  \/ PassStarts \/ PassAdmits

ConfigNext ==
  \/ ConfigProgress
  \/ \E r \in Reloads : PushConfig(r) \/ ReloadFails(r)
  \/ RestartConfig
  \/ LoadInstructions \/ LoadSkills

ConfigFairness == WF_configVars(ConfigProgress)

ConfigSpec == ConfigInit /\ [][ConfigNext]_configVars /\ ConfigFairness

-------------------------------------------------------------------------------
(***************************************************************************)
(* Properties.                                                             *)
(***************************************************************************)

\* Once the reloads are over that overlapped, however they did, and none of them failed to
\* read: if the head is good, the daemon runs by a commit that was the head when the first
\* of them began, or by a later one.  After a push that overlaps nothing that is the head.
ConfigCatchesUp ==
  Quiet /\ ~unread /\ AdmitPlatformConfig(tip) => cache >= since

\* The daemon goes back to an older configuration only when it starts on a bad commit or
\* cannot read one, or, among commits pushed while its reloads overlap, to one of these: a
\* bad commit degrades to what was there before.
NeverBackwards ==
  [][cache' >= cache \/ cache' >= since \/ configRestarts' # configRestarts]_configVars

\* A raised cap lets an app in that was refused, without a push to the app; after reloads
\* that overlapped, when each good commit of theirs has the room.
RaisedCapTakesEffect ==
  []<>(tip \in roomy /\ ~unread /\ (since..tip) \cap admissible \subseteq roomy => admitted)

\* An agent's files may be of different commits when a push comes while they are read,
\* but none is older than the head when its job began, nor than the instructions.
AgentIsCurrent ==
  /\ agentPc # "idle" => agent.instructions >= agent.asked
  /\ agentPc = "loaded" => agent.skills >= agent.instructions

\* What holds at each moment, however pushes, reloads, failed reads and restarts overlap: the
\* daemon runs by the last good commit, or one that overlapped it, and agents are given files
\* no older than their job.
ConfigIsSafe == [](ConfigCatchesUp /\ AgentIsCurrent) /\ NeverBackwards

\* ... and in the end an app that waits for a raised cap runs by it as well.
ConfigFollowsTip == ConfigIsSafe /\ RaisedCapTakesEffect
===============================================================================
