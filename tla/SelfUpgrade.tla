----------------------------- MODULE SelfUpgrade ------------------------------
(***************************************************************************)
(* The supervisor and the daemon it runs from a managed clone of plat/opd: *)
(* a push to plat/opd ends the daemon with UPGRADE_EXIT, the supervisor    *)
(* pulls and runs what it pulled, and goes back to the ref it came from    *)
(* when the new daemon dies within the grace period.                       *)
(*                                                                         *)
(* A commit is a number; a daemon built from a broken one dies within the  *)
(* grace period.                                                           *)
(***************************************************************************)
EXTENDS Naturals

CONSTANTS
  NoRef,         \* no rollback is pending
  MaxMerges,     \* bound: commits pushed to plat/opd
  MaxDeaths,     \* bound: daemons that die without being broken, or with the supervisor
  MaxGitFailures \* bound: pulls and resets that fail

ASSUME SelfUpgradeAssumption ==
  {MaxMerges, MaxDeaths, MaxGitFailures} \subseteq Nat /\ NoRef \notin Nat

VARIABLES
  main,        \* the head of plat/opd
  brokenRefs,  \* the commits that cannot run
  src,         \* the commit the managed clone has checked out
  served,      \* the commit the daemon was started from
  daemonPc,    \* "down", "up" or "leaving"
  young,       \* it has not been up for the grace period
  super,       \* the supervisor's step
  rollbackRef, \* as in the code
  proven,      \* commits that ran past the grace period
  amiss,       \* history: what no upgrade is promised to survive
  deaths,      \* counters for the bounds
  gitFailures

upgradeVars == <<main, brokenRefs, src, served, daemonPc, young, super, rollbackRef, proven,
                 amiss, deaths, gitFailures>>

Refs     == 0..MaxMerges
Supers   == {"spawn", "wait", "upgrade", "rollback", "restart", "stopped"}
Mishaps  == {"hasty", "cut", "killed", "forgotten", "pull", "reset"}

UpgradeTypeOK ==
  /\ main \in Refs /\ brokenRefs \subseteq Refs
  /\ src \in 0..main /\ served \in 0..main
  /\ daemonPc \in {"down", "up", "leaving"} /\ young \in BOOLEAN
  /\ super \in Supers
  /\ rollbackRef \in (0..main) \cup {NoRef}
  /\ proven \subseteq 0..main /\ proven \cap brokenRefs = {}
  /\ amiss \subseteq Mishaps
  /\ deaths \in 0..MaxDeaths /\ gitFailures \in 0..MaxGitFailures

UpgradeInit ==
  /\ main = 0 /\ src = 0 /\ served = 0
  /\ brokenRefs \in SUBSET (1..MaxMerges)
  /\ daemonPc = "down" /\ young = FALSE
  /\ super = "spawn" /\ rollbackRef = NoRef
  /\ proven = {0} /\ amiss = {}
  /\ deaths = 0 /\ gitFailures = 0

-------------------------------------------------------------------------------
(***************************************************************************)
(* The daemon.                                                             *)
(***************************************************************************)

SpawnDaemon ==
  /\ super = "spawn"
  /\ served' = src
  /\ daemonPc' = "up" /\ young' = TRUE
  /\ super' = "wait"
  /\ UNCHANGED <<main, brokenRefs, src, rollbackRef, proven, amiss, deaths, gitFailures>>

GracePasses ==
  /\ daemonPc # "down" /\ young /\ served \notin brokenRefs
  /\ young' = FALSE
  /\ proven' = proven \cup {served}
  /\ UNCHANGED <<main, brokenRefs, src, served, daemonPc, super, rollbackRef, amiss, deaths,
                 gitFailures>>

\* Variant: a daemon that has just started does not listen yet.
MergeSourceUnheard ==
  /\ daemonPc # "down" /\ main < MaxMerges
  /\ main' = main + 1
  /\ daemonPc' = IF young THEN daemonPc ELSE "leaving"
  /\ UNCHANGED <<brokenRefs, src, served, young, super, rollbackRef, proven, amiss, deaths,
                 gitFailures>>

\* A merge to plat/opd.  Only the first asks for the upgrade; the pull takes all.
MergeSource ==
  /\ daemonPc # "down" /\ main < MaxMerges
  /\ main' = main + 1
  /\ daemonPc' = "leaving"
  /\ amiss' = amiss \cup {m \in {"hasty"} : served \notin proven}
  /\ UNCHANGED <<brokenRefs, src, served, young, super, rollbackRef, proven, deaths,
                 gitFailures>>

-------------------------------------------------------------------------------
(***************************************************************************)
(* The supervisor.                                                         *)
(***************************************************************************)

UPGRADE_EXIT == 75

\* Variant: any daemon that dies young is rolled back.
NextActionAlwaysBack(exitCode, fast, pendingRollback) ==
  CASE exitCode = UPGRADE_EXIT -> "upgrade"
    [] exitCode = 0 -> "stopped"
    [] exitCode \notin {0, UPGRADE_EXIT} /\ fast -> "rollback"
    [] OTHER -> "restart"

\* Variant: a daemon that dies is started again.
NextActionRestarts(exitCode, fast, pendingRollback) ==
  CASE exitCode = UPGRADE_EXIT -> "upgrade"
    [] exitCode = 0 -> "stopped"
    [] OTHER -> "restart"

\* A rollback is due when a daemon dies young after an upgrade.
NextAction(exitCode, fast, pendingRollback) ==
  CASE exitCode = UPGRADE_EXIT -> "upgrade"
    [] exitCode = 0 -> "stopped"
    [] exitCode \notin {0, UPGRADE_EXIT} /\ pendingRollback /\ fast -> "rollback"
    [] OTHER -> "restart"

\* The daemon ends.
Exits(code) ==
  /\ daemonPc' = "down" /\ young' = FALSE
  /\ super' = NextAction(code, young, rollbackRef # NoRef)
  /\ UNCHANGED <<main, brokenRefs, src, served, rollbackRef, proven, gitFailures>>

LeavesToUpgrade == daemonPc = "leaving" /\ Exits(UPGRADE_EXIT) /\ UNCHANGED <<amiss, deaths>>

BrokenDaemonDies ==
  /\ daemonPc # "down" /\ young /\ served \in brokenRefs
  /\ Exits(1)
  /\ amiss' = amiss \cup {m \in {"cut"} : daemonPc = "leaving"}
  /\ UNCHANGED deaths

\* It is killed, with the upgrade it was about to ask for.
DaemonKilled ==
  /\ daemonPc # "down" /\ deaths < MaxDeaths
  /\ deaths' = deaths + 1
  /\ Exits(137)
  /\ amiss' = amiss \cup {m \in {"cut"} : daemonPc = "leaving"}
                    \cup {m \in {"killed"} : young /\ rollbackRef # NoRef}

OperatorStops == daemonPc = "up" /\ Exits(0) /\ UNCHANGED <<amiss, deaths>>

\* The machine goes down and comes back: `op up` supervises what is checked out.
SupervisorDies ==
  /\ super \notin {"spawn", "stopped"} /\ deaths < MaxDeaths
  /\ deaths' = deaths + 1
  /\ daemonPc' = "down" /\ young' = FALSE
  /\ super' = "spawn" /\ rollbackRef' = NoRef
  /\ amiss' = amiss \cup {m \in {"cut"} : daemonPc = "leaving" \/ super = "upgrade"}
                    \cup {m \in {"forgotten"} : src \notin proven}
  /\ UNCHANGED <<main, brokenRefs, src, served, proven, gitFailures>>

GitFails(mishap) ==
  /\ gitFailures < MaxGitFailures
  /\ gitFailures' = gitFailures + 1
  /\ amiss' = amiss \cup {mishap}

\* Variant: the head of the clone read after the pull.
LastPulled == main

\* The ref to come back to, whatever state it is in.
LastGood == src

\* Variant: the fetch without the reset.
PullFetchesOnly ==
  /\ super = "upgrade"
  /\ rollbackRef' = LastGood
  /\ super' = "spawn"
  /\ UNCHANGED <<main, brokenRefs, src, served, daemonPc, young, proven, amiss, deaths,
                 gitFailures>>

PullLatest ==
  /\ super = "upgrade"
  /\ \/ src' = main /\ rollbackRef' = LastGood /\ UNCHANGED <<amiss, gitFailures>>
     \/ GitFails("pull") /\ rollbackRef' = NoRef /\ UNCHANGED src
  /\ super' = "spawn"
  /\ UNCHANGED <<main, brokenRefs, served, daemonPc, young, proven, deaths>>

RollBack ==
  /\ super = "rollback"
  /\ \/ src' = rollbackRef /\ UNCHANGED <<amiss, gitFailures>>
     \/ GitFails("reset") /\ UNCHANGED src
  /\ rollbackRef' = NoRef
  /\ super' = "spawn"
  /\ UNCHANGED <<main, brokenRefs, served, daemonPc, young, proven, deaths>>

RestartDaemon ==
  /\ super = "restart"
  /\ rollbackRef' = NoRef
  /\ super' = "spawn"
  /\ UNCHANGED <<main, brokenRefs, src, served, daemonPc, young, proven, amiss, deaths,
                 gitFailures>>

-------------------------------------------------------------------------------
\* What happens by itself; a merge, a death and the operator come from outside.
UpgradeProgress ==
  \/ SpawnDaemon \/ GracePasses \/ LeavesToUpgrade \/ BrokenDaemonDies
  \/ PullLatest \/ RollBack \/ RestartDaemon

UpgradeNext ==
  \/ UpgradeProgress
  \/ MergeSource \/ DaemonKilled \/ OperatorStops \/ SupervisorDies

UpgradeFairness == WF_upgradeVars(UpgradeProgress)

UpgradeSpec == UpgradeInit /\ [][UpgradeNext]_upgradeVars /\ UpgradeFairness

-------------------------------------------------------------------------------
(***************************************************************************)
(* Properties.                                                             *)
(***************************************************************************)

\* What a rollback goes back to has run: it is never a second bad commit, unless an
\* upgrade was asked for before the last one had proved itself.
RollsBackToProven ==
  rollbackRef # NoRef /\ "hasty" \notin amiss => rollbackRef \in proven

\* The daemon runs the commit that is checked out; it is the head of plat/opd unless
\* the head died young, was not pulled, or is being gone to.
ServesHead ==
  daemonPc = "up" /\ ~young /\ amiss \cap {"cut", "killed", "pull"} = {} =>
    served = src /\ (served = main \/ main \in brokenRefs)

\* A bad commit never costs the platform: a daemon is up again and again, unless the
\* operator stops it, the rollback itself failed or was forgotten when the supervisor
\* died, or it would go back to a commit that had not proved itself.
NeverDead ==
  []<>(\/ daemonPc # "down" /\ ~young
       \/ super = "stopped"
       \/ amiss \cap {"hasty", "reset", "forgotten"} # {})

\* A merged change that can run is run in the end, unless the daemon died as it left,
\* the pull failed, or the new daemon was killed young (merges are bounded: the last of them).
MergesTakeEffect ==
  []<>(\/ main \in proven \cup brokenRefs
       \/ super = "stopped"
       \/ amiss \cap {"cut", "killed", "pull"} # {})

\* What runs is what is checked out, and what would be gone back to has run.
UpgradeSafe == RollsBackToProven /\ ServesHead
===============================================================================
