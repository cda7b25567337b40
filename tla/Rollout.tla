-------------------------------- MODULE Rollout --------------------------------
(***************************************************************************)
(* What the platform promises of the containers it runs, whatever the      *)
(* reconciler does to bring them about: a branch is served by one          *)
(* container at a time, of a commit that it had; and from when a branch    *)
(* is settled, which is read and not asked anything of since, nothing is   *)
(* started for it but what it asks for, and nothing taken down that is     *)
(* just that.                                                              *)
(*                                                                         *)
(* This is the abstract specification that Reconciler, which has the       *)
(* passes, their failures and the crashes, is shown to implement.          *)
(***************************************************************************)
EXTENDS Naturals

CONSTANTS
  Variant,      \* the branches that may be served: apps and their previews
  Container     \* what the engine may run: of which branch, by its tag, built from what

VARIABLES
  tip,          \* the commit each branch points at, 0 when there is none
  wanted,       \* the branches that are to be served
  running,      \* the containers that run
  settled,      \* the branches read since something was last asked of them
  excused       \* the engine has refused to stop a container

vars == <<tip, wanted, running, settled, excused>>

\* The container is of the commit its branch points at, and says so.
Current(b) == b.tag = tip[b.v] /\ b.built = tip[b.v]

Init ==
  /\ tip \in [Variant -> Nat]
  /\ wanted \subseteq Variant
  /\ running = {} /\ settled = {} /\ excused = FALSE

-------------------------------------------------------------------------------
\* Branches are pushed to or deleted, apps listed or removed, changes opened or ended.
Ask(asked) ==
  /\ tip' \in [Variant -> Nat] /\ wanted' \subseteq Variant
  /\ \A v \in Variant : tip'[v] = 0 \/ tip'[v] >= tip[v]
  /\ \A v \in Variant \ asked : tip'[v] = tip[v] /\ (v \in wanted' <=> v \in wanted)
  /\ settled' \subseteq settled \ asked
  /\ UNCHANGED <<running, excused>>

\* What is asked for is read.
Read(seen) ==
  /\ settled' = settled \cup seen
  /\ UNCHANGED <<tip, wanted, running, excused>>

\* A call fails, or the daemon ends.
Unsettle ==
  /\ settled' \subseteq settled
  /\ excused => excused'
  /\ UNCHANGED <<tip, wanted, running>>

\* A settled branch is given what it asks for, any other at most a commit it has outgrown.
Start(b) ==
  /\ excused \/ \A c \in running : c.v # b.v
  /\ tip[b.v] = 0 \/ b.built <= tip[b.v]
  /\ b.v \in settled => b.v \in wanted /\ Current(b)
  /\ running' = running \cup {b}
  /\ UNCHANGED <<tip, wanted, settled, excused>>

\* What a settled branch asks for is not taken from it.
Stop(b) ==
  /\ b \in running
  /\ b.v \in settled \cap wanted => ~Current(b)
  /\ running' = running \ {b} /\ settled' \subseteq settled
  /\ UNCHANGED <<tip, wanted, excused>>

Next ==
  \/ \E vs \in SUBSET Variant : Ask(vs) \/ Read(vs)
  \/ Unsettle
  \/ \E b \in Container : Start(b) \/ Stop(b)

Spec == Init /\ [][Next]_vars

-------------------------------------------------------------------------------
\* Two containers of a branch never run at once, on the same data.
OneEach == ~excused => \A b, c \in running : b.v = c.v => b = c

\* What a settled branch asks for, and has, runs on.
LeavesAlone == \A b \in running : b.v \in settled \cap wanted /\ Current(b) => b \in running'

\* What runs as it was asked for runs on until something else is asked, a call fails or the
\* daemon ends.
LeftAlone == [][LeavesAlone]_vars
===============================================================================
