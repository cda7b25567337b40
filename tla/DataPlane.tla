------------------------------ MODULE DataPlane -------------------------------
(***************************************************************************)
(* The data of one app: its live directory, which a container writes while *)
(* the daemon copies it, the snapshots and the data branch of a preview    *)
(* made from it, and the import of the app from another platform.           *)
(*                                                                         *)
(* A database file has two pages, each with the number of the transaction  *)
(* it holds; a transaction writes both.  The app appends transactions to   *)
(* its write-ahead log and moves them into the file page by page, so a     *)
(* copy of the file alone can be torn.  A directory copy is two steps, and *)
(* the daemon can die between them.                                        *)
(***************************************************************************)
EXTENDS Naturals, FiniteSets

CONSTANTS
  Snappers,    \* calls of snapshot()
  MaxClock,    \* bound: milliseconds, which name the snapshots
  MaxWrites,   \* bound: transactions of the app
  MaxDataKills \* bound: deaths of the daemon

ASSUME DataAssumption == MaxClock \in Nat \ {0} /\ MaxWrites \in Nat /\ MaxDataKills \in Nat

VARIABLES
  live,        \* the live directory: "absent", "partial" or "whole"
  pages,       \* the two pages of its app.db
  wal,         \* the last transaction committed
  appUp,       \* the app's container runs
  copyOnWrite, \* the file system clones files
  clock,       \* milliseconds
  snapDir,     \* snapDir[id]: "absent", "partial", "unverified", "torn", "mixed" or "whole"
  snapper,     \* snapper[s]: where the call is and the id it picked
  overlapped,  \* ids picked by two calls at once, or cloned while an import fills the directory
  branchDir,   \* the preview's branch: "absent", "partial", "torn" or "whole"
  branchPc,    \* the deploy of the preview: "idle" or "copying"
  handedOut,   \* the preview's container was given the branch
  importPc,    \* appImport: "off", or the step it is at
  imported,    \* what is in place of {"repo", "row", "spec"}, and "data" if its seed has some
  halfDone,    \* copies a kill or an error left half done: "live", "branch" or an id
  dataKills    \* deaths so far

dataVars == <<live, pages, wal, appUp, copyOnWrite, clock, snapDir, snapper, overlapped,
              branchDir, branchPc, handedOut, importPc, imported, halfDone, dataKills>>

liveVars   == <<live, pages, wal, appUp>>
snapVars   == <<clock, snapDir, snapper, overlapped>>
branchVars == <<branchDir, branchPc, handedOut>>
importVars == <<importPc, imported>>

SnapIds  == 1..MaxClock
SnapPcs  == {"idle", "clone", "copying", "verify", "done", "failed"}
ImportPcs == {"off", "made", "bundle", "row", "data", "copying", "verify", "spec", "done", "failed"}

DataTypeOK ==
  /\ live \in {"absent", "partial", "whole"}
  /\ pages \in [1..2 -> 0..MaxWrites] /\ wal \in 0..MaxWrites
  /\ appUp \in BOOLEAN /\ copyOnWrite \in BOOLEAN
  /\ clock \in SnapIds
  /\ snapDir \in [SnapIds -> {"absent", "partial", "unverified", "torn", "mixed", "whole"}]
  /\ snapper \in [Snappers -> [pc : SnapPcs, id : 0..MaxClock]]
  /\ overlapped \subseteq SnapIds
  /\ branchDir \in {"absent", "partial", "torn", "whole"}
  /\ branchPc \in {"idle", "copying"} /\ handedOut \in BOOLEAN
  /\ importPc \in ImportPcs
  /\ imported \subseteq {"repo", "row", "data", "spec"}
  /\ halfDone \subseteq {<<"live", 0>>, <<"branch", 0>>} \cup ({"snap"} \X SnapIds)
  /\ dataKills \in 0..MaxDataKills

\* An app that runs here already, or one that is to come from elsewhere.
DataInit ==
  /\ \/ /\ imported = {"repo", "row", "spec"} /\ importPc = "made"
        /\ \/ live = "whole" /\ appUp = TRUE
           \/ live = "absent" /\ appUp = FALSE
     \/ live \in {"absent", "whole"} /\ appUp = FALSE /\ imported = {} /\ importPc = "off"
  /\ pages = [p \in 1..2 |-> 0] /\ wal = 0
  /\ copyOnWrite \in BOOLEAN
  /\ clock = 1
  /\ snapDir = [id \in SnapIds |-> "absent"]
  /\ snapper = [s \in Snappers |-> [pc |-> "idle", id |-> 0]]
  /\ overlapped = {}
  /\ branchDir = "absent" /\ branchPc = "idle" /\ handedOut = FALSE
  /\ halfDone = {} /\ dataKills = 0

-------------------------------------------------------------------------------
(***************************************************************************)
(* The app's container (SQLite in WAL mode).                               *)
(***************************************************************************)

Commit ==
  /\ appUp /\ wal < MaxWrites
  /\ wal' = wal + 1
  /\ UNCHANGED <<live, pages, appUp, copyOnWrite, snapVars, branchVars, importVars, halfDone,
                 dataKills>>

\* The app's own checkpoint, a page at a time.
AppCheckpoint ==
  /\ appUp
  /\ \/ pages[1] = pages[2] /\ pages[1] < wal /\ pages' = [pages EXCEPT ![1] = wal]
     \/ pages[1] # pages[2] /\ pages' = [pages EXCEPT ![2] = pages[1]]
  /\ UNCHANGED <<live, wal, appUp, copyOnWrite, snapVars, branchVars, importVars, halfDone,
                 dataKills>>

\* Variant: the checkpoint takes the transaction under way too.
CheckpointAhead ==
  \/ pages[1] = pages[2] /\ pages' = [p \in 1..2 |-> wal + 1]
  \/ appUp /\ UNCHANGED pages

\* The daemon's checkpoint before a copy: it moves everything, or finds the
\* database busy, which is no error.
Checkpoint ==
  \/ pages[1] = pages[2] /\ pages' = [p \in 1..2 |-> wal]
  \/ appUp /\ UNCHANGED pages

\* What a copy of app.db is: a clone takes the file as it stands, VACUUM INTO
\* takes the last transaction committed.
Copied == IF copyOnWrite /\ pages[1] # pages[2] THEN "torn" ELSE "whole"

\* provisionDataDir, in a deploy of the app: whatever is there is taken.
DeployApp ==
  /\ ~appUp /\ "spec" \in imported
  /\ live' = IF live = "absent" THEN "whole" ELSE live
  /\ appUp' = TRUE
  /\ UNCHANGED <<pages, wal, copyOnWrite, snapVars, branchVars, importVars, halfDone, dataKills>>

-------------------------------------------------------------------------------
(***************************************************************************)
(* snapshot.                                                               *)
(***************************************************************************)

ClockTicks ==
  /\ clock < MaxClock
  /\ clock' = clock + 1
  /\ UNCHANGED <<liveVars, copyOnWrite, snapDir, snapper, overlapped, branchVars, importVars,
                 halfDone, dataKills>>

\* Variant: the millisecond names the snapshot, whatever is there.
FreeIdsUnchecked == {clock}

\* The directories that may still be named: from now on, and not there yet.
FreeIds == {id \in clock..MaxClock : snapDir[id] = "absent"}

InFlight(s) == snapper[s].pc \in {"clone", "copying", "verify"}

\* The checkpoint, and the first name that is free; the directory is made later.
SnapshotBegins(s) ==
  /\ snapper[s].pc = "idle" /\ live # "absent" /\ "row" \in imported
  /\ Checkpoint
  /\ \E id \in FreeIds :
       /\ \A i \in FreeIds : id <= i
       /\ snapper' = [snapper EXCEPT ![s] = [pc |-> "clone", id |-> id]]
       /\ overlapped' = overlapped \cup
            {i \in {id} : \E t \in Snappers : InFlight(t) /\ snapper[t].id = i}
  /\ UNCHANGED <<live, wal, appUp, copyOnWrite, clock, snapDir, branchVars, importVars,
                 halfDone, dataKills>>

\* `cp` into a directory that exists copies beside what it holds.
CloneBegins(s) ==
  /\ snapper[s].pc = "clone"
  /\ snapDir' = [snapDir EXCEPT ![snapper[s].id] = IF @ = "absent" THEN "partial" ELSE "mixed"]
  /\ snapper' = [snapper EXCEPT ![s].pc = "copying"]
  /\ UNCHANGED <<liveVars, copyOnWrite, clock, overlapped, branchVars, importVars, halfDone,
                 dataKills>>

\* A copy of a directory that is itself half there is half there, or torn.
CloneEnds(s) ==
  /\ snapper[s].pc = "copying"
  /\ snapDir' = [snapDir EXCEPT ![snapper[s].id] =
       CASE @ = "partial" /\ live = "whole" /\ Copied = "whole" -> "unverified"
         [] @ = "partial" /\ live = "whole" /\ Copied = "torn"  -> "torn"
         [] OTHER -> @]
  /\ snapper' = [snapper EXCEPT ![s].pc = "verify"]
  /\ overlapped' = overlapped \cup {i \in {snapper[s].id} : live # "whole"}
  /\ UNCHANGED <<liveVars, copyOnWrite, clock, branchVars, importVars, halfDone,
                 dataKills>>

\* integrity_check of the copy, if it has an app.db: what was copied before the
\* import wrote one passes.
Verified(s) == snapDir[snapper[s].id] # "torn"

SnapshotEnds(s) ==
  /\ snapper[s].pc = "verify"
  /\ Verified(s)
  /\ snapDir' = [snapDir EXCEPT ![snapper[s].id] = IF @ = "unverified" THEN "whole" ELSE @]
  /\ snapper' = [snapper EXCEPT ![s].pc = "done"]
  /\ UNCHANGED <<liveVars, copyOnWrite, clock, overlapped, branchVars, importVars, halfDone,
                 dataKills>>

\* Variant: a copy that fails stays.
SnapshotFailsKept(s) ==
  /\ snapper[s].pc \in {"copying", "verify"}
  /\ snapper' = [snapper EXCEPT ![s].pc = "failed"]
  /\ UNCHANGED <<liveVars, copyOnWrite, clock, snapDir, overlapped, branchVars, importVars,
                 halfDone, dataKills>>

\* Any failure past the choice of the name removes the directory.
SnapshotFails(s) ==
  /\ snapper[s].pc \in {"copying", "verify"}
  /\ snapDir' = [snapDir EXCEPT ![snapper[s].id] = "absent"]
  /\ snapper' = [snapper EXCEPT ![s].pc = "failed"]
  /\ UNCHANGED <<liveVars, copyOnWrite, clock, overlapped, branchVars, importVars, halfDone,
                 dataKills>>

-------------------------------------------------------------------------------
(***************************************************************************)
(* branchData and deleteBranchData, in the passes of the reconciler.       *)
(***************************************************************************)

\* A branch that exists is taken as it is.
BranchReused ==
  /\ branchPc = "idle" /\ branchDir # "absent" /\ "spec" \in imported
  /\ handedOut' = TRUE
  /\ UNCHANGED <<liveVars, copyOnWrite, snapVars, branchDir, branchPc, importVars, halfDone,
                 dataKills>>

\* Variant: the container is started while its data is copied.
BranchBeginsEarly ==
  /\ branchPc = "idle" /\ branchDir = "absent" /\ "spec" \in imported
  /\ Checkpoint /\ branchDir' = "partial" /\ branchPc' = "copying" /\ handedOut' = TRUE
  /\ UNCHANGED <<live, wal, appUp, copyOnWrite, snapVars, importVars, halfDone, dataKills>>

BranchBegins ==
  /\ branchPc = "idle" /\ branchDir = "absent" /\ "spec" \in imported
  /\ IF live = "absent"
       THEN branchDir' = "whole" /\ handedOut' = TRUE /\ UNCHANGED <<pages, branchPc>>
       ELSE Checkpoint /\ branchDir' = "partial" /\ branchPc' = "copying" /\ UNCHANGED handedOut
  /\ UNCHANGED <<live, wal, appUp, copyOnWrite, snapVars, importVars, halfDone, dataKills>>

BranchEnds ==
  /\ branchPc = "copying"
  /\ branchDir' = IF live = "whole" THEN Copied ELSE "partial"
  /\ branchPc' = "idle"
  /\ handedOut' = TRUE
  /\ UNCHANGED <<liveVars, copyOnWrite, snapVars, importVars, halfDone, dataKills>>

\* The copy fails, say for lack of space, and what it wrote stays.
BranchFails ==
  /\ branchPc = "copying"
  /\ branchPc' = "idle"
  /\ halfDone' = halfDone \cup {<<"branch", 0>>}
  /\ UNCHANGED <<liveVars, copyOnWrite, snapVars, branchDir, handedOut, importVars, dataKills>>

\* The prune of a preview takes its container and its branch.
DeleteBranch ==
  /\ branchPc = "idle" /\ branchDir # "absent"
  /\ branchDir' = "absent" /\ handedOut' = FALSE
  /\ halfDone' = halfDone \ {<<"branch", 0>>}
  /\ UNCHANGED <<liveVars, copyOnWrite, snapVars, branchPc, importVars, dataKills>>

-------------------------------------------------------------------------------
(***************************************************************************)
(* appImport: the repository, its row, the data, the spec.                 *)
(***************************************************************************)

ImportGoto(pc) == importPc' = pc

\* The name is free if the store has no such repository.
ImportBegins ==
  /\ importPc \in {"off", "failed"} /\ "row" \notin imported
  /\ ImportGoto("bundle")
  /\ UNCHANGED <<liveVars, copyOnWrite, snapVars, branchVars, imported, halfDone, dataKills>>

\* restoreFromBundle refuses a directory that exists.
ImportBundle ==
  /\ importPc = "bundle"
  /\ \/ "repo" \notin imported /\ imported' = imported \cup {"repo"} /\ ImportGoto("row")
     \/ "repo" \in imported /\ ImportGoto("failed") /\ UNCHANGED imported
  /\ UNCHANGED <<liveVars, copyOnWrite, snapVars, branchVars, halfDone, dataKills>>

ImportRow ==
  /\ importPc = "row"
  /\ imported' = imported \cup {"row"}
  /\ ImportGoto("data")
  /\ UNCHANGED <<liveVars, copyOnWrite, snapVars, branchVars, halfDone, dataKills>>

\* Variant: the data of the import replaces what is there.
MayImportDataAlways == TRUE

\* importDataDir refuses to write over a live directory.
MayImportData == live = "absent"

ImportData ==
  /\ importPc = "data"
  /\ imported' = imported \cup {"data"}
  /\ \/ MayImportData /\ live' = "partial" /\ ImportGoto("copying")
     \/ ~MayImportData /\ ImportGoto("failed") /\ UNCHANGED live
  /\ UNCHANGED <<pages, wal, appUp, copyOnWrite, snapVars, branchVars, halfDone, dataKills>>

\* The copy, then the check of its database.
ImportCopied ==
  /\ importPc = "copying"
  /\ ImportGoto("verify")
  /\ UNCHANGED <<liveVars, copyOnWrite, snapVars, branchVars, imported, halfDone, dataKills>>

\* Variant: a database that does not verify is removed, and the import goes on.
ImportVerifiedIgnored ==
  /\ importPc = "verify"
  /\ live' \in {"whole", "absent"} /\ ImportGoto("spec")
  /\ UNCHANGED <<pages, wal, appUp, copyOnWrite, snapVars, branchVars, imported, halfDone,
                 dataKills>>

ImportVerified ==
  /\ importPc = "verify"
  /\ \/ live' = "whole" /\ ImportGoto("spec")
     \/ live' = "absent" /\ ImportGoto("failed")
  /\ UNCHANGED <<pages, wal, appUp, copyOnWrite, snapVars, branchVars, imported, halfDone,
                 dataKills>>

\* An app without data gets an empty directory, or the one it had; or none, an error
\* that is dropped: its deploy will try again.
ImportNoData ==
  /\ importPc = "data"
  /\ live' \in IF live = "absent" THEN {"whole", "absent"} ELSE {live}
  /\ ImportGoto("spec")
  /\ UNCHANGED <<pages, wal, appUp, copyOnWrite, snapVars, branchVars, imported, halfDone,
                 dataKills>>

\* The commit to sys/gitops succeeds or is refused.
ImportSpec ==
  /\ importPc = "spec"
  /\ \/ imported' = imported \cup {"spec"} /\ ImportGoto("done")
     \/ ImportGoto("failed") /\ UNCHANGED imported
  /\ UNCHANGED <<liveVars, copyOnWrite, snapVars, branchVars, halfDone, dataKills>>

-------------------------------------------------------------------------------
\* The daemon dies; the app's container runs on.
DataKill ==
  /\ dataKills < MaxDataKills
  /\ dataKills' = dataKills + 1
  /\ halfDone' = halfDone
       \cup {<<"live", 0>> : x \in {y \in {1} : importPc \in {"copying", "verify"}}}
       \cup {<<"branch", 0>> : x \in {y \in {1} : branchPc = "copying"}}
       \cup {<<"snap", snapper[s].id>> : s \in {t \in Snappers : InFlight(t)}}
  /\ snapper' = [s \in Snappers |-> IF InFlight(s) THEN [snapper[s] EXCEPT !.pc = "failed"]
                                                   ELSE snapper[s]]
  /\ branchPc' = "idle"
  /\ importPc' = IF importPc \in {"off", "made", "done"} THEN importPc ELSE "failed"
  /\ UNCHANGED <<liveVars, copyOnWrite, clock, snapDir, overlapped, branchDir, handedOut,
                 imported>>

DataNext ==
  \/ Commit \/ AppCheckpoint \/ DeployApp \/ ClockTicks
  \/ \E s \in Snappers : SnapshotBegins(s) \/ CloneBegins(s) \/ CloneEnds(s)
                         \/ SnapshotEnds(s) \/ SnapshotFails(s)
  \/ BranchReused \/ BranchBegins \/ BranchEnds \/ BranchFails \/ DeleteBranch
  \/ ImportBegins \/ ImportBundle \/ ImportRow \/ ImportData \/ ImportCopied \/ ImportVerified
  \/ ImportNoData \/ ImportSpec
  \/ DataKill

DataSpec == DataInit /\ [][DataNext]_dataVars

-------------------------------------------------------------------------------
(***************************************************************************)
(* Properties.                                                             *)
(***************************************************************************)

\* A snapshot that is listed and that nobody works on can be restored: neither a
\* partial copy nor one torn by the app's own checkpoint stays, unless the daemon
\* died on it.  (Two calls in one millisecond share a directory, and one made while
\* an import fills the app's directory may copy a part of it.)
ListedSnapshotsWhole ==
  \A id \in SnapIds \ overlapped :
    snapDir[id] \notin {"absent", "whole"} =>
      \/ <<"snap", id>> \in halfDone
      \/ \E s \in Snappers : InFlight(s) /\ snapper[s].id = id

\* A snapshot that was answered is there to stay: no later call names or removes
\* its directory.
AnsweredSnapshotsStay ==
  \A s \in Snappers :
    snapper[s].pc = "done" /\ snapper[s].id \notin overlapped => snapDir[snapper[s].id] = "whole"

\* A preview never starts on a half-copied branch, unless an earlier copy of it was
\* cut short; with clones of a running app's file it may be torn.
BranchesWhole ==
  handedOut /\ {<<"branch", 0>>, <<"live", 0>>} \cap halfDone = {} =>
    branchDir = "whole" \/ (copyOnWrite /\ branchDir = "torn")

\* An app that came from elsewhere is deployed only with its repository, its row and all
\* the data of its seed in place, however the import was interrupted or retried.
ImportedIsWhole ==
  importPc = "done" /\ <<"live", 0>> \notin halfDone =>
    /\ {"repo", "row", "spec"} \subseteq imported /\ live # "partial"
    /\ "data" \in imported => live = "whole"

\* No import writes over data that is there.
NoClobber ==
  [][live = "whole" => live' = "whole"]_dataVars

\* However the app writes and the daemon dies: what is listed, answered, branched or
\* imported is a whole copy, and no import writes over data.
DataIsWhole ==
  [](ListedSnapshotsWhole /\ AnsweredSnapshotsStay /\ BranchesWhole /\ ImportedIsWhole)
  /\ NoClobber
===============================================================================
