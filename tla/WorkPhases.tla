------------------------------ MODULE WorkPhases ------------------------------
(***************************************************************************)
(* The phases of a work item and the table of legal edges between them     *)
(* (packages/store/src/index.ts).  The table is the single enforcement     *)
(* point of process state: every transition of the store is a              *)
(* compare-and-swap UPDATE that only fires from a phase the table lists.   *)
(* This module is constant-level; WorkItem and Crew extend it.             *)
(***************************************************************************)

\* "none" stands for a work item that has not been filed yet.
Phases == {"intent", "queued", "building", "reviewing", "reworking",
           "shipped", "parked", "closed"}

\* The phases createIssue may give a new item: birth is not a transition.
BirthPhases == {"intent", "queued", "reviewing"}

\* Keys are targets, values the phases that may move there.
WorkEdges ==
  [intent    |-> {},
   queued    |-> {"intent", "parked"},
   building  |-> {"queued"},
   reviewing |-> {"building", "reworking"},
   reworking |-> {"reviewing"},
   shipped   |-> {"reviewing", "reworking", "parked"},
   parked    |-> {"building", "reviewing", "reworking"},
   closed    |-> {"intent", "queued", "building", "reviewing", "reworking",
                  "parked"}]

\* openWorkBlockers counts a blocker until its phase is one of these.
Terminal == {"shipped", "closed"}

\* The phases in which the item is the crew's.
Active == {"building", "reviewing", "reworking"}

===============================================================================
