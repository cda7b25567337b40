\* One item and everything that can happen to it: two crashes, two queueings,
\* two reworks, human merges and closes at any point.
SPECIFICATION Spec
CONSTANTS
  i1 = i1
  Items = {i1}
  ProposalOnly = {}
  MaxRework = 2
  Credentialed = TRUE
  MaxRequeues = 2
  MaxCrashes = 2
INVARIANTS
  TypeOK
  JobOwnsItem
  NoOrphan
  ChangeFollowsPhase
  ReworkBudget
PROPERTIES
  ImplementsWorkItem
\* An item that is shipped or closed stops, and so may the bounded system.
CHECK_DEADLOCK FALSE
