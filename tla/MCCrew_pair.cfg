\* A built item and a proposal that may block each other, a rework and a crash.
SPECIFICATION FairSpec
CONSTANTS
  i1 = i1
  i2 = i2
  Items = {i1, i2}
  ProposalOnly = {i2}
  MaxRework = 1
  Credentialed = TRUE
  MaxRequeues = 0
  MaxCrashes = 1
INVARIANTS
  IInv
  BlockersFirst
  Acyclic
PROPERTIES
  CrewLetsGo
  QueueDrains
\* An item that is shipped or closed stops, and so may the bounded system.
CHECK_DEADLOCK FALSE
