\* A restart resumes a review whose item a human closes.
SPECIFICATION Spec
CONSTANTS
  i1 = i1
  Items = {i1}
  ProposalOnly = {}
  MaxRework = 0
  Credentialed = TRUE
  MaxRequeues = 0
  MaxCrashes = 1
INVARIANTS
  DaemonSurvives
\* An item that is shipped or closed stops, and so may the bounded system.
CHECK_DEADLOCK FALSE
