\* A human files a branch for review and nothing crashes.
SPECIFICATION FairSpec
CONSTANTS
  i1 = i1
  Items = {i1}
  ProposalOnly = {}
  MaxRework = 0
  Credentialed = TRUE
  MaxRequeues = 0
  MaxCrashes = 0
PROPERTIES
  HandPushedIsReviewed
\* An item that is shipped or closed stops, and so may the bounded system.
CHECK_DEADLOCK FALSE
