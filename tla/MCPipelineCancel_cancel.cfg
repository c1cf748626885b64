SPECIFICATION FairCancelSpec
CONSTANTS
  clone = clone
  a = a
  b = b
  Job = {clone, a, b}
  Clone = clone
  Dependencies <- Chain
  AllowFailure = {}
  WhenStatus <- AllAlways
  OffBranch = {}
  Propagate = {}
  ConfigValid = {TRUE, FALSE}
  StatusInOrder = FALSE
  GitServer = "gitlab"
  MaxCalls = 2
  Scenarios = {"steady", "early", "restart", "lost", "disorder", "refusal"}
  MaxRequests = 1
  MaxOrderly = 1
INVARIANTS
  CancelInv
PROPERTIES
  NothingStartsOnceCancelled
  CancelledStays
  Terminates
CHECK_DEADLOCK FALSE
