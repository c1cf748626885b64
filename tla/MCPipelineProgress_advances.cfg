SPECIFICATION Spec
CONSTANTS
  clone = clone
  a = a
  b = b
  c = c
  d = d
  Job = {clone, a, b, c, d}
  Clone = clone
  Dependencies <- Diamond
  AllowFailure = {a}
  WhenStatus <- DOnFailure
  OffBranch = {c}
  Propagate = {}
  ConfigValid = {TRUE, FALSE}
  StatusInOrder = TRUE
  GitServer = "gitlab"
  MaxCalls = 2
INVARIANTS
  IInv
  NoLostWakeup
  LockedAfterUpstream
  UpstreamStatusCurrent
  GreenIsEarned
  EndedMeansDone
PROPERTY ImplementsPromise
CHECK_DEADLOCK FALSE
