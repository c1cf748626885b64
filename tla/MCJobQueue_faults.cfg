SPECIFICATION FairSpec
CONSTANTS
  a = a
  b = b
  r1 = r1
  r2 = r2
  p1 = p1
  p2 = p2
  Job = {a, b}
  Runner = {r1, r2}
  Pull = {p1, p2}
  Pipelines = {{b}}
  CreatedAt <- OneAfterTheOther
  MaxParallelJobs = 1
  TimeoutsHappen = TRUE
  Unreliable = {r1}
  MaxSessions = 2
INVARIANTS
  QueueInv
PROPERTIES
  ImplementsAssignment
  CancelledNeverStarts
  EveryJobLeaves
CHECK_DEADLOCK FALSE
