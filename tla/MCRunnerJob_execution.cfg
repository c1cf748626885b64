SPECIFICATION FairSpec
CONSTANTS
  clone = clone
  a = a
  Job = {clone, a}
  CloneJobs = {clone}
  DockerFails = {a}
  SlowStream = {a}
  MaxStops = 2
  MaxCleanups = 1
INVARIANTS
  RunnerInv
PROPERTIES
  ImplementsReports
  EveryJobReports
  CleanupEnds
CHECK_DEADLOCK FALSE
