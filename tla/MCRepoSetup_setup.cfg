SPECIFICATION Spec
CONSTANTS
  c1 = c1
  c2 = c2
  c3 = c3
  p1 = p1
  p2 = p2
  p3 = p3
  None = None
  Call = {c1, c2, c3}
  Push = {p1, p2, p3}
  Empty = {p3}
  Skipped = {p2}
  Careful = {TRUE, FALSE}
  MaxPushes = 2
  MaxFailures = 1
  MaxCrashes = 1
SYMMETRY AnyCall
INVARIANTS
  SetupInv
  OnePipelinePerPush
  UnwantedIsIgnored
CHECK_DEADLOCK FALSE
