CONSTANTS
  r1 = r1
  r2 = r2
  None = None
  Requests <- TwoRequests
  MaxPods = 2
  MaxContainers = 2
SPECIFICATION Spec
SYMMETRY RequestSymmetry
CHECK_DEADLOCK FALSE
INVARIANTS
  RightInstance
  CachedHelperIntact
  DrainedIsIdle
  WaitersAreServed
