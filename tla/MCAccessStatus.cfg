CONSTANTS
  p1 = p1
  Pods <- MCPods
  Specs <- MCSpecs
  MaxRequeues = 1
  MaxChanges = 2
  MaxFailures = 2
SPECIFICATION FairSpec
CHECK_DEADLOCK FALSE
INVARIANT ObservedGenerationHonest
PROPERTY StatusConverges
