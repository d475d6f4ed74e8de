CONSTANTS
  c1 = c1
  c2 = c2
  o1 = o1
  None = None
  MaxAttempts = 2
  Conns <- TwoConns
  Ops <- OneOp
  Serving <- AllServing
  Methods <- OneMethod
  reader = reader
  writer = writer
  NoTime = NoTime
  Streams <- TwoStreams
  Durations <- MCDurations
  MaxTime = 4
  MaxApplies = 1
SPECIFICATION MCSpec
CHECK_DEADLOCK FALSE
INVARIANTS
  AttemptsReported
  LifecycleClosed
  TimeoutsEnforced
PROPERTIES
  QuietAfterEnd
  ShutdownCompletes
