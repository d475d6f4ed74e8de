CONSTANTS
  p1 = p1
  p2 = p2
  c1 = c1
  c2 = c2
  Callers <- MCCallers
  Closers <- MCClosers
  QueueSize = 1
  MaxRecords = 2
SPECIFICATION FairSpec
CHECK_DEADLOCK FALSE
INVARIANTS
  NoSendOnClosedQueue
  CloseDrains
  NoWriteAfterSinkClose
PROPERTY CallsReturn
