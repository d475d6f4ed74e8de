CONSTANTS
  s1 = s1
  Streams <- OneStream
  MaxEnv = 1
  MaxResizes = 2
  MaxAgents = 1
SPECIFICATION FairSpec
INVARIANTS
  BackendSees
  HandlerEndsLast
  HalfCloseKept
PROPERTY SessionAndStreamsEnd
CHECK_DEADLOCK FALSE
