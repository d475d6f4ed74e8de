CONSTANTS
  remote = remote
  agent = agent
  k1 = k1
  None = None
  Forwards <- MCForwards
  Agents <- OneAgent
  Conns <- OneConn
  Keys <- MCKeys
  Requested <- MCRequested
  Actual <- MCActual
  MaxListens = 1
SPECIFICATION FairSpec
INVARIANTS
  EarlyStreamKept
  ClosedIsReleased
PROPERTIES
  ShutdownReleases
CHECK_DEADLOCK FALSE
