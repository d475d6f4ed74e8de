CONSTANTS
  o1 = o1
  o2 = o2
  c1 = c1
  c2 = c2
  None = None
  Ops <- TwoOps
  ClientChannels <- OneClientChannel
  UpstreamChannels <- OneUpstreamChannel
  Keys <- MCKeys
  ZeroKey <- MCZeroKey
  GlobalRequests <- MCGlobal
  ChannelTypes <- AllTypes
  ChannelRequests <- MCRequests
SPECIFICATION FairSpec
CHECK_DEADLOCK FALSE
INVARIANTS
  OutstandingIsHeld
  ClosedHoldsNothing
  TableFollowsUpstream
PROPERTY CompletedOnce
