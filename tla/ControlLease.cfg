CONSTANTS
  c1 = c1
  c2 = c2
  Clients <- MCClients
  NoClient = NoClient
  StateLoop = StateLoop
  LeaseTicks <- MCLeaseTicks
  WatchTicks <- MCWatchTicks
SPECIFICATION FairSpec
INVARIANT TypeOK
INVARIANT AxesEndWithControl
INVARIANT SilenceFollows
PROPERTY ImplementsExclusiveControl
PROPERTY GatewayFallsSilent
CHECK_DEADLOCK FALSE
