SPECIFICATION FairSpec
CONSTANTS
  MaxConns = 2
  ChanCap = 2
  ChannelFaults = FALSE
  MaxFaults = 2
  MaxTicks = 1
INVARIANT HealthyMeansConsumer
PROPERTIES Recovers ShutdownCompletes
CHECK_DEADLOCK FALSE
