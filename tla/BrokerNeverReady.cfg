SPECIFICATION FairSpec
CONSTANTS
  MaxConns = 3
  ChanCap = 2
  ChannelFaults = FALSE
  MaxFaults = 1
  MaxTicks = 2
PROPERTY ReadinessFollowsBroker
CHECK_DEADLOCK FALSE
