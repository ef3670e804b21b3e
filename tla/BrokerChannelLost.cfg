SPECIFICATION FairSpec
CONSTANTS
  MaxConns = 3
  ChanCap = 2
  ChannelFaults = TRUE
  MaxFaults = 1
  MaxTicks = 2
PROPERTY Recovers
CHECK_DEADLOCK FALSE
