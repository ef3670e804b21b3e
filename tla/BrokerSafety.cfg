SPECIFICATION Spec
CONSTANTS
  MaxConns = 3
  ChanCap = 2
  ChannelFaults = TRUE
  MaxFaults = 2
  MaxTicks = 2
INVARIANTS TypeOK NoLostWakeup OneConnection NoChannelAfterTeardown
CHECK_DEADLOCK FALSE
