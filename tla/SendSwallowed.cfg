SPECIFICATION Spec
CONSTANTS
  Requests = {r1, r2}
  MaxRetries = 3
  BaseBackoff = 1
  MaxBackoff = 30
  ChannelRetries = 5
  PauseTime = 2
  SilenceTime = 3
  MaxFaults = 1
INVARIANT SendEventReports
CHECK_DEADLOCK FALSE
