SPECIFICATION FairSpec
CONSTANTS
  Requests = {r1}
  MaxRetries = 3
  BaseBackoff = 1
  MaxBackoff = 30
  ChannelRetries = 2
  PauseTime = 2
  SilenceTime = 3
  MaxFaults = 3
INVARIANTS TypeOK ErrorMeansNotQueued AcceptedWasWritten RedialsInTime AnswersInTime
PROPERTIES OneFaultSurvived RequestsAnswered
CHECK_DEADLOCK FALSE
