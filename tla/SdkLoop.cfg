SPECIFICATION FairSpec
CONSTANTS
  N = 4
  MalformedSets = {{}, {3}}
  Requests = {r1, r2}
  MaxRuns = 2
  MaxFaults = 2
INVARIANTS TypeOK PostedInOrder NoLeakedConnection
PROPERTIES LossHasCause KeepsUp InterruptEnds
CHECK_DEADLOCK FALSE
