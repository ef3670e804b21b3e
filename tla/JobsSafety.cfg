SPECIFICATION Spec
CONSTANTS
  m1 = m1
  m2 = m2
  bad = bad
  a = a
  b = b
  Messages = {m1, m2}
  Ids = {a, b}
  IdOf <- UniqueIds
  Malformed = {}
  MaxConcurrency = 65537
  JobTimeout = TRUE
  MaxConns = 2
  MaxDeliveries = 4
INVARIANTS TypeOK ManifestBacked AckedWasCompleted SessionConcurrency GaugeExactWhenBusy DeletedWereInserted
PROPERTIES NoOverwrite ImplementsContract LeakHasCause DoubleSettleHasCause SelfDropHasCause
CHECK_DEADLOCK FALSE
