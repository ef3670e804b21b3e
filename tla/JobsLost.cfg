SPECIFICATION Spec
CONSTANTS
  m1 = m1
  m2 = m2
  bad = bad
  a = a
  b = b
  Messages = {m1, m2}
  Ids = {a, b}
  IdOf <- UniqueIds
  Malformed = {}
  MaxConcurrency = 2
  JobTimeout = TRUE
  MaxConns = 2
  MaxDeliveries = 3
INVARIANT DiscardedWasRefused
CHECK_DEADLOCK FALSE
