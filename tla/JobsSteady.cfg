SPECIFICATION FairSpec
CONSTANTS
  m1 = m1
  m2 = m2
  bad = bad
  a = a
  b = b
  Messages = {m1, m2, bad}
  Ids = {a, b}
  IdOf <- SharedIds
  Malformed = {bad}
  MaxConcurrency = 65536
  JobTimeout = TRUE
  MaxConns = 1
  MaxDeliveries = 4
INVARIANTS NoDoubleSettle NoLeakedDelivery DiscardedWasRefused
PROPERTIES DeliveriesSettle
CHECK_DEADLOCK FALSE
