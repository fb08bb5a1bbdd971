SPECIFICATION TableFairSpec
CONSTANTS
  Keys <- MCKeys
  Home <- MCHome
  Hash = 2
  Probe = 1
  MaxOrders = 3
  MAX_MICHE = 2
  Quantity = 2
  MaxReports = 5
  MaxRetry = 0
  MaxDeaths = 1
  Bond = FALSE
\* the exchange may stop
CHECK_DEADLOCK FALSE
INVARIANTS TableTypeOK NeverUnderstated LookupExact
PROPERTY QueuesDrained
