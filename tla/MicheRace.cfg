SPECIFICATION TableSpec
CONSTANTS
  Keys <- MCKeys
  Home <- MCHome
  Hash = 2
  Probe = 1
  MaxOrders = 3
  MAX_MICHE = 2
  Quantity = 2
  MaxReports = 5
  MaxRetry = 0
  MaxDeaths = 0
  Bond = FALSE
CHECK_DEADLOCK FALSE
INVARIANT JanIsRemaining
