SPECIFICATION Spec
CONSTANTS
  MaxOrders = 3
  MaxCrashes = 0
  MaxDrops = 0
  MaxRejects = 1
  MaxUndefined = 0
  RejectOffsets = {0, 1}
  Answers = {0}
PROPERTIES ContinuesAfterLastSent
CHECK_DEADLOCK FALSE
