SPECIFICATION FairSpec
CONSTANTS
  MaxOrders = 4
  MaxCrashes = 1
  MaxDrops = 2
  MaxRejects = 2
  MaxUndefined = 1
  RejectOffsets = {0, 1}
  Answers = {0}
INVARIANTS SequenceIsPosition NoOrderPassedOver
PROPERTIES ImplementsRelay EveryOrderTaken
CHECK_DEADLOCK FALSE
