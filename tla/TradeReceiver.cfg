SPECIFICATION FairSpec
CONSTANTS
  Groups = {1, 2}
  MaxMsgs = 2
  MaxCrashes = 1
  MaxDrops = 1
INVARIANT StagedIsLog
PROPERTIES ExitNeedsDeath EveryTradeStaged
CHECK_DEADLOCK FALSE
