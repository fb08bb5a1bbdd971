SPECIFICATION FairSpec
CONSTANTS
  Max = 2
  Batch = 2
  SyncBatch = 2
  MaxWrites = 4
  MaxBehind = 3
  MaxDeaths = 1
CHECK_DEADLOCK FALSE
INVARIANTS TypeOK SafetyNetUnlessLapped FileIsQueueUnlessSpoiled
PROPERTY EveryRecordPassed
