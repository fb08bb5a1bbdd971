\* Two slots and five writes: the ring wraps and readers are overrun, with
\* one crash at any point.
SPECIFICATION FairSpec
CONSTANTS
  Slots = 2
  Takers = {dist}
  Peekers = {peek}
  MaxRec = 2
  MaxWrites = 5
  MaxCrashes = 1
INVARIANTS TypeOK TakerOrder TakerAccounting PeekerNoLoss
PROPERTIES ImplementsLog Drained
\* the writes of a behaviour are bounded
CHECK_DEADLOCK FALSE
