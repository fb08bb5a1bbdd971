SPECIFICATION FairSpec
CONSTANTS
  Writers = {w1, w2}
  Readers = {r1}
  Slots = 2
  MaxRec = 2
  MaxWrites = 4
  MaxDeaths = 2
  MaxCreateDeaths = 1
INVARIANTS TypeOK RingWhole NoSilentJump ReadsWholeUnlessWidowed
PROPERTY LockServed
\* after a death between semget and SETVAL everyone waits
CHECK_DEADLOCK FALSE
