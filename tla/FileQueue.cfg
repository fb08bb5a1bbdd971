CONSTANTS
  Writers = {w1, w2}
  Peekers = {p}
  Takers = {t}
  ReadMax = 2
  WriteMax = 2
  Interval = 1
  MaxRows = 2
  MaxFaults = 2
SPECIFICATION Spec
INVARIANTS TypeOK RowNumbers ReadsWhole NoRowPassedOver SaveIsFresh
PROPERTY EveryRowHandled
