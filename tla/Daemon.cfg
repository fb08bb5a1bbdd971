CONSTANTS
  Progs = {1}
  MaxInst = 3
  MaxEvents = 3
SPECIFICATION Spec
INVARIANTS TypeOK OneWorks NumberIsWorker StopReachesAll
PROPERTY Restarted
