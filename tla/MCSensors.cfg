CONSTANTS
  MaxFaults = 2
  FirstIndex = 254
  MaxCycles = 3
  MaxRestarts = 1
  MaxCount = 5
  Durations = {0, 63, 64, 256, 1923, 4032}
  Pulses = 2
SPECIFICATION Spec
CHECK_DEADLOCK FALSE
INVARIANTS TypeOK CycleIsFresh SortedByAge HeatsAsAsked WrittenAsleep
PROPERTIES DeliveredOnce
