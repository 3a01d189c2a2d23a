\* Two workers, three rows, batches of two, two faults, two publication times.
CONSTANTS
  w1 = w1  w2 = w2
  Worker = {w1, w2}
  Batch = 2
  MaxId = 3
  MaxTime = 2
  MaxFaults = 2
SPECIFICATION FairSpec
INVARIANTS
  TypeOK
  OnlyExpiredAreDeleted
  CountedOnce
  OnlyDisorderLeavesGaps
PROPERTIES
  EveryExpiredRowGoes
