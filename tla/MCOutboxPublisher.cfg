\* Two workers, three rows of two items, batches of two, two faults.
CONSTANTS
  w1 = w1  w2 = w2
  NoWorker = NoWorker
  Worker = {w1, w2}
  i1 = i1  i2 = i2
  Item = {i1, i2}
  BatchSize = 2
  MaxId = 3
  MaxFaults = 2
SPECIFICATION Spec
SYMMETRY Symmetry
INVARIANTS
  TypeOK
  PublishedOnce
  ItemOrder
  NumbersAreDense
PROPERTIES
  AppendOnly
  ImplementsStreamTable
