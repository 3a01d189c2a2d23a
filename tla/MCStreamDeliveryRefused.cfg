\* A publisher that rolled back, and retention up to the hole it left.
CONSTANTS
  w1 = w1  w2 = w2  c1 = c1
  i1 = i1  i2 = i2
  None = None
  Shutdown = Shutdown
  Worker = {w1, w2}
  Client = {c1}
  Item = {i1}
  Filter <- Unfiltered
  QueueSize = 1
  TailBatch = 2
  PageSize = 1
  Retention = TRUE
  TrimInOrder = TRUE
  MaxSeq = 3
  MaxFaults = 2
SPECIFICATION Spec
PROPERTIES
  RefusedHasMissed
