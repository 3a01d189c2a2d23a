\* No retention, a client that wants one of two items: every event of it arrives
\* although connections and workers fail.
CONSTANTS
  w1 = w1  w2 = w2  c1 = c1
  i1 = i1  i2 = i2
  None = None
  Shutdown = Shutdown
  Worker = {w1, w2}
  Client = {c1}
  Item = {i1, i2}
  Filter <- Filtered
  QueueSize = 1
  TailBatch = 2
  PageSize = 2
  Retention = FALSE
  TrimInOrder = FALSE
  MaxSeq = 3
  MaxFaults = 1
SPECIFICATION FairSpec
INVARIANTS
  NothingRetainedIsSkipped
PROPERTIES
  EveryEventArrives
