\* One client, two workers, a queue that is smaller than a tailed batch, full
\* and short pages, retention of any row at any moment, also amid a replay.
CONSTANTS
  w1 = w1  w2 = w2  c1 = c1
  i1 = i1  i2 = i2
  None = None
  Shutdown = Shutdown
  Worker = {w1, w2}
  Client = {c1}
  Item = {i1}
  Filter <- Unfiltered
  QueueSize = 1
  TailBatch = 2
  PageSize = 2
  Retention = TRUE
  TrimInOrder = FALSE
  MaxSeq = 4
  MaxFaults = 1
SPECIFICATION Spec
SYMMETRY Symmetry
INVARIANTS
  TypeOK
  NothingRetainedIsSkipped
  NeverSentTwice
  QueueHasNoGap
