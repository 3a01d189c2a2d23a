\* Faults anywhere: nothing is left behind.
CONSTANTS
  w1 = w1  w2 = w2
  NoWorker = NoWorker
  Worker = {w1, w2}
  i1 = i1
  Item = {i1}
  BatchSize = 2
  MaxId = 3
  MaxFaults = 2
SPECIFICATION FairSpec
PROPERTIES
  NotificationsSuffice
  PollingSuffices
