\* Three events, batches of two, one deleted event, one fault.
CONSTANTS
  i1 = i1
  Item = {i1}
  TailBatch = 2
  MaxId = 3
  MaxSeq = 3
  MaxTrimmed = 1
  MaxFaults = 1
SPECIFICATION FairSpec
INVARIANTS
  TypeOK
PROPERTIES
  QuietMeansDelivered
  ImplementsTailFeed
  NotificationsSuffice
  PollingSuffices
