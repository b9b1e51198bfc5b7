CONSTANTS
  Partitions <- OnePartition
  Consumers = {c1, c2}
  Log <- MixedLog
  AlertIds <- TwoIds
  MaxBatchSize = 2
  MaxPollRecords = 2
  PanicBatchSize = 3
  MaxFailures = 2
  DiskMayFail = FALSE
  MaxStops = 0
  MaxRebalances = 1
SPECIFICATION FairSpec
INVARIANTS SinkInv
PROPERTIES EventuallySecured EventuallyAcked
