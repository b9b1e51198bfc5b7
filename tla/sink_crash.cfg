CONSTANTS
  Partitions <- TwoPartitions
  Consumers = {c1}
  Log <- TwoLogs
  AlertIds <- TwoIds
  MaxBatchSize = 2
  MaxPollRecords = 2
  PanicBatchSize = 3
  MaxFailures = 2
  DiskMayFail = FALSE
  MaxStops = 1
  MaxRebalances = 0
SPECIFICATION Spec
INVARIANTS NoLoss MergedIsRepresented EvacuationJustified
PROPERTIES ImplementsDelivery
