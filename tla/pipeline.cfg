CONSTANTS
  Alerts <- Pair
  Threat <- PairThreat
  Severity <- PairSeverity
  Detector <- PairDetector
  Confidence <- PairConfidence
  MaxSeen = 3
  MaxList = 3
  Stride = 5
  Window = 1
  MaxRuns = 2
  RedisMayFail = TRUE
  DiskMayFail = FALSE
  MaxCrashes = 1
SPECIFICATION PipelineSpec
INVARIANTS CorrelatedIsPublished NothingDropped IncidentAccountedFor
PROPERTIES   EvidenceOnRecord
