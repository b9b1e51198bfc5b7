CONSTANTS
  Alerts <- Detections
  Threat <- ThreatOf
  Severity <- SeverityOf
  Detector <- DetectorOf
  Confidence <- ConfidenceOf
  MaxSeen = 4
  MaxList = 4
  Stride = 3
  Window = 3
  MaxRuns = 2
SPECIFICATION Spec
INVARIANTS KeysAgree EvidenceIsFresh 
