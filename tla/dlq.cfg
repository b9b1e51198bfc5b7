CONSTANTS
  Writers = {w1, w2}
  Scripts = {s1, s2}
  RotateCount = 2
  MaxSize = 1
  MaxEntries = 7
  MaxDeaths = 1
  MaxTime = 1
  LastName = 4
  MaxFailures = 1
  None = None
SYMMETRY WriterSymmetry
SPECIFICATION Spec
CHECK_DEADLOCK FALSE
INVARIANTS FilesSound ArchiveAccounted
 
