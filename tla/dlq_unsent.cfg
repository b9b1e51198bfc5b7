CONSTANTS
  Writers = {w1}
  Scripts = {s1}
  RotateCount = 1
  MaxSize = 1
  MaxEntries = 2
  MaxDeaths = 0
  MaxTime = 0
  LastName = 2
  MaxFailures = 1
  None = None
SPECIFICATION Spec
INVARIANTS ArchivedWasSent
CHECK_DEADLOCK FALSE
