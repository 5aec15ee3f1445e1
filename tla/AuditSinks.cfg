SPECIFICATION SinkSpec
CONSTANTS
  MaxEvents = 5
  MaxCrashes = 2
  e1 = e1
  e2 = e2
  j1 = j1
  j2 = j2
  Emitters = {e1, e2}
  Jobs = {j1, j2}
  Ranks = {1, 2}
  Skew = 1
  MaxRows = 3
  MaxMs = 1
  MaxAnchors = 1
SYMMETRY TaskSymmetry
INVARIANTS CrashesKeepChain AcknowledgedIsKept   
PROPERTIES SyncedLinesStay
CHECK_DEADLOCK FALSE
