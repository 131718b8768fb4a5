SPECIFICATION Spec
SYMMETRY Symmetry
CONSTANTS
  WebRun = {w1, w2}
  CliRun = {c1}
  Deleter = {d1}
  None = None
  MaxTargetId = 1
  MaxScanId = 3
  MaxCrashes = 1
  MaxLockouts = 1
CHECK_DEADLOCK FALSE
INVARIANTS TypeOK ActiveIsAttended OneWriter RecordTellsRun CheckSerialises
PROPERTY RecordsKeepPromise
