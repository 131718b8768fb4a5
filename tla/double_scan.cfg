SPECIFICATION Spec
CONSTANTS
  WebRun = {w1, w2}
  CliRun = {}
  Deleter = {}
  None = None
  MaxTargetId = 1
  MaxScanId = 2
  MaxCrashes = 0
  MaxLockouts = 0
CHECK_DEADLOCK FALSE
INVARIANT OneActiveScanPerTarget
