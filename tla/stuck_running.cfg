SPECIFICATION Spec
CONSTANTS
  WebRun = {w1}
  CliRun = {}
  Deleter = {}
  None = None
  MaxTargetId = 1
  MaxScanId = 2
  MaxCrashes = 0
  MaxLockouts = 1
CHECK_DEADLOCK FALSE
INVARIANT NoScanLeftRunning
