SPECIFICATION FairSpec
CONSTANTS
  WebRun = {w1}
  CliRun = {c1}
  Deleter = {d1}
  None = None
  MaxTargetId = 2
  MaxScanId = 2
  MaxCrashes = 0
  MaxLockouts = 0
CHECK_DEADLOCK FALSE
PROPERTY ScansEnd
