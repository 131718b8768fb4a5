SPECIFICATION FairSpec
CONSTANTS
  a = a
  b = b
  Target = {a, b}
  MaxScanId = 1
  TargetOf <- MCTargetOf
  Task = {q1, q2}
  None = None
  MaxClicks = 2
  MaxFailures = 0
CHECK_DEADLOCK FALSE
PROPERTY PageLearns
