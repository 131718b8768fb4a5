SPECIFICATION Spec
CONSTANTS
  a = a
  b = b
  Target = {a, b}
  MaxScanId = 2
  TargetOf <- MCTargetOf
  Task = {q1, q2}
  None = None
  MaxClicks = 2
  MaxFailures = 1
CHECK_DEADLOCK FALSE
SYMMETRY Symmetry
INVARIANTS TypeOK ActiveIsPolled PaneIsOfSelection CopyGivesDrawn
CONSTRAINT NotExcused
