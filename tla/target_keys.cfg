SPECIFICATION Spec
CONSTANTS
  Creator = {c1, c2}
  Updater = {u1}
  Deleter = {d1}
  Scanner = {s1}
  Name = {a, b}
  Legacy = legacy
  None = none
  MaxTargetId = 2
  MaxFaults = 1
INVARIANTS
  TypeOK
  KeysBelong
  PlainTextNotLost
PROPERTY PastedKeyWins
CHECK_DEADLOCK FALSE
SYMMETRY Symmetry
