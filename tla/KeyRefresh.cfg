CONSTANTS
  Value <- Values
  Blank = Blank
  Label <- Distinct
  Node = {n1, n2, n3}
  MaxGen = 2
  LateBeacons = FALSE
  Junk = {0, 2}
SPECIFICATION Spec
CHECK_DEADLOCK FALSE
INVARIANTS TypeOK NetUnderstood
PROPERTIES NetNeverBack RefreshEnds
