CONSTANTS
  Tick96 = 1
  Tick144 = 2
  TickMax = 4
  MaxDiff = 1
  TestMode = TRUE
  RplSize = 2
  NmcSize = 2
  Source = {s1, s2}
  Rx = r
  MaxSeq = 2
  MaxGot = 3
  MaxIndex = 1
SPECIFICATION Spec
INVARIANTS TypeOK FirstStands
PROPERTIES FreshAccepted
CHECK_DEADLOCK FALSE
