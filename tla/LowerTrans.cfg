CONSTANTS
  a = a
  b = b
  c = c
  g = g
  Node = {a, b, c}
  Group = {g}
  Settings <- MCSettings
  TxSlots = 3
  RxSlots = 1
  Retries = 1
  MaxLen = 3
SPECIFICATION Spec
INVARIANTS TypeOK TasksConserved WaitsForSome AckHonest
PROPERTIES OneAtATime Complete SendEnds Transfer
CHECK_DEADLOCK FALSE
