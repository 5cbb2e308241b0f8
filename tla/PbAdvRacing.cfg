CONSTANTS
  MaxSessions = 1
  MaxQ = 5
  MaxTimeouts = 1
  MaxNoise = 1
  OpenRetries = 1
  TransRetries = 1
  CloseRetries = 1
  Rejectable = {4, 6, 10}
  Overheard = {}
  SendMayFail = FALSE
  Patient = FALSE
  Addrs = {1}
SPECIFICATION Spec
CHECK_DEADLOCK FALSE
INVARIANTS TypeOK TransNumUnambiguous AckHonest Supervised NoAssert
PROPERTY InOrder
