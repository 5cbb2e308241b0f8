CONSTANTS
  MaxSessions = 2
  MaxQ = 3
  MaxTimeouts = 1
  MaxNoise = 1
  OpenRetries = 0
  TransRetries = 0
  CloseRetries = 0
  Rejectable = {}
  Overheard <- OthersPackets
  SendMayFail = FALSE
  Patient = FALSE
  Addrs = {a1, a2}
SYMMETRY AddrSymmetry
SPECIFICATION Spec
CHECK_DEADLOCK FALSE
INVARIANTS Agreement NoAssert Supervised
