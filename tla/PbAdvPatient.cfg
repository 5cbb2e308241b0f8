CONSTANTS
  MaxSessions = 1
  MaxQ = 6
  MaxTimeouts = 1
  MaxNoise = 1
  OpenRetries = 3
  TransRetries = 2
  CloseRetries = 2
  Rejectable = {}
  Overheard = {}
  SendMayFail = FALSE
  Patient = TRUE
  Addrs = {1}
SPECIFICATION FairSpec
CHECK_DEADLOCK FALSE
PROPERTIES Succeeds SessionEnds
