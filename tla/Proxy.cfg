CONSTANTS
  Bearer = {b1, b2}
  Mtu = 2
  Initial = 4
  Lengths = {1, 4, 5}
  BearerRefuses = TRUE
  MemoryFails = TRUE
  MaxMsgs = 2
SPECIFICATION ProxySpec
CHECK_DEADLOCK FALSE
INVARIANT Intact
PROPERTIES CtxEnds
