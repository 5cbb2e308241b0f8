CONSTANTS
  Iface = {i1, i2, i3}
  IfaceMax = 3
  Unconnected = TRUE
  Loopback = Loopback
  Null = Null
SPECIFICATION Spec
INVARIANTS Linked ReceivedByLive
