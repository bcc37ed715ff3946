CONSTANTS
  Conns = {c1}
  NoConn = NoConn
  PacketSize = 1
  ReadSize = 4
  PacketCount = 2
SPECIFICATION Spec
INVARIANTS
  ClosedUnused
CHECK_DEADLOCK FALSE
