CONSTANTS
  Conns = {c1, c2}
  NoConn = NoConn
  PacketSize = 1
  ReadSize = 4
  PacketCount = 4
SPECIFICATION FairSpec
INVARIANTS
  TypeOK
  OneUser
  SlotHeld
PROPERTIES
  SlotFrees
  ShutdownEnds
CHECK_DEADLOCK FALSE
