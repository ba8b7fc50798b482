\* The client's program ends when it cannot connect.
CHECK_DEADLOCK FALSE
SPECIFICATION TestSpec
CONSTANTS
  Connections = {c1, c2}
  Unset = unset
  PacketNums <- MCPacketNums
  Pieces = 2
  LongBits = 3
INVARIANT WholeResponse
PROPERTY TestEnds
