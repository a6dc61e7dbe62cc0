SPECIFICATION Spec
CONSTANTS
  Conns = {c1, c2}
  RoomIds = {r1}
  Creds = {k1}
  Tokens = {}
  NoConn = NoConn
  NoRoom = NoRoom
  InviteTtl = 1
  PendingTtl = 1
  MaxNow = 0
  Capacity = 2
  MaxPackets = 0
INVARIANTS
  RoomEndsWithItsMembers
CHECK_DEADLOCK FALSE
