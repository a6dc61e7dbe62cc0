SPECIFICATION LoginSpec
CONSTANTS
  r1 = r1
  k3 = k3
  Conns = {c1, c2, c3}
  RoomIds = {r1}
  Creds = {k1, k2, k3}
  Derived = {k1, k2}
  Words <- MCWords
  Tokens = {t1}
  NoConn = NoConn
  NoRoom = NoRoom
  InviteTtl = 1
  PendingTtl = 1
  MaxNow = 1
  Capacity = 1
  MaxPackets = 0
SYMMETRY LoginSymmetry
INVARIANTS
  KeysMatchRoom
  MisreadRoomIsShut
  OneFounder
  RefusedLeavesNothing
CHECK_DEADLOCK FALSE
