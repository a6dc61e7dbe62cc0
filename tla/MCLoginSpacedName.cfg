SPECIFICATION LoginSpec
CONSTANTS
  r1 = r1
  k3 = k3
  Conns = {c1, c2}
  RoomIds = {r1}
  Creds = {k1, k3}
  Derived = {k1}
  Words <- MCWords
  Tokens = {}
  NoConn = NoConn
  NoRoom = NoRoom
  InviteTtl = 1
  PendingTtl = 1
  MaxNow = 0
  Capacity = 1
  MaxPackets = 0
INVARIANTS
  EntersNamedRoom
CHECK_DEADLOCK FALSE
