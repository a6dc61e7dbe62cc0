SPECIFICATION Spec
CONSTANTS
  Conns = {c1, c2, c3}
  RoomIds = {r1}
  Creds = {k1, k2}
  Tokens = {t1}
  NoConn = NoConn
  NoRoom = NoRoom
  InviteTtl = 2
  PendingTtl = 1
  MaxNow = 3
  Capacity = 2
  MaxPackets = 0
SYMMETRY ConnSymmetry
INVARIANTS
  TypeOK
  SessionRegistered
  MembersAccountedFor
  SingleUse
  OwnershipCoherent
  MemberListBounds
  ViewsConverge
CHECK_DEADLOCK FALSE
