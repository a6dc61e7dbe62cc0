SPECIFICATION FairSpec
CONSTANTS
  Conns = {c1, c2}
  RoomIds = {r1}
  Creds = {k1}
  Tokens = {}
  NoConn = NoConn
  NoRoom = NoRoom
  InviteTtl = 1
  PendingTtl = 1
  MaxNow = 0
  Capacity = 2
  MaxPackets = 3
INVARIANTS
  DeliveredInOrder
  AttachmentsYield
PROPERTIES
  ViewsAgreeEventually
CHECK_DEADLOCK FALSE
