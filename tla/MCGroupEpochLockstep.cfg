SPECIFICATION FairSpec
CONSTANTS
  m1 = m1
  m2 = m2
  m3 = m3
  m4 = m4
  Members = {m1, m2, m3, m4}
  GroupIds = {0, 1}
  Hash <- MCHash
  QueueLimit = 8
  Seats = 3
  MaxLeaves = 4
  Overlap = FALSE
  Batched = TRUE
  Slow = {}
INVARIANTS
  EveryMemberActivates
PROPERTIES
  RekeyCompletes
  MovesAsOne
CHECK_DEADLOCK FALSE
