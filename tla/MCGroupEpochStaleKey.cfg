SPECIFICATION Spec
CONSTANTS
  m1 = m1
  m2 = m2
  m3 = m3
  m4 = m4
  Members = {m1, m2, m3}
  GroupIds = {0}
  Hash <- MCHash
  QueueLimit = 8
  Seats = 3
  MaxLeaves = 3
  Overlap = FALSE
  Batched = TRUE
  Slow = {m2}
INVARIANTS
  EveryMemberActivates
CHECK_DEADLOCK FALSE
