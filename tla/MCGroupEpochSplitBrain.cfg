SPECIFICATION Spec
CONSTANTS
  m1 = m1
  m2 = m2
  m3 = m3
  m4 = m4
  Members = {m1, m2, m3}
  GroupIds = {1}
  Hash <- MCHash
  QueueLimit = 8
  Seats = 3
  MaxLeaves = 1
  Overlap = TRUE
  Batched = TRUE
  Slow = {m3}
INVARIANTS
  OneSecretPerEpoch
CHECK_DEADLOCK FALSE
