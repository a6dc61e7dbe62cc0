SPECIFICATION FairSpec
CONSTANTS
  Packets = {1, 2, 3}
  Requests = {1, 2}
  Window = 1
  RetryLimit = 2
INVARIANTS
  TypeOK
  EveryLineOpens
  PendingIsCurrent
PROPERTIES
  Delivers
  AckNoticed
  LineEnds
CHECK_DEADLOCK FALSE
