SPECIFICATION Spec
CONSTANTS
  MaxSkip = 2
  Ttl = 1
  MaxEpoch = 1
  MaxMessages = 5
  MaxNow = 2
INVARIANTS
  TypeOK
  OpenedOnce
  KeysBounded
  LateMessagesReadable
PROPERTIES
  KeysExpire
CHECK_DEADLOCK FALSE
