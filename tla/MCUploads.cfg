SPECIFICATION FairSpec
CONSTANTS
  FirstSize = 2
  SecondSize = 0
  Files = {1, 2}
  OnDisk = {1, 2}
  Size <- MCSize
  Packets <- MCPackets
  Window = 1
  WindowSize = 2
  MaxAttempts = 2
  LaneCapacity = 2
INVARIANTS
  TypeOK
  WindowAccounts
  ManifestFirst
  DoneIsDelivered
  StoredOnce
PROPERTIES
  UploadsEnd
CHECK_DEADLOCK FALSE
