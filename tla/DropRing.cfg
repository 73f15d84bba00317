SPECIFICATION Spec
CHECK_DEADLOCK FALSE
CONSTANTS
  Capacity = 3
  MaxFrames = 6
  Keyframes = {1, 2, 5}
INVARIANTS
  TypeOK
  RingAccounts
PROPERTIES
  PruneKeepsKeyframes
