SPECIFICATION Spec
CHECK_DEADLOCK FALSE
CONSTANTS
  Capacity = 2
  MaxFrames = 3
  Keyframes = {1}
INVARIANTS
  TypeOK
  FramesAccounted
  OrderKept
PROPERTIES
  StagesEnd
