SPECIFICATION Spec
CHECK_DEADLOCK FALSE
CONSTANTS
  Clients = {c1, c2}
  MaxReconnect = 2
  MaxEarly = 1
  MaxGone = 1
INVARIANTS
  TypeOK
  
  StopQuiesces
PROPERTIES
  FramesGated
  RunEnds
