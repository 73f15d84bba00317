SPECIFICATION Spec
CHECK_DEADLOCK FALSE
CONSTANTS
  Conns = {c1, c2}
  MayBeFull = FALSE
PROPERTIES
  StopReturns
