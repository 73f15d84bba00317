SPECIFICATION Spec
CHECK_DEADLOCK FALSE
CONSTANTS
  Clients = {c1, c2}
  MaxReconnect = 1
  MaxEarly = 0
  MaxGone = 0
PROPERTIES
  StopWakes
