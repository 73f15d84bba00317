SPECIFICATION Spec
CHECK_DEADLOCK FALSE
CONSTANTS
  Conns = {c1, c2}
  MayBeFull = TRUE
INVARIANTS
  TypeOK
  HandlersAlive
  RemovalsOutstanding
PROPERTIES
  LeavesClosed
  RemovalsHappen
