SPECIFICATION Spec
CONSTANTS
  Conns = {c1, c2}
  Fds = {f1, f2}
  Sessions = {s1, s2}
  Channels = {video}
  Modes = {"tcp", "udp"}
  AuthRequired = TRUE
  MaxTriggerEvents = 2
  SeqMod = 4
  MaxWork = 2
SYMMETRY Symmetries
INVARIANTS
  TypeOK
  CountBounds
  WireRight
  RawThisValid
CHECK_DEADLOCK FALSE
