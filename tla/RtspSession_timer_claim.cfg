SPECIFICATION Spec
CONSTANTS
  Conns = {c1}
  Fds = {3}
  Sessions = {s1}
  Channels = {video}
  Modes = {"tcp"}
  AuthRequired = FALSE
  MaxTriggerEvents = 2
  SeqMod = 4
  MaxWork = 1
INVARIANTS
  TimersDieWithOwner
CHECK_DEADLOCK FALSE
