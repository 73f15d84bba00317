SPECIFICATION Spec
CONSTANTS
  ReconnectOnEof = TRUE
  MaxReconnect = 2
  MaxDelay = 2
  MaxFrames = 3
  MaxOpens = 3
  Loggers = {t1, t2}
  BufferSize = 1
  MaxDurations = 1
  MaxEvents = 2
  MaxResets = 1
  Handlers = {h1, h2}
  Names = {n1, n2}
  Others = {o1}
  MaxChanges = 3
  MaxCrashes = 2
  Sizes = {1, 1409, 1410, 1416, 1417, 1420, 1421, 2833, 2834, 2836, 2837, 2840, 9999}
  SeiSize = 39
  MaxPushed = 2
  MaxSessions = 2
  MaxPlugins = 2
INVARIANTS
  TypeOK
  StreamerKeeps
  TracerRight
  
  FramesReassembled
  PointersOutlive
  JoinedAreTold
CHECK_DEADLOCK FALSE
