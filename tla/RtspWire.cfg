SPECIFICATION Spec
CONSTANTS
  Methods = {"OPTIONS", "DESCRIBE", "PLAY"}
  MaxRequests = 2
  MaxFrames = 1
  MaxMessage = 8
  MaxQueue = 1
  MaxMedia = 1
INVARIANTS
  TypeOK
  AnswersRight
  OutputRight
CHECK_DEADLOCK FALSE
