SPECIFICATION SpecTriggers
CHECK_DEADLOCK FALSE
CONSTANTS
  Capacity = 2
  Values = {t1, t2}
  NoValue = NoValue
  MaxCalls = 2
INVARIANTS
  TypesOK
  OneProducer
  NoLostWakeup
PROPERTIES
  CallbacksRun
  StopEndsLoop
  ImplementsScheduler
