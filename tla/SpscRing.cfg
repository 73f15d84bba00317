SPECIFICATION Spec
CONSTANTS
  Capacity = 3
  Values = {v1, v2, v3}
  NoValue = NoValue
INVARIANTS
  SlotExclusive
PROPERTIES
  ImplementsFifo
