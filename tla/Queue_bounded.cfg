SPECIFICATION Spec
CONSTANTS
  Poppers = {c1, c2}
  MaxSize = 2
  MaxCalls = 5
  Awaited = FALSE
CHECK_DEADLOCK FALSE
INVARIANTS
  IInv
  SlotsAccounted
  NoLostWakeup
PROPERTIES
  ImplementsFifo
