SPECIFICATION Spec
CONSTANTS
  Worlds <- MCWorlds
  MaxEntries = 5
  MaxChildren = 3
CHECK_DEADLOCK FALSE
INVARIANTS
  SlotsMatchUnacked
  ChildOrder
  LostOnlyByDeath
PROPERTIES WriteReturns
