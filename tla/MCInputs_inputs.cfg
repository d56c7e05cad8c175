SPECIFICATION Spec
CONSTANTS
  Worlds <- MCWorlds
  MaxItems = 3
  Classes <- MCClasses
  ClassOf <- MCClassOf
  Order <- MCOrder
  Refreshes <- MCRefreshes
  Values <- MCValues
  Missing <- MCMissing
  Placeholder <- MCPlaceholder
  Timeouts <- MCTimeouts
  Callers = {"configure","fetch","next","done","refresh1","refresh2","pause","stop"}
  Batch = 2
  ReadSize = 1
  MaxBuff = 1
  Loops = 2
  MaxBuffer = 2
CHECK_DEADLOCK FALSE
INVARIANTS
  NoneSkipped
  MongoGivesFirst
  InSourceOrder
PROPERTIES
  EveryItemGiven
