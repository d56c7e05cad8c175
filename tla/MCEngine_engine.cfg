SPECIFICATION Spec
CONSTANTS
  PullInputs = {"p1", "p2"}
  PushInputs = {"push"}
  Flows = {"f", "g"}
  From <- MCFrom
  Worlds <- MCWorlds
  BypassMAX = 2
  MaxPending = 1
  MaxPauses = 1
  Configs <- MCConfigs
CHECK_DEADLOCK FALSE
INVARIANTS
  InOrderNoneSkipped
  RunsWithItsRoot
PROPERTIES
  Delivered
  ForksResolved
