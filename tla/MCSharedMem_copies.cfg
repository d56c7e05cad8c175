SPECIFICATION ShmSpec
CONSTANTS
  Master = "master"
  Slaves <- MCSlaves
  Keys = {"machine", "own", "shared"}
  Parents <- MCParents
  Lists = {"flow"}
  Writers <- MCWriters
  MaxWrites = 3
  MaxDeaths = 1
CHECK_DEADLOCK FALSE
INVARIANTS
  CatchUp
  ListsAccounted
PROPERTIES
  PushesReachAll
