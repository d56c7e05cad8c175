SPECIFICATION Spec
CONSTANTS
  Worlds <- MCCrash
  MaxEntries = 2
  MaxChildren = 3
CHECK_DEADLOCK FALSE
PROPERTIES CrashedWorkerRestarts
