SPECIFICATION Spec
CONSTANTS
  Worlds <- MCWorlds
  MaxEntries = 4
  Dests = {"p", "q"}
  To <- MCTo
  MaxPending = 4
  MongoBatch = 1
  MaxPool = 2
  Partitions <- MCPartitions
  KafkaBatch = 1
  ArrayMax = 2
  MaxRetries = 1
  PoolSize = 2
  MaxFiles = 1
CHECK_DEADLOCK FALSE
INVARIANTS
  AnsweredHasArrived
  InOrderOfTransport
  AnswersInBalance
PROPERTIES
  EveryEntryAnswered
