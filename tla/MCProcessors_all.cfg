SPECIFICATION Spec
CONSTANTS
  Worlds <- MCWorlds
  Workers = {"a", "b"}
  MaxEntries = 2
  MaxEmits = 2
  Group <- MCGroup
  MaxGiven = 5
  Keys = {"k", "l"}
  KeyOf <- MCKeyOf
  Buffers <- MCBuffers
CHECK_DEADLOCK FALSE
INVARIANTS
  AnsweredWithItsEmits
  InOrderToWorker
  CountedOnceInOrder
PROPERTIES
  EveryCallAnswered
  EveryEntryPutOut
