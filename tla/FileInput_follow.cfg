SPECIFICATION FileSpec
CONSTANTS
  Files = {"a", "b"}
  BlockSize = 2
  ReadMode = "watermark"
  StartAt = "start"
  Worlds = {{"save", "crash", "stop"}, {"many"},
            {"create", "delete", "truncate"}}
  MaxUnits = 3
  MaxUnitsMany = 2
  MaxInodes = 2
  MaxRuns = 2
  StableEvents = TRUE
CHECK_DEADLOCK FALSE
INVARIANTS
  LinesAccounted
PROPERTIES
  StoresPosition
  EveryLineIsRead
  StopEnds
