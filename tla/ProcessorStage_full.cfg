SPECIFICATION Spec
CONSTANTS
  MaxPending = 1
  MaxEntries = 3
  Pushers = {p1}
  MaxItems = 2
  WhenFilter = TRUE
  WhenMatch = "bypass"
  WhenNoMatch = "process"
  ThenFilter = TRUE
  RetryFilter = TRUE
  RetryMax = 2
CHECK_DEADLOCK FALSE
INVARIANTS
  SlotsConserved
PROPERTIES
  ImplementsStage
