SPECIFICATION Spec
CONSTANTS
  MaxPending = 2
  MaxEntries = 4
  MaxItems = 2
  WhenFilter = TRUE
  WhenMatch = "process"
  WhenNoMatch = "bypass"
CHECK_DEADLOCK FALSE
INVARIANTS
  SlotsAccounted
  InInputOrder
