SPECIFICATION Spec
CONSTANTS
  Worlds <- MCWorlds
  Conns = {"c", "d"}
  Inputs = {"i", "j"}
  MaxMessages = 3
  Requests = {"q", "r"}
  Flows = {"f", "g"}
  Output <- MCOutput
  MaxRuns = 2
  StaticLines = 2
CHECK_DEADLOCK FALSE
INVARIANTS
  MessagesComeWhole
  NothingOfTextLost
  AnsweredOnce
PROPERTIES
  ComesToAnEnd
