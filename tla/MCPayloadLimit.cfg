SPECIFICATION Spec
CONSTANTS
  Limit = 3
  Sizes <- MCSizes
  Declared <- MCDeclared
  MaxChunks = 4
  None = None
INVARIANTS
  LimitIsExact
  ServedBodiesAreComplete
CHECK_DEADLOCK FALSE
