SPECIFICATION FairSpec
CONSTANTS
  None = None
  NoLabel = NoLabel
  Malformed = Malformed
  NotAnObject = "list"
  MaxSources = 2
  ClockBound = 1
  Messageless = {"planner", "reset", "store", "security", "executor"}
  Requests <- ControlRequests
  Names <- MCNames
  Registered <- MCRegistered
  WriteTools <- MCWriteTools
  PhaseOf <- MCPhaseOf
  Args <- MCArgs
  ValidCalls <- MCValidCalls
  Sources <- ControlSources
  ToolReplies <- ControlReplies
  TokenCounts = {1}
INVARIANTS
  TypeOK
  ScreenedExecution
  StoreOrder
  StoredStepsAreFinal
  CallsWithinBudget
  UsageLedger
PROPERTIES
  EveryRunEnds
CHECK_DEADLOCK FALSE
