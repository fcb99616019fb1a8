SPECIFICATION Spec
CONSTANTS
  None = None
  NoLabel = NoLabel
  Malformed = Malformed
  NotAnObject = "list"
  MaxSources = 2
  ClockBound = 4
  Messageless = {}
  Requests <- TraceRequests
  Names <- MCNames
  Registered <- MCRegistered
  WriteTools <- MCWriteTools
  PhaseOf <- MCPhaseOf
  Args <- MCArgs
  ValidCalls <- MCValidCalls
  Sources <- ControlSources
  ToolReplies <- TraceReplies
  TokenCounts = {1}
INVARIANTS
  CallsWithinDeadline
  FinalValidationTellsTheEnd
  ToolPhasesTellWhatRan
  PhasesShowTheUsage
CHECK_DEADLOCK FALSE
