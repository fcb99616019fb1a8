SPECIFICATION Spec
CONSTANTS
  None = None
  NoLabel = NoLabel
  Malformed = Malformed
  NotAnObject = "list"
  MaxSources = 2
  ClockBound = 4
  Messageless = {"store"}
  Requests <- DeadlineRequests
  Names <- EvidenceNames
  Registered <- EvidenceNames
  WriteTools = {}
  PhaseOf <- EvidencePhaseOf
  Args = {"a"}
  ValidCalls <- EvidenceCalls
  Sources <- ControlSources
  ToolReplies <- DeadlineReplies
  TokenCounts = {0}
INVARIANTS
  StoreFailuresEndTheRun
CHECK_DEADLOCK FALSE
