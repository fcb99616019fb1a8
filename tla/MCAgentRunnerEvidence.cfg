SPECIFICATION Spec
CONSTANTS
  None = None
  NoLabel = NoLabel
  Malformed = Malformed
  NotAnObject = "list"
  MaxSources = 1
  ClockBound = 1
  Messageless = {}
  Requests <- EvidenceRequests
  Names <- EvidenceNames
  Registered <- EvidenceNames
  WriteTools = {}
  PhaseOf <- EvidencePhaseOf
  Args = {"a", "list"}
  ValidCalls <- EvidenceCalls
  Sources <- EvidenceSources
  ToolReplies <- EvidenceReplies
  TokenCounts = {0}
INVARIANTS
  GroundedOrFallback
  GroundedOnStoredEvidence
  SourcesComeFromStoredSteps
PROPERTIES
  ImplementsContract
CHECK_DEADLOCK FALSE
