SPECIFICATION LiveSpec
CONSTANTS
  None = None
  NoLabel = NoLabel
  Malformed = Malformed
  NotAnObject = "list"
  MaxSources = 2
  ClockBound = 1
  Messageless = {}
  Requests <- MCRequests
  Names <- MCNames
  Registered <- MCRegistered
  WriteTools = {}
  PhaseOf <- MCPhaseOf
  Args = {"a", "list"}
  ValidCalls <- MCCalls
  Sources <- MCSources
  ToolReplies <- MCReplies
  TokenCounts = {0, 1}
  CallIds <- MCCallIds
  Strip <- MCStrip
  Blank = "blank"
  Objects = {"a"}
  Requirements <- MCRequirements
  Responses <- MCResponses
INVARIANTS
  OutputsAnswerTheirCalls
  RunsShareNothing
  LimitsSeeEveryToken
  NothingAfterSuccess
  RequiredCallComesFirst
CHECK_DEADLOCK TRUE
