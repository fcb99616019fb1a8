SPECIFICATION Spec
CONSTANTS
  MinTop1 = 80
  MinSuccess = 80
  LiveCases <- MCLiveCases
  AutonomousCases <- MCAutonomousCases
  Inputs <- UnansweredInputs
  Secretish = {"max_tokens", "secret"}
  None = None
INVARIANTS
  NoCallMeansAnAnswer
CHECK_DEADLOCK FALSE
