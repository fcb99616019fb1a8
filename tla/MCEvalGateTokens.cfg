SPECIFICATION Spec
CONSTANTS
  MinTop1 = 80
  MinSuccess = 80
  LiveCases <- MCLiveCases
  AutonomousCases <- MCAutonomousCases
  Inputs <- TokenInputs
  Secretish = {"max_tokens", "secret"}
  None = None
INVARIANTS
  EnoughSuccessIsPublishable
CHECK_DEADLOCK FALSE
