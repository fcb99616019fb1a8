SPECIFICATION Spec
CONSTANTS
  MinTop1 = 80
  MinSuccess = 80
  LiveCases <- MCLiveCases
  AutonomousCases <- MCAutonomousCases
  Inputs <- MCInputs
  Secretish = {"max_tokens", "secret"}
  None = None
INVARIANTS
  PassIsEarned
  PassIsFast
  PromotionIsEarned
  WrappersAreAccepted
  SelectionsAgree
CHECK_DEADLOCK FALSE
