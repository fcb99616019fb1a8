SPECIFICATION Spec
CONSTANTS
  Commits = {c1, c2}
  Rates = {"enough", "below"}
  Enough = {"enough"}
  Bound <- MCBound
  Torn = Torn
  None = None
SYMMETRY Symmetry
INVARIANTS
  PassRestsOnItsCommit
  PassNeedsBothReadings
  PublishedFilesAreWhole
CHECK_DEADLOCK FALSE
