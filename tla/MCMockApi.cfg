CONSTANTS
  t1 = t1
  t2 = t2
  k1 = k1
  k2 = k2
  k3 = k3
  b1 = b1
  b2 = b2
  big = big
  odd = odd
  Threads = {t1, t2}
  Keys = {k1, k2, k3}
  TooLong = TooLong
  Bodies = {b1, b2, big, odd}
  Outcome <- MCOutcome
  MaxRuns = 2
  NoRequest = NoRequest
SPECIFICATION FairSpec
INVARIANTS
  Paired
  LookupStillHolds
PROPERTIES
  LockIsReleased
  ImplementsRetainedRuns
CHECK_DEADLOCK TRUE
