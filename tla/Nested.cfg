SPECIFICATION FairSpec
CONSTANTS
  Scope = {s1, s2, s3}
  Op = {o1, o2}
  None = None
  FailureModes = {"statement", "aborts"}
  SwallowsAbort = FALSE
  LateAborts = TRUE
  MaxFaults = 1
CHECK_DEADLOCK FALSE
INVARIANTS
  IInv
  SettledIsExact
  SavepointsNest
  NoWorkBehind
  RootStaysOutside
PROPERTIES
  PoisonedNeverCommits
  GuardIsReleased
