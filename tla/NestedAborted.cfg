SPECIFICATION Spec
CONSTANTS
  Scope = {s1, s2}
  Op = {o1, o2}
  None = None
  FailureModes = {"aborts"}
  SwallowsAbort = TRUE
  LateAborts = FALSE
  MaxFaults = 0
CHECK_DEADLOCK FALSE
INVARIANT SettledIsExact
