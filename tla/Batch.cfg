SPECIFICATION BatchSpec
CONSTANTS
  a1 = a1
  a2 = a2
  b2 = b2
  x = x
  Artifact = {a1, a2, b2, x}
  Foreign = {x}
  Null = Null
  Parent <- ParentValue
  AttemptId = {k1, k2}
  Proc = {p1, p2, p3}
  Program <- Programs
  Repositories <- Branches
  LeaseKind = "row"
  Remote = TRUE
  OptionalTransactions = TRUE
  ForbiddenPhases = FALSE
  NoTxn = NoTxn
  MaxFaults = 2
SYMMETRY Symmetry
CHECK_DEADLOCK FALSE
INVARIANTS
  BatchTypeOK
  AtMostOneOpenAttempt
  UniformRolledBackIsAbsent
  RollbackIsDefinite
  LateBatchIsFenced
PROPERTIES
  LandsOnPlannedSchema
  LedgerSpec
