SPECIFICATION Spec
CONSTANTS
  a1 = a1
  a2 = a2
  b2 = b2
  Artifact = {a1, a2, b2}
  Null = Null
  Parent <- ParentValue
  AttemptId = {k1, k2}
  Proc = {p1}
  Program <- SqlitePrograms
  Repositories <- Branches
  LeaseKind = "row"
  Remote = FALSE
  OptionalTransactions = TRUE
  ForbiddenPhases = FALSE
  NoTxn = NoTxn
  MaxFaults = 1
PROPERTY ReturnedRunHoldsNoLease
