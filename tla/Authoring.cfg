SPECIFICATION Spec
CONSTANTS
  Nothing = Nothing
  p1 = p1
  p2 = p2
  Process = {p1, p2}
  NoOne = NoOne
  Schema <- Schemas
  SchemaName <- Names
  Successors <- Steps
  Program <- ProgramTable
  Initial = {"empty", "plain"}
  a = a
  b = b
  c = c
  Id = {a, b, c}
  MaxArtifacts = 3
  MaxFaults = 1
SYMMETRY Symmetry
INVARIANTS
  Control
  HistoryChains
  RunFollowsJournal
  RecordsHaveFiles
  HeadIsLive
  CompiledRuns
PROPERTIES
  DataLossIsDeclared
