SPECIFICATION Spec
CONSTANTS
  Nothing = Nothing
  p1 = p1
  p2 = p2
  Process = {p1}
  NoOne = NoOne
  Schema <- Schemas
  SchemaName <- Names
  Successors <- Steps
  Program <- ProgramTable
  Initial = {"empty"}
  a = a
  b = b
  c = c
  Id = {a, b, c}
  MaxArtifacts = 3
  MaxFaults = 0
SYMMETRY Symmetry
INVARIANTS
  HeadMatchesLive
