SPECIFICATION Spec
CONSTANTS
  None = None
  Projects <- MCProjects
  Options <- MCOptions
  Served <- MCServed
  Values <- MCValues
  Default <- MCDefault
  MaxRuns = 2
  MaxId = 2
  MaxCalls = 2
  Clients = {c1, c2}
INVARIANTS SourcesAgree CacheTellsTruth
PROPERTY WritesAsTold
SYMMETRY ClientSymmetry
CHECK_DEADLOCK FALSE
