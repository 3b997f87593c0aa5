SPECIFICATION Spec
CONSTANTS
  f1 = f1
  f2 = f2
  f3 = f3
  f4 = f4
  d1 = d1
  d2 = d2
  Names = {"n1", "n2"}
  Mine = Mine
  Foreign = Foreign
  FileIds = {f1, f2, f3, f4}
  DirIds = {d1, d2}
  TheirIds = {f3, f4, d2}
  None = None
  Paths <- MCPaths
  StagingPaths <- MCStagingPaths
  ForeignEntries <- MCForeign
  StageOptions <- MCOptions
  MaxCalls = 3
  MaxMoves = 2
  MaxFaults = 1
PROPERTY CleanupIsIdentityBound
CHECK_DEADLOCK FALSE
