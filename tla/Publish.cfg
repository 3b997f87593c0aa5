SPECIFICATION Spec
CONSTANTS
  f1 = f1
  f2 = f2
  f3 = f3
  d1 = d1
  d2 = d2
  l1 = l1
  FileIds = {f1, f2, f3}
  DirIds = {d1, d2}
  LinkIds = {l1}
  Root = Root
  Alien = Alien
  None = None
  ShallowFirst <- MCPaths
  InitTrees <- MCInitTrees
  OptionSets <- MCOptionSets
  MaxCalls = 2
  MaxMoves = 1
  MaxFaults = 1
INVARIANT PublishReportTruthful
INVARIANT PublishedTreeIsValid
INVARIANT SyncedTreeSurvivesCrash
CHECK_DEADLOCK FALSE
