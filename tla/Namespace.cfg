SPECIFICATION Spec
CONSTANTS
  DirectoryCalls <- MCDirectoryCalls
  RenameCalls <- MCRenameCalls
  TempCalls <- MCTempCalls
  MaxFaults = 1
  MaxMoves = 2
INVARIANTS
  CreateReportTruthful
  RenameReportTruthful
  DurableRenameSurvivesCrash
  TempCreationTruthful
CHECK_DEADLOCK FALSE
