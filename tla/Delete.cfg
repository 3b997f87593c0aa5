SPECIFICATION Spec
CONSTANTS
  a = a
  b = b
  Names <- MCNames
  MaxLevel = 2
  Length <- MCLength
  Options <- MCOptions
  UsizeMax = 20
  MaxOthers = 2
  MaxFaults = 1
INVARIANTS ReportTruthful UndisturbedDeletionCompletes LimitsHold
PROPERTIES CallReturns
CHECK_DEADLOCK FALSE
