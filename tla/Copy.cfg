\* One interfering change and one failing call against every case.
CONSTANTS
  Names <- N
  Paths <- P
  Cases <- All
  MaxMoves = 1
  MaxFaults = 1
SPECIFICATION Spec
INVARIANTS
  CopyFailureTruthful
  UndisturbedCopyIsExact
PROPERTIES
  CopyDestroysOnlyByPolicy
  CopyReturns
