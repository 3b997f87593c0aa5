SPECIFICATION Spec
CONSTANTS
  Kinds = {"file", "directory"}
  FaultPoints = {"target", "identity", "sync", "parent", "install", "syncTarget", "release", "remove", "deadline", "access", "reopen"}
  MaxWrites = 1
  MaxChildren = 2
  MaxOthers = 2
  MaxFaults = 2
INVARIANTS SourceStateTruthful PersistReportTruthful CrashKeepsPersist
PROPERTIES GuardKeepsToItsAuthority
CHECK_DEADLOCK FALSE
