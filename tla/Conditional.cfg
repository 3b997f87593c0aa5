SPECIFICATION Spec
CONSTANTS
    f1 = f1
    f2 = f2
    f3 = f3
    f4 = f4
    A = A
    B = B
    NoFile = NoFile
    Absent = Absent
    Empty = Empty
    Partial = Partial
    Files = {f1, f2, f3, f4}
    Contents = {A, B, Empty}
    Options <- Callers
    FaultPoints <- EnvFaults
    MaxOthers = 2
SYMMETRY Symmetry
INVARIANTS
    ReasonFitsAttempt
    RecoveryIsComplete
    CrashKeepsSave
PROPERTIES
    ImplementsPublication
    DestroysOnlyOwnOrExpected
