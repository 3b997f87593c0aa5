SPECIFICATION Spec
CONSTANTS
    w1 = w1
    w2 = w2
    f1 = f1
    f2 = f2
    None = None
    Writers <- TwoWriters
    Files <- TwoFiles
    NoReplace = {"rename", "link"}
    Workloads <- RaceOrAlone
    MaxFaults = 2
SYMMETRY Symmetry
INVARIANTS
    CommitReportsTruthfully
    OpenWriterIsUsable
    StagingReclaimed
    CrashKeepsPromises
PROPERTIES
    ImplementsPublication
CHECK_DEADLOCK FALSE
