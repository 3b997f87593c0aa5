SPECIFICATION Spec
CONSTANTS
    Object <- MCObject
    HostRoot = "host"
    Worlds <- MCWorlds
    BLOCK_SIZE = 2
    MaxMoves = 3
INVARIANTS
    ResolutionExact
    OpensWhatWasNamed
    VerifyTruthful
    SnapshotIsOneState
    LimitedReadExact
