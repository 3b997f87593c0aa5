SPECIFICATION Spec
CONSTANTS
    Object <- MCObject
    HostRoot = "host"
    Worlds <- VirtualLinkWorlds
    BLOCK_SIZE = 2
    MaxMoves = 0
INVARIANTS
    UntouchedIsUnchanged
