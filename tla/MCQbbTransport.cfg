SPECIFICATION FairSpec
CONSTANTS
    Attributes <- AllAttributes
    MaxPackets = 4
    MaxLost <- FewLosses
    MaxEarly = 1
INVARIANTS
    Recoverable
    PeekSafe
    ChunksSeparate
    NoSilentWait
PROPERTIES
    FullChunksArrive
