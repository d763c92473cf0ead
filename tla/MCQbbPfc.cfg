SPECIFICATION FairSpec
CONSTANTS
    p1 = p1
    p2 = p2
    p3 = p3
    Ports = {p1, p2, p3}
    Senders = {p1}
    Setups <- StaticAndDynamic
    Classes = {0, 3}
    PacketSizes = {1}
    PauseTime = 3
    Cell = 1
    maxBufferBytes = 27
    buffer_cell_limit_sp = 3
    pg_hdrm_limit = 4
    pg_shared_limit_cell = 1
    pg_shared_limit_cell_off = 1
    port_max_shared_cell = 3
    port_min_cell_off = 3
    Alpha = 2
    AlphaOffDiff = 1
    Modulus = 64
    QcnThreshold = 6
    DctcpThreshold = 4
    DctcpThresholdMax = 8
    MaxInside = 5
INVARIANTS
    PausedHasEnd
    Accounted
    PausedWhileFull
    Lossless
PROPERTIES
    PausedClassResumes
