SPECIFICATION MmuSpec
CONSTANTS
    Ports = {p1, p2}
    Classes = {1, 3}
    PacketSizes = {3, 6}
    Modulus = 64
    Cell = 4
    maxBufferBytes = 27
    buffer_cell_limit_sp = 7
    pg_hdrm_limit = 5
    QcnThreshold = 6
    DctcpThreshold = 4
    DctcpThresholdMax = 8
    MaxInside = 5
SYMMETRY Perms
INVARIANTS
    IngressExact
    EgressExact
    MarkedWhenCongested
    HeadroomCoversExcess
    PoolBounded
