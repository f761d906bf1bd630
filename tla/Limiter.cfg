SPECIFICATION Spec
CONSTANTS
    Conns = {c1, c2, c3}
    IPs = {x, y, z}
    TrustedIPs = {y}
    MaxConnections = 2
    MaxPerIP = 1
    MaxCounters = 3
    NULL = NULL
SYMMETRY Symmetry
CHECK_DEADLOCK FALSE
INVARIANTS
    TypeOK
    CountersMatchHolders
    NoEntryWithoutConnection
