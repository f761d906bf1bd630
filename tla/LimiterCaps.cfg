SPECIFICATION Spec
CONSTANTS
    Conns = {c1, c2, c3}
    IPs = {x, y}
    TrustedIPs = {y}
    MaxConnections = 2
    MaxPerIP = 1
    MaxCounters = 3
    NULL = NULL
SYMMETRY Symmetry
CHECK_DEADLOCK FALSE
INVARIANTS
    LimitsEnforced
