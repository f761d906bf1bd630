SPECIFICATION FairSpec
CONSTANTS
    Keys = {k1, k2, k3}
    EmptyKey = empty
    Results = {AuthSuccess, AuthUserNotFound}
    Negative = {AuthUserNotFound}
    PositiveTTL = 2
    NegativeTTL = 1
    MaxSize = 2
    Readers = {r1, r2}
    Stoppers = {s1}
    MaxTime = 3
    MaxGets = 2
    NULL = NULL
CHECK_DEADLOCK FALSE
INVARIANTS
    TypeOK
    SizeBounded
PROPERTIES
    StopEndsLoop
