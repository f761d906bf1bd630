SPECIFICATION FairSpec
CONSTANTS
    Stoppers = {s1, s2}
    Values <- MCValues
    WithCache = TRUE
CHECK_DEADLOCK FALSE
INVARIANTS
    TypeOK
PROPERTIES
    StopEndsLoop
