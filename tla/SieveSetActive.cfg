SPECIFICATION Spec
CONSTANTS
    Sessions = {c1, c2}
    Accounts = {a1}
    Names = {n1, n2}
    Contents = {good, bad}
    ValidContents = {good}
    UseStartTLS = TRUE
    MaxScriptId = 2
    MaxAuthenticated = 2
    NULL = NULL
SYMMETRY Symmetry
CHECK_DEADLOCK FALSE
PROPERTIES
    ActivatedScriptIsActive
