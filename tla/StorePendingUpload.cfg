SPECIFICATION Spec
CONSTANTS
    Txs = {t1, t2}
    Accounts = {a1}
    Hashes = {h1}
    NULL = NULL
    SrcMailbox = m1
    Mailboxes = {m1, m2}
    MsgIds = {i1}
    UidValidities = {1}
    MaxUID = 2
    MaxRowId = 2
    Calls = {"insert"}
    Loaded = 0
SYMMETRY Symmetry
CHECK_DEADLOCK FALSE
INVARIANTS
    PendingUploadCovers
