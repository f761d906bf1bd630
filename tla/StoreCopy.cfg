SPECIFICATION LoadedSpec
CONSTANTS
    Txs = {t1, t2}
    Accounts = {a1}
    Hashes = {h1}
    NULL = NULL
    SrcMailbox = m1
    Mailboxes = {m1, m2}
    MsgIds = {i1, i2}
    UidValidities = {1}
    MaxUID = 3
    MaxRowId = 4
    Calls = {"copy"}
    Loaded = 2
SYMMETRY Symmetry
CHECK_DEADLOCK FALSE
INVARIANTS
    TypeOK
    SequencesDense
    CopyUIDsOrdered
    
PROPERTIES
    ImplementsMailbox
