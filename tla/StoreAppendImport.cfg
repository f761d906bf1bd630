SPECIFICATION Spec
CONSTANTS
    Txs = {t1, t2}
    Accounts = {a1}
    Hashes = {h1}
    NULL = NULL
    SrcMailbox = m1
    Mailboxes = {m1}
    MsgIds = {i1}
    UidValidities = {1, 2}
    MaxUID = 2
    MaxRowId = 2
    Calls = {"insert", "import"}
    Loaded = 0
SYMMETRY Symmetry
CHECK_DEADLOCK FALSE
INVARIANTS
    TypeOK
    SequencesDense
    ContentRecoverable
    LiveUIDsDistinctAndAssigned
PROPERTIES
    AssignedUIDsAreFresh
    CreatedInModseqOrder
    ImplementsMailbox
