---------------------------- MODULE MessageStore ----------------------------
(***************************************************************************)
(* The message store of db/append.go and the message_sequences cache of    *)
(* db/migrations/000002_add_sequence_caching.up.sql.                       *)
(*                                                                         *)
(* Every caller runs InsertMessage, InsertMessageFromImporter or           *)
(* CopyMessages inside a transaction of its own.  A transaction is a       *)
(* process whose steps are the SQL statements of the function, in the      *)
(* order the function issues them; between two statements any other        *)
(* transaction may run.  The database is PostgreSQL at READ COMMITTED: a   *)
(* statement sees what is committed when it starts and what its own        *)
(* transaction wrote.  The writes of a transaction are held in wr[t] and   *)
(* reach the tables when it commits.  Sequences (the row id and            *)
(* messages_modseq) are not transactional: a value drawn is gone.          *)
(*                                                                         *)
(* An INSERT INTO messages is two steps: the statement itself, which draws *)
(* the row id and the modseq, and the AFTER STATEMENT trigger, which waits *)
(* for the advisory lock of the mailbox and rebuilds message_sequences     *)
(* from what is committed by then.                                         *)
(***************************************************************************)
EXTENDS Integers, FiniteSets, FiniteSetsExt

CONSTANTS
    Txs,                \* transactions (database connections of callers)
    Mailboxes,          \* mailbox ids
    Accounts,           \* account ids
    MsgIds,             \* Message-ID header values
    Hashes,             \* content hashes
    UidValidities,      \* values of uid_validity
    MaxUID,             \* bound on highest_uid
    MaxRowId,           \* bound on the messages.id sequence
    Calls,              \* the functions the callers of this model call
    NULL

ASSUME /\ MaxUID \in Nat /\ MaxRowId \in Nat
       /\ Calls \subseteq {"insert", "import", "copy"}
       /\ UidValidities \subseteq Nat /\ UidValidities # {}

VARIABLES
    mailboxes,   \* [Mailboxes -> [highest_uid, uid_validity]]
    messages,    \* the committed rows of table messages
    sequences,   \* message_sequences: [Mailboxes -> [uid -> seqnum]]
    contents,    \* message_contents: the content hashes stored
    pending,     \* pending_uploads: keys (content_hash, account_id)
    s3,          \* keys whose object the uploader has put into the object store
    nextRowId,   \* sequence behind messages.id
    nextModseq,  \* sequence messages_modseq
    rowLock,     \* [Mailboxes -> holder of the row lock on the mailboxes row]
    advLock,     \* [Mailboxes -> holder of pg_advisory_xact_lock(mailbox_id)]
    pc,          \* [Txs -> the statement the transaction is at]
    call,        \* [Txs -> the function called and its arguments]
    loc,         \* [Txs -> local variables of the function]
    wr,          \* [Txs -> uncommitted writes]
    out          \* [Txs -> what the function returned]

db   == <<mailboxes, messages, sequences, contents, pending, s3>>
seqs == <<nextRowId, nextModseq>>
lcks == <<rowLock, advLock>>
vars == <<db, seqs, lcks, pc, call, loc, wr, out>>

-----------------------------------------------------------------------------
(* Values *)

GenIds == Txs \X (1..(MaxRowId + 1))   \* Message-IDs generated for empty ones

Key == [hash : Hashes, account : Accounts]

\* A row of messages: created_modseq is drawn by the INSERT, expunged_modseq
\* by the EXPUNGE, and is 0 while expunged_at IS NULL.
Row == [id : 1..MaxRowId, mbox : Mailboxes, account : Accounts, uid : 1..MaxUID,
        msgid : MsgIds \cup GenIds, hash : Hashes, uploaded : BOOLEAN,
        created_modseq : Nat, expunged_modseq : Nat]

\* The key of pending_uploads that a message row belongs to.
KeyOf(r) == [hash |-> r.hash, account |-> r.account]

NoCall   == [op |-> "none", mb |-> NULL, src |-> NULL, account |-> NULL,
             msgid |-> NULL, hash |-> NULL, puid |-> NULL, puidv |-> NULL]
NoLocals == [uidToUse |-> 0, highestUID |-> 0, rowId |-> 0, sel |-> {}]
NoWrites == [hi |-> NULL, uidv |-> NULL, rows |-> {}, seq |-> NULL,
             cont |-> {}, pend |-> {}]
NoResult == [status |-> "none", id |-> 0, uid |-> 0, err |-> NULL, map |-> <<>>]

Returned(id, uid)  == [NoResult EXCEPT !.status = "ok", !.id = id, !.uid = uid]
Failed(err)        == [NoResult EXCEPT !.status = "error", !.err = err]
CopyResult(map)    == [NoResult EXCEPT !.status = "ok", !.map = map]

-----------------------------------------------------------------------------
(* What a statement of transaction t reads, and the constraints of the schema *)

Visible(t) == messages \cup wr[t].rows

\* expunged_at IS NULL
Live(r) == r.expunged_modseq = 0

LiveIn(rows, mb) == {r \in rows : r.mbox = mb /\ Live(r)}

LiveUIDs(rows, mb) == {r.uid : r \in LiveIn(rows, mb)}

\* Fault model: positions counted from 0.
RankIn_FromZero(S, u) == Cardinality({v \in S : v < u})

\* The position of u among the uids of S, counted from 1: ROW_NUMBER() OVER
\* (ORDER BY uid), and the index of a uid in a result ORDERed BY uid.
RankIn(S, u) == Cardinality({v \in S : v <= u})

\* Fault model: the rebuild forgets the filter expunged_at IS NULL.
RebuildSequences_AllRows(rows, mb) ==
    LET uids == {r.uid : r \in {x \in rows : x.mbox = mb}}
    IN  [u \in uids |-> RankIn(uids, u)]

\* The body of maintain_message_sequences for one mailbox: the rows of the
\* mailbox are deleted and written again from the live messages.
RebuildSequences(rows, mb) ==
    LET uids == LiveUIDs(rows, mb)
    IN  [u \in uids |-> RankIn(uids, u)]

\* PRIMARY KEY (mailbox_id, uid) of message_sequences: the INSERT of the
\* rebuild fails when two live messages of the mailbox have one uid.
SequenceKeyClash(rows, mb) ==
    \E r1, r2 \in LiveIn(rows, mb) : r1.id # r2.id /\ r1.uid = r2.uid

\* Fault model: the trigger without pg_advisory_xact_lock.
AdvisoryLockFree_NoLock(t, mb) == TRUE

\* pg_advisory_xact_lock(v_mailbox_id): taken by the trigger, held to the end
\* of the transaction.
AdvisoryLockFree(t, mb) == advLock[mb] \in {NULL, t}

\* Fault model: highest_uid read and written without the row lock (a SELECT
\* followed by an UPDATE).
RowLockFree_NoLock(t, mb) == TRUE

\* UPDATE mailboxes ... WHERE id = mb locks the row to the end of the
\* transaction; a second UPDATE of the row waits.
RowLockFree(t, mb) == rowLock[mb] \in {NULL, t}

\* Constraint messages_message_id_mailbox_id_key.
MessageIdTaken(rows, mb, msgid) == \E r \in LiveIn(rows, mb) : r.msgid = msgid

Greatest(a, b) == IF a >= b THEN a ELSE b

-----------------------------------------------------------------------------
(* Type invariant *)

Pcs == {"idle", "uid", "row", "trigger", "lookup", "content", "pending",
        "select", "bump", "batch", "copytrigger", "returned"}

Errors == {"ErrDBUpdateFailed", "ErrDBInsertFailed", "ErrDBUniqueViolation",
           "ErrSerializationFailed", "ErrInternalError", "ErrScan",
           "ErrMailboxName", "ErrBatchCopy", "ErrSameMailbox"}

IsSeqnumMap(f) ==
    /\ DOMAIN f \subseteq 1..MaxUID
    /\ \A u \in DOMAIN f : f[u] \in 1..MaxUID

\* Every variable has the shape the schema and the Go types give it.
TypeOK ==
    /\ mailboxes \in [Mailboxes -> [highest_uid : 0..MaxUID, uid_validity : UidValidities]]
    /\ messages \subseteq Row
    /\ \A mb \in Mailboxes : IsSeqnumMap(sequences[mb])
    /\ contents \subseteq Hashes
    /\ pending \subseteq Key /\ s3 \subseteq Key
    /\ nextRowId \in 1..(MaxRowId + 1)
    /\ nextModseq \in 1..(2 * MaxRowId + 1)
    /\ rowLock \in [Mailboxes -> Txs \cup {NULL}]
    /\ advLock \in [Mailboxes -> Txs \cup {NULL}]
    /\ pc \in [Txs -> Pcs]
    /\ \A t \in Txs :
        /\ call[t].op \in {"none", "insert", "import", "copy"}
        /\ call[t].mb \in Mailboxes \cup {NULL}
        /\ call[t].msgid \in MsgIds \cup GenIds \cup {NULL}
        /\ loc[t].uidToUse \in 0..MaxUID /\ loc[t].highestUID \in 0..MaxUID
        /\ loc[t].rowId \in 0..MaxRowId
        /\ loc[t].sel \subseteq [id : 1..MaxRowId, uid : 1..MaxUID]
        /\ wr[t].hi \in (1..MaxUID) \cup {NULL}
        /\ wr[t].uidv \in UidValidities \cup {NULL}
        /\ wr[t].rows \subseteq Row
        /\ wr[t].seq = NULL \/ IsSeqnumMap(wr[t].seq)
        /\ wr[t].cont \subseteq Hashes /\ wr[t].pend \subseteq Key
        /\ out[t].status \in {"none", "ok", "error"}
        /\ out[t].err \in Errors \cup {NULL}
        /\ out[t].uid \in 0..MaxUID
        /\ IsSeqnumMap(out[t].map)

Init ==
    /\ mailboxes = [mb \in Mailboxes |->
                       [highest_uid |-> 0,
                        uid_validity |-> CHOOSE v \in UidValidities :
                                            \A w \in UidValidities : v <= w]]
    /\ messages = {} /\ contents = {} /\ pending = {} /\ s3 = {}
    /\ sequences = [mb \in Mailboxes |-> <<>>]
    /\ nextRowId = 1 /\ nextModseq = 1
    /\ rowLock = [mb \in Mailboxes |-> NULL]
    /\ advLock = [mb \in Mailboxes |-> NULL]
    /\ pc = [t \in Txs |-> "idle"]
    /\ call = [t \in Txs |-> NoCall]
    /\ loc = [t \in Txs |-> NoLocals]
    /\ wr = [t \in Txs |-> NoWrites]
    /\ out = [t \in Txs |-> NoResult]

-----------------------------------------------------------------------------
(* Control *)

Goto(t, p) == pc' = [pc EXCEPT ![t] = p]

Return(t, r) ==
    /\ out' = [out EXCEPT ![t] = r]
    /\ pc' = [pc EXCEPT ![t] = "returned"]

\* A call of InsertMessage or InsertMessageFromImporter.  Of its options the
\* call keeps the mailbox, the account and the content hash from the start;
\* the preserved UID and UIDVALIDITY and the Message-ID are chosen at the
\* statement that first reads them.
Begin(t, name) ==
    \E mb \in Mailboxes, account \in Accounts, hash \in Hashes :
        /\ pc[t] = "idle" /\ name \in Calls
        /\ nextRowId <= MaxRowId
        /\ call' = [call EXCEPT ![t] =
                      [NoCall EXCEPT !.op = name, !.mb = mb, !.account = account,
                                     !.hash = hash]]
        /\ Goto(t, "uid")
        /\ UNCHANGED <<db, seqs, lcks, loc, wr, out>>

\* options.PreservedUID and options.PreservedUIDValidity: the second is read
\* only beside the first.
PreservedOptions ==
    {o \in [puid : (1..MaxUID) \cup {NULL}, puidv : UidValidities \cup {NULL}] :
        o.puid = NULL => o.puidv = NULL}

\* saneMessageID: an empty Message-ID is replaced by a generated one
\* ("<nanoseconds@mailbox>"), which no other message carries.
SaneMessageIDs(t) == MsgIds \cup {<<t, nextRowId>>}

-----------------------------------------------------------------------------
(* InsertMessage, statement by statement *)

BeginInsertMessage(t) == Begin(t, "insert")

\* Fault model: the preserved UID replaces highest_uid instead of raising it.
NewHighestUID_NoGreatest(cur, puid) == IF puid # NULL THEN puid ELSE cur + 1

\* GREATEST(highest_uid, preserved) with a preserved UID, highest_uid + 1
\* without one.
NewHighestUID(cur, puid) == IF puid # NULL THEN Greatest(cur, puid) ELSE cur + 1

\* UPDATE mailboxes SET highest_uid ... RETURNING highest_uid, and with a
\* preserved UIDVALIDITY the UPDATE of uid_validity on the row just locked.
UpdateHighestUID(t) ==
    \E o \in PreservedOptions :
        LET mb  == call[t].mb
            new == NewHighestUID(mailboxes[mb].highest_uid, o.puid)
        IN  /\ pc[t] = "uid"
            /\ RowLockFree(t, mb)
            /\ new <= MaxUID
            /\ rowLock' = [rowLock EXCEPT ![mb] = t]
            /\ call' = [call EXCEPT ![t].puid = o.puid, ![t].puidv = o.puidv]
            /\ wr' = [wr EXCEPT ![t].hi = new, ![t].uidv = o.puidv]
            /\ loc' = [loc EXCEPT ![t].highestUID = new,
                                  ![t].uidToUse = IF o.puid # NULL THEN o.puid ELSE new]
            /\ Goto(t, "row")
            /\ UNCHANGED <<db, seqs, advLock, out>>

\* INSERT INTO messages ... RETURNING id: the row id and the modseq are
\* drawn, and a taken Message-ID is SQLSTATE 23505 on
\* messages_message_id_mailbox_id_key, which sends the function to the lookup.
InsertRow(t, uploaded) ==
    \E msgid \in SaneMessageIDs(t) :
        LET c   == call[t]
            row == [id |-> nextRowId, mbox |-> c.mb, account |-> c.account,
                    uid |-> loc[t].uidToUse, msgid |-> msgid, hash |-> c.hash,
                    uploaded |-> uploaded,
                    created_modseq |-> nextModseq, expunged_modseq |-> 0]
        IN  /\ pc[t] = "row"
            /\ nextRowId <= MaxRowId
            /\ nextRowId' = nextRowId + 1
            /\ nextModseq' = nextModseq + 1
            /\ call' = [call EXCEPT ![t].msgid = msgid]
            /\ \/ /\ MessageIdTaken(Visible(t), c.mb, msgid)
                  /\ Goto(t, "lookup")
                  /\ UNCHANGED <<loc, wr>>
               \/ /\ ~MessageIdTaken(Visible(t), c.mb, msgid)
                  /\ wr' = [wr EXCEPT ![t].rows = @ \cup {row}]
                  /\ loc' = [loc EXCEPT ![t].rowId = row.id]
                  /\ Goto(t, "trigger")
            /\ UNCHANGED <<db, lcks, out>>

\* maintain_message_sequences after an INSERT of transaction t: the trigger
\* waits for the advisory lock of the mailbox, and its statements see what
\* is committed when they start.
Triggered(t, at) ==
    /\ pc[t] = at
    /\ AdvisoryLockFree(t, call[t].mb)
    /\ advLock' = [advLock EXCEPT ![call[t].mb] = t]
    /\ UNCHANGED <<db, seqs, rowLock, call, loc>>

\* The rebuild succeeds: the statement that fired the trigger returns.
Rebuilt(t) ==
    /\ ~SequenceKeyClash(Visible(t), call[t].mb)
    /\ wr' = [wr EXCEPT ![t].seq = RebuildSequences(Visible(t), call[t].mb)]

\* The rebuild fails on the primary key of message_sequences, and with it
\* the statement: any insert error but the one on the Message-ID.
RebuildFailed(t, err) ==
    /\ SequenceKeyClash(Visible(t), call[t].mb)
    /\ Return(t, Failed(err))
    /\ UNCHANGED wr

InsertTrigger(t) ==
    /\ Triggered(t, "trigger")
    /\ \/ Rebuilt(t) /\ Goto(t, "content") /\ UNCHANGED out
       \/ RebuildFailed(t, "ErrDBInsertFailed")

\* After the unique violation: SELECT id, uid of the live message with this
\* account, mailbox and Message-ID, on the transaction whose INSERT has just
\* failed.  PostgreSQL refuses every statement of a failed transaction
\* (SQLSTATE 25P02), so the query returns an error that is not ErrNoRows
\* and the function falls back to the unique violation; the return of the
\* existing message is never reached.
FindExisting(t) ==
    /\ pc[t] = "lookup"
    /\ Return(t, Failed("ErrDBUniqueViolation"))
    /\ UNCHANGED <<db, seqs, lcks, call, loc, wr>>

\* INSERT INTO message_contents ... ON CONFLICT (content_hash) DO NOTHING.  A
\* row of the same hash that another transaction has inserted and not yet
\* committed makes the statement wait.
InsertContent(t) ==
    LET h == call[t].hash
    IN  /\ pc[t] = "content"
        /\ \A u \in Txs \ {t} : h \notin wr[u].cont
        /\ wr' = [wr EXCEPT ![t].cont = IF h \in contents THEN @ ELSE @ \cup {h}]
        /\ UNCHANGED <<db, seqs, lcks, call, loc>>

\* Fault model: the INSERT INTO pending_uploads is left out.
PendingAfterInsert_Dropped(own, k) == own

\* INSERT INTO pending_uploads ... ON CONFLICT (content_hash, account_id) DO
\* NOTHING: what the transaction has written to the table afterwards.
PendingAfterInsert(own, k) == IF k \in pending THEN own ELSE own \cup {k}

\* return messageRowId, highestUID, nil
InsertMessageResult(t) == Returned(loc[t].rowId, loc[t].highestUID)

InsertPendingUpload(t) ==
    LET k == [hash |-> call[t].hash, account |-> call[t].account]
    IN  /\ pc[t] = "pending"
        /\ \A u \in Txs \ {t} : k \notin wr[u].pend
        /\ wr' = [wr EXCEPT ![t].pend = PendingAfterInsert(@, k)]
        /\ Return(t, InsertMessageResult(t))
        /\ UNCHANGED <<db, seqs, lcks, call, loc>>

InsertMessage(t) ==
    /\ call[t].op = "insert"
    /\ \/ UpdateHighestUID(t)
       \/ InsertRow(t, FALSE)
       \/ InsertTrigger(t)
       \/ FindExisting(t)
       \/ InsertContent(t) /\ Goto(t, "pending") /\ UNCHANGED out
       \/ InsertPendingUpload(t)

-----------------------------------------------------------------------------
(* InsertMessageFromImporter: the same statements, the row inserted with    *)
(* uploaded = true, no pending upload, and uidToUse returned.               *)

BeginImport(t) == Begin(t, "import")

\* return messageRowId, uidToUse, nil
ImporterResult(t) == Returned(loc[t].rowId, loc[t].uidToUse)

\* The UPDATE of highest_uid (and of uid_validity) as the importer issues it.
ImportUpdateHighestUID(t) == UpdateHighestUID(t)

\* INSERT INTO messages (..., uploaded, ...) VALUES (..., true, ...): the
\* content of an imported message is in the object store already.
ImportRow(t) == InsertRow(t, TRUE)

\* The trigger after the importer's INSERT.
ImportTrigger(t) == InsertTrigger(t)

\* The importer's lookup after a unique violation.
ImportFindExisting(t) == FindExisting(t)

\* The importer's INSERT INTO message_contents, and its return.
ImportContent(t) == InsertContent(t) /\ Return(t, ImporterResult(t))

InsertMessageFromImporter(t) ==
    /\ call[t].op = "import"
    /\ \/ ImportUpdateHighestUID(t)
       \/ ImportRow(t)
       \/ ImportTrigger(t)
       \/ ImportFindExisting(t)
       \/ ImportContent(t)

-----------------------------------------------------------------------------
(* CopyMessages *)

\* A copy onto the source mailbox is refused before any statement.
BeginCopy(t) ==
    \E src, dst \in Mailboxes :
        /\ pc[t] = "idle" /\ "copy" \in Calls
        /\ nextRowId <= MaxRowId
        /\ call' = [call EXCEPT ![t] =
                      [NoCall EXCEPT !.op = "copy", !.src = src, !.mb = dst]]
        /\ \/ src = dst /\ Return(t, Failed("ErrSameMailbox"))
           \/ src # dst /\ Goto(t, "select") /\ UNCHANGED out
        /\ UNCHANGED <<db, seqs, lcks, loc, wr>>

\* SELECT id, uid of the live messages of the source with a requested uid,
\* ORDER BY uid.  None selected: the empty map is returned.  The argument
\* uids is read by this statement only, so it is chosen here.
SelectSource(t) ==
    \E uids \in SUBSET (1..MaxUID) :
        LET sel == {[id |-> r.id, uid |-> r.uid] :
                       r \in {x \in LiveIn(Visible(t), call[t].src) : x.uid \in uids}}
        IN  /\ pc[t] = "select"
            /\ loc' = [loc EXCEPT ![t].sel = sel]
            /\ \/ sel = {} /\ Return(t, CopyResult(<<>>))
               \/ sel # {} /\ Goto(t, "bump") /\ UNCHANGED out
            /\ UNCHANGED <<db, seqs, lcks, call, wr>>

\* UPDATE mailboxes SET highest_uid = highest_uid + numToCopy ... RETURNING.
CopyUpdateHighestUID(t) ==
    LET c   == call[t]
        new == mailboxes[c.mb].highest_uid + Cardinality(loc[t].sel)
    IN  /\ pc[t] = "bump"
        /\ RowLockFree(t, c.mb)
        /\ new <= MaxUID
        /\ rowLock' = [rowLock EXCEPT ![c.mb] = t]
        /\ wr' = [wr EXCEPT ![t].hi = new]
        /\ loc' = [loc EXCEPT ![t].highestUID = new]
        /\ Goto(t, "batch")
        /\ UNCHANGED <<db, seqs, advLock, call, out>>

\* Fault model: the block of new UIDs starts one too low.
StartUID_OffByOne(newHighestUID, numToCopy) == newHighestUID - numToCopy

\* startUID := newHighestUID - numToCopy + 1
StartUID(newHighestUID, numToCopy) == newHighestUID - numToCopy + 1

\* messageUIDMap: the i-th source UID in ascending order gets startUID + i.
CopyUIDMap(t) ==
    LET from == {s.uid : s \in loc[t].sel}
    IN  [u \in from |->
            StartUID(loc[t].highestUID, Cardinality(from)) + RankIn(from, u) - 1]

\* INSERT INTO messages ... SELECT ... FROM messages m JOIN unnest(ids, new
\* uids): every selected row as it is now, expunged or not, is copied with
\* its account, content hash, uploaded flag and Message-ID, under its new uid
\* and a fresh modseq.
BatchInsert(t) ==
    LET c      == call[t]
        from   == {s.uid : s \in loc[t].sel}
        n      == Cardinality(loc[t].sel)
        copies == {[m EXCEPT !.id = nextRowId + RankIn(from, m.uid) - 1,
                             !.mbox = c.mb, !.uid = CopyUIDMap(t)[m.uid],
                             !.created_modseq = nextModseq + RankIn(from, m.uid) - 1,
                             !.expunged_modseq = 0] :
                      m \in {x \in Visible(t) : x.id \in {s.id : s \in loc[t].sel}}}
    IN  /\ pc[t] = "batch"
        /\ nextRowId + n - 1 <= MaxRowId
        /\ nextRowId' = nextRowId + n
        /\ nextModseq' = nextModseq + n
        /\ \/ /\ \E m \in copies : MessageIdTaken(Visible(t), c.mb, m.msgid)
              /\ Return(t, Failed("ErrBatchCopy"))
              /\ UNCHANGED wr
           \/ /\ \A m \in copies : ~MessageIdTaken(Visible(t), c.mb, m.msgid)
              /\ wr' = [wr EXCEPT ![t].rows = @ \cup copies]
              /\ Goto(t, "copytrigger")
              /\ UNCHANGED out
        /\ UNCHANGED <<db, lcks, call, loc>>

\* The trigger after the batch INSERT, and return messageUIDMap, nil.
CopyTrigger(t) ==
    /\ Triggered(t, "copytrigger")
    /\ \/ Rebuilt(t) /\ Return(t, CopyResult(CopyUIDMap(t)))
       \/ RebuildFailed(t, "ErrBatchCopy")

CopyMessages(t) ==
    /\ call[t].op = "copy"
    /\ SelectSource(t) \/ CopyUpdateHighestUID(t) \/ BatchInsert(t) \/ CopyTrigger(t)

-----------------------------------------------------------------------------
(* The error returns, and the caller's end of the transaction *)

\* The errors a function can return while it is at a statement: the statement
\* fails (the connection, the context, a constraint the model leaves out), or
\* the Go code between two statements does (serialising the body structure,
\* the recipients or the keywords; scanning the selected rows; fetching the
\* name of the destination).
ErrorAt == [uid         |-> {"ErrSerializationFailed", "ErrDBUpdateFailed"},
            row         |-> {"ErrSerializationFailed", "ErrDBInsertFailed"},
            trigger     |-> {"ErrDBInsertFailed"},
            content     |-> {"ErrDBInsertFailed"},
            pending     |-> {"ErrDBInsertFailed"},
            select      |-> {"ErrInternalError", "ErrScan"},
            bump        |-> {"ErrDBUpdateFailed"},
            batch       |-> {"ErrMailboxName", "ErrBatchCopy"},
            copytrigger |-> {"ErrBatchCopy"}]

Fail(t) ==
    /\ pc[t] \in DOMAIN ErrorAt
    /\ \E e \in ErrorAt[pc[t]] : Return(t, Failed(e))
    /\ UNCHANGED <<db, seqs, lcks, call, loc, wr>>

Release(locks, t) == [mb \in Mailboxes |-> IF locks[mb] = t THEN NULL ELSE locks[mb]]

Finish(t) ==
    /\ rowLock' = Release(rowLock, t)
    /\ advLock' = Release(advLock, t)
    /\ pc' = [pc EXCEPT ![t] = "idle"]
    /\ call' = [call EXCEPT ![t] = NoCall]
    /\ loc' = [loc EXCEPT ![t] = NoLocals]
    /\ wr' = [wr EXCEPT ![t] = NoWrites]
    /\ out' = [out EXCEPT ![t] = NoResult]

\* The caller commits what a successful call wrote.
Commit(t) ==
    LET w == wr[t]  mb == call[t].mb
    IN  /\ pc[t] = "returned" /\ out[t].status = "ok"
        /\ mailboxes' =
             IF w.hi = NULL THEN mailboxes
             ELSE [mailboxes EXCEPT ![mb] =
                     [highest_uid |-> w.hi,
                      uid_validity |-> IF w.uidv = NULL THEN @.uid_validity ELSE w.uidv]]
        /\ messages' = messages \cup w.rows
        /\ sequences' = IF w.seq = NULL THEN sequences
                        ELSE [sequences EXCEPT ![mb] = w.seq]
        /\ contents' = contents \cup w.cont
        /\ pending' = pending \cup w.pend
        /\ Finish(t)
        /\ UNCHANGED <<s3, seqs>>

\* The caller rolls back: after an error, or when the commit itself fails.
Rollback(t) ==
    /\ pc[t] = "returned"
    /\ Finish(t)
    /\ UNCHANGED <<db, seqs>>

-----------------------------------------------------------------------------
(* The rest of the server, as far as it writes the same tables *)

\* EXPUNGE of one message: an UPDATE of messages in a transaction of its own,
\* with the trigger that follows it.
Expunge(mb, uid) ==
    \E r \in LiveIn(messages, mb) :
        /\ r.uid = uid
        /\ AdvisoryLockFree(NULL, mb)
        /\ messages' = (messages \ {r}) \cup
                          {[r EXCEPT !.expunged_modseq = nextModseq]}
        /\ nextModseq' = nextModseq + 1
        /\ sequences' = [sequences EXCEPT ![mb] = RebuildSequences(messages', mb)]
        /\ UNCHANGED <<mailboxes, contents, pending, s3, nextRowId, lcks,
                       pc, call, loc, wr, out>>

\* The uploader puts the object of a pending upload into the object store.
UploadPut(k) ==
    /\ k \in pending \ s3
    /\ s3' = s3 \cup {k}
    /\ UNCHANGED <<mailboxes, messages, sequences, contents, pending, seqs, lcks,
                   pc, call, loc, wr, out>>

Finalizable(k) == k \in pending \cap s3

\* The uploader finalises: the messages of the key become uploaded and the
\* pending row is deleted, in one transaction.  The UPDATE fires the trigger
\* for every mailbox it touched.
UploadFinalize(k) ==
    LET hit     == {r \in messages : r.hash = k.hash /\ r.account = k.account
                                     /\ ~r.uploaded}
        touched == {r.mbox : r \in hit}
    IN  /\ Finalizable(k)
        /\ \A mb \in touched : AdvisoryLockFree(NULL, mb)
        /\ messages' = (messages \ hit) \cup {[r EXCEPT !.uploaded = TRUE] : r \in hit}
        /\ pending' = pending \ {k}
        /\ sequences' = [mb \in Mailboxes |->
                            IF mb \in touched THEN RebuildSequences(messages', mb)
                                              ELSE sequences[mb]]
        /\ UNCHANGED <<mailboxes, contents, s3, seqs, lcks, pc, call, loc, wr, out>>

-----------------------------------------------------------------------------

Next ==
    \/ \E t \in Txs :
          \/ BeginInsertMessage(t) \/ InsertMessage(t)
          \/ BeginImport(t) \/ InsertMessageFromImporter(t)
          \/ BeginCopy(t) \/ CopyMessages(t)
          \/ Fail(t) \/ Commit(t) \/ Rollback(t)
    \/ \E mb \in Mailboxes, uid \in 1..MaxUID : Expunge(mb, uid)
    \/ \E k \in Key : UploadPut(k) \/ UploadFinalize(k)

Spec == Init /\ [][Next]_vars

-----------------------------------------------------------------------------
(* Properties *)

\* Rows of the next state that the current state has no row of that id for.
NewRows == {r \in messages' : r.id \notin {x.id : x \in messages}}

\* The modseqs a row carries, and HIGHESTMODSEQ of a mailbox: the greatest
\* modseq of its rows.
Modseqs(r) == {r.created_modseq, r.expunged_modseq} \ {0}

HighestModseq(rows, mb) ==
    Max(UNION {Modseqs(r) : r \in {x \in rows : x.mbox = mb}} \cup {0})

\* The live messages of a mailbox have distinct UIDs, none above the
\* mailbox's highest_uid, whatever mix of appends, imports with preserved
\* UIDs, copies and expunges committed (UpdateHighestUID, InsertRow and the
\* primary key of message_sequences).
LiveUIDsDistinctAndAssigned ==
    \A mb \in Mailboxes :
        /\ \A r \in LiveIn(messages, mb) : r.uid <= mailboxes[mb].highest_uid
        /\ \A r1, r2 \in LiveIn(messages, mb) : r1.uid = r2.uid => r1 = r2

\* message_sequences numbers exactly the live messages of each mailbox
\* 1..N in UID order, in every committed state: the trigger's rebuild of one
\* transaction is never overtaken by the commit of another
\* (maintain_message_sequences and its advisory lock).
SequencesDense ==
    \A mb \in Mailboxes :
        LET f == sequences[mb]  live == LiveUIDs(messages, mb)
        IN  /\ DOMAIN f = live
            /\ {f[u] : u \in live} = 1..Cardinality(live)
            /\ \A u, v \in live : u < v => f[u] < f[v]

\* A message committed by a call without a preserved UID (an append, a
\* delivery, a copy) gets a UID above every UID the mailbox has ever held,
\* expunged messages included: UIDs are not reused (the UPDATE of highest_uid
\* in InsertMessage, InsertMessageFromImporter and CopyMessages).
AssignedUIDsAreFresh ==
    [][\A t \in Txs :
          call[t].puid = NULL =>
              \A r \in NewRows \cap wr[t].rows :
                  \A x \in messages : x.mbox = r.mbox => x.uid < r.uid]_vars

\* Whenever a message of a mailbox appears or is expunged, its new modseq is
\* above every modseq that was visible in the mailbox before: a client that
\* has seen HIGHESTMODSEQ n misses no change ("within a mailbox, modseq is
\* monotonic across all writers"; nextval in the INSERTs of InsertMessage,
\* InsertMessageFromImporter and CopyMessages, drawn before the trigger
\* takes the advisory lock).
ModseqAdvances ==
    [][\A r \in messages' :
          \A m \in Modseqs(r) \ UNION {Modseqs(x) : x \in {y \in messages : y.id = r.id}} :
              m > HighestModseq(messages, r.mbox)]_vars

\* The messages of a mailbox are created in the order of their modseqs: a
\* row that is committed has a created_modseq above that of every row the
\* mailbox held before, although the modseq is drawn from a sequence that
\* transactions of all mailboxes share and long before the commit (the
\* UPDATE of highest_uid, which every insert and copy into the mailbox
\* issues before its INSERT, holds the row of the mailbox to the commit).
CreatedInModseqOrder ==
    [][\A r \in NewRows :
          \A x \in messages : x.mbox = r.mbox => x.created_modseq < r.created_modseq]_vars

\* What CopyMessages returns: the map sends the selected source UIDs, in
\* ascending order, onto the block of UIDs just above the destination's
\* highest_uid, and each new UID is that of a copy of the source message
\* (startUID, messageUIDMap and the batch INSERT).
CopyUIDsOrdered ==
    \A t \in Txs :
        (pc[t] = "returned" /\ call[t].op = "copy" /\ out[t].status = "ok") =>
            LET m   == out[t].map
                hi0 == mailboxes[call[t].mb].highest_uid
            IN  /\ DOMAIN m = {s.uid : s \in loc[t].sel}
                /\ \A u, v \in DOMAIN m : u < v => m[u] < m[v]
                /\ {m[u] : u \in DOMAIN m} = (hi0 + 1)..(hi0 + Cardinality(DOMAIN m))
                /\ \A u \in DOMAIN m :
                      \E r \in wr[t].rows, x \in messages :
                          /\ r.mbox = call[t].mb /\ r.uid = m[u]
                          /\ x.mbox = call[t].src /\ x.uid = u /\ x.hash = r.hash

\* The content of every committed message can be fetched: the message is
\* marked uploaded, or its object is in the object store, or a pending upload
\* row still points at the staged file (the pending_uploads INSERT of
\* InsertMessage against the uploader's finalisation).
ContentRecoverable ==
    \A r \in messages : ~r.uploaded => KeyOf(r) \in pending \cup s3

\* The UID an insert returns is the UID of the row it inserted (the return
\* statements of InsertMessage and InsertMessageFromImporter).
ReturnedUIDIsStoredUID ==
    \A t \in Txs :
        (pc[t] = "returned" /\ call[t].op \in {"insert", "import"}
                            /\ out[t].status = "ok") =>
            \A r \in wr[t].rows : r.uid = out[t].uid

\* An APPEND of a message whose Message-ID the mailbox already holds returns
\* the existing row ("duplicate APPEND returns the existing row", and the
\* lookup of InsertMessage after the unique violation): it does not fail
\* with the unique violation while a live message of that account, mailbox
\* and Message-ID is committed.
DuplicateReturnsExisting ==
    \A t \in Txs :
        (pc[t] = "returned" /\ out[t].err = "ErrDBUniqueViolation") =>
            ~\E r \in LiveIn(messages, call[t].mb) :
                r.account = call[t].account /\ r.msgid = call[t].msgid

\* The committed tables implement the abstract mailbox of module Mailbox:
\* every step of every transaction, of EXPUNGE and of the uploader either
\* leaves the UIDs, highest_uid and message_sequences of all mailboxes as
\* they are, or changes one mailbox in one of three ways: the next UIDs above
\* highest_uid are added without a gap, one message is restored under a UID
\* no live message has and highest_uid does not go down, or one message is
\* expunged (Commit of InsertMessage, InsertMessageFromImporter and
\* CopyMessages, with the row lock and the trigger).
AM == INSTANCE Mailbox
          WITH highest <- [mb \in Mailboxes |-> mailboxes[mb].highest_uid],
               live    <- [mb \in Mailboxes |-> LiveUIDs(messages, mb)],
               seqnum  <- sequences

\* AM!Spec, with an abstract step looked for only when the abstract state
\* changes: [][v' # v => N]_v is [][N]_v.
ImplementsMailbox == AM!Init /\ [][AM!vars' # AM!vars => AM!Next]_(AM!vars)

\* Every message that is not uploaded has a pending_uploads row: nothing is
\* left for which no upload will ever be attempted (the ON CONFLICT DO
\* NOTHING of InsertMessage and the copied uploaded flag of CopyMessages,
\* against the uploader's finalisation).
PendingUploadCovers ==
    \A r \in messages : ~r.uploaded => KeyOf(r) \in pending

=============================================================================
