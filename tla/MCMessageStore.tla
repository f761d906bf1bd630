--------------------------- MODULE MCMessageStore ---------------------------
(* MessageStore for TLC.  Transactions are interchangeable.  The runs that   *)
(* are about copies start from a mailbox that already holds messages, a      *)
(* state two committed appends reach, so that the bound on row ids is spent  *)
(* on the copies.                                                            *)
EXTENDS MessageStore, TLC

CONSTANTS SrcMailbox,   \* the mailbox that is loaded
          Loaded        \* how many messages it holds

Symmetry == Permutations(Txs)

\* The loaded messages carry distinct Message-IDs.
LoadedMsgIds == CHOOSE f \in [1..Loaded -> MsgIds] : \A i, j \in 1..Loaded : f[i] = f[j] => i = j

\* Row n of the loaded mailbox: appended, committed, not yet uploaded.
LoadedRow(n) ==
    [id |-> n, mbox |-> SrcMailbox, account |-> CHOOSE a \in Accounts : TRUE,
     uid |-> n, msgid |-> LoadedMsgIds[n], hash |-> CHOOSE h \in Hashes : TRUE,
     uploaded |-> FALSE, created_modseq |-> n, expunged_modseq |-> 0]

LoadedRows == {LoadedRow(n) : n \in 1..Loaded}

LoadedInit ==
    LET n == Loaded
    IN  /\ mailboxes = [mb \in Mailboxes |->
                          [highest_uid |-> IF mb = SrcMailbox THEN n ELSE 0,
                           uid_validity |-> CHOOSE v \in UidValidities : TRUE]]
        /\ messages = LoadedRows
        /\ sequences = [mb \in Mailboxes |-> RebuildSequences(LoadedRows, mb)]
        /\ contents = {r.hash : r \in LoadedRows}
        /\ pending = {KeyOf(r) : r \in LoadedRows}
        /\ s3 = {}
        /\ nextRowId = n + 1 /\ nextModseq = n + 1
        /\ rowLock = [mb \in Mailboxes |-> NULL]
        /\ advLock = [mb \in Mailboxes |-> NULL]
        /\ pc = [t \in Txs |-> "idle"]
        /\ call = [t \in Txs |-> NoCall]
        /\ loc = [t \in Txs |-> NoLocals]
        /\ wr = [t \in Txs |-> NoWrites]
        /\ out = [t \in Txs |-> NoResult]

LoadedSpec == LoadedInit /\ [][Next]_vars

=============================================================================
