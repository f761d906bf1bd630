---------------------------- MODULE ScriptStore ----------------------------
(***************************************************************************)
(* What ManageSieve promises a client about the scripts of an account,     *)
(* with the sessions, the lookups by name, the row ids, the transactions   *)
(* and the replica left out.                                               *)
(*                                                                         *)
(* An account has scripts, each a name with a text that passed validation  *)
(* when it was stored, and at most one of them is the active one.  Every   *)
(* change is one command taking effect at once, on one account.            *)
(***************************************************************************)
CONSTANTS Accounts, Names, ValidContents

VARIABLES
    stored,    \* the scripts: account, name and text
    active     \* the active scripts: account and name

vars == <<stored, active>>

Scripts == [account : Accounts, name : Names, text : ValidContents]
Keys    == [account : Accounts, name : Names]

Key(a, n) == [account |-> a, name |-> n]

\* The script of that name, as a set of at most one.
Script(a, n) == {r \in stored : r.account = a /\ r.name = n}

\* The active script of the account, as a set of at most one.
Active(a) == {k \in active : k.account = a}

\* A name has one text, an account one active script, and the active
\* script is one of the scripts of the account.
Consistent ==
    /\ \A r, q \in stored : r.account = q.account /\ r.name = q.name => r = q
    /\ \A k, l \in active : k.account = l.account => k = l
    /\ \A k \in active : Script(k.account, k.name) # {}

Init ==
    /\ stored \in SUBSET Scripts
    /\ active \in SUBSET Keys
    /\ Consistent

\* PUTSCRIPT: a text that is valid is stored under the name, in place of
\* the text the name had.  Which script is active does not change.
Put(a, n, c) ==
    /\ stored' = (stored \ Script(a, n)) \cup {[account |-> a, name |-> n, text |-> c]}
    /\ UNCHANGED active

\* DELETESCRIPT: the script is gone, and the account has no active script
\* when it was that one.
Delete(a, n) ==
    /\ Script(a, n) # {}
    /\ stored' = stored \ Script(a, n)
    /\ active' = active \ {Key(a, n)}

\* SETACTIVE: a script of the account becomes its active script.
Activate(a, n) ==
    /\ Script(a, n) # {}
    /\ active' = (active \ Active(a)) \cup {Key(a, n)}
    /\ UNCHANGED stored

\* The account has no active script from now on.
Deactivate(a) ==
    /\ Active(a) # {}
    /\ active' = active \ Active(a)
    /\ UNCHANGED stored

Next ==
    \E a \in Accounts :
        \/ \E n \in Names : (\E c \in ValidContents : Put(a, n, c))
                               \/ Delete(a, n) \/ Activate(a, n)
        \/ Deactivate(a)

Spec == Init /\ [][Next]_vars

=============================================================================
