------------------------------ MODULE Mailbox -------------------------------
(***************************************************************************)
(* What the message store promises an IMAP client about the UIDs of a      *)
(* mailbox, with the transactions, locks, rows and uploads left out.       *)
(*                                                                         *)
(* A mailbox is the set of UIDs of its messages, the highest UID it has    *)
(* handed out, and the sequence numbers of its messages.  A change happens *)
(* at once and to one mailbox: messages are added on top, a message is     *)
(* restored under the UID it had on the server it was exported from, or a  *)
(* message is expunged.                                                    *)
(***************************************************************************)
EXTENDS Integers, FiniteSets

CONSTANTS Mailboxes, MaxUID

VARIABLES
    highest,    \* [Mailboxes -> the highest UID handed out]
    live,       \* [Mailboxes -> the UIDs of the messages]
    seqnum      \* [Mailboxes -> [UID of a message -> its sequence number]]

vars == <<highest, live, seqnum>>

\* The messages of a mailbox are numbered 1..N in the order of their UIDs.
Numbered(S) == [u \in S |-> Cardinality({v \in S : v <= u})]

Init ==
    /\ highest \in [Mailboxes -> 0..MaxUID]
    /\ live \in [Mailboxes -> SUBSET (1..MaxUID)]
    /\ \A mb \in Mailboxes : live[mb] \subseteq 1..highest[mb]
    /\ seqnum = [mb \in Mailboxes |-> Numbered(live[mb])]

\* The mailbox holds the messages S from now on.
Holds(mb, S) ==
    /\ live' = [live EXCEPT ![mb] = S]
    /\ seqnum' = [seqnum EXCEPT ![mb] = Numbered(S)]

\* n messages are added: they get the n UIDs above the highest one.  No UID
\* is skipped and none is used again.
Append(mb, n) ==
    /\ highest[mb] + n <= MaxUID
    /\ highest' = [highest EXCEPT ![mb] = @ + n]
    /\ Holds(mb, live[mb] \cup ((highest[mb] + 1)..(highest[mb] + n)))

\* A message is restored under a UID of its own that no message of the
\* mailbox has; the highest UID never goes down.
Restore(mb, u) ==
    /\ u \notin live[mb]
    /\ highest' = [highest EXCEPT ![mb] = IF u > @ THEN u ELSE @]
    /\ Holds(mb, live[mb] \cup {u})

\* A message is expunged.  Its UID is never handed out again by an append;
\* only a restore under that very UID brings it back.
Expunge(mb, u) ==
    /\ u \in live[mb]
    /\ Holds(mb, live[mb] \ {u})
    /\ UNCHANGED highest

Next ==
    \E mb \in Mailboxes :
        \/ \E n \in 1..MaxUID : Append(mb, n)
        \/ \E u \in 1..MaxUID : Restore(mb, u) \/ Expunge(mb, u)

Spec == Init /\ [][Next]_vars

=============================================================================
