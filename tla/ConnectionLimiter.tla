------------------------- MODULE ConnectionLimiter -------------------------
(***************************************************************************)
(* The ConnectionLimiter of package server: a total cap and a per-IP cap   *)
(* on the connections of one protocol server.                              *)
(*                                                                         *)
(* Every connection is a goroutine that calls Accept and, when its session *)
(* ends, the release function Accept returned.  currentTotal and the       *)
(* per-IP counters are atomic integers; the map from IP to counter is      *)
(* guarded by the RWMutex mu.  A step of the model is one atomic operation *)
(* or one critical section of mu; the goroutines interleave between them.  *)
(* The per-IP counters are heap objects: the map holds a pointer, and so   *)
(* does the release closure of every connection that counted itself on it. *)
(***************************************************************************)
EXTENDS Integers, FiniteSets

CONSTANTS
    Conns,           \* goroutines that accept and release connections
    IPs,             \* remote addresses
    TrustedIPs,      \* the addresses inside trustedNets
    MaxConnections,  \* maxConnections; 0 or less: no total cap
    MaxPerIP,        \* maxPerIP; 0 or less: no per-IP cap
    MaxCounters,     \* bound on the atomic.Int64 objects ever allocated
    NULL

ASSUME /\ TrustedIPs \subseteq IPs
       /\ MaxConnections \in Int /\ MaxPerIP \in Int /\ MaxCounters \in Nat

Counters == 1..MaxCounters

VARIABLES
    currentTotal,      \* cl.currentTotal
    perIPConnections,  \* cl.perIPConnections: [IPs -> the counter, or NULL]
    counter,           \* the value of every counter object
    allocated,         \* how many counter objects exist
    sweeping,          \* does cleanup hold mu?
    visited,           \* the entries the range loop of cleanup has been at
    pc,                \* [Conns -> where the goroutine is]
    ip,                \* [Conns -> its remote address]
    ipCounter          \* [Conns -> the pointer it read or captured]

shared == <<currentTotal, perIPConnections, counter, allocated>>
locals == <<pc, ip, ipCounter>>
vars   == <<shared, sweeping, visited, locals>>

Pcs == {"idle", "lookup", "load", "addTotal", "track", "addIP", "open",
        "releaseIP", "untrack", "rejected"}

\* Every variable has the shape the Go types give it; no counter is negative.
TypeOK ==
    /\ currentTotal \in 0..Cardinality(Conns)
    /\ perIPConnections \in [IPs -> Counters \cup {NULL}]
    /\ counter \in [Counters -> 0..Cardinality(Conns)]
    /\ allocated \in 0..MaxCounters
    /\ sweeping \in BOOLEAN /\ visited \subseteq IPs
    /\ pc \in [Conns -> Pcs]
    /\ ip \in [Conns -> IPs \cup {NULL}]
    /\ ipCounter \in [Conns -> Counters \cup {NULL}]

Init ==
    /\ currentTotal = 0
    /\ perIPConnections = [a \in IPs |-> NULL]
    /\ counter = [k \in Counters |-> 0]
    /\ allocated = 0
    /\ sweeping = FALSE /\ visited = {}
    /\ pc = [c \in Conns |-> "idle"]
    /\ ip = [c \in Conns |-> NULL]
    /\ ipCounter = [c \in Conns |-> NULL]

-----------------------------------------------------------------------------
Goto(c, p) == pc' = [pc EXCEPT ![c] = p]

isTrustedConnection(a) == a \in TrustedIPs

\* cl.maxPerIP > 0 && !isTrusted: is the connection counted per IP?
TracksPerIP(a) == MaxPerIP > 0 /\ ~isTrustedConnection(a)

-----------------------------------------------------------------------------
(* Accept: CanAccept, then the two increments *)

\* The head of CanAccept: no limits at all, or the total cap read from
\* currentTotal.  What follows is the per-IP check, or the increment.
CheckTotal(c) ==
    \E a \in IPs :
        /\ pc[c] = "idle"
        /\ ip' = [ip EXCEPT ![c] = a]
        /\ IF MaxConnections > 0 /\ currentTotal >= MaxConnections
              THEN Goto(c, "rejected")
              ELSE IF TracksPerIP(a) THEN Goto(c, "lookup") ELSE Goto(c, "addTotal")
        /\ UNCHANGED <<shared, sweeping, visited, ipCounter>>

\* RLock; ipCounter, exists := perIPConnections[ip]; RUnlock.
LookupCounter(c) ==
    /\ pc[c] = "lookup" /\ ~sweeping
    /\ ipCounter' = [ipCounter EXCEPT ![c] = perIPConnections[ip[c]]]
    /\ IF perIPConnections[ip[c]] # NULL THEN Goto(c, "load") ELSE Goto(c, "addTotal")
    /\ UNCHANGED <<shared, sweeping, visited, ip>>

\* current := ipCounter.Load(): at the cap the connection is refused.
LoadCounter(c) ==
    /\ pc[c] = "load"
    /\ IF counter[ipCounter[c]] >= MaxPerIP THEN Goto(c, "rejected")
                                             ELSE Goto(c, "addTotal")
    /\ UNCHANGED <<shared, sweeping, visited, ip, ipCounter>>

\* total := cl.currentTotal.Add(1)
AddTotal(c) ==
    /\ pc[c] = "addTotal"
    /\ currentTotal' = currentTotal + 1
    /\ ipCounter' = [ipCounter EXCEPT ![c] = NULL]
    /\ IF TracksPerIP(ip[c]) THEN Goto(c, "track") ELSE Goto(c, "open")
    /\ UNCHANGED <<perIPConnections, counter, allocated, sweeping, visited, ip>>

\* Lock; the counter of the IP, a new one when the map has none; Unlock.
TrackIP(c) ==
    LET a == ip[c] IN
    /\ pc[c] = "track" /\ ~sweeping
    /\ \/ /\ perIPConnections[a] # NULL
          /\ ipCounter' = [ipCounter EXCEPT ![c] = perIPConnections[a]]
          /\ UNCHANGED <<perIPConnections, allocated>>
       \/ /\ perIPConnections[a] = NULL
          /\ allocated < MaxCounters
          /\ allocated' = allocated + 1
          /\ perIPConnections' = [perIPConnections EXCEPT ![a] = allocated + 1]
          /\ ipCounter' = [ipCounter EXCEPT ![c] = allocated + 1]
    /\ Goto(c, "addIP")
    /\ UNCHANGED <<currentTotal, counter, sweeping, visited, ip>>

\* perIP = ipCounter.Add(1); Accept returns the release function.
AddIP(c) ==
    /\ pc[c] = "addIP"
    /\ counter' = [counter EXCEPT ![ipCounter[c]] = @ + 1]
    /\ Goto(c, "open")
    /\ UNCHANGED <<currentTotal, perIPConnections, allocated, sweeping, visited,
                   ip, ipCounter>>

\* The caller of a refused Accept closes the connection.
Refused(c) ==
    /\ pc[c] = "rejected"
    /\ Goto(c, "idle")
    /\ ip' = [ip EXCEPT ![c] = NULL]
    /\ ipCounter' = [ipCounter EXCEPT ![c] = NULL]
    /\ UNCHANGED <<shared, sweeping, visited>>

-----------------------------------------------------------------------------
(* The release function *)

Done(c) ==
    /\ Goto(c, "idle")
    /\ ip' = [ip EXCEPT ![c] = NULL]
    /\ ipCounter' = [ipCounter EXCEPT ![c] = NULL]

\* cl.currentTotal.Add(-1), and the test that guards the per-IP part.
ReleaseTotal(c) ==
    /\ pc[c] = "open"
    /\ currentTotal' = currentTotal - 1
    /\ IF TracksPerIP(ip[c]) /\ ipCounter[c] # NULL
          THEN Goto(c, "releaseIP") /\ UNCHANGED <<ip, ipCounter>>
          ELSE Done(c)
    /\ UNCHANGED <<perIPConnections, counter, allocated, sweeping, visited>>

\* Fault model: the closure looks the counter up by IP when it runs.
ReleasedCounter_FromMap(c) ==
    IF perIPConnections[ip[c]] # NULL THEN perIPConnections[ip[c]] ELSE ipCounter[c]

\* The counter the closure decrements: the pointer it captured in Accept.
ReleasedCounter(c) == ipCounter[c]

\* remaining := ipCounter.Add(-1); with nothing remaining the entry of the
\* map is looked at next.
ReleaseIP(c) ==
    LET k == ReleasedCounter(c) IN
    /\ pc[c] = "releaseIP"
    /\ counter' = [counter EXCEPT ![k] = @ - 1]
    /\ IF counter[k] - 1 <= 0 THEN Goto(c, "untrack") /\ UNCHANGED <<ip, ipCounter>>
                              ELSE Done(c)
    /\ UNCHANGED <<currentTotal, perIPConnections, allocated, sweeping, visited>>

\* Fault model: the closure deletes the entry only below zero.
Untrack_BelowZero(c) ==
    /\ pc[c] = "untrack" /\ ~sweeping
    /\ perIPConnections' =
          IF counter[ipCounter[c]] < 0
             THEN [perIPConnections EXCEPT ![ip[c]] = NULL]
             ELSE perIPConnections
    /\ Done(c)
    /\ UNCHANGED <<currentTotal, counter, allocated, sweeping, visited>>

\* Lock; if ipCounter.Load() <= 0 { delete(perIPConnections, ip) }; Unlock.
\* The entry deleted is the one the map holds for the IP now.
Untrack(c) ==
    /\ pc[c] = "untrack" /\ ~sweeping
    /\ perIPConnections' =
          IF counter[ipCounter[c]] <= 0
             THEN [perIPConnections EXCEPT ![ip[c]] = NULL]
             ELSE perIPConnections
    /\ Done(c)
    /\ UNCHANGED <<currentTotal, counter, allocated, sweeping, visited>>

-----------------------------------------------------------------------------
(* cleanup, run by the ticker of StartCleanup *)

\* cl.mu.Lock() at the head of cleanup.
CleanupLock ==
    /\ ~sweeping
    /\ sweeping' = TRUE /\ visited' = {}
    /\ UNCHANGED <<shared, locals>>

\* One turn of the range loop: an entry whose counter reads 0 is deleted.
CleanupVisit(a) ==
    /\ sweeping /\ a \notin visited /\ perIPConnections[a] # NULL
    /\ visited' = visited \cup {a}
    /\ perIPConnections' =
          IF counter[perIPConnections[a]] <= 0
             THEN [perIPConnections EXCEPT ![a] = NULL]
             ELSE perIPConnections
    /\ UNCHANGED <<currentTotal, counter, allocated, sweeping, locals>>

\* The loop is over: the deferred Unlock.
CleanupUnlock ==
    /\ sweeping
    /\ \A a \in IPs : perIPConnections[a] # NULL => a \in visited
    /\ sweeping' = FALSE /\ visited' = {}
    /\ UNCHANGED <<shared, locals>>

-----------------------------------------------------------------------------
Accept(c) ==
    \/ CheckTotal(c) \/ LookupCounter(c) \/ LoadCounter(c)
    \/ AddTotal(c) \/ TrackIP(c) \/ AddIP(c)

Release(c) == ReleaseTotal(c) \/ ReleaseIP(c) \/ Untrack(c)

cleanup == CleanupLock \/ (\E a \in IPs : CleanupVisit(a)) \/ CleanupUnlock

Next ==
    \/ \E c \in Conns : Accept(c) \/ Refused(c) \/ Release(c)
    \/ cleanup

Spec == Init /\ [][Next]_vars

-----------------------------------------------------------------------------
(* Properties *)

\* The connections Accept has let in and release has not yet been called for.
Open == {c \in Conns : pc[c] = "open"}

\* The goroutines that have added themselves to currentTotal and not yet
\* taken themselves off.
CountedInTotal == {c \in Conns : pc[c] \in {"track", "addIP", "open"}}

\* The goroutines that have added themselves to counter k and not yet taken
\* themselves off.
CountedOn(k) ==
    {c \in Conns : ipCounter[c] = k /\ pc[c] \in {"open", "releaseIP"}}

\* Nothing is counted twice and nothing is forgotten, whatever the
\* interleaving of accepts, releases and cleanups: currentTotal is the number
\* of goroutines between their Add(1) and their Add(-1), and every per-IP
\* counter object, in the map or dropped from it, is the number of
\* connections whose release closure holds it (Accept and the closure it
\* returns).
CountersMatchHolders ==
    /\ currentTotal = Cardinality(CountedInTotal)
    /\ \A k \in Counters : counter[k] = Cardinality(CountedOn(k))

\* The map does not leak: an address that no goroutine is accepting from,
\* connected from or releasing has no entry in perIPConnections.  The
\* release closure deletes the entry when its counter reads 0, but a
\* closure may find the counter raised again by an Accept that got the same
\* object, or may delete the entry of a newer object; whatever the order,
\* the last goroutine of an address leaves no entry behind, with or without
\* a sweep of cleanup.
NoEntryWithoutConnection ==
    \A a \in IPs :
        (\A c \in Conns : ip[c] # a) => perIPConnections[a] = NULL

\* The limits are enforced: no more than maxConnections connections are open,
\* and no more than maxPerIP from an address outside the trusted networks
\* (CanAccept checks the counters that Accept raises afterwards, and the
\* release closure and cleanup drop map entries that Accept has in hand).
LimitsEnforced ==
    /\ MaxConnections > 0 => Cardinality(Open) <= MaxConnections
    /\ MaxPerIP > 0 =>
          \A a \in IPs \ TrustedIPs :
              Cardinality({c \in Open : ip[c] = a}) <= MaxPerIP

=============================================================================
