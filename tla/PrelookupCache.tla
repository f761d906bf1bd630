--------------------------- MODULE PrelookupCache ---------------------------
(***************************************************************************)
(* The prelookupCache of package proxy: results of the HTTP pre-lookup,    *)
(* kept for a TTL that depends on the result, at most maxSize of them.     *)
(*                                                                         *)
(* Get runs under the read lock of mu, so several Gets run at once; Set    *)
(* and cleanup run under the write lock.  The counters hits and misses are *)
(* plain uint64 fields that Get increments while it holds the read lock    *)
(* only: the increment is a load and a store, and another Get may come     *)
(* between them.  The clock is the variable now.                           *)
(***************************************************************************)
EXTENDS Integers, FiniteSets

CONSTANTS
    Keys,         \* cache keys
    EmptyKey,     \* the key "" (a member of Keys, or a value outside it)
    Results,      \* values of AuthResult
    Negative,     \* AuthUserNotFound and AuthFailed
    PositiveTTL, NegativeTTL,
    MaxSize,      \* maxSize
    Readers,      \* goroutines that call Get
    Stoppers,     \* goroutines that call Stop
    MaxTime,      \* bound on the clock
    MaxGets,      \* bound on the number of calls of Get
    NULL

ASSUME /\ Negative \subseteq Results
       /\ PositiveTTL \in Nat /\ NegativeTTL \in Nat
       /\ MaxSize \in Nat \ {0} /\ MaxTime \in Nat /\ MaxGets \in Nat

VARIABLES
    entries,         \* c.entries: [Keys -> cacheEntry or NULL]
    hits, misses,    \* c.hits, c.misses
    now,             \* time.Now()
    reading,         \* [Readers -> NULL, or the call of Get in progress]
    gets,            \* calls of Get that have returned
    stopCleanup,     \* is the channel stopCleanup closed?
    cleanupStopped,  \* is the channel cleanupStopped closed?
    cleaning,        \* is cleanupLoop inside cleanup, waiting for mu.Lock()?
    stopping,        \* [Stoppers -> where its call of Stop is]
    panicked         \* has a goroutine panicked?

vars == <<entries, hits, misses, now, reading, gets, stopCleanup, cleanupStopped,
          cleaning, stopping, panicked>>

Entry == [authResult : Results, expiresAt : 0..(MaxTime + PositiveTTL + NegativeTTL),
          isNegative : BOOLEAN]

Cached == {k \in Keys : entries[k] # NULL}

\* time.Now().After(entry.expiresAt)
Expired(e) == now > e.expiresAt

\* Every variable has the shape the Go types give it, and an entry is
\* marked negative exactly when its result is a negative one.
TypeOK ==
    /\ entries \in [Keys -> Entry \cup {NULL}]
    /\ \A k \in Cached : entries[k].isNegative <=> entries[k].authResult \in Negative
    /\ hits \in 0..MaxGets /\ misses \in 0..MaxGets /\ gets \in 0..MaxGets
    /\ now \in 0..MaxTime
    /\ reading \in [Readers -> {NULL} \cup [hit : BOOLEAN, seen : 0..MaxGets]]
    /\ stopCleanup \in BOOLEAN /\ cleanupStopped \in BOOLEAN
    /\ cleaning \in BOOLEAN
    /\ stopping \in [Stoppers -> {"no", "waiting", "stopped", "timeout"}]
    /\ panicked \in BOOLEAN

Init ==
    /\ entries = [k \in Keys |-> NULL]
    /\ hits = 0 /\ misses = 0 /\ gets = 0
    /\ now = 0
    /\ reading = [r \in Readers |-> NULL]
    /\ stopCleanup = FALSE /\ cleanupStopped = FALSE /\ cleaning = FALSE
    /\ stopping = [s \in Stoppers |-> "no"]
    /\ panicked = FALSE

-----------------------------------------------------------------------------
(* Get *)

\* RLock, which waits while cleanup waits for the write lock; the entry is
\* looked up and its expiry checked; the counter that fits the outcome is
\* loaded.
GetLookup(r) ==
    \E k \in Keys :
        LET hit == entries[k] # NULL /\ ~Expired(entries[k]) IN
        /\ ~panicked /\ reading[r] = NULL /\ ~cleaning
        /\ gets + Cardinality({q \in Readers : reading[q] # NULL}) < MaxGets
        /\ reading' = [reading EXCEPT ![r] =
                          [hit |-> hit, seen |-> IF hit THEN hits ELSE misses]]
        /\ UNCHANGED <<entries, hits, misses, now, gets, stopCleanup,
                       cleanupStopped, stopping, panicked, cleaning>>

\* c.hits++ and c.misses++: the value loaded, plus one, is stored, whatever
\* the field holds by now.
Incremented(seen, cur) == seen + 1

\* The counter is stored; the deferred RUnlock; Get returns.
GetReturn(r) ==
    LET g == reading[r] IN
    /\ ~panicked /\ g # NULL
    /\ hits' = IF g.hit THEN Incremented(g.seen, hits) ELSE hits
    /\ misses' = IF g.hit THEN misses ELSE Incremented(g.seen, misses)
    /\ gets' = gets + 1
    /\ reading' = [reading EXCEPT ![r] = NULL]
    /\ UNCHANGED <<entries, now, stopCleanup, cleanupStopped, stopping,
                   panicked, cleaning>>

-----------------------------------------------------------------------------
(* Set and cleanup hold the write lock: no Get is in progress *)

Unlocked == \A r \in Readers : reading[r] = NULL

\* The keys the range loop of evictOldest can end on: the loop keeps the first
\* entry it meets unless a later one expires strictly before it, and the
\* order of a range over a map is not fixed.
Oldest(es) ==
    {k \in Keys : es[k] # NULL /\
                  \A j \in Keys : es[j] # NULL => es[k].expiresAt <= es[j].expiresAt}

\* evictOldest: the entry found is deleted, unless its key is "".
evictOldest(es, k) == IF k = EmptyKey THEN es ELSE [es EXCEPT ![k] = NULL]

\* Fault model: eviction starts one entry too late.
IsFull_Above(es) == Cardinality({k \in Keys : es[k] # NULL}) > MaxSize

\* len(c.entries) >= c.maxSize
IsFull(es) == Cardinality({k \in Keys : es[k] # NULL}) >= MaxSize

\* Fault model: AuthFailed and AuthUserNotFound are not told apart from the
\* other results.
IsNegative_Never(res) == FALSE

\* isNegative := (authResult == AuthUserNotFound || authResult == AuthFailed)
IsNegative(res) == res \in Negative

\* The TTL of a result: negative results are kept for negativeTTL.
TTL(res) == IF IsNegative(res) THEN NegativeTTL ELSE PositiveTTL

\* Set: at maxSize one entry is evicted first; then the entry is written.
Set(k, res) ==
    /\ ~panicked /\ Unlocked
    /\ \E old \in IF IsFull(entries) THEN Oldest(entries) ELSE {k} :
          LET kept == IF IsFull(entries) THEN evictOldest(entries, old) ELSE entries
          IN  entries' = [kept EXCEPT ![k] =
                             [authResult |-> res, expiresAt |-> now + TTL(res),
                              isNegative |-> IsNegative(res)]]
    /\ UNCHANGED <<hits, misses, now, reading, gets, stopCleanup,
                   cleanupStopped, stopping, panicked, cleaning>>

\* The select of cleanupLoop takes the tick: cleanup is called and asks for
\* the write lock.
CleanupBegin ==
    /\ ~panicked /\ ~cleaning /\ ~cleanupStopped
    /\ cleaning' = TRUE
    /\ UNCHANGED <<entries, hits, misses, now, reading, gets, stopCleanup,
                   cleanupStopped, stopping, panicked>>

\* cleanup under the write lock: every expired entry is deleted, and the
\* loop is back at its select.
Cleanup ==
    /\ ~panicked /\ cleaning /\ Unlocked
    /\ entries' = [k \in Keys |->
                     IF entries[k] # NULL /\ Expired(entries[k]) THEN NULL
                                                                  ELSE entries[k]]
    /\ cleaning' = FALSE
    /\ UNCHANGED <<hits, misses, now, reading, gets, stopCleanup,
                   cleanupStopped, stopping, panicked>>

-----------------------------------------------------------------------------
(* Stop and the end of cleanupLoop *)

\* close(c.stopCleanup): closing a closed channel panics.
StopClose(s) ==
    /\ ~panicked /\ stopping[s] = "no"
    /\ IF stopCleanup
          THEN panicked' = TRUE /\ UNCHANGED <<stopCleanup, stopping>>
          ELSE /\ stopCleanup' = TRUE
               /\ stopping' = [stopping EXCEPT ![s] = "waiting"]
               /\ UNCHANGED panicked
    /\ UNCHANGED <<entries, hits, misses, now, reading, gets, cleanupStopped,
                   cleaning>>

\* The select of Stop: cleanupStopped is closed, or the context is done.
StopWait(s) ==
    /\ ~panicked /\ stopping[s] = "waiting"
    /\ \/ cleanupStopped /\ stopping' = [stopping EXCEPT ![s] = "stopped"]
       \/ stopping' = [stopping EXCEPT ![s] = "timeout"]
    /\ UNCHANGED <<entries, hits, misses, now, reading, gets, stopCleanup,
                   cleanupStopped, panicked, cleaning>>

\* Fault model: cleanupLoop returns without closing cleanupStopped.
Closed_Never == cleanupStopped

\* defer close(c.cleanupStopped)
Closed == TRUE

\* The select of cleanupLoop receives from stopCleanup and the loop returns;
\* the deferred close.
LoopReturn ==
    /\ ~panicked /\ stopCleanup /\ ~cleaning /\ ~cleanupStopped
    /\ cleanupStopped' = Closed
    /\ UNCHANGED <<entries, hits, misses, now, reading, gets, stopCleanup,
                   stopping, panicked, cleaning>>

\* Time passes.
Tick ==
    /\ ~panicked /\ now < MaxTime
    /\ now' = now + 1
    /\ UNCHANGED <<entries, hits, misses, reading, gets, stopCleanup,
                   cleanupStopped, stopping, panicked, cleaning>>

-----------------------------------------------------------------------------
Next ==
    \/ \E r \in Readers : GetLookup(r) \/ GetReturn(r)
    \/ \E k \in Keys, res \in Results : Set(k, res)
    \/ CleanupBegin
    \/ Cleanup
    \/ \E s \in Stoppers : StopClose(s) \/ StopWait(s)
    \/ LoopReturn
    \/ Tick

Spec == Init /\ [][Next]_vars

(***************************************************************************)
(* Fairness of the goroutines of the cache itself.  A Get that holds the   *)
(* read lock returns, and cleanup gets the write lock once the readers are *)
(* gone (a waiting writer keeps new readers out, so the lock stays free    *)
(* for it): weak fairness.  The select of cleanupLoop chooses among its    *)
(* ready cases at random, so the case of stopCleanup, which is ready every *)
(* time the loop is at the select, is taken at some time although a tick   *)
(* may be ready too: strong fairness.  Nothing is assumed of the callers   *)
(* of Get, Set and Stop.                                                   *)
(***************************************************************************)
Fairness ==
    /\ \A r \in Readers : WF_vars(GetReturn(r))
    /\ WF_vars(Cleanup)
    /\ SF_vars(LoopReturn)

FairSpec == Spec /\ Fairness

-----------------------------------------------------------------------------
(* Properties *)

\* The cache never holds more than maxSize entries: Set makes room before it
\* adds, and nothing else adds (Set and evictOldest; the comment in Set says
\* "Enforce max size").
SizeBounded == Cardinality(Cached) <= MaxSize

\* Eviction is by age: a live entry that a step removes was written no later
\* than every entry the step keeps (the comments of Set and evictOldest:
\* "evict oldest entries first", "removes the oldest entry from the cache").
\* An entry was written its TTL before it expires.
WrittenAt(e) == e.expiresAt - TTL(e.authResult)

EvictsOldestFirst ==
    [][\A k \in Cached : entries'[k] = NULL /\ ~Expired(entries[k]) =>
          \A j \in Cached : entries'[j] = entries[j] =>
              WrittenAt(entries[k]) <= WrittenAt(entries[j])]_vars

\* Stop ends the cleanup goroutine: once stopCleanup is closed, cleanupLoop
\* returns and closes cleanupStopped, also when the Stop that asked for it
\* has given up on its context, when a cleanup is waiting for readers to
\* release the lock, and when ticks keep arriving (Stop, cleanupLoop,
\* cleanup).
StopEndsLoop == stopCleanup ~> (cleanupStopped \/ panicked)

\* GetStats adds up: every call of Get that has returned was counted once,
\* as a hit or as a miss (the increments of c.hits and c.misses in Get).
StatsCountEveryGet == hits + misses = gets

=============================================================================
