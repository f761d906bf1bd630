-------------------------- MODULE MetricsCollector --------------------------
(***************************************************************************)
(* The Collector of package metrics: a goroutine that copies the           *)
(* statistics of the database, and of a cache when it has one, into        *)
(* gauges, once when it starts and then on every tick of a ticker, until   *)
(* its context is done or Stop closes stopCh.                              *)
(*                                                                         *)
(* The loop is a select over three channels.  When several are ready Go    *)
(* picks one of them at random, so a tick that is waiting can win against  *)
(* a stop signal any number of times; and collect is a call into the       *)
(* database that the loop is inside while the signal arrives.              *)
(***************************************************************************)
EXTENDS Integers, FiniteSets

CONSTANTS
    Stoppers,    \* goroutines that call Stop
    Values,      \* what a statistics query can return
    WithCache    \* was the collector made by NewCollectorWithCache?

\* A gauge that was never set shows 0.
ASSUME WithCache \in BOOLEAN /\ 0 \in Values

VARIABLES
    pc,          \* where the goroutine of Start is
    ticker,      \* the ticker of Start, and whether a tick waits in ticker.C
    stopCh,      \* is c.stopCh closed?
    ctxDone,     \* is ctx.Done() closed?
    called,      \* the goroutines whose call of Stop has returned
    panicked,    \* has a goroutine panicked?
    dbStats,     \* what GetMetricsStatsWithRetry would return now
    cacheStats,  \* what cacheProvider.GetStats would return now
    gauges       \* the gauges: AccountsTotal and MailboxesTotal as db,
                 \* CacheObjectsTotal and CacheSizeBytes as cache

vars == <<pc, ticker, stopCh, ctxDone, called, panicked, dbStats, cacheStats, gauges>>

loopVars == <<pc, ticker, gauges>>
envVars  == <<stopCh, ctxDone, called, panicked, dbStats, cacheStats>>

Init ==
    /\ pc = "new" /\ ticker = "none"
    /\ stopCh = FALSE /\ ctxDone = FALSE
    /\ called = {} /\ panicked = FALSE
    /\ dbStats \in Values /\ cacheStats \in Values
    /\ gauges = [db |-> 0, cache |-> 0]

-----------------------------------------------------------------------------
(* collect *)

\* collect is called first thing in Start and from the ticker case.
Start == pc = "new" /\ pc' = "collect" /\ UNCHANGED <<ticker, gauges>>

\* Where collect returns to: the first call is followed by NewTicker.
Collected ==
    /\ pc' = "select"
    /\ ticker' = IF ticker = "none" THEN "armed" ELSE ticker

\* c.cacheProvider != nil
HasCacheProvider == WithCache

\* The query of the database statistics.  On an error collect returns at
\* once; otherwise the two database gauges are set and the cache follows.
CollectDB ==
    /\ pc = "collect"
    /\ \/ Collected /\ UNCHANGED gauges
       \/ /\ gauges' = [gauges EXCEPT !.db = dbStats]
          /\ IF HasCacheProvider THEN pc' = "cache" /\ UNCHANGED ticker
                                 ELSE Collected

\* The cache statistics: an error is logged, a result sets the two gauges.
CollectCache ==
    /\ pc = "cache"
    /\ Collected
    /\ \/ UNCHANGED gauges
       \/ gauges' = [gauges EXCEPT !.cache = cacheStats]

-----------------------------------------------------------------------------
(* The select of Start *)

\* The select without the case of stopCh.
StopSignalled_Never == FALSE

\* case <-c.stopCh
StopSignalled == stopCh

\* The return without the deferred ticker.Stop().
Return_TickerRuns == pc' = "returned" /\ UNCHANGED <<ticker, gauges>>

\* return, with the deferred ticker.Stop()
Return == pc' = "returned" /\ ticker' = "stopped" /\ UNCHANGED gauges

SelectDone == pc = "select" /\ ctxDone /\ Return

SelectStop == pc = "select" /\ StopSignalled /\ Return

SelectTick ==
    /\ pc = "select" /\ ticker = "fired"
    /\ pc' = "collect" /\ ticker' = "armed"
    /\ UNCHANGED gauges

Loop ==
    /\ ~panicked
    /\ Start \/ CollectDB \/ CollectCache \/ SelectDone \/ SelectStop \/ SelectTick
    /\ UNCHANGED envVars

-----------------------------------------------------------------------------
(* Stop, and the rest of the program *)

\* close(c.stopCh): closing a closed channel panics.
Stop(s) ==
    /\ ~panicked /\ s \notin called
    /\ IF stopCh THEN panicked' = TRUE /\ UNCHANGED <<stopCh, called>>
                 ELSE stopCh' = TRUE /\ called' = called \cup {s}
                      /\ UNCHANGED panicked
    /\ UNCHANGED <<loopVars, ctxDone, dbStats, cacheStats>>

\* The context of Start is cancelled.
Cancel ==
    /\ ~panicked /\ ~ctxDone
    /\ ctxDone' = TRUE
    /\ UNCHANGED <<loopVars, stopCh, called, panicked, dbStats, cacheStats>>

\* The interval has passed.  ticker.C holds one tick; a tick that finds one
\* waiting is dropped.
Tick ==
    /\ ~panicked /\ ticker = "armed"
    /\ ticker' = "fired"
    /\ UNCHANGED <<pc, gauges, envVars>>

\* The statistics change under the collector.
Change ==
    /\ ~panicked
    /\ \/ dbStats' \in Values \ {dbStats} /\ UNCHANGED cacheStats
       \/ cacheStats' \in Values \ {cacheStats} /\ UNCHANGED dbStats
    /\ UNCHANGED <<loopVars, stopCh, ctxDone, called, panicked>>

Next == Loop \/ (\E s \in Stoppers : Stop(s)) \/ Cancel \/ Tick \/ Change

Spec == Init /\ [][Next]_vars

(***************************************************************************)
(* The goroutine of Start is scheduled, and the calls collect makes        *)
(* return: weak fairness of its steps.  The select is fair to each of its  *)
(* cases: Go chooses among the ready cases uniformly at random, so a case  *)
(* that is ready every time the loop comes to the select is taken at some  *)
(* time.  Between two selects the loop is inside collect, where no case is *)
(* enabled, so this is strong fairness.  Nothing is assumed of the ticker, *)
(* of the callers of Stop or of the context.                               *)
(***************************************************************************)
Fairness ==
    /\ WF_vars(Loop)
    /\ SF_vars(~panicked /\ SelectStop /\ UNCHANGED envVars)
    /\ SF_vars(~panicked /\ SelectDone /\ UNCHANGED envVars)

FairSpec == Spec /\ Fairness

-----------------------------------------------------------------------------
(* Properties *)

\* The variables have the shapes of the Go fields, the ticker exists from
\* the first select to the return, and the cache is asked only by a
\* collector that has one.
TypeOK ==
    /\ pc \in {"new", "collect", "cache", "select", "returned"}
    /\ ticker \in {"none", "armed", "fired", "stopped"}
    /\ stopCh \in BOOLEAN /\ ctxDone \in BOOLEAN /\ panicked \in BOOLEAN
    /\ called \subseteq Stoppers
    /\ dbStats \in Values /\ cacheStats \in Values
    /\ gauges \in [db : Values, cache : Values]
    /\ (ticker = "stopped") <=> (pc = "returned")
    /\ pc = "cache" => HasCacheProvider

\* Stop and the cancellation of the context end the loop: once Start runs
\* and stopCh is closed or the context is done, Start returns (the select
\* of Start takes the case of stopCh or of ctx.Done() although the ticker
\* case may be ready as well), unless the process has panicked.
StopEndsLoop ==
    (pc # "new" /\ (stopCh \/ ctxDone)) ~> (pc = "returned" \/ panicked)

=============================================================================
