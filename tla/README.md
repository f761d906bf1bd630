# TLA+ models of the Sora mail server

Sora terminates IMAP, POP3, LMTP and ManageSieve sessions, keeps mailbox and
message metadata in PostgreSQL and message bodies in an object store, and puts
protocol-aware proxies, connection limits and HTTP APIs around them.  This
directory holds TLA+ models of the parts of it whose correctness depends on
the order in which concurrent actors take their steps, the TLC configurations
that check them, and `PROJECT.json`, which records for every definition the
source lines it models.

Run a configuration with `tlc -workers 2 -config <file>.cfg <module>`; the
table of section 3 and `PROJECT.json` name the module of every configuration.

## 1. The system and its parts

| Part | Source | State | Operations | Talks to |
|---|---|---|---|---|
| Metadata store: insert, import, copy | `src/db/append.go` 19-556 | tables `mailboxes` (`highest_uid`, `uid_validity`), `messages`, `message_contents`, `pending_uploads`; sequences behind `messages.id` and `messages_modseq` | `InsertMessage`, `InsertMessageFromImporter`, `CopyMessages`, each a series of SQL statements inside the caller's transaction | trigger below; uploader; IMAP/LMTP callers |
| Sequence-number cache | `src/db/migrations/000002_add_sequence_caching.up.sql` | table `message_sequences` (`mailbox_id`, `uid`, `seqnum`) | statement-level trigger `maintain_message_sequences` on INSERT/UPDATE/DELETE of `messages` | every writer of `messages` |
| Sieve script table | `src/db/append.go` 558-678 | `sieve_scripts` (name, body, `active`) | `GetUserScripts`, `GetScript`, `GetActiveScript`, `GetScriptByName`, `CreateScript`, `UpdateScript`, `DeleteScript`, `SetScriptActive` | ManageSieve session |
| Connection limiter | `src/unnamed/part_002` 367-628 | atomic `currentTotal`, map IP -> atomic counter under `mu` | `CanAccept`, `Accept`, the release closure, `cleanup` on a ticker | every protocol server and proxy at accept |
| HTTP pre-lookup cache | `src/server/proxy/prelookup_cache.go` | map key -> entry under `mu`, counters `hits`/`misses`, channels `stopCleanup`/`cleanupStopped` | `Get`, `Set`, `evictOldest`, `cleanup`, `cleanupLoop`, `Stop` | proxies at authentication |
| ManageSieve session | `src/server/userapi/message_list.go` 151-1246 | `authenticated`, `User`, `isTLS`, `useMasterDB`, `releaseConn`, the session mutex and context; the server's `totalConnections` and `authenticatedConnections` | command loop with `CAPABILITY`, `LOGIN`, `AUTHENTICATE`, `STARTTLS`, `LISTSCRIPTS`, `GETSCRIPT`, `PUTSCRIPT`, `SETACTIVE`, `DELETESCRIPT`, `NOOP`, `LOGOUT`; `Close` | sieve script table (primary and read pool), connection limiter |
| User HTTP API (list, search) | `src/server/userapi/message_list.go` 1-150 | none | two request handlers | store |
| Admin HTTP API | `src/unnamed/part_001` | none beyond configuration | routing, middleware, CRUD handlers | store, cache, uploader, tracker |
| POP3 XCLIENT | `src/server/pop3/xclient.go` | the session's `ProxyIP`, `RemoteIP`, `ForwardingParams` | `handleXCLIENT`, `isFromTrustedProxy` | the limiter's trusted networks |
| Metrics collector | `src/pkg/metrics/collector.go` | ticker, `stopCh`, the four gauges | `NewCollector`, `NewCollectorWithCache`, `Start`, `Stop`, `collect` | store and cache statistics |
| IMAP engine, LMTP delivery, uploader, disk cache, proxies, authentication limiter, circuit breaker | not in `src/` | | | reach the modelled parts as callers |

What is hard in each modelled part, and the property that answers it:

* **Store.**  Several transactions assign UIDs in one mailbox at once; each
  is a series of statements between which the others run, and each may be
  rolled back after any statement.  The trigger rebuilds the sequence cache
  from the snapshot of its own statement while other writers have uncommitted
  rows.  `modseq` is drawn from a sequence inside a transaction and published
  at commit.  The uploader deletes `pending_uploads` rows while inserts rely
  on `ON CONFLICT DO NOTHING`.  Properties: dense sequence numbers, distinct
  live UIDs at most `highest_uid`, no UID reuse, messages created in the
  order of their modseqs, the copy map order-preserving onto a fresh block,
  content always recoverable; over all of them, that the store implements
  the abstract mailbox of module `Mailbox`; and four statements of the
  specification and the comments that the code does not keep (modseq
  advancing over every mutation, every un-uploaded message queued, the
  returned UID equal to the stored one, a duplicate answered with the
  existing row).
* **Limiter.**  Check and increment are separate atomic operations; the map
  entry of an address is deleted by releases and by the sweep while accepts
  hold a pointer to it.  Properties: every counter equals the number of
  connections counted on it; an address without a connection has no entry
  in the map; the caps hold.
* **Cache.**  Gets run concurrently under the read lock and write plain
  fields; eviction is by expiry time with an in-band "not found" key; `Stop`
  races the loop, and the loop's cleanup waits for the write lock behind the
  Gets.  Properties: size bound, the loop ends after `Stop`; the eviction
  order the comments state does not hold.
* **ManageSieve.**  Every command handler reads session state under the
  session lock, releases it, calls the database and takes the lock again to
  pin the session to the primary; `LOGIN` and `STARTTLS` defer their release
  inside the command loop.  `Close` runs once or twice per connection.  Two
  sessions of one account look scripts up by name and change them by id in
  separate statements.  Reads go to a replica that lags, lookups before a
  write included.  Properties: at most one active script, the limiter slot
  released exactly once, and, over the table, that the sessions implement
  the abstract script store of module `ScriptStore`; four more fail
  (counters equal to sessions, an acknowledged activation took place, no
  command refused for a lock the session itself holds, read-your-writes).
* **Collector.**  The loop selects between the context, `stopCh` and the
  ticker, and Go picks at random among the cases that are ready; `collect`
  stops at the first provider that fails.  Properties: the loop ends after
  `Stop` or cancellation, and the ticker is stopped exactly when `Start` has
  returned.
* **XCLIENT.**  Trust is judged on `s.ProxyIP`, a field the command itself
  writes from what the peer sent, and a session takes the command any number
  of times.  Property: no sequence of commands gets forwarding parameters
  accepted on a connection whose peer is not trusted.

## 2. Modules

| Module | Models | Instantiated by |
|---|---|---|
| `MessageStore` | `append.go` 19-556 and the trigger | `MCMessageStore` |
| `Mailbox` | the abstract mailbox `MessageStore` implements: what the specification promises of UIDs and sequence numbers | `MessageStore` (`AM`) |
| `ConnectionLimiter` | `part_002` 367-628 | `MCConnectionLimiter` |
| `PrelookupCache` | `prelookup_cache.go` | `MCPrelookupCache` |
| `ManageSieveSession` | `message_list.go` 151-1246 and `append.go` 558-678 | `MCManageSieveSession` |
| `ScriptStore` | the abstract script store the sessions implement: what the specification promises of the scripts of an account | `ManageSieveSession` (`SS`) |
| `MetricsCollector` | `collector.go` | `MCMetricsCollector` |
| `Pop3XClient` | `xclient.go` | `XClient.cfg` directly |

### MessageStore

*State.*  `mailboxes`, `messages`, `sequences`, `contents`, `pending` are the
committed tables; `s3` is the set of objects the uploader has stored.
`nextRowId` and `nextModseq` are the two PostgreSQL sequences.  `rowLock[mb]`
is the holder of the row lock that `UPDATE mailboxes ... WHERE id = mb` takes,
`advLock[mb]` the holder of `pg_advisory_xact_lock(mb)`.  Per transaction:
`pc` (the statement it is at), `call` (function and arguments), `loc` (the Go
locals `highestUID`, `uidToUse`, the row id, the selected source rows), `wr`
(uncommitted writes) and `out` (what the function returned).  A row of
`messages` carries `created_modseq` and `expunged_modseq` (0 while the
message is live), the two columns the modseq of a mailbox is read from.

*Transactions.*  The database is modelled at READ COMMITTED: a statement of
transaction `t` reads `Visible(t)`, the committed rows and `t`'s own.  Writes
reach the tables in `Commit`; `Rollback` discards them.  Sequence values drawn
are never given back.  Both locks are released by `Commit` and `Rollback`
only.  A statement that would wait (for a row lock, the advisory lock, or an
uncommitted conflicting insert under `ON CONFLICT`) is an action whose guard
is false until the holder ends.

*Actions.*  One action per SQL statement, including everything the function
does until the next statement.  An INSERT into `messages` is two actions,
because PostgreSQL runs it in two parts between which other transactions
take steps: the rows are written and `nextval('messages_modseq')` is drawn,
and then the AFTER STATEMENT trigger waits for `pg_advisory_xact_lock` and
rebuilds `message_sequences`.

| Action | Code |
|---|---|
| `BeginInsertMessage`, `BeginImport` | entry of the function, up to the first statement |
| `UpdateHighestUID` | `UPDATE mailboxes SET highest_uid = ...` with or without preserved UID, and the `uid_validity` update |
| `InsertRow` | `INSERT INTO messages ... RETURNING id`: the row with its modseq; branch to the lookup on a taken Message-ID |
| `InsertTrigger`, `ImportTrigger` | the trigger of that INSERT: advisory lock, rebuild, or the primary key of `message_sequences` refusing it |
| `FindExisting` | the lookup after SQLSTATE 23505, which the aborted transaction refuses |
| `InsertContent` | `INSERT INTO message_contents ... ON CONFLICT DO NOTHING` |
| `InsertPendingUpload` | `INSERT INTO pending_uploads ... ON CONFLICT DO NOTHING`, and the return |
| `BeginCopy`, `SelectSource`, `CopyUpdateHighestUID`, `BatchInsert`, `CopyTrigger` | the statements of `CopyMessages`, the trigger of the batch INSERT and the return of the map |
| `Fail` | every `if err != nil { return ... }` of the three functions |
| `Commit`, `Rollback` | the caller's end of the transaction |
| `Expunge`, `UploadPut`, `UploadFinalize` | the rest of the server writing the same tables; written from the specification, each one atomic |

`InsertMessage`, `InsertMessageFromImporter` and `CopyMessages` are the
disjunctions of their statements.  The importer differs from `InsertMessage`
in three places, and so does the model: the row is inserted with
`uploaded = true`, there is no pending upload, and `uidToUse` is returned.
Both functions read `PreservedUID` and `PreservedUIDValidity` from the same
options, so both are modelled with and without them.

An argument is chosen by the action of the statement that first reads it
(the preserved UID in `UpdateHighestUID`, the Message-ID in `InsertRow`, the
UIDs of a copy in `SelectSource`): the behaviours are those of a call that
fixes all arguments at entry, and the states before that statement are not
multiplied by arguments nothing has read yet.

*Abstractions.*  Flags, dates, sizes, headers, body structure and sort keys
do not influence control and are left out.  A Message-ID is a model value; an
empty one becomes a generated id that is unique per call.  The constraint
`messages_message_id_mailbox_id_key` is taken to range over live rows, as the
data model of the specification states it.  In PostgreSQL every statement
of a transaction whose statement has failed is refused (SQLSTATE 25P02)
until the transaction is rolled back, and the functions set no savepoint:
the lookup after 23505 (`append.go:290`, `:511`) therefore returns an error
and `FindExisting` has one outcome, `ErrDBUniqueViolation`.

### Mailbox, and the refinement

`Mailbox` says what a client may rely on, in three variables per mailbox:
`highest`, the largest UID ever assigned; `live`, the UIDs of the messages in
it; `seqnum`, the sequence number of every live UID.  Its steps are `Append`
(a block of `n` UIDs directly above `highest`, all of them live afterwards,
no gap below the block), `Restore` (one UID that is not live becomes live,
and `highest` rises to it when it is above: what an import with a preserved
UID does) and `Expunge`.  In every step `highest` never falls and `seqnum` is
the dense numbering of `live` in UID order.

`MessageStore` instantiates it as `AM` with the refinement mapping

    highest <- [mb |-> mailboxes[mb].highest_uid]
    live    <- [mb |-> LiveUIDs(messages, mb)]
    seqnum  <- sequences

over the committed tables, and `ImplementsMailbox` is checked as a property
of both passing store runs.  It is `AM!Spec` written as
`AM!Init /\ [][AM!vars' # AM!vars => AM!Next]_(AM!vars)`, the same formula,
which lets TLC look for an abstract step only where the mailbox changes.  Statements inside a transaction are
stuttering steps of the mailbox; a `Commit` is an `Append` (one message, or
the block of a copy), a `Restore`, or changes nothing; `Expunge` is
`Expunge`.  The property fails as soon as a commit publishes a UID that
leaves a gap, lowers `highest_uid`, hands out the UID of a live message a second time, or
publishes rows without the matching sequence numbers: the mutants that take
away the row lock, `GREATEST`, the `+ 1` of `startUID` or the `expunged_at`
filter of the trigger all violate it.

### ConnectionLimiter

*State.*  `currentTotal`; `perIPConnections` maps an address to a counter
object or `NULL`; `counter` holds the value of every object ever allocated
(objects are numbered, so that a pointer to an object the map has dropped
still means something); `sweeping`/`visited` are the write lock and the
progress of `cleanup`; per goroutine `pc`, its address `ip` and the pointer
`ipCounter` it holds.

*Actions.*  `CheckTotal`, `LookupCounter`, `LoadCounter` are `CanAccept`;
`AddTotal`, `TrackIP`, `AddIP` the rest of `Accept`; `ReleaseTotal`,
`ReleaseIP`, `Untrack` the closure; `CleanupLock`, `CleanupVisit`,
`CleanupUnlock` the sweep.  Critical sections of `mu` are single steps, and
are disabled while the sweep holds the lock; atomic operations on counters
are steps that the lock does not stop, as in the code.

### PrelookupCache

*State.*  `entries`; `hits`, `misses`; the clock `now`; `reading[r]`, the Get
in progress of reader `r` with the counter value it loaded; `gets`, the
number of Gets that returned (a history variable for the statistics
property); the two channels as booleans; `stopping[s]` and `panicked`.

`cleaning` says that the loop has taken a tick and is inside `cleanup`,
waiting for or holding the write lock.

*Actions.*  Get is two steps, `GetLookup` (lookup, expiry check, load of the
counter) and `GetReturn` (store of the incremented value, unlock): `c.hits++`
on a plain field is a load and a store, and the read lock admits other
readers between them.  `Set` holds the write lock and is a single step
enabled when no Get is in progress.  The cleanup is two steps: `CleanupBegin`
is the ticker case of the select, `Cleanup` the critical section, enabled
when no Get is in progress; while `cleaning` holds no new Get starts (a
`sync.RWMutex` with a writer waiting admits no new reader) and the loop is
not at its select, so `LoopReturn` is disabled.  `Oldest` is the set of keys the
range loop of `evictOldest` can end on: the entries with the smallest
`expiresAt`, any of them, since map iteration order is not fixed.
`StopClose`, `StopWait`, `LoopReturn` are `Stop` and the exit of
`cleanupLoop`; `Tick` advances the clock.

### MetricsCollector

*State.*  `pc` of the goroutine of `Start` (`new`, `collect`, `cache`,
`select`, `returned`); `ticker` (`none` before `NewTicker`, `armed`, `fired`
when a tick waits in `ticker.C`, `stopped`); `stopCh` and `ctxDone`, the two
channels as booleans; `called`, the callers whose `Stop` returned, and
`panicked`; `dbStats` and `cacheStats`, what the providers would answer now;
`gauges`, the two database gauges as one field and the two cache gauges as
another, 0 until set, as a Prometheus gauge is.

*Actions.*  `Loop` is the goroutine: `Start` (the first `collect`),
`CollectDB` (the query; on an error `collect` returns, otherwise the gauges
are set and the cache follows when there is a provider), `CollectCache` (an
error is only logged), and the three cases of the select, `SelectDone`,
`SelectStop`, `SelectTick`.  Both returns run the deferred `ticker.Stop()`.
`Stop(s)` closes `stopCh`; a second close panics, as in Go.  `Cancel`,
`Tick` and `Change` are the environment: the context, the clock, and the
statistics changing under the collector.

### Pop3XClient

*State.*  `conn`, the peer of the connection (`NULL` between sessions);
`ProxyIP`, `RemoteIP`, `ForwardingParams`, the fields of the session;
`limiter`, whether the server has one; `response`, the last line written.

*Actions.*  `handleXCLIENT(args)` is the whole handler: the refusals in the
order of the code (`NotTrusted`, `BadParameters`, `BadForwarding`,
`TTLExpired`), each leaving the session as it was, and `Accept`, which
stores the parameters with the TTL decremented, replaces `RemoteIP` when an
originating address came with them and sets `ProxyIP` from
`proxy-source-ip` when it was empty.  `isFromTrustedProxy` is false without
a limiter and otherwise asks the trusted networks about `ProxyIP` when it
is set, about the peer when not.  `Connect` and `Disconnect` are the session
around the command, written from the specification: with a PROXY header the
session starts with the peer as `ProxyIP` and the client the header names
as `RemoteIP`.

*Abstractions.*  The arguments of a command are `Malformed`, `Invalid` or a
record of the three parameters the handler reads; ports, session ids and
other variables are left out.  An address is a model value.

### ManageSieveSession

*State.*  Per session: `pc` (`new`, `loop`, inside a handler between two
database calls, `logout`, `closed`), `loc` (the handler's locals `userID`,
`name`, the script body and the id it looked up, and `seen`, the rows a
waiting UPDATE had chosen), `response` (the last answer
sent), `held` (the session's write lock is held), `authenticated`, `user`,
`isTLS`, `useMasterDB`, `releaseConn` (the limiter's release function is not
nil), `cancelled` (the session context).  Server: `totalConnections`,
`authenticatedConnections`, and `limited`, the number of slots taken in the
connection limiter.  Database: `scripts` (the table on the primary),
`replica` (what the read pool returns), `nextId` (the id sequence), `tx[s]`
(the rows a running `SetScriptActive` of `s` has locked).  `wrote[s]` is a
history variable: `s` has completed a write since it connected.

*The session lock.*  The session runs on one goroutine, so the lock has one
state per session: free or held.  `Acquired(s)` is what
`AcquireWriteLockWithTimeout` and `AcquireReadLockWithTimeout` return: true
when the lock is free, false (after the timeout) when it is held.  A handler
that takes the lock and releases it before it returns leaves `held`
unchanged; `LOGIN` and `STARTTLS`, whose `defer release()` stands inside the
loop of `handleConnection`, set `held` on success, and only `Returned`, the
return of `handleConnection`, clears it.  `handleAuthenticate` defers at
function level and leaves the lock free.

*Actions.*

| Action | Code |
|---|---|
| `Accept` | `Admitted`, what the accept loop has done when the session starts (the counter and the limiter slot; that loop is not in `src/` and is written from the specification), and the greeting `handleConnection` begins with |
| `Capability`, `Noop`, `Unknown` | the cases of the switch that only answer |
| `Login`, `HandleAuthenticate` | the two authentications with their refusals, the context check, the lock and the counter |
| `StartTLS` | refusal, failed handshake, return on a cancelled context, lock, `isTLS` |
| `NotAuthenticated` | the `if !s.authenticated` of each script command |
| `HandleListScripts`, `HandleGetScript` | context check, read lock, the read on the read pool, the answer |
| `HandlePutScript`, `PutScriptWrite` | phase 1, validation and the lookup by name; then update or create, the pin and the answer |
| `HandleSetActive`, `SetActiveDeactivate`, `SetActiveActivate` | lookup; first UPDATE of `SetScriptActive`; second UPDATE, commit, pin and answer |
| `SetActiveWait`, `SetActiveResume` | the first UPDATE when the active row is locked by the `SetScriptActive` of another session: it waits, and goes on when that transaction has ended |
| `HandleDeleteScript`, `DeleteScriptWrite` | lookup; DELETE, pin and answer |
| `Logout`, `LogoutReturn` | the answer and the explicit `Close`; then the return with the deferred `Close` |
| `Disconnect` | a read error or EOF: return, deferred `Close` |
| `Shutdown`, `Replicate` | environment: the server cancels every session context; the replica catches up |

*Reads.*  `GetUserScripts`, `GetScript`, `GetActiveScript` and
`GetScriptByName` query `db.GetReadPool()` (`append.go:578`, `:598`, `:609`,
`:622`), which takes no argument: `ReadPool(s)` is the replica for every
session, pinned or not.  The handlers keep `useMasterDB` and put
`UseMasterDBKey` into the context of their reads, and the model keeps the
flag as the code does (`Pinned`); nothing under `src/` reads it.  The
lookups that precede a write (`PUTSCRIPT`, `SETACTIVE`, `DELETESCRIPT`) are
such reads, so a write can act on a name or an id that the primary no longer
has, or not see one it has.

*The first UPDATE under READ COMMITTED.*  `UPDATE sieve_scripts SET active =
false WHERE account_id = $1 AND active = true` (`append.go:669`) is the one
statement of the table whose condition reads a column that another
transaction changes.  When the row it finds is locked, PostgreSQL lets the
statement wait and then checks the condition again on that row alone: a row
the other transaction has deactivated is passed over, and the row the other
transaction has activated is never looked at, because the statement chose
its rows before it waited.  `SetActiveWait` records the rows chosen in
`loc[s].seen`, and `SetActiveResume` locks `Rechecked(s)`, those of them that
are still active.  The second UPDATE of such a transaction then meets the
script the other session activated and is refused by the unique index
(`ActiveIndexConflict`): the command answers `NO Internal server error`, and
the account keeps one active script.  The statements that name their row by
id (`UpdateScript`, `DeleteScript`, the second UPDATE) have nothing to check
again and are single actions guarded by the lock.

`Close` is an operator that `Logout` and `Returned` both use, with the
guards the code has (`releaseConn != nil`, `User != nil`, `authenticated`)
and without the ones it lacks.

*ScriptStore, and the refinement.*  `ScriptStore` has two variables:
`stored`, the scripts as records of account, name and text, and `active`,
the active scripts as records of account and name.  Its steps are `Put` (a
valid text is stored under a name, in place of the text the name had),
`Delete` (which also leaves the account without an active script when the
script was the active one), `Activate` and `Deactivate`; each changes one
script of one account, and a name has one text and an account one active
script throughout.  `ManageSieveSession` instantiates it as `SS` with

    stored <- {[account |-> r.account, name |-> r.name, text |-> r.content] : r \in scripts}
    active <- {[account |-> r.account, name |-> r.name] : r \in {q \in scripts : q.active}}

over the committed rows of the primary, and `ImplementsScriptStore`
(`SS!Spec`, in the form `ImplementsMailbox` has) is a property of the
passing run.  Everything a session does apart
from its committed writes is a stuttering step of the script store.  The
property fails when a write stores a text that was not validated, touches
more than one script, leaves two rows of one name or two active rows, or
changes a script of another account.  `Deactivate` is a step the protocol
has (`SETACTIVE ""`); the sessions take it only in the race of finding 5,
where the answer sent is wrong and the table is still one the script store
allows.

*Abstractions.*  The SASL exchange of `AUTHENTICATE` and the password check
of `LOGIN` are their outcomes.  A script body is `good` or `bad` to the
validator.  Answers are reduced to the nine values the properties tell
apart; the listing of `LISTSCRIPTS` is not represented.  Transient database
errors are not modelled.  `Returned` resets the fields of the dropped
session object that nothing reads again.

## 3. Runs

| Run | Config | Result | What it shows |
|---|---|---|---|
| store_append_import | `StoreAppendImport.cfg` | holds, 249,733 states | two transactions, each an append or an import with or without preserved UID and UIDVALIDITY, EXPUNGE and the uploader on one mailbox: `SequencesDense`, `ContentRecoverable`, `LiveUIDsDistinctAndAssigned`, `AssignedUIDsAreFresh`, `CreatedInModseqOrder`, `ImplementsMailbox` |
| store_copy | `StoreCopy.cfg` | holds, 413,693 states | two copies between two mailboxes, starting from a mailbox of two messages whose upload is pending: `SequencesDense`, `CopyUIDsOrdered`, `ContentRecoverable`, `ImplementsMailbox` |
| store_pending_upload | `StorePendingUpload.cfg` | violated | a message commits with `uploaded = false` and no `pending_uploads` row |
| store_modseq | `StoreModseq.cfg` | violated | an insert that drew its modseq before an EXPUNGE drew a larger one commits after it: `ModseqAdvances` fails |
| limiter | `Limiter.cfg` | holds, 156,498 states | `CountersMatchHolders` and `NoEntryWithoutConnection` under every interleaving of accept, release and sweep |
| limiter_caps | `LimiterCaps.cfg` | violated | concurrent accepts exceed `maxConnections` |
| cache | `Cache.cfg` | holds, 106,344 states | `SizeBounded`, and under `FairSpec` the liveness property `StopEndsLoop` |
| collector | `Collector.cfg` | holds, 1,264 states | two callers of `Stop`, cancellation, ticks and changing statistics: the type invariant (the ticker is stopped exactly when `Start` has returned), and under `FairSpec` the liveness property `StopEndsLoop` |
| xclient | `XClient.cfg` | holds, 346 states | sessions of three peers, one of them trusted, with and without a PROXY header, any sequence of commands: `AcceptedOnlyFromTrusted` |
| sieve | `Sieve.cfg` | holds, 581,145 states | two sessions of one account, two script names, a lagging replica and shutdown: `AtMostOneActive`, `LimiterReleasedOnce`, `ImplementsScriptStore` |
| sieve_counters | `SieveCounters.cfg` | violated | `authenticatedConnections` counts one session twice; `totalConnections` is decremented twice by `LOGOUT` |
| sieve_setactive | `SieveSetActive.cfg` | violated | `SETACTIVE` acknowledges the activation of a script that was deleted after the lookup |

Every property of a passing run has a mutant in `PROJECT.json`: a definition
of the model replaced by the form a plausible bug would give it (the trigger
without its advisory lock, the UPDATE without its row lock, the rebuild
without its `expunged_at` filter, `startUID` off by one, the closure looking
its counter up by address, the cache that is full one entry late, the loop
that never sees `stopCleanup` closed, the select without its stop case, the
trust check that passes everyone, the activation without its `id`, ...),
under which TLC finds the property violated.

Six more configurations are kept beside the runs.  Each checks one
statement of the specification or of a comment that the code does not keep,
reached by one call or by one session, and TLC finds it violated:

| Config | Module | Property | Trace |
|---|---|---|---|
| `SieveBusy.cfg` | `MCManageSieveSession` | `NeverBusy` | 4 states: accept, `LOGIN`, a second command that takes the lock (finding 6) |
| `StoreAppendPreserved.cfg` | `MCMessageStore` | `ReturnedUIDIsStoredUID` | 14 states: an `InsertMessage` with a preserved UID below `highest_uid` (finding 7) |
| `StoreDuplicate.cfg` | `MCMessageStore` | `DuplicateReturnsExisting` | 12 states: the second APPEND of a Message-ID (finding 8) |
| `SieveReads.cfg` | `MCManageSieveSession` | `ReadYourWrites` | 6 states: `PUTSCRIPT`, then `GETSCRIPT` of the same name (finding 9) |
| `CacheOldest.cfg` | `MCPrelookupCache` | `EvictsOldestFirst` | 5 states: a positive Set, a tick, a negative Set, a third Set (finding 10) |
| `CacheStats.cfg` | `MCPrelookupCache` | `StatsCountEveryGet` | 5 states: two Gets load the same counter value and both store it plus one; `hits` and `misses` are incremented under the read lock (`prelookup_cache.go:66`, `:72`, `:76`), a data race that loses counts |

### Findings

1. **A message can stay `uploaded = false` without a pending upload**
   (`append.go:336`).  Trace of 17 states: message 1 is committed with its
   pending row; a second insert of the same content and account into another
   mailbox finds the row (`ON CONFLICT DO NOTHING`); the uploader puts the
   object and finalises (message 1 uploaded, pending row deleted); the second
   insert commits.  The object exists, so the body can be fetched; the flag
   is never set.  With both messages in one mailbox the model does not show
   it, because the finalisation is one atomic step that waits for the
   advisory lock; in PostgreSQL the UPDATE of the finalisation takes its
   snapshot before its trigger waits for the lock, so the same race is open
   there too.
2. **modseq does not advance over every mutation** (`append.go:251`,
   `:472`, `:95`; migration line 41).  The specification has modseq
   monotonic per mailbox across all writers, serialised by the advisory lock
   of the trigger.  The INSERT draws `nextval('messages_modseq')` while it
   writes the row, and the trigger asks for the lock afterwards.  Trace of
   16 states: message 1 is committed (modseq 1); a second insert draws
   modseq 2 and stands before its trigger; an EXPUNGE of message 1 draws 3
   and commits; the insert commits a message with `created_modseq = 2`.  A
   client that has synchronised at 3 is never told of it.  Among inserts
   and copies the order holds (`CreatedInModseqOrder`), because each takes
   the row lock of the mailbox before it inserts; EXPUNGE is written from
   the specification, which gives it no such lock.
3. **The connection caps are check-then-act** (`part_002:462`, `:507`).
   With `maxConnections = 2`, three goroutines pass `CanAccept` at
   `currentTotal <= 1` and all increment.  The same holds per address
   (`:483`, `:525`).  Releases and the sweep can also drop the map entry of an
   address between an accept's lookup (`:518`) and its increment (`:525`), so
   that later accepts count on a fresh object.
4. **The connection counters drift** (`message_list.go:380`, `:1222`,
   `:999`).  Each successful authentication adds 1 to
   `authenticatedConnections`, also in a session that is authenticated
   already, and `Close` subtracts 1 once.  `LOGOUT` calls `Close` and the
   deferred `Close` runs too; `totalConnections.Add(-1)` has no guard, so a
   `LOGOUT` subtracts 2.  The limiter slot is guarded (`releaseConn = nil`)
   and is released once, which `LimiterReleasedOnce` checks.
5. **`SETACTIVE` acknowledges an activation that did not happen**
   (`append.go:676`).  Trace of 11 states: session 1 stores script `n1` and
   sends `SETACTIVE n1`; the handler finds id 1 and `SetScriptActive`
   deactivates the active scripts; session 2 deletes `n1`; the second UPDATE
   of session 1 matches no row, which is not an error; the answer is
   `OK Script activated` and the account has no active script.

Shown by the configurations kept beside the runs:

6. **`LOGIN` and `STARTTLS` never release the session lock**
   (`message_list.go:374`, `:589`).  `defer release()` inside the `for` of
   `handleConnection` runs when the function returns.  After a successful
   `LOGIN` every command that takes the lock is answered `NO Server busy`
   after the timeout: `LISTSCRIPTS` and `GETSCRIPT`, and `PUTSCRIPT`,
   `SETACTIVE` and `DELETESCRIPT`, which are refused before they touch the
   table (`:770`, `:871`, `:941`); `CAPABILITY` answers with the minimal
   capabilities.  A session that authenticates with `AUTHENTICATE` and
   never uses `STARTTLS` is not affected.
7. **`InsertMessage` returns a UID its row does not have**
   (`append.go:348`).  The row is stored under `uidToUse` and `highestUID`
   is returned, which is `GREATEST(highest_uid, preserved)`; with a
   preserved UID below `highest_uid` the two differ.
   `InsertMessageFromImporter` returns `uidToUse` (line 555).
8. **A duplicate APPEND is not answered with the existing row**
   (`append.go:290`, `:511`).  The lookup runs on the transaction whose
   INSERT has just failed, PostgreSQL refuses it, and the function returns
   `ErrDBUniqueViolation`; `return existingID, existingUID, nil` is not
   reached.
9. **A session does not read its own writes** (`append.go:622`).  The pin
   the handlers set is not looked at by the functions that read; after
   `PUTSCRIPT` a `GETSCRIPT` of the same name can answer `NO No such
   script`.
10. **Eviction is not oldest first** (`prelookup_cache.go:119`).
    `evictOldest` removes the entry that expires soonest; a negative result
    has the shorter TTL and is evicted before an older positive one.  The
    specification calls for LRU, the comments for oldest first.

Observed while modelling, and listed as hazards in `PROJECT.json`:

* `evictOldest` uses the key `""` for "nothing found"
  (`prelookup_cache.go:126`), so a cached entry of that key is never
  evicted; with `EmptyKey` a member of `Keys`, `SizeBounded` fails after
  three Sets.
* `Stop` of the collector (`collector.go:87`) and of the cache
  (`prelookup_cache.go:170`) close a channel without a guard: a second call
  panics.  Both models have the panic; their liveness properties are stated
  for behaviours without it.
* `DELETESCRIPT` deletes the script it finds, active or not
  (`message_list.go:958`, `:968`), where RFC 5804, which the specification
  names as the wire protocol, has the server refuse to delete the active
  script.  The account is then without an active script; `ScriptStore`
  allows the step, and `AtMostOneActive` is not affected.
* A trusted proxy whose first XCLIENT names a `proxy-source-ip` outside the
  trusted networks is refused from its second XCLIENT on
  (`xclient.go:76`): `isFromTrustedProxy` then judges the address the
  command stored, not the connection.  The direction that matters for
  safety, an untrusted peer gaining acceptance, is what
  `AcceptedOnlyFromTrusted` excludes.

## 4. Bounds, and why they are enough

| Constant | Value | Why |
|---|---|---|
| `Txs` | 2 | every property above is about two writers; a third adds interleavings of the same kind |
| `Mailboxes` | 1 (append and import), 2 (copy, pending upload) | copy needs a source and a destination; the pending-upload race needs two |
| `MsgIds` | 1 or 2, plus generated ids | two inserts of one Message-ID reach the duplicate path; generated ids reach the other; the copy run has two so that both loaded messages can be copied into one mailbox |
| `Hashes`, `Accounts` | 1 | two messages of one content and account is the deduplication case |
| `MaxUID` | 2 (append and import), 3 (copy) | a preserved UID below, at and above `highest_uid` of a mailbox that holds one message; a block of two copied UIDs on top of an existing one |
| `MaxRowId` | 2, 4 | bounds the calls that insert; 4 in the copy run allows two loaded rows and a copy of both |
| `UidValidities` | `{1}` or `{1, 2}` | an import overwrites `uid_validity` |
| `Calls` | `{insert, import}` or `{copy}` | appends and imports share a run, so that an import races an append; with `MaxUID = 3` that run does not end within minutes, so it is checked at 2 |
| `Loaded` | 0 or 2 | the copy run starts from a source mailbox of two committed messages with their pending upload (`LoadedInit`), the state two committed appends leave |
| `Conns`, `IPs`, `TrustedIPs` | 3, `{x, y, z}` (`{x, y}` in `LimiterCaps.cfg`), `{y}` | two limited addresses and a trusted one, so that goroutines of different addresses meet in the map; three connections exceed a cap of 2 and of 1 |
| `MaxConnections`, `MaxPerIP`, `MaxCounters` | 2, 1, 3 | the smallest caps that can be exceeded; a counter object per accept that allocates |
| `Keys`, `MaxSize` | 3, 2 | one key more than the cache holds |
| `PositiveTTL`, `NegativeTTL`, `MaxTime` | 2, 1, 3 | entries of both kinds expire inside the run |
| `Readers`, `Stoppers`, `MaxGets` | 2, 1, 2 or 3 | two concurrent Gets; one caller of `Stop` |
| collector: `Stoppers`, `Values`, `WithCache` | 2, `0..1` (0 is what a gauge shows before it is set), TRUE | two callers reach the second close of `stopCh`; two values let a gauge differ from the statistics behind it; with a cache provider both halves of `collect` run |
| xclient: `IPs`, `TrustedIPs`, `MaxTTL` | `{proxy, client, other}`, `{proxy}`, 2 | a trusted peer, and two untrusted addresses so that the client and the claimed proxy address can differ; TTL 0 is refused, 1 and 2 are decremented |
| `Sessions`, `Accounts` | 2, 1 | the races on the script table are between two sessions of one account; sessions of different accounts share no row |
| `Names`, `MaxScriptId` | 2, 2 | two scripts are what "at most one active" needs; two ids allow a script to be deleted and stored again |
| `Contents`, `ValidContents` | `{good, bad}`, `{good}` | one script the validator accepts and one it rejects |
| `MaxAuthenticated` | 2 | caps `authenticatedConnections`, which repeated authentication raises without bound |
| `UseStartTLS` | TRUE | the `STARTTLS` case is reachable |

`nextRowId`, `highest_uid`, the number of counter objects, the clock, the
number of Gets, the script ids and `authenticatedConnections` are unbounded
in the program; the models cap them in the guards of the actions that raise
them (`MaxRowId`, `MaxUID`, `MaxCounters`, `MaxTime`, `MaxGets`,
`MaxScriptId`, `MaxAuthenticated`).  Because of these caps a behaviour can
end in a state without successors, so these configurations switch deadlock
checking off; so does the collector's, whose loop is meant to end.  The
XCLIENT model has no cap and is checked for deadlock.  Symmetry is declared
over transactions, connections, sessions and script names, which the
specifications treat alike; `Cache.cfg` declares none, because TLC's
liveness checking is not sound under symmetry.

### Larger instances

The runs of `PROJECT.json` are sized to finish in a few minutes.  Four
configurations repeat them at the next size up; they are kept beside the
runs and are run from the command line (`tlc -workers 4 -config X.cfg MCmodule`):

| Config | Module | What is larger | Result |
|---|---|---|---|
| `StoreAppendLarge.cfg` | `MCMessageStore` | three transactions appending to one mailbox, with and without preserved UID, `MaxUID = MaxRowId = 3`: two appends wait for the row lock of a third at once, and a mailbox holds three messages | every property of store_append_import holds; 11,722,794 states, depth 32, 20 min |
| `LimiterLarge.cfg` | `MCConnectionLimiter` | four goroutines, `MaxConnections = 3`, `MaxPerIP = 2`, four counter objects: two connections of one address are counted on one object while the other goroutines accept and release | `CountersMatchHolders` and `NoEntryWithoutConnection` hold; 5,152,096 states, depth 65, 3 min |
| `CacheLarge.cfg` | `MCPrelookupCache` | four keys in a cache of three, the clock up to 4 | `SizeBounded` holds; 1,477,935 states, depth 16, 1 min |
| `SieveLarge.cfg` | `MCManageSieveSession` | three sessions of one account, `MaxAuthenticated = 3`, valid scripts only, no `STARTTLS`: one `SetScriptActive` waits for a second while a third commits | `AtMostOneActive`, `LimiterReleasedOnce` and `ImplementsScriptStore` hold; 32,070,718 states, depth 45, 50 min with four workers |

The append and import run itself does not go to `MaxUID = 3`;
`StoreAppendLarge.cfg` takes the third UID with appends alone.

## 5. Fairness

The safety properties are checked of `Init /\ [][Next]_vars`.  The two
liveness properties are checked of `FairSpec`, which adds to it only what
the Go runtime guarantees of the goroutines of the component itself; nothing
is assumed of callers, of the clock or of the context.

| Module | Fairness | Why the code justifies it |
|---|---|---|
| `MetricsCollector` | `WF_vars(Loop)` | the goroutine of `Start` is scheduled when it can run, and the calls into the providers return |
| | `SF_vars(SelectStop)`, `SF_vars(SelectDone)` | `select` chooses uniformly at random among its ready cases, so a case that is ready every time the loop comes to the select is taken at some time.  Between two selects the loop is inside `collect`, where the case is not enabled, so the case is enabled again and again but not continuously: strong fairness |
| `PrelookupCache` | `WF_vars(GetReturn(r))` for every reader | a Get that holds the read lock returns |
| | `WF_vars(Cleanup)` | `sync.RWMutex` stops admitting readers once a writer waits (`GetLookup` is disabled while `cleaning`), so the readers drain and the critical section stays enabled until it is taken |
| | `SF_vars(LoopReturn)` | the stop case of the select of `cleanupLoop`, for the same reason as in the collector: ticks can take the loop into `cleanup` between two selects |

Both strong fairness conditions are needed: with weak fairness in their
place TLC finds a behaviour in which the ticker case is taken every time and
the loop runs for ever after `Stop`.  No fairness is assumed for `Tick`, so
the properties hold for tickers that fire always, sometimes or never.

## 6. Not modelled, and assumptions

* Environment actions of `MessageStore` (`Expunge`, `UploadPut`,
  `UploadFinalize`) are written from the specification, because the IMAP
  engine and the uploader are not in `src/`.  Each is one atomic transaction
  that takes the advisory lock of the trigger and no row lock of the
  mailbox.  One behaviour of the real database is therefore out of reach:
  the per-mailbox lock loop of a statement that touches several mailboxes
  (`PROJECT.json` lists it as a hazard without a property).
* Isolation level READ COMMITTED (PostgreSQL's default; the code sets none).
* Retry wrappers, connection pools and the resilience layer are not in
  `src/`.
* The user API's list and search handlers (`message_list.go` 1-150) are
  not modelled.  Each is one request: the parameters are parsed and
  clamped, the store is read once or twice, and JSON is written; the
  handlers keep no state between requests and share none.  What a model
  could say of them is about the two reads of the list handler
  (`message_list.go:73`, `:86`: a delivery or an EXPUNGE between them makes
  the page and the total disagree, and a failed count is replaced by the
  length of the page), and the reads themselves,
  `GetMessagesForMailboxWithRetry` and the two counts, are not in `src/`: a
  module of the handler would be a model of functions written from their
  names.  The specification names these handlers out of scope.
  `PROJECT.json` lists the hazard.
* The admin API (`src/unnamed/part_001`) is routing, middleware and CRUD
  handlers of the same kind, every one a single request over store
  functions that are not in `src/`; the specification names it out of
  scope as well.
* `GetStats` of the limiter (`part_002` 563-581) and of the cache
  (`prelookup_cache.go` 182-187) only read.  The limiter's reads
  `currentTotal` and then each counter while accepts and releases run, so
  the total it reports need not be the sum of the counts it reports;
  nothing in the code or the specification says it is.
* The constructors (`NewConnectionLimiter`, `newPrelookupCache`,
  `NewCollector`) are the initial states of their modules; the default
  `maxSize` of 10000 and the default interval are values of the constants.
* POP3 XCLIENT: `ParsePOP3XCLIENT`, `ValidateForwarding` and `DecrementTTL`
  are in package `server`, outside `src/`.  They are modelled by their
  outcomes: parsing and validation fail or succeed, and `DecrementTTL`
  refuses a TTL of 0 and otherwise lowers it by one.  `IsTrustedConnection`
  is the exported form of the limiter's `isTrustedConnection`
  (`part_002` 422-452).  The session is assumed to store the peer as
  `ProxyIP` when a PROXY header was read.
* Metrics collector: the providers are interfaces; their implementations
  are not in `src/`, and any answer, at any time, is allowed.
* ManageSieve, taken from outside `src/`:
  * the timeout helper of the session lock returns "not acquired" when the
    lock is held and "acquired" otherwise (the session has one goroutine, so
    nobody else can release it while it waits);
  * the accept loop adds 1 to `totalConnections` and takes the limiter slot
    whose release function it stores in `releaseConn` (`Admitted`);
  * `sieve_scripts` has one row per account and name (`GetScriptByName`
    scans a single row) and the partial unique index on
    `(account_id) WHERE active` that the comment of `SetScriptActive` names;
    a second `CreateScript` of a name and an activation that meets an active
    row of another transaction fail;
  * the read pool may lag behind the primary by any number of committed
    writes (`Replicate` brings it up to date at any time, or never).
* The branch of `handleSetActive` that rejects a stored script whose
  validation fails is reachable only when the validator's configuration
  changes between `PUTSCRIPT` and `SETACTIVE`; the model keeps it constant.

## 7. Roadmap

What the project leaves for a later revision, and what each item needs:

1. **EXPUNGE and the uploader statement by statement.**  Both are single
   steps written from the specification.  With their code, the UPDATE that
   sets `expunged_at` and the UPDATE of the finalisation become a statement
   and a trigger each, as the INSERTs are, and the lock loop of a statement
   over several mailboxes can be checked for deadlock.
2. **An abstract limiter.**  A counting semaphore that `ConnectionLimiter`
   would implement if check and increment were one step; today the
   refinement fails where `LimitsEnforced` fails, and says nothing more.
3. **Liveness of the store.**  Every transaction that waits for a lock
   proceeds.  TLC checks liveness without symmetry, which puts the two
   store runs beyond a few minutes.
4. **Composition.**  The ManageSieve sessions accepted through
   `ConnectionLimiter` instead of the counter `limited`.  The accept loop
   that joins the two is not in `src/`.
