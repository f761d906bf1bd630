------------------------- MODULE ManageSieveSession -------------------------
(***************************************************************************)
(* The ManageSieve sessions of package managesieve and the sieve_scripts   *)
(* table they work on.                                                     *)
(*                                                                         *)
(* Each session is one goroutine, handleConnection: it reads a command,    *)
(* runs its handler and reads the next.  The handlers of the script        *)
(* commands copy the session state under the session's lock, release it,   *)
(* look the script up with one query and change it with another; sessions  *)
(* of one account interleave between the two.  Reads go to the read pool   *)
(* (a replica that lags behind the primary); a session that has written    *)
(* sets useMasterDB and marks the context of its reads, which the reading  *)
(* functions of the table do not consult.                                  *)
(*                                                                         *)
(* The lock is s.mutex, taken through a helper that gives up after a       *)
(* timeout.  Only the session's own goroutine takes it, so an attempt      *)
(* fails exactly when a release of an earlier acquisition is still         *)
(* deferred: held.  Go runs a deferred call when the FUNCTION returns, so  *)
(* a defer written in the command loop of handleConnection runs when the   *)
(* connection ends.                                                        *)
(***************************************************************************)
EXTENDS Integers, FiniteSets

CONSTANTS
    Sessions,          \* connections accepted by the server
    Accounts,          \* account ids
    Names,             \* script names
    Contents,          \* script texts
    ValidContents,     \* the texts sieve.Load accepts and maxScriptSize allows
    UseStartTLS,       \* s.server.useStartTLS && s.server.tlsConfig != nil
    MaxScriptId,       \* bound on the ids the table hands out
    MaxAuthenticated,  \* bound on the counter authenticatedConnections
    NULL

ASSUME /\ ValidContents \subseteq Contents
       /\ UseStartTLS \in BOOLEAN
       /\ MaxScriptId \in Nat /\ MaxAuthenticated \in Nat

VARIABLES
    pc,             \* [Sessions -> where handleConnection is]
    loc,            \* [Sessions -> the locals of the handler in progress]
    response,       \* [Sessions -> the answer to the last command]
    held,           \* [Sessions -> is a release of s.mutex still deferred?]
    authenticated,  \* s.authenticated
    user,           \* s.User: the account, or NULL for nil
    isTLS,          \* s.isTLS
    useMasterDB,    \* s.useMasterDB
    releaseConn,    \* is s.releaseConn non-nil?
    cancelled,      \* s.ctx.Err() != nil
    totalConnections, authenticatedConnections,  \* the server's counters
    limited,        \* connections the limiter behind releaseConn counts
    scripts,        \* sieve_scripts on the primary, committed rows
    replica,        \* sieve_scripts as the read pool shows it
    nextId,         \* the sequence behind sieve_scripts.id
    tx,             \* [Sessions -> ids of the rows its open transaction locked]
    wrote           \* history: has the session changed the table?

sessionVars == <<held, authenticated, user, isTLS, useMasterDB, releaseConn, cancelled>>
serverVars  == <<totalConnections, authenticatedConnections, limited>>
dbVars      == <<scripts, replica, nextId, tx>>
vars == <<pc, loc, response, sessionVars, serverVars, dbVars, wrote>>

Ids == 1..MaxScriptId

SieveScript == [id : Ids, account : Accounts, name : Names, content : Contents,
                active : BOOLEAN]

Locals == [userID : Accounts, name : Names, content : Contents \cup {NULL},
           id : Ids \cup {NULL}, seen : SUBSET Ids]

\* The answers, as far as the properties tell them apart: the wording of
\* the other refusals and confirmations is left out.
Responses ==
    {"none", "capabilities", "minimal capabilities", "OK", "OK Script activated",
     "NO", "NO Server busy", "NO No such script", "NO Internal server error"}

InHandler == {"put", "setactive", "blocked", "activate", "delete"}

\* The connection is open: accepted, and Close has not run.
Open(s) == pc[s] \in {"loop"} \cup InHandler

-----------------------------------------------------------------------------
(* sieve_scripts *)

GetUserScripts(table, userID) == {r \in table : r.account = userID}

GetActiveScript(table, userID) == {r \in GetUserScripts(table, userID) : r.active}

\* The row, as a set of at most one; empty is ErrDBNotFound.
GetScriptByName(table, name, userID) ==
    {r \in GetUserScripts(table, userID) : r.name = name}

GetScript(table, scriptID, userID) ==
    {r \in GetUserScripts(table, userID) : r.id = scriptID}

CreateScript(table, id, userID, name, script) ==
    table \cup {[id |-> id, account |-> userID, name |-> name, content |-> script,
                 active |-> FALSE]}

UpdateScript(table, scriptID, userID, name, script) ==
    {IF r.id = scriptID /\ r.account = userID
        THEN [r EXCEPT !.name = name, !.content = script] ELSE r : r \in table}

\* Fault model: DELETE ... WHERE account_id = $2, without the id.
DeleteScript_WholeAccount(table, scriptID, userID) ==
    table \ GetUserScripts(table, userID)

DeleteScript(table, scriptID, userID) == table \ GetScript(table, scriptID, userID)

\* The two statements of SetScriptActive(..., true).
Deactivated(table, ids) ==
    {IF r.id \in ids THEN [r EXCEPT !.active = FALSE] ELSE r : r \in table}

\* Fault model: UPDATE ... SET active = true WHERE account_id = $3, without
\* the id.
Activated_WholeAccount(table, scriptID, userID) ==
    {IF r.account = userID THEN [r EXCEPT !.active = TRUE] ELSE r : r \in table}

Activated(table, scriptID, userID) ==
    {IF r.id = scriptID /\ r.account = userID
        THEN [r EXCEPT !.active = TRUE] ELSE r : r \in table}

\* The UNIQUE index on (account_id, active = true), which the comment of
\* SetScriptActive names and whose definition is in the schema, refuses the
\* second statement: the row is there, and another row of the account is
\* active.
ActiveIndexConflict(table, scriptID, userID) ==
    /\ GetScript(table, scriptID, userID) # {}
    /\ \E r \in GetActiveScript(table, userID) : r.id # scriptID

\* Rows that transactions of other sessions have changed and not committed:
\* a statement that touches one waits for that transaction to end.
LockedByOthers(s) == UNION {tx[t] : t \in Sessions \ {s}}

\* The pool a read of the session goes to.  The handlers put UseMasterDBKey
\* into the context of a pinned session, and the functions that read the
\* table take db.GetReadPool() without looking at the context: every read
\* of every session goes to the read pool.
ReadPool(s) == replica

-----------------------------------------------------------------------------
(* the session's lock, and what all handlers share *)

\* AcquireReadLockWithTimeout and AcquireWriteLockWithTimeout get the lock
\* unless it is held until the timeout; the holder can only be a release
\* this goroutine has deferred.
Acquired(s) == ~held[s]

Respond(s, r) == response' = [response EXCEPT ![s] = r]

\* An answer that leaves everything as it was: the loop reads the next line.
Reply(s, r) ==
    /\ Respond(s, r)
    /\ UNCHANGED <<pc, loc, sessionVars, serverVars, dbVars, wrote>>

SendCapabilities(s) == IF Acquired(s) THEN "capabilities" ELSE "minimal capabilities"

\* The start of every script handler: the context is checked, the session
\* state is copied under the read lock.
Refused(s) == cancelled[s] \/ ~Acquired(s)

HandlerRefused(s) ==
    /\ Refused(s)
    /\ Reply(s, IF cancelled[s] THEN "NO" ELSE "NO Server busy")

\* Phase 3 of a writing handler: useMasterDB is set under the write lock,
\* and left alone when the lock cannot be had.
Pinned(s) == IF Acquired(s) THEN [useMasterDB EXCEPT ![s] = TRUE] ELSE useMasterDB

\* A handler that changed the table answers and returns to the loop.
Written(s, r) ==
    /\ Respond(s, r)
    /\ useMasterDB' = Pinned(s)
    /\ wrote' = [wrote EXCEPT ![s] = TRUE]
    /\ pc' = [pc EXCEPT ![s] = "loop"]
    /\ loc' = [loc EXCEPT ![s] = NULL]
    /\ UNCHANGED <<held, authenticated, user, isTLS, releaseConn, cancelled, serverVars>>

\* A handler whose statement failed answers and returns to the loop.
Failed(s, r) ==
    /\ Respond(s, r)
    /\ pc' = [pc EXCEPT ![s] = "loop"]
    /\ loc' = [loc EXCEPT ![s] = NULL]
    /\ UNCHANGED <<sessionVars, serverVars, wrote>>

\* The lookup that starts a writing handler found what it works on.
Looked(s, next, name, content, found) ==
    /\ pc' = [pc EXCEPT ![s] = next]
    /\ loc' = [loc EXCEPT ![s] = [userID |-> user[s], name |-> name, content |-> content,
                                  id |-> IF found = {} THEN NULL
                                         ELSE (CHOOSE r \in found : TRUE).id,
                                  seen |-> {}]]
    /\ UNCHANGED <<response, sessionVars, serverVars, dbVars, wrote>>

-----------------------------------------------------------------------------
(* Close, and the ways handleConnection ends *)

\* s.User = nil
Cleared(s) == [user EXCEPT ![s] = NULL]

ReleasedConn_Kept(s) == releaseConn

\* s.releaseConn = nil
ReleasedConn(s) == [releaseConn EXCEPT ![s] = FALSE]

\* Close takes the write lock if it can and goes on if it cannot, so the
\* lock decides nothing here; it is released when Close returns.
Close(s) ==
    /\ totalConnections' = totalConnections - 1
    /\ limited' = IF releaseConn[s] THEN limited - 1 ELSE limited
    /\ releaseConn' = ReleasedConn(s)
    /\ IF user[s] # NULL
          THEN /\ authenticatedConnections' =
                      IF authenticated[s] THEN authenticatedConnections - 1
                                          ELSE authenticatedConnections
               /\ user' = Cleared(s)
               /\ authenticated' = [authenticated EXCEPT ![s] = FALSE]
               /\ cancelled' = [cancelled EXCEPT ![s] = TRUE]
          ELSE UNCHANGED <<authenticatedConnections, user, authenticated, cancelled>>

\* handleConnection returns: the releases deferred by LOGIN and STARTTLS
\* run, then the Close deferred first.  The goroutine ends and the session
\* is dropped: the fields nothing reads any more take their zero values.
Returned(s) ==
    /\ held' = [held EXCEPT ![s] = FALSE]
    /\ Close(s)
    /\ pc' = [pc EXCEPT ![s] = "closed"]
    /\ isTLS' = [isTLS EXCEPT ![s] = FALSE]
    /\ useMasterDB' = [useMasterDB EXCEPT ![s] = FALSE]
    /\ wrote' = [wrote EXCEPT ![s] = FALSE]
    /\ Respond(s, "none")
    /\ UNCHANGED <<loc, dbVars>>

\* The accept loop of the server, which is not among the sources: what Close
\* undoes was done there.  The connection is counted, takes a slot of the
\* limiter and gets the function that gives the slot back.
Admitted(s) ==
    /\ totalConnections' = totalConnections + 1
    /\ limited' = limited + 1
    /\ releaseConn' = [releaseConn EXCEPT ![s] = TRUE]

\* handleConnection starts on an admitted connection and sends the greeting.
Accept(s) ==
    /\ pc[s] = "new"
    /\ pc' = [pc EXCEPT ![s] = "loop"]
    /\ Admitted(s)
    /\ Respond(s, SendCapabilities(s))
    /\ UNCHANGED <<loc, held, authenticated, user, isTLS, useMasterDB, cancelled,
                   authenticatedConnections, dbVars, wrote>>

\* ReadString fails: the client is gone.
Disconnect(s) == pc[s] = "loop" /\ Returned(s)

\* LOGOUT: the answer, Close, and the return that follows in LogoutReturn.
Logout(s) ==
    /\ pc[s] = "loop"
    /\ Respond(s, "OK")
    /\ Close(s)
    /\ pc' = [pc EXCEPT ![s] = "logout"]
    /\ UNCHANGED <<loc, held, isTLS, useMasterDB, dbVars, wrote>>

LogoutReturn(s) == pc[s] = "logout" /\ Returned(s)

\* The server shuts down and cancels the contexts of its sessions.
Shutdown ==
    /\ \E s \in Sessions : ~cancelled[s]
    /\ cancelled' = [s \in Sessions |-> TRUE]
    /\ UNCHANGED <<pc, loc, response, held, authenticated, user, isTLS, useMasterDB,
                   releaseConn, serverVars, dbVars, wrote>>

-----------------------------------------------------------------------------
(* commands that need no authentication *)

Capability(s) == pc[s] = "loop" /\ Reply(s, SendCapabilities(s))

Noop(s) == pc[s] = "loop" /\ Reply(s, "OK")

\* A command the switch does not know, or one with too few arguments.
Unknown(s) == pc[s] = "loop" /\ Reply(s, "NO")

Authenticated_NoUser(s, a) ==
    /\ authenticated' = [authenticated EXCEPT ![s] = TRUE]
    /\ user' = user
    /\ authenticatedConnections' = authenticatedConnections + 1

\* The session becomes the account's.
Authenticated(s, a) ==
    /\ authenticated' = [authenticated EXCEPT ![s] = TRUE]
    /\ user' = [user EXCEPT ![s] = a]
    /\ authenticatedConnections' = authenticatedConnections + 1

\* LOGIN.  The credentials are refused (syntax, address, rate limit, wrong
\* password, master account unknown), or accepted for account a: then the
\* context is checked, the write lock taken and its release DEFERRED IN
\* handleConnection, and the session state set.
Login(s) ==
    /\ pc[s] = "loop"
    /\ \/ Reply(s, "NO")
       \/ cancelled[s] /\ Reply(s, "none")
       \/ ~cancelled[s] /\ ~Acquired(s) /\ Reply(s, "NO Server busy")
       \/ \E a \in Accounts :
            /\ ~cancelled[s] /\ Acquired(s)
            /\ authenticatedConnections < MaxAuthenticated
            /\ held' = [held EXCEPT ![s] = TRUE]
            /\ Authenticated(s, a)
            /\ Respond(s, "OK")
            /\ UNCHANGED <<pc, loc, isTLS, useMasterDB, releaseConn, cancelled,
                           totalConnections, limited, dbVars, wrote>>

\* AUTHENTICATE PLAIN, with or without a master SASL identity.  As LOGIN,
\* but the release is deferred in handleAuthenticate and has run when the
\* loop reads the next command.
HandleAuthenticate(s) ==
    /\ pc[s] = "loop"
    /\ \/ Reply(s, "NO")
       \/ cancelled[s] /\ Reply(s, "none")
       \/ ~cancelled[s] /\ ~Acquired(s) /\ Reply(s, "NO Server busy")
       \/ \E a \in Accounts :
            /\ ~cancelled[s] /\ Acquired(s)
            /\ authenticatedConnections < MaxAuthenticated
            /\ Authenticated(s, a)
            /\ Respond(s, "OK")
            /\ UNCHANGED <<pc, loc, held, isTLS, useMasterDB, releaseConn, cancelled,
                           totalConnections, limited, dbVars, wrote>>

\* STARTTLS.  After the handshake the context is checked (the function
\* returns if it is cancelled), the write lock taken and its release
\* deferred in handleConnection.
StartTLS(s) ==
    /\ pc[s] = "loop"
    /\ \/ /\ ~UseStartTLS \/ isTLS[s]
          /\ Reply(s, "NO")
       \/ /\ UseStartTLS /\ ~isTLS[s]
          /\ \/ Reply(s, "NO")
             \/ cancelled[s] /\ Returned(s)
             \/ ~cancelled[s] /\ ~Acquired(s) /\ Reply(s, "NO Server busy")
             \/ /\ ~cancelled[s] /\ Acquired(s)
                /\ held' = [held EXCEPT ![s] = TRUE]
                /\ isTLS' = [isTLS EXCEPT ![s] = TRUE]
                /\ Respond(s, "OK")
                /\ UNCHANGED <<pc, loc, authenticated, user, useMasterDB, releaseConn,
                               cancelled, serverVars, dbVars, wrote>>

-----------------------------------------------------------------------------
(* the script commands *)

\* Every script command is refused before its handler runs while the
\* session is not authenticated.
NotAuthenticated(s) ==
    /\ pc[s] = "loop" /\ ~authenticated[s]
    /\ Reply(s, "NO")

HandleListScripts(s) ==
    /\ pc[s] = "loop" /\ authenticated[s]
    /\ \/ HandlerRefused(s)
       \/ ~Refused(s) /\ Reply(s, "OK")

HandleGetScript(s, name) ==
    /\ pc[s] = "loop" /\ authenticated[s]
    /\ \/ HandlerRefused(s)
       \/ /\ ~Refused(s)
          /\ Reply(s, IF GetScriptByName(ReadPool(s), name, user[s]) = {}
                         THEN "NO No such script" ELSE "OK")

\* Script ids that calls of CreateScript under way will still take.
Creating == {s \in Sessions : pc[s] = "put" /\ loc[s].id = NULL}

\* PUTSCRIPT up to the lookup: the text is checked (size, sieve.Load) and
\* the script looked up by name.
HandlePutScript(s, name, content) ==
    /\ pc[s] = "loop" /\ authenticated[s]
    /\ \/ HandlerRefused(s)
       \/ ~Refused(s) /\ content \notin ValidContents /\ Reply(s, "NO")
       \/ /\ ~Refused(s) /\ content \in ValidContents
          /\ nextId + Cardinality(Creating) <= MaxScriptId
          /\ Looked(s, "put", name, content, GetScriptByName(ReadPool(s), name, user[s]))

\* PUTSCRIPT from the lookup on: UpdateScript of the row found, which fails
\* when the row is gone, or CreateScript, which fails when the name is
\* taken; then phase 3.
PutScriptWrite(s) ==
    LET l == loc[s] IN
    /\ pc[s] = "put"
    /\ UNCHANGED <<replica, tx>>
    /\ \/ /\ l.id # NULL /\ l.id \notin LockedByOthers(s)
          /\ GetScript(scripts, l.id, l.userID) # {}
          /\ scripts' = UpdateScript(scripts, l.id, l.userID, l.name, l.content)
          /\ Written(s, "OK")
          /\ UNCHANGED nextId
       \/ /\ l.id # NULL /\ l.id \notin LockedByOthers(s)
          /\ GetScript(scripts, l.id, l.userID) = {}
          /\ Failed(s, "NO Internal server error")
          /\ UNCHANGED <<scripts, nextId>>
       \/ /\ l.id = NULL
          /\ GetScriptByName(scripts, l.name, l.userID) = {}
          /\ scripts' = CreateScript(scripts, nextId, l.userID, l.name, l.content)
          /\ nextId' = nextId + 1
          /\ Written(s, "OK")
       \/ /\ l.id = NULL
          /\ GetScriptByName(scripts, l.name, l.userID) # {}
          /\ Failed(s, "NO Internal server error")
          /\ UNCHANGED <<scripts, nextId>>

\* SETACTIVE up to the lookup; the text found is checked again.
HandleSetActive(s, name) ==
    LET found == GetScriptByName(ReadPool(s), name, user[s]) IN
    /\ pc[s] = "loop" /\ authenticated[s]
    /\ \/ HandlerRefused(s)
       \/ ~Refused(s) /\ found = {} /\ Reply(s, "NO No such script")
       \/ /\ ~Refused(s) /\ found # {}
          /\ \/ (\E r \in found : r.content \notin ValidContents) /\ Reply(s, "NO")
             \/ /\ \A r \in found : r.content \in ValidContents
                /\ Looked(s, "setactive", name, NULL, found)

\* The ids of the account's active scripts.
ActiveIds(table, userID) == {r.id : r \in GetActiveScript(table, userID)}

\* SetScriptActive, first statement, when no row it finds is locked: the
\* active scripts of the account are deactivated in the transaction.
SetActiveDeactivate(s) ==
    LET active == ActiveIds(scripts, loc[s].userID) IN
    /\ pc[s] = "setactive"
    /\ active \cap LockedByOthers(s) = {}
    /\ tx' = [tx EXCEPT ![s] = active]
    /\ pc' = [pc EXCEPT ![s] = "activate"]
    /\ UNCHANGED <<loc, response, sessionVars, serverVars, scripts, replica, nextId, wrote>>

\* SetScriptActive, first statement, when a row it finds is locked: the
\* statement has chosen its rows and waits for the other transaction.
SetActiveWait(s) ==
    LET active == ActiveIds(scripts, loc[s].userID) IN
    /\ pc[s] = "setactive"
    /\ active \cap LockedByOthers(s) # {}
    /\ loc' = [loc EXCEPT ![s].seen = active]
    /\ pc' = [pc EXCEPT ![s] = "blocked"]
    /\ UNCHANGED <<response, sessionVars, serverVars, dbVars, wrote>>

\* The rows the waiting statement goes on with: of those it had chosen,
\* the ones that are still active.  A script activated in the meantime is
\* not among them.
Rechecked(s) == loc[s].seen \cap ActiveIds(scripts, loc[s].userID)

\* The other transaction has ended and the first statement finishes.
SetActiveResume(s) ==
    /\ pc[s] = "blocked"
    /\ loc[s].seen \cap LockedByOthers(s) = {}
    /\ tx' = [tx EXCEPT ![s] = Rechecked(s)]
    /\ loc' = [loc EXCEPT ![s].seen = {}]
    /\ pc' = [pc EXCEPT ![s] = "activate"]
    /\ UNCHANGED <<response, sessionVars, serverVars, scripts, replica, nextId, wrote>>

\* SetScriptActive, second statement, and the commit: the row with the id
\* found is activated, if there still is one; the transaction is rolled
\* back if the index refuses.  Then phase 3.
SetActiveActivate(s) ==
    LET l == loc[s]
        deactivated == Deactivated(scripts, tx[s])
    IN  /\ pc[s] = "activate"
        /\ l.id \notin LockedByOthers(s)
        /\ tx' = [tx EXCEPT ![s] = {}]
        /\ UNCHANGED <<replica, nextId>>
        /\ \/ /\ ActiveIndexConflict(deactivated, l.id, l.userID)
              /\ Failed(s, "NO Internal server error")
              /\ UNCHANGED scripts
           \/ /\ ~ActiveIndexConflict(deactivated, l.id, l.userID)
              /\ scripts' = Activated(deactivated, l.id, l.userID)
              /\ Written(s, "OK Script activated")

\* DELETESCRIPT up to the lookup.
HandleDeleteScript(s, name) ==
    LET found == GetScriptByName(ReadPool(s), name, user[s]) IN
    /\ pc[s] = "loop" /\ authenticated[s]
    /\ \/ HandlerRefused(s)
       \/ ~Refused(s) /\ found = {} /\ Reply(s, "NO No such script")
       \/ ~Refused(s) /\ found # {} /\ Looked(s, "delete", name, NULL, found)

\* DELETESCRIPT from the lookup on: the row with the id found is deleted,
\* if there still is one; then phase 3.
DeleteScriptWrite(s) ==
    /\ pc[s] = "delete"
    /\ loc[s].id \notin LockedByOthers(s)
    /\ scripts' = DeleteScript(scripts, loc[s].id, loc[s].userID)
    /\ Written(s, "OK")
    /\ UNCHANGED <<replica, nextId, tx>>

\* The read pool catches up with the primary.
Replicate ==
    /\ replica # scripts
    /\ replica' = scripts
    /\ UNCHANGED <<pc, loc, response, sessionVars, serverVars, scripts, nextId, tx, wrote>>

-----------------------------------------------------------------------------

Init ==
    /\ pc = [s \in Sessions |-> "new"]
    /\ loc = [s \in Sessions |-> NULL]
    /\ response = [s \in Sessions |-> "none"]
    /\ held = [s \in Sessions |-> FALSE]
    /\ authenticated = [s \in Sessions |-> FALSE]
    /\ user = [s \in Sessions |-> NULL]
    /\ isTLS = [s \in Sessions |-> FALSE]
    /\ useMasterDB = [s \in Sessions |-> FALSE]
    /\ releaseConn = [s \in Sessions |-> FALSE]
    /\ cancelled = [s \in Sessions |-> FALSE]
    /\ totalConnections = 0 /\ authenticatedConnections = 0 /\ limited = 0
    /\ scripts = {} /\ replica = {} /\ nextId = 1
    /\ tx = [s \in Sessions |-> {}]
    /\ wrote = [s \in Sessions |-> FALSE]

Command(s) ==
    \/ Capability(s) \/ Noop(s) \/ Unknown(s)
    \/ Login(s) \/ HandleAuthenticate(s) \/ StartTLS(s)
    \/ NotAuthenticated(s) \/ HandleListScripts(s)
    \/ \E name \in Names :
         \/ HandleGetScript(s, name)
         \/ HandleSetActive(s, name)
         \/ HandleDeleteScript(s, name)
         \/ \E content \in Contents : HandlePutScript(s, name, content)
    \/ Logout(s)

Step(s) ==
    \/ PutScriptWrite(s)
    \/ SetActiveDeactivate(s) \/ SetActiveWait(s) \/ SetActiveResume(s)
    \/ SetActiveActivate(s)
    \/ DeleteScriptWrite(s)
    \/ LogoutReturn(s)

Next ==
    \/ \E s \in Sessions : Accept(s) \/ Command(s) \/ Step(s) \/ Disconnect(s)
    \/ Shutdown
    \/ Replicate

Spec == Init /\ [][Next]_vars

-----------------------------------------------------------------------------
(* properties *)

\* Every variable has the shape the Go types and the table give it; a
\* session that is authenticated has a User, the locals exist exactly while
\* a handler is between its two queries, and rows are locked only by a
\* transaction that is open.
TypeOK ==
    /\ pc \in [Sessions -> {"new", "loop", "logout", "closed"} \cup InHandler]
    /\ loc \in [Sessions -> Locals \cup {NULL}]
    /\ response \in [Sessions -> Responses]
    /\ held \in [Sessions -> BOOLEAN] /\ authenticated \in [Sessions -> BOOLEAN]
    /\ user \in [Sessions -> Accounts \cup {NULL}]
    /\ isTLS \in [Sessions -> BOOLEAN] /\ useMasterDB \in [Sessions -> BOOLEAN]
    /\ releaseConn \in [Sessions -> BOOLEAN] /\ cancelled \in [Sessions -> BOOLEAN]
    /\ totalConnections \in Int /\ authenticatedConnections \in Int /\ limited \in Int
    /\ scripts \subseteq SieveScript /\ replica \subseteq SieveScript
    /\ nextId \in 1..(MaxScriptId + 1)
    /\ tx \in [Sessions -> SUBSET Ids]
    /\ wrote \in [Sessions -> BOOLEAN]
    /\ \A s \in Sessions :
         /\ authenticated[s] => user[s] # NULL
         /\ loc[s] # NULL <=> pc[s] \in InHandler
         /\ tx[s] # {} => pc[s] = "activate"


\* An account never has two active scripts, however the SETACTIVE commands
\* of its sessions interleave: the first statement of SetScriptActive
\* deactivates what it sees, and the index refuses what it could not see.
AtMostOneActive ==
    \A a \in Accounts : Cardinality(GetActiveScript(scripts, a)) <= 1

\* The limiter counts exactly the connections that are open: Close gives
\* the slot back once, although LOGOUT runs Close twice (its own call and
\* the one handleConnection deferred).
LimiterReleasedOnce ==
    limited = Cardinality({s \in Sessions : Open(s)})

\* A session that has changed the table reads what the primary holds: the
\* answer of GETSCRIPT is OK exactly when the account has a script of that
\* name, whatever the read pool has caught up with (the comment of the
\* field useMasterDB: "Pin session to master DB after a write to ensure
\* consistency", and phase 3 of the writing handlers).
ReadYourWrites ==
    [][\A s \in Sessions, name \in Names :
         wrote[s] /\ HandleGetScript(s, name) /\ ~Refused(s)
            => (response'[s] = "OK" <=> GetScriptByName(scripts, name, user[s]) # {})]_vars

\* The rows of sieve_scripts on the primary, seen as the scripts of module
\* ScriptStore: the row ids are left out.
SS == INSTANCE ScriptStore
          WITH stored <- {[account |-> r.account, name |-> r.name, text |-> r.content] :
                             r \in scripts},
               active <- {[account |-> r.account, name |-> r.name] :
                             r \in {q \in scripts : q.active}}

\* The sessions implement the script store: every step that changes
\* sieve_scripts on the primary is one PUTSCRIPT of a valid text, one
\* DELETESCRIPT, one activation or one deactivation, of one script of one
\* account, although every handler looks the script up by name in one
\* query, possibly on the replica, and writes by id in another, and other
\* sessions of the account write in between (handlePutScript,
\* handleSetActive, handleDeleteScript and the functions of the table).
\* SS!Spec, with an abstract step looked for only when the abstract state
\* changes: [][v' # v => N]_v is [][N]_v.
ImplementsScriptStore == SS!Init /\ [][SS!vars' # SS!vars => SS!Next]_(SS!vars)

\* No command is answered "Server busy": the lock of a session is taken by
\* its own goroutine only, each time for a few assignments (the comments of
\* the handlers: "Release lock before DB call").
NeverBusy ==
    \A s \in Sessions : response[s] # "NO Server busy"

\* The server's counters are the numbers of open and of authenticated
\* sessions (they are logged and exported as the current connections).
CountersMatchSessions ==
    /\ totalConnections = Cardinality({s \in Sessions : Open(s)})
    /\ authenticatedConnections = Cardinality({s \in Sessions : authenticated[s]})

\* When SETACTIVE answers "OK Script activated", the script it looked up is
\* the active script of the account.
ActivatedScriptIsActive ==
    [][\A s \in Sessions :
         pc[s] = "activate" /\ response'[s] = "OK Script activated" /\ pc'[s] = "loop"
            => \E r \in GetActiveScript(scripts', loc[s].userID) : r.id = loc[s].id]_vars

=============================================================================
