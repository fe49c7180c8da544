--------------------------- MODULE DatabaseService ---------------------------
(***************************************************************************)
(* internal/database/service.go: the service every tool call goes through. *)
(*                                                                         *)
(* A call names a configured connection.  The service opens that           *)
(* connection's pool (a *sql.DB) lazily under the connection's mutex,      *)
(* borrows one database connection from the pool per statement, sends the  *)
(* statement, reads the rows and gives the connection back.  Each call     *)
(* runs in a goroutine of its own, and Close may run at the same time as   *)
(* calls, which the service does not prevent.                              *)
(*                                                                         *)
(* database/sql, its drivers and the database servers are not under src/:  *)
(* they appear only as what the service relies on (a pool lends at most    *)
(* MaxOpen connections, a closed pool refuses, a driver gives up when its  *)
(* context is done, a statement already sent may still take effect).       *)
(***************************************************************************)
EXTENDS Naturals, FiniteSets

CONSTANTS
    Calls,      \* the tool calls made in a behaviour, each made once
    NConns,     \* number of configured connections, in sortedConnections order
    Requests,   \* the requests a caller may make
    AllowWrite, \* connections configured with allow_write
    AllowDDL,   \* connections configured with allow_ddl
    MaxOpen,    \* max_open_conns of each connection, 0 when unlimited
    Flaky,      \* connections whose pool may fail to open or whose database may fail
    MayHangUp,  \* calls whose client may go away (HTTP: yes, stdio: never)
    Closer,     \* the goroutine running Close
    None

Conns == 1..NConns

\* A name that is blank or not configured is connection 0; `arg` is the class
\* ClassifyStatement gives the SQL text, "bad" for an argument that is refused
\* before any connection is opened, "none" for a call that takes no SQL.  The
\* class goes by the first keyword, and WITH, EXPLAIN and PRAGMA are of class
\* query: "writing" is a statement of that class that changes data all the
\* same (WITH d AS (DELETE ... RETURNING *) SELECT ..., PRAGMA x = y).
Request ==
    [op : {"list"}, conn : {0}, arg : {"none"}]
    \cup [op : {"metadata"}, conn : 0..NConns, arg : {"none", "bad"}]
    \cup [op : {"query", "exec", "ddl"}, conn : 0..NConns,
          arg : {"query", "writing", "exec", "ddl", "bad"}]

ASSUME ServiceAssumption ==
    /\ NConns \in Nat \ {0}
    /\ Requests \subseteq Request
    /\ AllowWrite \subseteq Conns
    /\ AllowDDL \subseteq Conns
    /\ MaxOpen \in [Conns -> Nat]
    /\ Flaky \subseteq Conns
    /\ MayHangUp \subseteq Calls
    /\ Closer \notin Calls /\ Closer # None
    /\ None \notin Calls /\ None \notin Requests

VARIABLES
    req,      \* what each call asked for
    pc,       \* where each call is
    cur,      \* the connection it is working on
    ctx,      \* its context: no deadline yet, deadline set, or done
    gone,     \* calls whose client went away
    pool,     \* the pool open() returned to it
    stmt,     \* its current statement, as the database sees it
    reply,    \* its result
    summary,  \* the status ListConnections has recorded per connection
    mu,       \* managedConnection.mu: its holder
    db,       \* managedConnection.db.  A call creates at most one pool of a
              \* connection, so a pool is named by the call that created it
    live,     \* per connection, the pools opened and not closed
    lent,     \* per connection and pool, the calls holding a pool connection
    cpc, todo, cconn, hand \* Close: where it is, what is left, and its locals

callVars  == <<req, pc, cur, ctx, pool, stmt, reply, summary>>
poolVars  == <<mu, db, live, lent>>
closeVars == <<cpc, todo, cconn, hand>>
vars      == <<callVars, gone, poolVars, closeVars>>

PCs == {"idle", "lock", "check", "create", "unlock", "acquire", "run", "rows",
        "leaving", "done"}

Init ==
    /\ req     = [k \in Calls |-> None]
    /\ pc      = [k \in Calls |-> "idle"]
    /\ cur     = [k \in Calls |-> 0]
    /\ ctx     = [k \in Calls |-> "plain"]
    /\ gone    = {}
    /\ pool    = [k \in Calls |-> None]
    /\ stmt    = [k \in Calls |-> "none"]
    /\ reply   = [k \in Calls |-> "none"]
    /\ summary = [k \in Calls |-> [c \in Conns |-> "none"]]
    /\ mu      = [c \in Conns |-> None]
    /\ db      = [c \in Conns |-> None]
    /\ live    = [c \in Conns |-> {}]
    /\ lent    = [c \in Conns |-> [p \in Calls |-> {}]]
    /\ cpc = "idle" /\ todo = {} /\ cconn = 0 /\ hand = None

-----------------------------------------------------------------------------
(* Mutants of the definitions below are named Original_Change: each is the   *)
(* definition with one plausible bug, for the run that must catch it.        *)

\* db_query no longer checks the class of its statement.
Accepted_AnyClass(r) ==
    \/ r.op = "list"
    \/ r.conn \in Conns    /\ r.op \in {"metadata", "query"} /\ r.arg # "bad"
    \/ r.conn \in AllowWrite /\ r.op = "exec" /\ r.arg = "exec"
    \/ r.conn \in AllowDDL   /\ r.op = "ddl"  /\ r.arg = "ddl"

(* What the service checks before it opens anything: the connection exists,  *)
(* the connection's configuration allows the operation, the argument is of   *)
(* the class the operation takes.                                            *)
Accepted(r) ==
    \/ r.op = "list"
    \/ r.conn \in Conns    /\ r.op = "metadata" /\ r.arg # "bad"
    \/ r.conn \in Conns    /\ r.op = "query"    /\ r.arg \in {"query", "writing"}
    \/ r.conn \in AllowWrite /\ r.op = "exec"   /\ r.arg = "exec"
    \/ r.conn \in AllowDDL   /\ r.op = "ddl"    /\ r.arg = "ddl"

\* The timeout is left out: the caller's context is used as it is.
Deadline_Never(k) == IF k \in gone THEN "done" ELSE "plain"

\* context.WithTimeout: a child of a cancelled context is born done.
Deadline(k) == IF k \in gone THEN "done" ELSE "armed"

\* ListConnections and the metadata calls start the clock before open(), the
\* statement calls after it (prepareCall).
Start(k, r) ==
    /\ pc[k] = "idle" /\ Accepted(r)
    /\ req' = [req EXCEPT ![k] = r]
    /\ cur' = [cur EXCEPT ![k] = IF r.op = "list" THEN 1 ELSE r.conn]
    /\ ctx' = [ctx EXCEPT ![k] =
                  IF r.op \in {"list", "metadata"} THEN Deadline(k) ELSE "plain"]
    /\ pc' = [pc EXCEPT ![k] = "lock"]
    /\ UNCHANGED <<gone, pool, stmt, reply, summary, poolVars, closeVars>>

Reject(k, r) ==
    /\ pc[k] = "idle" /\ ~Accepted(r)
    /\ req' = [req EXCEPT ![k] = r]
    /\ pc' = [pc EXCEPT ![k] = "done"]
    /\ reply' = [reply EXCEPT ![k] = "error"]
    /\ UNCHANGED <<cur, ctx, gone, pool, stmt, summary, poolVars, closeVars>>

-----------------------------------------------------------------------------
(* The work on the current connection is over.  A call on one connection     *)
(* returns; ListConnections records the status and goes on to the next       *)
(* connection with a fresh deadline, and never fails itself.                 *)
Return(k, ok) ==
    /\ req[k].op # "list"
    /\ reply' = [reply EXCEPT ![k] = IF ok THEN "ok" ELSE "error"]
    /\ pc' = [pc EXCEPT ![k] = "done"]
    /\ UNCHANGED <<req, cur, ctx, pool, stmt, summary>>

Record(k, ok) ==
    summary' = [summary EXCEPT ![k][cur[k]] = IF ok THEN "ready" ELSE "error"]

\* The loop over the connections runs one too far.
NextProbe_OneMore(k, ok) ==
    /\ req[k].op = "list" /\ cur[k] <= NConns
    /\ Record(k, ok)
    /\ cur'  = [cur EXCEPT ![k] = cur[k] + 1]
    /\ ctx'  = [ctx EXCEPT ![k] = Deadline(k)]
    /\ pool' = [pool EXCEPT ![k] = None]
    /\ stmt' = [stmt EXCEPT ![k] = "none"]
    /\ pc'   = [pc EXCEPT ![k] = "lock"]
    /\ UNCHANGED <<req, reply>>

NextProbe(k, ok) ==
    /\ req[k].op = "list" /\ cur[k] < NConns
    /\ Record(k, ok)
    /\ cur'  = [cur EXCEPT ![k] = cur[k] + 1]
    /\ ctx'  = [ctx EXCEPT ![k] = Deadline(k)]
    /\ pool' = [pool EXCEPT ![k] = None]
    /\ stmt' = [stmt EXCEPT ![k] = "none"]
    /\ pc'   = [pc EXCEPT ![k] = "lock"]
    /\ UNCHANGED <<req, reply>>

\* The loop stops at the first connection that fails.
LastProbe_StopOnError(k, ok) ==
    /\ req[k].op = "list" /\ (cur[k] = NConns \/ ~ok)
    /\ Record(k, ok)
    /\ reply' = [reply EXCEPT ![k] = "ok"]
    /\ pc' = [pc EXCEPT ![k] = "done"]
    /\ UNCHANGED <<req, cur, ctx, pool, stmt>>

LastProbe(k, ok) ==
    /\ req[k].op = "list" /\ cur[k] = NConns
    /\ Record(k, ok)
    /\ reply' = [reply EXCEPT ![k] = "ok"]
    /\ pc' = [pc EXCEPT ![k] = "done"]
    /\ UNCHANGED <<req, cur, ctx, pool, stmt>>

Finish(k, ok) == Return(k, ok) \/ NextProbe(k, ok) \/ LastProbe(k, ok)

-----------------------------------------------------------------------------
(* managedConnection.open, one step per access to shared state.              *)
Lock_NoWait(k) ==
    /\ pc[k] = "lock"
    /\ mu' = [mu EXCEPT ![cur[k]] = k]
    /\ pc' = [pc EXCEPT ![k] = "check"]
    /\ UNCHANGED <<req, cur, ctx, pool, stmt, reply, summary, gone,
                   db, live, lent, closeVars>>

Lock(k) ==
    /\ pc[k] = "lock" /\ mu[cur[k]] = None
    /\ mu' = [mu EXCEPT ![cur[k]] = k]
    /\ pc' = [pc EXCEPT ![k] = "check"]
    /\ UNCHANGED <<req, cur, ctx, pool, stmt, reply, summary, gone,
                   db, live, lent, closeVars>>

\* open() tests c.db and returns it when it is set.
Check(k) ==
    /\ pc[k] = "check"
    /\ pool' = [pool EXCEPT ![k] = db[cur[k]]]
    /\ pc' = [pc EXCEPT ![k] = IF db[cur[k]] # None THEN "unlock" ELSE "create"]
    /\ UNCHANGED <<req, cur, ctx, stmt, reply, summary, gone, poolVars, closeVars>>

\* sql.Open, the pool's limits, and the assignment to c.db.
Create(k) ==
    /\ pc[k] = "create"
    /\ pool' = [pool EXCEPT ![k] = k]
    /\ db' = [db EXCEPT ![cur[k]] = k]
    /\ live' = [live EXCEPT ![cur[k]] = @ \cup {k}]
    /\ pc' = [pc EXCEPT ![k] = "unlock"]
    /\ UNCHANGED <<req, cur, ctx, stmt, reply, summary, gone, mu, lent, closeVars>>

\* ensureSQLiteDir or sql.Open fails: nothing is stored.
CreateFail(k) ==
    /\ pc[k] = "create" /\ cur[k] \in Flaky
    /\ pc' = [pc EXCEPT ![k] = "unlock"]
    /\ UNCHANGED <<req, cur, ctx, pool, stmt, reply, summary, gone, poolVars, closeVars>>

Unlock(k) == mu' = [mu EXCEPT ![cur[k]] = None]

\* A connection is called ready as soon as its pool exists.
Opened_Ready(k) ==
    /\ pc[k] = "unlock" /\ pool[k] # None
    /\ Unlock(k)
    /\ Finish(k, TRUE)
    /\ UNCHANGED <<gone, db, live, lent, closeVars>>

\* open() returns a pool without unlocking.
Opened_KeepLock(k) ==
    /\ pc[k] = "unlock" /\ pool[k] # None
    /\ pc' = [pc EXCEPT ![k] = "acquire"]
    /\ ctx' = [ctx EXCEPT ![k] = IF @ = "plain" THEN Deadline(k) ELSE @]
    /\ UNCHANGED <<req, cur, pool, stmt, reply, summary, gone, poolVars, closeVars>>

Opened(k) ==
    /\ pc[k] = "unlock" /\ pool[k] # None
    /\ Unlock(k)
    /\ pc' = [pc EXCEPT ![k] = "acquire"]
    /\ ctx' = [ctx EXCEPT ![k] = IF @ = "plain" THEN Deadline(k) ELSE @]
    /\ UNCHANGED <<req, cur, pool, stmt, reply, summary, gone, db, live, lent, closeVars>>

OpenFailed(k) ==
    /\ pc[k] = "unlock" /\ pool[k] = None
    /\ Unlock(k)
    /\ Finish(k, FALSE)
    /\ UNCHANGED <<gone, db, live, lent, closeVars>>

-----------------------------------------------------------------------------
(* QueryContext, QueryRowContext and ExecContext: borrow a connection of the *)
(* pool, send the statement, wait for the answer.                            *)
Room(c, p) == MaxOpen[c] = 0 \/ Cardinality(lent[c][p]) < MaxOpen[c]

Acquire(k) ==
    /\ pc[k] = "acquire" /\ ctx[k] # "done"
    /\ pool[k] \in live[cur[k]] /\ Room(cur[k], pool[k])
    /\ lent' = [lent EXCEPT ![cur[k]][pool[k]] = @ \cup {k}]
    /\ stmt' = [stmt EXCEPT ![k] = "sent"]
    /\ pc' = [pc EXCEPT ![k] = "run"]
    /\ UNCHANGED <<req, cur, ctx, pool, reply, summary, gone, mu, db, live, closeVars>>

\* The deadline passed while waiting, the pool was closed, or the database
\* refused a new connection.
AcquireFail(k) ==
    /\ pc[k] = "acquire"
    /\ ctx[k] = "done" \/ pool[k] \notin live[cur[k]] \/ cur[k] \in Flaky
    /\ Finish(k, FALSE)
    /\ UNCHANGED <<gone, poolVars, closeVars>>

\* The database carries out a statement it was sent, whether or not the call
\* still waits for the answer, or refuses it.
Apply(k) ==
    /\ stmt[k] = "sent"
    /\ stmt' = [stmt EXCEPT ![k] = "applied"]
    /\ UNCHANGED <<req, pc, cur, ctx, pool, reply, summary, gone, poolVars, closeVars>>

Refuse(k) ==
    /\ pc[k] = "run" /\ stmt[k] = "sent"
    /\ stmt' = [stmt EXCEPT ![k] = "refused"]
    /\ UNCHANGED <<req, pc, cur, ctx, pool, reply, summary, gone, poolVars, closeVars>>

Release(k) == lent' = [lent EXCEPT ![cur[k]][pool[k]] = @ \ {k}]

ExecDone(k) ==
    /\ pc[k] = "run" /\ stmt[k] = "applied" /\ req[k].op \in {"exec", "ddl"}
    /\ Release(k)
    /\ Finish(k, TRUE)
    /\ UNCHANGED <<gone, mu, db, live, closeVars>>

\* The statement was refused, the context is done, the connection broke, or
\* RowsAffected failed: the call does not know whether the statement applied.
RunFail(k) ==
    /\ pc[k] = "run"
    /\ \/ stmt[k] = "refused"
       \/ ctx[k] = "done"
       \/ cur[k] \in Flaky
       \/ stmt[k] = "applied" /\ req[k].op = "exec"
    /\ Release(k)
    /\ Finish(k, FALSE)
    /\ UNCHANGED <<gone, mu, db, live, closeVars>>

-----------------------------------------------------------------------------
(* Rows keep the connection borrowed until they are exhausted, fail or are   *)
(* closed.                                                                   *)
GotRows(k) ==
    /\ pc[k] = "run" /\ stmt[k] = "applied" /\ req[k].op \in {"list", "metadata", "query"}
    /\ pc' = [pc EXCEPT ![k] = "rows"]
    /\ UNCHANGED <<req, cur, ctx, pool, stmt, reply, summary, gone, poolVars, closeVars>>

\* Next returned false on the last row, which closes the rows.
Exhaust(k) ==
    /\ pc[k] = "rows"
    /\ Release(k)
    /\ Finish(k, TRUE)
    /\ UNCHANGED <<gone, mu, db, live, closeVars>>

\* A metadata call sends its next statement while its rows are still open.
MoreQueries_RowsOpen(k) ==
    /\ pc[k] = "rows" /\ req[k].op = "metadata"
    /\ stmt' = [stmt EXCEPT ![k] = "none"]
    /\ pc' = [pc EXCEPT ![k] = "acquire"]
    /\ UNCHANGED <<req, cur, ctx, pool, reply, summary, gone, poolVars, closeVars>>

\* A metadata call that goes on: default schema, primary keys, columns and
\* indexes are read by statements of their own.
MoreQueries(k) ==
    /\ pc[k] = "rows" /\ req[k].op = "metadata"
    /\ Release(k)
    /\ stmt' = [stmt EXCEPT ![k] = "none"]
    /\ pc' = [pc EXCEPT ![k] = "acquire"]
    /\ UNCHANGED <<req, cur, ctx, pool, reply, summary, gone, mu, db, live, closeVars>>

\* Next returned false because of an error (the context is done, the
\* connection broke), which closes the rows too; or a metadata call read
\* everything and found no table or no default schema.
RowsFail(k) ==
    /\ pc[k] = "rows"
    /\ ctx[k] = "done" \/ cur[k] \in Flaky \/ req[k].op = "metadata"
    /\ Release(k)
    /\ Finish(k, FALSE)
    /\ UNCHANGED <<gone, mu, db, live, closeVars>>

\* The loop is left with rows unread, at the row limit of Query or by an
\* error scanning a row: the deferred rows.Close is still to come.
Leave(k, ok) ==
    /\ pc[k] = "rows"
    /\ req[k].op = "query" \/ (req[k].op = "metadata" /\ ~ok)
    /\ reply' = [reply EXCEPT ![k] = IF ok THEN "ok" ELSE "error"]
    /\ pc' = [pc EXCEPT ![k] = "leaving"]
    /\ UNCHANGED <<req, cur, ctx, pool, stmt, summary, gone, poolVars, closeVars>>

CloseRows(k) ==
    /\ pc[k] = "leaving"
    /\ Release(k)
    /\ pc' = [pc EXCEPT ![k] = "done"]
    /\ UNCHANGED <<req, cur, ctx, pool, stmt, reply, summary, gone, mu, db, live, closeVars>>

-----------------------------------------------------------------------------
(* Time passes, and clients go away.                                         *)
Expire(k) ==
    /\ pc[k] # "done" /\ ctx[k] = "armed"
    /\ ctx' = [ctx EXCEPT ![k] = "done"]
    /\ UNCHANGED <<req, pc, cur, pool, stmt, reply, summary, gone, poolVars, closeVars>>

HangUp(k) ==
    /\ k \in MayHangUp \ gone /\ pc[k] \notin {"idle", "done"}
    /\ gone' = gone \cup {k}
    /\ ctx' = [ctx EXCEPT ![k] = IF @ = "armed" THEN "done" ELSE @]
    /\ UNCHANGED <<req, pc, cur, pool, stmt, reply, summary, poolVars, closeVars>>

-----------------------------------------------------------------------------
(* Close: connection after connection in the order the map is ranged over.   *)
CloseStart ==
    /\ cpc = "idle"
    /\ cpc' = "next" /\ todo' = Conns
    /\ UNCHANGED <<callVars, gone, poolVars, cconn, hand>>

CloseNext(c) ==
    /\ cpc = "next" /\ c \in todo
    /\ cpc' = "lock" /\ cconn' = c
    /\ UNCHANGED <<callVars, gone, poolVars, todo, hand>>

CloseLock ==
    /\ cpc = "lock" /\ mu[cconn] = None
    /\ mu' = [mu EXCEPT ![cconn] = Closer]
    /\ cpc' = "take"
    /\ UNCHANGED <<callVars, gone, db, live, lent, todo, cconn, hand>>

CloseTake ==
    /\ cpc = "take"
    /\ hand' = db[cconn]
    /\ db' = [db EXCEPT ![cconn] = None]
    /\ cpc' = "unlock"
    /\ UNCHANGED <<callVars, gone, mu, live, lent, todo, cconn>>

CloseUnlock ==
    /\ cpc = "unlock"
    /\ mu' = [mu EXCEPT ![cconn] = None]
    /\ cpc' = "shut"
    /\ UNCHANGED <<callVars, gone, db, live, lent, todo, cconn, hand>>

\* sql.DB.Close of the pool taken: waiters and later callers are refused,
\* statements in progress keep the connection they hold.
CloseDB ==
    /\ cpc = "shut"
    /\ live' = [live EXCEPT ![cconn] = @ \ {hand}]
    /\ hand' = None
    /\ todo' = todo \ {cconn}
    /\ cpc' = "next"
    /\ UNCHANGED <<callVars, gone, mu, db, lent, cconn>>

CloseEnd ==
    /\ cpc = "next" /\ todo = {}
    /\ cpc' = "done"
    /\ UNCHANGED <<callVars, gone, poolVars, todo, cconn, hand>>

-----------------------------------------------------------------------------
\* Everything a call does between its start and its return, except taking
\* the mutex.
Step(k) ==
    \/ Check(k) \/ Create(k) \/ CreateFail(k) \/ Opened(k) \/ OpenFailed(k)
    \/ Acquire(k) \/ AcquireFail(k) \/ ExecDone(k) \/ RunFail(k)
    \/ GotRows(k) \/ Exhaust(k) \/ MoreQueries(k) \/ RowsFail(k)
    \/ (\E ok \in BOOLEAN : Leave(k, ok)) \/ CloseRows(k)

Database(k) == Apply(k) \/ Refuse(k)

CloseStep ==
    \/ (\E c \in Conns : CloseNext(c))
    \/ CloseTake \/ CloseUnlock \/ CloseDB \/ CloseEnd

\* Every call has returned and Close is over: the service may stay so.
Quiesced ==
    /\ cpc = "done" /\ \A k \in Calls : pc[k] = "done"
    /\ UNCHANGED vars

CallNext(k) == Lock(k) \/ Step(k) \/ Database(k) \/ Expire(k) \/ HangUp(k)

Next ==
    \/ \E k \in Calls, r \in Requests : Start(k, r) \/ Reject(k, r)
    \/ \E k \in Calls : CallNext(k)
    \/ CloseStart \/ CloseLock \/ CloseStep
    \/ Quiesced

\* The Go scheduler runs every runnable goroutine, a sync.Mutex passes to
\* each waiter in turn once it has starved, and clocks advance.  Nothing is
\* assumed of the databases or of the callers.
Fairness ==
    /\ \A k \in Calls : WF_vars(Step(k)) /\ SF_vars(Lock(k)) /\ WF_vars(Expire(k))
    /\ WF_vars(CloseStep) /\ SF_vars(CloseLock)

Spec     == Init /\ [][Next]_vars
FairSpec == Spec /\ Fairness

-----------------------------------------------------------------------------
\* Every variable holds a value of its kind (service.go: the fields of
\* managedConnection and the locals of the calls).
TypeOK ==
    /\ req \in [Calls -> Requests \cup {None}]
    /\ pc \in [Calls -> PCs]
    /\ cur \in [Calls -> 0..NConns]
    /\ ctx \in [Calls -> {"plain", "armed", "done"}]
    /\ gone \subseteq Calls
    /\ pool \in [Calls -> Calls \cup {None}]
    /\ stmt \in [Calls -> {"none", "sent", "applied", "refused"}]
    /\ reply \in [Calls -> {"none", "ok", "error"}]
    /\ summary \in [Calls -> [Conns -> {"none", "ready", "error"}]]
    /\ mu \in [Conns -> Calls \cup {Closer, None}]
    /\ db \in [Conns -> Calls \cup {None}]
    /\ live \in [Conns -> SUBSET Calls]
    /\ lent \in [Conns -> [Calls -> SUBSET Calls]]
    /\ cpc \in {"idle", "next", "lock", "take", "unlock", "shut", "done"}
    /\ todo \subseteq Conns
    /\ cconn \in 0..NConns
    /\ hand \in Calls \cup {None}

\* A pool that is open is reachable: it is its connection's c.db, or Close has
\* just taken it out and is about to close it.  No interleaving of first uses
\* and Close drops a *sql.DB with its sockets still open.
NoOrphanPool ==
    \A c \in Conns : \A p \in live[c] :
        \/ db[c] = p
        \/ cconn = c /\ hand = p /\ cpc \in {"unlock", "shut"}

\* A call holds a connection of a pool exactly while it runs a statement or
\* has rows open on that pool.  So no path out of a call leaks a connection,
\* and a call never waits for a connection while it holds one (with
\* max_open_conns: 1 it would wait for itself until its deadline).
Holding == {"run", "rows", "leaving"}
LentWhileRunning ==
    \A c \in Conns : \A p \in Calls :
        lent[c][p] = {k \in Calls : pc[k] \in Holding /\ cur[k] = c /\ pool[k] = p}

\* When ListConnections returns it has a status for every configured
\* connection, however many of the probes failed on the way.
ListingComplete ==
    \A k \in Calls : (pc[k] = "done" /\ req[k].op = "list") =>
        reply[k] = "ok" /\ \A c \in Conns : summary[k][c] # "none"

\* ListConnections calls a connection ready only on the strength of a probe
\* statement of its own that the database of that connection carried out.
ReadyIsEarned ==
    [][\A k \in Calls, c \in Conns :
          summary[k][c] # "ready" /\ summary'[k][c] = "ready"
             => cur[k] = c /\ stmt[k] = "applied"]_vars

\* Every call returns, whatever the database does: the mutex, a full pool, a
\* pool closed under it, a silent server or a long result can delay it but
\* not hold it for ever.
EveryCallReturns ==
    \A k \in Calls : pc[k] # "idle" ~> pc[k] = "done"

\* Close, once begun, ends although calls still hold pool connections.
CloseEnds == cpc # "idle" ~> cpc = "done"

-----------------------------------------------------------------------------
(* What a call promises its caller: the contract of module CallContract.     *)
Mutating(r) == r.arg \in {"writing", "exec", "ddl"}

\* db_query is for read-only statements (README 209, tools/db_query.yml): what
\* a database carries out for it changes nothing.  The code only looks at the
\* first keyword, so this is not what it does.
ReadOnlyQueries ==
    \A k \in Calls :
        stmt[k] = "applied" /\ req[k].op = "query" => ~Mutating(req[k])

\* The rule the README gives for the tools, independently of the guards above.
Permitted(r) ==
    /\ <<r.op, r.arg>> \in {<<"list", "none">>, <<"metadata", "none">>,
                            <<"query", "query">>, <<"exec", "exec">>, <<"ddl", "ddl">>}
    /\ r.op # "list" => r.conn \in Conns
    /\ r.op = "exec" => r.conn \in AllowWrite
    /\ r.op = "ddl"  => r.conn \in AllowDDL

\* What the rule forbids and the classifier does not see.
Slips(r) == r.op = "query" /\ r.arg = "writing" /\ r.conn \in Conns

Contract == INSTANCE CallContract WITH
    AcceptedReqs <- {r \in Requests : Permitted(r) \/ Slips(r)},
    MutatingReqs <- {r \in Requests : Mutating(r)},
    ChangeReqs   <- {r \in Requests : r.op \in {"exec", "ddl"}},
    want   <- req,
    phase  <- [k \in Calls |-> IF pc[k] = "idle" THEN "idle"
                               ELSE IF pc[k] = "done" THEN "replied" ELSE "pending"],
    effect <- {k \in Calls : req[k] # None /\ Mutating(req[k]) /\ stmt[k] = "applied"},
    answer <- [k \in Calls |-> IF pc[k] = "done" THEN reply[k] ELSE "none"]

\* The service implements the contract: a database is changed only by an exec
\* or a ddl statement that the connection allows, sent by the tool of its
\* class, or by a query whose change its first keyword hides; a call changes
\* data at most once, the ok of db_exec and db_ddl means that it did, and
\* nothing changes before the call or after an ok.
ImplementsContract == Contract!Spec
=============================================================================
