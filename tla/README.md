# A verification project for mcp-server-database

This directory holds TLA+ models of `mcp-server-database`, a server that gives
MCP clients access to MySQL, PostgreSQL and SQLite databases: what the program
does, the properties that make it correct, the TLC runs that check them on
small instances, and theorems, checked by TLAPS, for instances of every size.

`PROJECT.json` is the index: which lines of the source each definition stands
for, what each run checks, which hazard of the code each property is about,
and for each property a plausible bug it catches.

## 1. The system

A client sends a JSON-RPC request over HTTP (one goroutine per request) or over
stdin/stdout (one at a time). The dispatcher finds the tool, validates the
arguments and calls its handler, which calls the database service. The service
opens a connection pool for the named connection on first use and sends one or
several statements to the database.

    client -- http_controller -- rate_limit_middleware --+
                                                         |-- dispatcher -- registry -- db_handlers
    client -- stdio_controller --------------------------+                                 |
                                                                                database.Service
    main: loads, listens, shuts down, closes the service                         |  per connection:
                                                                                 |  mutex, c.db, dialect
                                                                          database/sql pools

### Inventory

| Component | State | Operations | What is hard | What makes it correct |
|---|---|---|---|---|
| `internal/database/service.go` | per connection: mutex, `db` (lazily opened `*sql.DB`); the pool's lent connections; per call: deadline, statement, rows | `ListConnections`, the four metadata calls, `Query`, `Exec`, `DDL`, `Close` | first uses of a connection race each other and `Close`; a deadline passes while a statement is at the database; rows keep a pool connection; probes fail one by one | no pool is lost, no pool connection leaks, no call waits for itself, every call returns; a change is made only where it is permitted or hidden in a query (see Findings), at most once, never after an ok |
| `dialect_*.go` | none; statements on the pool | probe, default schema, schemas, tables, describe, indexes | several statements per call, each with rows to close, while other clients change the tables | as above; what nobody changed is described as it is |
| `sql_classifier.go` | the text being read | strip comments, reject several statements, classify | lookahead and escapes; one lexer for three dialects | what is sent is the client's text without its comments, one statement of the class it says |
| `catalog.go` | the connections read from YAML | load a file or a directory, validate, resolve driver | the directory loader validates twice; names in several spellings | a directory means what one file with all its connections means; each connection is found under its name; all or nothing |
| `connection_error.go` | none | hide secrets in an error text | | |
| `cmd/mcp-server/main.go` | server goroutine, its channel, signal context, shutdown timer | serve, shut down, deferred `Close` | signal, listener failure, slow requests and the timer in any order | the process ends; `Close` never meets a call; success means clean |
| `http_controller.go` | a request | read, decode, dispatch, write | a client that goes away | one response per request |
| `rate_limit_middleware.go` | a token bucket per client key | `allow` | the clock is read outside the mutex, so requests reach the bucket out of order | burst and rate are never exceeded, a polite client is served |
| `stdio_controller.go` | the input stream, its framing | read a frame, dispatch, write a frame | input ending inside a frame, failing writes | one response per frame in order, a cut payload is noticed |
| `dispatcher.go`, `registry.go`, `db_handlers.go` | the tools, read-only after start | list, find, validate, execute | which failure becomes which response | every outcome is reported as what it is |
| `mcp/spec`, `mcp/schema`, `mcp/args`, `jsonutil` | none after start | load, compile, convert | conversions that fail | specifications and handlers match one to one |
| `config.go`, `observability` | none | read the environment, log | | |

The hazards this code is exposed to, each with its line and the properties that
would catch it, are listed under "hazards" in `PROJECT.json`.

## 2. The modules

| Module | Models |
|---|---|
| `DatabaseService` | the service: calls, mutexes, pools, statements, rows, deadlines, clients going away, `Close` |
| `CallContract` | the abstract specification of one call of the service |
| `ServerLifecycle` | the process around it: listener, signal, shutdown, exit; composes with `DatabaseService` by extending it |
| `QueryResult` | the row loop of `Query`, its cells, and the encoding of the result |
| `MetadataReads` | what `DescribeTable` and `ListIndexes` answer in each dialect while other clients change the tables |
| `SqlClassifier` | the lexer of statements, and the lexical rules of the three databases |
| `RateLimiter` | the token buckets |
| `StdioServer` | the stdio transport, with the dispatcher's outcomes and main's stdio branch |
| `ConnectionCatalog` | loading and validating the connections, and the service's map of them |
| `ToolRegistry` | loading and validating the tool specifications, and their match with the handlers |
| `Startup` | main up to serving; composes the two before by extending them |
| `Places` | parts of a sequence by the places of their elements, for `MetadataReads` |
| `ServiceProofs` | theorems and proofs about `DatabaseService` and `ServerLifecycle` |
| `RateLimiterProofs`, `QueryResultProofs`, `MetadataProofs`, `ClassifierProofs`, `StdioProofs`, `StartupProofs` | theorems and proofs about the module of that name |
| `SequenceFacts` | lemmas about numbers, sequences and their concatenation that several of these proofs cite |
| `MC*` | the constants of the TLC runs |

Three modules look inside a step that `DatabaseService` takes as one or leaves
open: `SqlClassifier` is what gives a request its class (`Accepted`),
`QueryResult` is the loop between `GotRows` and `Leave` with the handler after
the call, `MetadataReads` is the sequence of statements `MoreQueries` stands
for. `StdioServer` relies on the service through the assumption that a handler
returns, which is `DatabaseService!EveryCallReturns`.

In every module an operator named `Original_Change`, placed before `Original`,
is a mutant: the definition with one plausible bug in it. No specification
uses one; they show that a property can fail.

### DatabaseService

A call is a goroutine in one method of `Service`. Its `pc` says where it is:

| `pc` | Code |
|---|---|
| `idle` | not made yet |
| `lock`, `check`, `create`, `unlock` | `managedConnection.open` (service.go 379-406), one step per access to shared state |
| `acquire` | waiting in `QueryContext`, `QueryRowContext` or `ExecContext` for a pool connection |
| `run` | the statement is at the database |
| `rows` | `sql.Rows` are open |
| `leaving` | the result is decided, the deferred `rows.Close` is still to run |
| `done` | returned |

- `Start` and `Reject` are the checks before anything is opened. The SQL text
  of a request is only the class `ClassifyStatement` gives it, which is that of
  its first keyword; `writing` stands for what has the class of a query and
  changes data all the same (`WITH d AS (DELETE ... RETURNING *) SELECT ...`,
  `EXPLAIN ANALYZE DELETE ...`, `PRAGMA x = y`, a `SELECT` of a function that
  writes). `Accepted` lets it through as a query, as the code does. A name that
  is blank or unknown is connection 0. `Start` also fixes when the clock starts:
  the metadata calls and each probe start it before `open()`, so waiting for
  the mutex counts; `Query`, `Exec` and `DDL` start it after (`prepareCall`),
  and a client that went away meanwhile is noticed only there.
- `Lock`, `Check`, `Create`, `CreateFail`, `Opened`, `OpenFailed` are `open()`.
  `sync.Mutex` cannot be interrupted, so `Lock` does not look at the context. A
  pool is named by the call that created it.
- `Acquire` ... `CloseRows` are one statement: borrow, send, answer, rows, give
  back. `Apply` and `Refuse` are the database. `Apply` does not ask whether
  the call still waits: a statement whose call has timed out may still be
  carried out.
- `MoreQueries` is a metadata call going on to its next statement after its
  rows are closed; how many it sends is left open, which covers the three
  dialects.
- `Finish` is the end of the work on one connection: a return (`Return`), or in
  `ListConnections` a recorded status and the next connection with a fresh
  deadline (`NextProbe`, `LastProbe`).
- `Expire` and `HangUp` are the deadline and the HTTP client going away.
- `CloseStart` ... `CloseEnd` are `manager.Close` (service.go 81-95): under the
  mutex it takes `c.db` and sets it to nil; it closes the pool afterwards. The
  code ranges over a map, so the order of the connections is left open. `Close`
  may run at any time here; that main does not let it is a fact about
  `ServerLifecycle`.

External code appears only as what the service relies on: a `sql.DB` lends at
most `MaxOpen` connections and refuses once closed; a driver gives up when its
context is done; a database applies, refuses or ignores a statement.

### CallContract

What a caller may rely on: a call is refused at once or pending until it is
answered once; a permitted change may take effect, once, at any time after the
call was made and before an ok; an error says nothing about the change. It does
not mention pools, mutexes or statements. `DatabaseService!ImplementsContract`
instantiates it: `want` is the request, `phase` is read off `pc`, `effect` is
the set of mutating calls whose statement is applied, `answer` the reply of a
call that has returned. The permitted requests are given by `Permitted`, which
states the rule of the repository's README (line 209) on its own and not by the
guards of the code, so that the refinement compares the two. They do not agree:
`Slips` names what the rule forbids and the code carries out, queries of class
`writing`, and the contract is kept with these requests added. That they are
the only ones is what `ImplementsContract` says; that they should not be there
is `ReadOnlyQueries`, which fails (see Findings). An ok promises a change only
of the requests made for it (`ChangeReqs`, `db_exec` and `db_ddl`): a database
may undo the change of a query whose rows the caller did not read to the end.

### ServerLifecycle

`main` is main's position in `runHTTPServer` and its deferred call, `serve` and
`serverErr` the server goroutine and its buffered channel, `timer` the context
of `Shutdown`, `conn` one client connection per call. The steps of
`DatabaseService` happen inside `Handle`, `HandlerStep`, `LateEffect`,
`MainReturns` and `ServiceCloses`, each only when the process lets it.
`log.Fatalf` exits without running deferred calls (`Fatal`).
`net/http.Server.Shutdown` stops accepting, waits until no connection is
active and does not cancel running requests. The start before it is `Startup`;
a signal that arrives before `signal.NotifyContext` is called kills the process
and is not modelled.

### QueryResult

`table` is what the database has for the statement. `FetchRow`, `OverLimit` and
`Exhausted` are one turn of the loop each (service.go 233-257); `Interrupted`
is an iteration that breaks off, which only `rows.Err` tells; `Return` is the
check of `rows.Err` and the handler's `jsonutil.ToMap`, which encodes the
result and decodes it as generic JSON. A text is a sequence of bytes with
one-byte and two-byte characters and bytes that belong to none. A number is an
int64 or a uint64 and comes back as the nearest `float64` (`Rounded`), which
is the number itself from `-Exact` to `Exact`; `Exact` stands for 2^53. Of the
columns of one name a row shows the last (`Shown`). A cell may be a NaN, for
which there is no JSON: the client then gets an empty result without an error.
`RowsDelivered` says of each single cell whether it must arrive as it was
(`Plain`), whatever the cells beside it are, and asks for all rows unless one
of them has a NaN; without that exception it is `RowsReturned`, which fails.

### MetadataReads

`schema` is the database: tables with columns, keys and indexes. Each action is
one statement of the call (one for each dialect's sequence of them), true of
the moment it runs; `Change` is any other client, between any two; `seen` is a
history variable. SQLite's `index_info` is asked by the index's name alone, so
what it returns may belong to another table by then. A computed column of an
index is `Expression`: MySQL and PostgreSQL leave it out, SQLite's reading
fails (`IndexInfoFails`). PostgreSQL's list of columns is joined by commas and
split again (`ColumnsOf`).

### SqlClassifier

`Default`, `Quoted`, `Backtick`, `LineComment` and `BlockComment` are the
states of the scan, one or two characters per step as in the code; `Ended` is
everything after the loop. The properties compare it with `Pieces`, a division
of a text into quoted texts, comments and characters that is said without a
scan, as the first end there is, and that takes the rules as a parameter: the
classifier's own (`Own`) or a database's (`Dialects`). `Divisions` has it from
each character on.

### StdioServer

The stream is a sequence of units of equal length, so a `Content-Length` may be
right, too short or too long, and a payload read at a wrong place is seen as
part of a header line or of another payload. `HeaderLine` to `PayloadEOF` are
`readFrame`, `Handle` is `handlePayload` with all outcomes of the dispatcher,
`WriteHead`, `WriteBody` and `WriteFails` are `writeFrame`. The input may end
or fall silent anywhere, and writing may fail at either of the two writes.

### ConnectionCatalog, ToolRegistry, Startup

`ConnectionCatalog` is `LoadCatalog` with one action per directory entry
(`NextEntry`, and `EntryGone` for a file that was found or listed and is gone
when it is read, which the history variable `vanished` remembers) and
`NewService`. `Valid` and `Validated` are `validateCatalog`, used for each
file and once more for all of them (`Aggregate`). A name is its letters with
two flags, for capitals and for blanks around it, so that names which differ in
spelling only exist; a URL is what the checks ask of it. The sort at the end of
`validateCatalog` is said by where each connection ends up (`Position`): as
many places from the start as there are connections that do not come after it.
A tool file has its place in the order `LoadFromPattern` reads in (`rank`), and
the next one is the `Nearest` of those not read. `ToolRegistry` is
`NewRegistry`: `ReadSpec`, `Validate`, `Register` and `Finish` in the code's
order. `Startup` is `main` until it serves: the catalog first, then the tools,
an error of either is fatal. It states soundness of the files (`SoundPlace`,
`SoundTools`) on its own, from the repository's README, without the order of
the code's checks. `Sound` refuses a username or password for SQLite, as
line 89 there does; the code does so beside a `url` only, and `Overlooked` names
the connections with a `dsn` that it lets pass. A start that is given up must
have a reason in the files, or `vanished` must be the very entry it was at.

### RateLimiter

`Stamp` is `time.Now()` evaluated as an argument, `Allow` the body under the
mutex, so requests are decided in any order of their timestamps. Time is in
ticks of 1/`Res` second and tokens in parts of 1/`Res`, which makes the
arithmetic exact; the rounding of `float64` is left out. `first` and `admitted`
are history variables. `Polite` is an assumption about clients: the keys in
`Keeping` send a token's time apart, and never more in progress than the burst;
`Keeping` may be empty.

## 3. The runs

| Run | Instance | Question |
|---|---|---|
| `ServiceTwoConns` | 2 calls, 2 connections (one allows everything and lends 1, the other nothing, without limit, and may fail), `Close` at any time; a listing, metadata, a query that writes, an exec, and two refusals | `NoOrphanPool`, `LentWhileRunning`, `ListingComplete`, `ReadyIsEarned`, `ImplementsContract`, types |
| `ServiceReadOnly` | queries, one of which writes, on a connection that allows nothing | `ReadOnlyQueries`, which fails (see Findings) |
| `ServiceReturns` | 2 calls, one of whose clients may go away, 1 connection, fairness | `EveryCallReturns`, `CloseEnds` |
| `ServerShutdown` | 2 clients that may go away, 2 connections, signal, listener failure, timeout, fairness | `CloseRunsAlone`, `CleanExit`, types, `ExitsAfterSignal` |
| `Limiter` | 5 requests of 2 clients, one polite, over 6 ticks | `RateBound`, `PoliteServed`, bucket between empty and full |
| `Classifier` | texts of up to 3 characters over 13 sorts, `select` with 4 more of ten sorts, `select` with 6 more of the comment marks | `CutsComments`, `Settled`, `WordsKept` |
| `ClassifierRewrites` | `select a`, up to 3 of `#`, `-`, blank, `a` | `NotRewritten`, which fails (see Findings) |
| `Result` | up to 3 rows with a limit of 2 and each `max_rows` around it, with one name for two columns too; one row with each text of up to 5 bytes and a limit of 3 beside numbers of both signs within and beyond `Exact`, a null, a NaN | `CutIsTold`, `WholeCharacters`, `RowsDelivered` |
| `ResultLost` | the same results | `RowsReturned`, which fails (see Findings) |
| `Stdio` | 1 to 3 messages, well framed and not, each kind of request, cut anywhere, fairness | `AnsweredInOrder`, `CutIsNoticed`, `EveryFrameAnswered` |
| `Startup` | each kind of connection alone; two connections in one file or in two, each pair of names; each pair of specifications | `DirectoryIsOneFile`, `EachUnderItsName`, `ToolsAreCallable`, `StartsOnSoundFiles` |
| `Metadata` | 15 states of a database of 2 tables, 2 changes during a call | `UnchangedIsExact`, `IndexesKept`, `FoundIfThere` |

**Why the bounds are enough.** The mutex, `c.db` and the pool belong to one
connection, and nothing links two of them but `ListConnections` and `Close`,
which visit them one after the other: two connections show a visit that
succeeds next to one that fails. Two calls and `Close` give the three actors
that can hold, want and take away one pool. Clients that go away are in
`ServiceReturns` and `ServerShutdown`; in `ServiceTwoConns` a deadline ends a
call in the same places. `max_open_conns: 1` is the smallest pool and the only
one in which a call could wait for itself; the unlimited pool is the
other boundary. Each call is made once: a client's next request is another
call. Rates and burst of the limiter are chosen so that the refill is not a
divisor of a token (2 parts per tick of 3, 3 of 5), that the burst can be used
up, and that a bucket fills up to its cap within the bounded clock. The
safety properties do not rest on these bounds at all: they are proved
(section 4), and their runs show that they can fail and are not empty. What
such a run has to reach is chosen as follows. The classifier looks one
character ahead and keeps no more than one state, so what can go wrong shows
within a handful of characters around a mark; block comments need four marks
and get six. Two rows are the smallest limit with a first row, a last one and one too many; three
bytes cut a character of two in the middle and at its end; of the numbers with
`Exact` 8, -8 is the last of its side that stays, -9 the first that changes,
and 37 lies where one `float64` is 8 from the next. A third message
follows a frame that was answered and one that was not. Two files are enough
for validation of each and of both, and names clash in pairs. Two changes are
a change and its undoing, or an index dropped and made again on another table.

**Fairness.** `FairSpec` gives weak fairness to the steps of each call and of
`Close`: the Go scheduler runs every runnable goroutine, and a driver whose
context is done returns. It gives strong fairness to taking the mutex:
`sync.Mutex` switches to first-in-first-out once a waiter has starved for a
millisecond. `Expire` is weakly fair: deadlines come. It gives none to
`Apply`, `Refuse`, `HangUp` or to making calls: databases and clients may be
silent for ever. `Step` contains the success of `Acquire` and the reading of
rows; no property needs them, since the deadline ends the wait anyway
(the mutant without deadlines is caught). `sql.DB` hands connections out first
come, first served; the model does not assume it. A long result could be read
for ever by `MoreQueries` if the deadline did not come. `FairServerSpec` is
fair to main, the server goroutine and the shutdown timer only: a handler may
hang. `StdioServer!FairSpec` gives weak fairness to the loop, whose handlers
return (`EveryCallReturns`); a client that neither reads its answers nor closes
its end would block a write and is left out. It gives none to the client: the
input may fall silent for ever.

**What the liveness result rests on.** A driver that ignores its context would
hold a call. The three drivers named in `go.mod` honour it; that is an
assumption about external code.

**No deadlock.** All runs check deadlock. The final states stutter explicitly
(`Quiesced`, `Exited`, `Over`, `Idle`, `Classified`, `Returned`), and only when
every call has returned and Close is over, the process is gone, the clock is at
its bound, input is awaited, or the one call the module is about has its answer.

### Findings

Three things that the repository says of the program are not so.

**A statement is rewritten.** `ClassifierRewrites` shows that the text that
reaches the database is not always the client's in that database's SQL. The
repository's README says that the tools take the target database's native SQL and do not rewrite it
(line 210). The lexer has one set of comment rules: `#` begins a comment in
MySQL only, and is an operator in PostgreSQL, whose `select a#a` is sent as
`select a`; MySQL takes `--` for a comment only before a blank, and `5--3` is
cut to `5`. `WordsKept` is the part of the promise that holds: when a database
divides the text as the classifier does, it reads what the client wrote, except
where a block comment stood between two characters without a blank, because
nothing is left in its place.

**A query may write.** The README (line 209) and `tools/db_query.yml` (lines 5
and 14) say that `db_query` is for read-only statements. The classifier goes by
the first keyword, and `WITH`, `EXPLAIN` and `PRAGMA` make a query of whatever
follows (sql_classifier.go 39); `ServiceReadOnly` shows the change being made
on a connection with `allow_write` and `allow_ddl` false. `ImplementsContract`
is what remains of the promise, for every interleaving: such queries are the
only way round the permissions.

**Rows are lost with one cell.** `tools/db_query.yml` (line 5) says that rows
are returned as structured JSON. JSON has no NaN and no infinity; when a cell
is one, `jsonutil.ToMap` (convert.go 7) drops the error of the encoding and
gives an empty map, and the client of `ResultLost` gets a success without rows,
the good rows gone as well. `RowsDelivered` is the part that holds.

## 4. The proofs

The constants are assumed to be what the code makes them, and nothing else is
assumed; no fairness. TLC evaluates each assumption in the runs of its module.

| Assumption | Says |
|---|---|
| `ServiceAssumption` | a positive number of connections, permissions and limits given for them, `Closer` and `None` distinct from calls and requests |
| `LimiterAssumption` | integers, a positive resolution, finitely many requests; rate and burst may be any integers, as the defaults of `newRateLimiter` replace unusable ones |
| `ResultAssumption` | positive limits, as `normalizeOptions` leaves them; a row has a cell for each column, of the sorts `Cells` lists; its texts are any sequences of bytes, its numbers lie in the range of an int64 or uint64 (`Numbers`) |
| `MetadataAssumption` | in each state of the database the columns of a table and its indexes have distinct names, a table without columns (one that is not there) has no indexes, and the places of a primary key are 1, 2 and so on |
| `ClassifierAssumption` | a text is a sequence of strings, each of which stands for a character or a word |
| `StdioAssumption` | what clients may write is some set of sequences of at most `MaxMessages` messages, each any finite sequence of `Units` |
| `RegistryAssumption` | finitely many handlers, at least one, with names that are normalized and not empty |
| `StartupAssumption` | the files are of the types the YAML decoder fills; a place that is a file is that one file |

| Theorem | Says | Along |
|---|---|---|
| `TypeCorrect` | `Spec => []TypeOK` | `TypeInv`: with `Located`, a call under way has a configured connection; without it `cur + 1` could leave the range |
| `PoolsNeverOrphaned` | `Spec => []NoOrphanPool` | `PoolInv`: `Guarded` says that who is between lock and unlock holds the mutex, and that a call about to create found `c.db` nil and it still is; `NoOrphanPool` alone says nothing about what a creating call overwrites |
| `ConnectionsReturned` | `Spec => []LentWhileRunning` | `LentInv`: inductive with the types, because it is an equality: it fixes whom `Release` removes |
| `ListingsComplete`, `ReadyEarned` | `Spec => []ListingComplete`, `Spec => ReadyIsEarned` | `ListInv`: the loop has a status for the connections before `cur`, open rows come from a statement that was carried out, and a probe never leaves rows unread |
| `ServiceImplementsContract` | `Spec => ImplementsContract` | `EffectInv`: a mutating call has sent nothing before `run`, one that is made for its change has no rows and does not decide on ok before its statement is applied, and a query has rows only of a statement that was carried out, so that none is carried out after an ok; then each action maps to a contract action or a stutter (`FinishSteps`, `ApplySteps`, `CallSteps`, `EnterSteps`) |
| `ServerRunsService` | `ServerSpec => Spec` | each process step is a service step or leaves the service alone; so the theorems above hold of the process |
| `ServerTypeCorrect` | `ServerSpec => []ServerTypeOK` | inductive by itself |
| `CloseMeetsNoCall` | `ServerSpec => []CloseRunsAlone` | `Accounted`: a call under way has an open client connection, and past `Shutdown` there is none and no listener to make one |
| `SuccessIsClean` | `ServerSpec => []CleanExit` | `Swept`: what `Close` has passed stays closed; uses `CloseRunsAlone` (no call opens a pool behind it) and `NoOrphanPool` (the pool taken is the only one open) |
| `LimiterTypeCorrect` | `Spec => []TypeOK` | a refill ends between what there was and the burst (`Refill`) |
| `RateBounded` | `Spec => []RateBound` | `RateBound` with the types: what was served plus what is left grows by no more than the clock of the bucket earns, and that clock never goes back |
| `PoliteClientsServed` | `Spec => []PoliteServed` | `PoliteInv` of each polite client: between two of its stamps time for a token for each request has passed (`Spaced`), the bucket's clock is the latest stamp decided (`Clocked`), and the bucket holds a token for each waiting request that clock has already passed (`Reserved`): a refill pays for the requests it passes. Cardinalities of sets of requests carry the argument |
| `TruncationIsTold` | `Spec => []CutIsTold` | `ResultInv`: the rows so far are the first rows of the table, each by `Row`; `truncated` says exactly whether one of them was cut or a row was left; `broken` keeps an interrupted loop from an ok |
| `TextStaysWhole` | `Spec => []WholeCharacters` | `CutIs`: `CutAt` is the last boundary between characters up to the limit, by cases on a text within the limit and one beyond it (`ShortText`, `LongText`); so what is kept of a text is never more than the limit and less than one character short of it. `DeliverInv` carries it to the client: the reply is made of the collected rows |
| `PlainResultsArrive` | `Spec => []RowsDelivered` | the same invariant, cell by cell: what is shown under a name is the last column of that name (`OwnCell`, `LastColumn`), and what the handler's round trip through JSON does to a plain cell is nothing (`GivenCell`, `PlainCell`, `PlainDelivered`), whatever becomes of the cells beside it |
| `FoundTablesWereThere`, `UnchangedIsDescribed` | `Spec => []FoundIfThere`, `Spec => []UnchangedIsExact` | `DescribeInv`: the history `seen` has every state the call lived through, and key and columns are each what one of these states gives (`InPieces` for MySQL and PostgreSQL, `AtOnce` for SQLite). If the table is the same in all of them the two pieces fit |
| `IndexesAreKept` | `Spec => []IndexesKept` | `IndexInv`. For MySQL and PostgreSQL the answer is of one moment (`OfOneMoment`). For SQLite, `Reading`: tables are divided into those still to do and those read, every entry noted comes from an index of some moment, an index that is always there is in one of the two lists (`Noted`), and no entry is there twice (`Apart`), without which a second one could stand for the index it shadows |
| `CommentsAreCut` | `Spec => []CutsComments` | `ScanInv`: outside, what is kept so far and what the rules keep from here on are together what they keep of the text; inside a quoted text or a comment that is so at the place where it began, and the scan has not passed its first end. Inside a quote it also knows that the next character is not escaped, for which `EscapedIs` counts the backslashes before it. What the rules keep from a place on (`Rest`) is the recursive function of `Divisions`, which exists by induction from the end of the text (`DivisionsIs`) and unfolds piece by piece (`RestIs`) |
| `SentSettles`, `WordsAreKept` | `Spec => []Settled`, `Spec => []WordsKept` | what `CutsComments` says of the verdict, with the input unchanged (`InputIs`), and an argument about texts given below |
| `AnswersInOrder`, `CutsAreNoticed` | `Spec => []AnsweredInOrder`, `Spec => []CutIsNoticed` | `StdioInv`: heads and bodies alternate and only the last answer may lack its body (`InTurn`); the nth answer is one to the nth message (`Answered`). That is inductive only with `Synced`: while all messages answered were frames, the loop has read exactly to the end of them and is in the next one, at the place, with the length and with the payload that its units give (`InFrame`) |
| `DirectoriesAreOneFile` | `Spec => []DirectoryIsOneFile` | `CatalogInv` with `Loading`: the list made so far has, normalized, the connections of the entries done and no others. Two lists with the same connections and distinct names are sorted into one (`SameConnections`, from `PositionIsRank`), and by `SecondPass` the second validation accepts what the first has made |
| `SecondPass` | what `validateCatalog` made of a valid connection is valid, and unchanged by a second pass | the URL is dropped when the DSN is made of it, and the driver it resolved is one it knows |
| `ConnectionsAreFound` | `Spec => []EachUnderItsName` | the same invariant once the map is made: the sort is a bijection (`PositionsAre`, `ValidatedIs`), so the map has one key for each connection (`MapIs`) |
| `ReadyToolsAreCallable` | `Spec => []ToolsAreCallable` | `RegistryInv`: specifications, registrations and the handlers that are left divide the handlers (`Matched`), names of registrations differ |
| `SoundFilesStart` | `Spec => []StartsOnSoundFiles` | `FilesInv` beside the two before: every file is read once, the registrations are the first specifications in their order, and each refusal has a witness in the files, or `vanished` is the entry being read: of a sound place every file passes its validation (`SoundFile`, for which `EntryIs` finds the connections of one file among all of them). `SoundIsAcceptable`: what the README asks of a connection, and what `Overlooked` adds to it, is what `normalizeConnectionDSN` accepts |

**What is sent against what was written.** `SentSettles` and `WordsAreKept`
compare how two texts divide into pieces: the client's and the one that is sent.
The second comes from the first by cutting out comments and trimming the ends,
and each of these changes is followed through the division.

1. *Comments.* `Stays` says of a place that what is kept from there on divides
   into exactly the pieces kept from there on, and that a database reads the
   same marks in it. It holds at the end of the text and, if it holds after a
   piece, it holds at that piece (`CommentStays`, `PieceStays`), hence
   everywhere (`AllStays`). A kept piece ends where it did
   because its end depends only on the characters up to one beyond it
   (`EndsAlike`), and that one can be new only where a comment was cut out. This
   is where `Glues` is needed: after a block comment `/` and `*` may stand side
   by side that did not. A line comment leaves its newline.
2. *The ends.* Cutting the last character of a text that has no comments left
   drops the last mark of its reading if that is a semicolon, and none if it is
   a blank (`Shorter`, by the same induction in `AllShorter`; `CutLast`); in
   front blanks go one by one (`CutBlanks`). `KeptReads` and `SentReads` put
   the two together for `trimSpace` and for the semicolons after it.
3. *The verdict.* That a second classification trims nothing needs one thing
   more: what is left after trimming may still end in a semicolon (`a; ;`), and
   must then have been judged to be several statements. The second scan, that of
   `hasMultipleStatements`, tracks quotes and nothing else, and it agrees with
   the division on what is outside of them (`LastSeen`, `LastJudged`); a text
   without comments is kept whole (`KeptWhole`).

The final semicolon is the one mark a reading is allowed to lose; `Reading`
leaves it out on both sides.

What cannot be proved here and is only model-checked: liveness
(`EveryCallReturns`, `CloseEnds`, `ExitsAfterSignal`, `EveryFrameAnswered`),
because the prover knows neither fairness nor ENABLED. Every invariant and every
action property of the passing runs is stated by a theorem. `NotRewritten`,
`ReadOnlyQueries` and `RowsReturned` are false.

## 5. What is not modelled

- Values that no property needs: data types and defaults of columns, affected
  rows, elapsed times, descriptions. The contents of `ListSchemas` and
  `ListTables`.
- What a database does for a statement beyond changing its data or not; among
  the rest that it may undo the change of a query whose rows were not read to
  the end, which is why the ok of a query promises nothing of its change. Of the databases' own lexical rules, nested
  comments and dollar quotes of PostgreSQL, and operators of several
  characters: a word, a quoted text and a mark are what a text consists of.
- `database/sql` retries a statement on another connection when an idle one
  turns out dead before anything was written. That retry is invisible to the
  service and to the database, so one sending stands for it.
- `net/http` may close an idle connection at the moment a client writes on it;
  the client sees a broken connection and no request is handled.
- A panic in a handler over HTTP: `ServeHTTP` answers it as an internal error;
  no panic of the service is known. The protocol errors of the HTTP front are
  one rejection; its dispatcher is that of `StdioServer`.
- Signals while the stdio branch serves: they kill the process without deferred
  calls. Reading the arguments of each handler (`mcp/args`).
- Handlers other than the built-in ones given to `NewRegistry`.
- The text of URLs and native connection strings: `Derived` keeps driver, URL
  and credentials as separate parts. MySQL's string is put together without
  escaping (catalog.go 280-297), so that a username with a colon in it is read
  as something else by the driver; `EachUnderItsName` says nothing of that. The sanitizing of connection errors; logging, error wording, the environment: no state that a property is
  about.
- IPv6 and proxies in `rateLimitKey`: a client is its key.

## 6. What could follow

1. The composition of `StdioServer` with `DatabaseService`, so that the handler
   is the service and not its contract.
2. The HTTP front's own errors, and the arguments of the handlers with the
   schemas that guard them.
3. The contents of `ListSchemas` and `ListTables` in each dialect.
