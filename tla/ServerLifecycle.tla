--------------------------- MODULE ServerLifecycle ---------------------------
(***************************************************************************)
(* cmd/mcp-server/main.go with the HTTP transport: the process around the  *)
(* service.  main waits for the server goroutine or for a signal, shuts    *)
(* the server down within a timeout, and only when it returns normally     *)
(* does its deferred service.Close run; log.Fatalf exits at once.          *)
(*                                                                         *)
(* The module composes with DatabaseService: its calls are the tool calls  *)
(* of HTTP requests, one per client connection, and its Close is main's    *)
(* deferred Close.  net/http is modelled by what main relies on: Shutdown  *)
(* closes the listener, lets accepted requests finish and waits until no   *)
(* connection is active; it does not cancel the requests' contexts.        *)
(***************************************************************************)
EXTENDS DatabaseService

VARIABLES
    main,      \* where main is
    serve,     \* the goroutine running ListenAndServe
    serverErr, \* the buffered channel it reports on
    sig,       \* an interrupt or SIGTERM has arrived
    timer,     \* the context bounding Shutdown
    conn,      \* each call's client connection
    exit       \* the exit status of the process

serverVars == <<main, serve, serverErr, sig, timer, conn, exit>>
allVars    == <<vars, serverVars>>

ServerInit ==
    /\ Init
    /\ main = "select" /\ serve = "listening" /\ serverErr = "empty"
    /\ sig = FALSE /\ timer = "off" /\ exit = "none"
    /\ conn = [k \in Calls |-> "none"]

Running == main # "exited"

-----------------------------------------------------------------------------
(* Requests.                                                                 *)
AcceptConn(k) ==
    /\ Running /\ serve = "listening" /\ conn[k] = "none"
    /\ conn' = [conn EXCEPT ![k] = "open"]
    /\ UNCHANGED <<vars, main, serve, serverErr, sig, timer, exit>>

\* A request that was being received when Shutdown began is still handled.
Handle(k, r) ==
    /\ Running /\ conn[k] = "open"
    /\ Start(k, r) \/ Reject(k, r)
    /\ UNCHANGED serverVars

\* The client closes a connection it has sent no request on, Shutdown finds it
\* unused, or the request is answered without calling a tool (wrong method, a
\* body that is empty, too long or no valid request).
DropConn(k) ==
    /\ Running /\ conn[k] = "open" /\ pc[k] = "idle"
    /\ conn' = [conn EXCEPT ![k] = "closed"]
    /\ UNCHANGED <<vars, main, serve, serverErr, sig, timer, exit>>

\* Handlers run as long as the process does; a statement already sent may
\* take effect in its database even afterwards.
HandlerStep(k) ==
    /\ Running /\ CallNext(k)
    /\ UNCHANGED serverVars

LateEffect(k) ==
    /\ ~Running /\ Apply(k)
    /\ UNCHANGED serverVars

-----------------------------------------------------------------------------
(* The server goroutine.                                                     *)
\* A failed listener is reported and tried again.
ServeFails_Retry ==
    /\ Running /\ serve = "listening" /\ serverErr = "empty"
    /\ serverErr' = "failed"
    /\ UNCHANGED <<vars, main, serve, sig, timer, conn, exit>>

\* The port cannot be bound, or accepting connections fails: noticed before
\* Shutdown closes the listener, reported perhaps only afterwards.
ServeFails ==
    /\ Running /\ serve \in {"listening", "closing"}
    /\ serve' = "returned" /\ serverErr' = "failed"
    /\ UNCHANGED <<vars, main, sig, timer, conn, exit>>

\* ErrServerClosed is not an error, so it is not reported.
ServeReturns_Silent ==
    /\ Running /\ serve = "closing"
    /\ serve' = "returned"
    /\ UNCHANGED <<vars, main, serverErr, sig, timer, conn, exit>>

\* Shutdown has closed the listener: ListenAndServe returns ErrServerClosed.
ServeReturns ==
    /\ Running /\ serve = "closing"
    /\ serve' = "returned" /\ serverErr' = "closed"
    /\ UNCHANGED <<vars, main, sig, timer, conn, exit>>

-----------------------------------------------------------------------------
(* main.                                                                     *)
Signal ==
    /\ Running /\ ~sig
    /\ sig' = TRUE
    /\ UNCHANGED <<vars, main, serve, serverErr, timer, conn, exit>>

Fatal == main' = "exited" /\ exit' = "failure"

SelectErr ==
    /\ main = "select" /\ serverErr = "failed"
    /\ serverErr' = "empty"
    /\ Fatal
    /\ UNCHANGED <<vars, serve, sig, timer, conn>>

SelectDone ==
    /\ main = "select" /\ sig
    /\ main' = "shutdown" /\ timer' = "armed"
    /\ serve' = IF serve = "listening" THEN "closing" ELSE serve
    /\ UNCHANGED <<vars, serverErr, sig, conn, exit>>

TimerFires ==
    /\ Running /\ timer = "armed"
    /\ timer' = "fired"
    /\ UNCHANGED <<vars, main, serve, serverErr, sig, conn, exit>>

\* server.Close in place of server.Shutdown.
Quiet_Abrupt == TRUE

\* No connection is active: Shutdown returns nil.
Quiet == \A k \in Calls : conn[k] = "open" => pc[k] = "done"

Drained ==
    /\ main = "shutdown" /\ Quiet
    /\ main' = "waitErr"
    /\ conn' = [k \in Calls |-> IF conn[k] = "open" THEN "closed" ELSE conn[k]]
    /\ UNCHANGED <<vars, serve, serverErr, sig, timer, exit>>

\* The requests in progress are cut off by the exit.
ShutdownTimesOut ==
    /\ main = "shutdown" /\ timer = "fired"
    /\ Fatal
    /\ UNCHANGED <<vars, serve, serverErr, sig, timer, conn>>

\* runHTTPServer received ErrServerClosed and returned nil: main returns and
\* its deferred Close begins.
MainReturns ==
    /\ main = "waitErr" /\ serverErr = "closed"
    /\ serverErr' = "empty" /\ main' = "deferred"
    /\ CloseStart
    /\ UNCHANGED <<serve, sig, timer, conn, exit>>

\* The server had failed when the signal came: the failure is reported.
WaitErrFails ==
    /\ main = "waitErr" /\ serverErr = "failed"
    /\ serverErr' = "empty"
    /\ Fatal
    /\ UNCHANGED <<vars, serve, sig, timer, conn>>

ServiceCloses ==
    /\ main = "deferred" /\ (CloseLock \/ CloseStep)
    /\ UNCHANGED serverVars

\* main exits without waiting for its deferred Close.
Exit_NoWait ==
    /\ main = "deferred"
    /\ main' = "exited" /\ exit' = "success"
    /\ UNCHANGED <<vars, serve, serverErr, sig, timer, conn>>

Exit ==
    /\ main = "deferred" /\ cpc = "done"
    /\ main' = "exited" /\ exit' = "success"
    /\ UNCHANGED <<vars, serve, serverErr, sig, timer, conn>>

\* The process is gone.
Exited == ~Running /\ UNCHANGED allVars

MainStep ==
    SelectErr \/ SelectDone \/ Drained \/ ShutdownTimesOut \/ MainReturns
    \/ WaitErrFails \/ ServiceCloses \/ Exit

ServerNext ==
    \/ \E k \in Calls :
          \/ AcceptConn(k) \/ DropConn(k) \/ HandlerStep(k) \/ LateEffect(k)
          \/ \E r \in Requests : Handle(k, r)
    \/ ServeFails \/ ServeReturns \/ Signal \/ TimerFires
    \/ MainStep
    \/ Exited

ServerSpec == ServerInit /\ [][ServerNext]_allVars

\* main, the server goroutine and the clock make progress; nothing is assumed
\* of handlers, clients or databases.
FairServerSpec ==
    ServerSpec /\ WF_allVars(MainStep) /\ WF_allVars(ServeReturns) /\ WF_allVars(TimerFires)

-----------------------------------------------------------------------------
\* Every variable of the process holds a value of its kind (main.go 54-105),
\* and the goroutine reports on the channel once, when it is over.
ServerTypeOK ==
    /\ main \in {"select", "shutdown", "waitErr", "deferred", "exited"}
    /\ serve \in {"listening", "closing", "returned"}
    /\ serverErr \in {"empty", "failed", "closed"}
    /\ sig \in BOOLEAN
    /\ timer \in {"off", "armed", "fired"}
    /\ conn \in [Calls -> {"none", "open", "closed"}]
    /\ exit \in {"none", "success", "failure"}
    /\ exit # "none" <=> main = "exited"
    /\ serverErr # "empty" => serve = "returned"
    /\ timer = "off" => main \in {"select", "exited"}

\* Close never runs beside a tool call: open() has no closed flag, so a call
\* that overlapped Close could open a pool nobody closes.
CloseRunsAlone ==
    cpc # "idle" => \A k \in Calls : pc[k] \in {"idle", "done"}

\* A process that exits with success has answered every request it began to
\* handle and has left no pool open.
CleanExit ==
    exit = "success" =>
        /\ \A k \in Calls : pc[k] \in {"idle", "done"}
        /\ \A c \in Conns : live[c] = {} /\ db[c] = None

\* Once a signal has arrived the process exits, even if handlers, clients and
\* databases never do anything again.
ExitsAfterSignal == sig ~> main = "exited"
=============================================================================
