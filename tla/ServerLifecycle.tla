--------------------------- MODULE ServerLifecycle ---------------------------
(***************************************************************************)
(* The process: Run, Bootstrap and its providers, Server.Run, the graceful *)
(* shutdown, Application.Close, and the two goroutines Run starts: the one *)
(* that restores default signal handling and the one that listens.         *)
(*                                                                         *)
(* net/http, database/sql and os/signal are external.  Of net/http the     *)
(* model keeps what the code relies on: Shutdown stops the listener,       *)
(* closes idle connections and waits for the active ones until its context *)
(* ends, and never interrupts a handler.                                   *)
(***************************************************************************)
EXTENDS Naturals

CONSTANTS
    Conns,        \* connections of clients
    MaxSignals    \* bound on the SIGINT and SIGTERM the process is sent

ASSUME LifecycleAssumption == MaxSignals \in Nat

Resource == {"mysql", "redis"}

VARIABLES
    configured,   \* resources with a DSN or an address in the configuration
    opened,       \* how often each resource was opened
    closed,       \* ... and closed
    main,         \* what the main goroutine does next
    code,         \* the exit code it has decided on
    proc,         \* the process: running, exited or killed
    signals,      \* signals sent so far
    notify,       \* signals are caught and cancel ctx, instead of killing
    ctxDone,      \* ctx is cancelled
    listener,     \* the goroutine that calls ListenAndServe
    errCh,        \* the channel it sends its result to, capacity 1
    inShutdown,   \* http.Server refuses to serve
    conn          \* each connection: none, active in a handler, or idle

vars == <<configured, opened, closed, main, code, proc, signals, notify,
          ctxDone, listener, errCh, inShutdown, conn>>

resources == <<configured, opened, closed>>
os == <<proc, signals, notify, ctxDone>>
http == <<listener, errCh, inShutdown, conn>>

MainStep == {"run", "openMySQL", "pingMySQL", "openRedis", "pingRedis", "wire",
             "undoRedis", "undoMySQL", "serve", "select", "shutdown", "await",
             "closeRedis", "closeMySQL", "stop", "exit"}

Init ==
    /\ configured \in SUBSET Resource
    /\ opened = [x \in Resource |-> 0]
    /\ closed = [x \in Resource |-> 0]
    /\ main = "run" /\ code = 0
    /\ proc = "running" /\ signals = 0 /\ notify = FALSE /\ ctxDone = FALSE
    /\ listener = "none" /\ errCh = "empty" /\ inShutdown = FALSE
    /\ conn = [c \in Conns |-> "none"]

\* Control of the main goroutine passes from one step to the next.
Goto(from, to) == proc = "running" /\ main = from /\ main' = to

Open(x) == opened' = [opened EXCEPT ![x] = @ + 1] /\ UNCHANGED <<configured, closed>>
Close(x) == closed' = [closed EXCEPT ![x] = @ + 1] /\ UNCHANGED <<configured, opened>>

-----------------------------------------------------------------------------
(***************************************************************************)
(* Run and Bootstrap                                                       *)
(***************************************************************************)
NotifyContext ==
    /\ Goto("run", "openMySQL")
    /\ notify' = TRUE
    /\ UNCHANGED <<proc, signals, ctxDone, code, resources, http>>

\* OpenMySQL: sql.Open allocates the pool; without a DSN it is not called.
OpenMySQL ==
    /\ "mysql" \in configured
    /\ Goto("openMySQL", "pingMySQL") /\ Open("mysql")
    /\ UNCHANGED <<code, os, http>>

SkipMySQL ==
    /\ "mysql" \notin configured
    /\ Goto("openMySQL", "openRedis")
    /\ UNCHANGED <<code, resources, os, http>>

\* The DSN does not parse: nothing was opened.
OpenMySQLFails ==
    /\ "mysql" \in configured
    /\ Goto("openMySQL", "stop") /\ code' = 1
    /\ UNCHANGED <<resources, os, http>>

PingMySQL ==
    /\ Goto("pingMySQL", "openRedis")
    /\ UNCHANGED <<code, resources, os, http>>

\* PingContext fails, or gives up because a signal has cancelled ctx.
PingMySQLFails ==
    /\ Goto("pingMySQL", "stop") /\ code' = 1 /\ Close("mysql")
    /\ UNCHANGED <<os, http>>

OpenRedis ==
    /\ "redis" \in configured
    /\ Goto("openRedis", "pingRedis") /\ Open("redis")
    /\ UNCHANGED <<code, os, http>>

SkipRedis ==
    /\ "redis" \notin configured
    /\ Goto("openRedis", "wire")
    /\ UNCHANGED <<code, resources, os, http>>

PingRedis ==
    /\ Goto("pingRedis", "wire")
    /\ UNCHANGED <<code, resources, os, http>>

\* Mutant: the provider forgets the pool it opened before.
PingRedisLeaks ==
    /\ Goto("pingRedis", "stop") /\ code' = 1 /\ Close("redis")
    /\ UNCHANGED <<os, http>>

\* The provider closes its client and the pool before it returns.
PingRedisFails ==
    /\ Goto("pingRedis", "stop") /\ code' = 1
    /\ closed' = [x \in Resource |->
                    closed[x] + (IF x = "redis" \/ x \in configured THEN 1 ELSE 0)]
    /\ UNCHANGED <<configured, opened, os, http>>

\* ProviderSystem, ProviderUser, ProviderAuth, ProviderHTTP, NewApplication.
Wire ==
    /\ Goto("wire", "serve")
    /\ UNCHANGED <<code, resources, os, http>>

\* ProviderAuth or ProviderHTTP fails; Bootstrap's deferred function closes
\* Redis, then the pool.
WireFails ==
    /\ Goto("wire", "undoRedis") /\ code' = 1
    /\ UNCHANGED <<resources, os, http>>

\* If the application has resource x it is closed, and from goes to to.
CloseIfAny(x, from, to) ==
    /\ Goto(from, to)
    /\ IF x \in configured THEN Close(x) ELSE UNCHANGED resources
    /\ UNCHANGED <<code, os, http>>

UndoRedis == CloseIfAny("redis", "undoRedis", "undoMySQL")
UndoMySQL == CloseIfAny("mysql", "undoMySQL", "stop")

-----------------------------------------------------------------------------
(***************************************************************************)
(* Server.Run                                                              *)
(***************************************************************************)
Serve ==
    /\ Goto("serve", "select")
    /\ listener' = "starting"
    /\ UNCHANGED <<code, resources, os, errCh, inShutdown, conn>>

\* The select takes either branch when both are ready.
SelectDone ==
    /\ ctxDone
    /\ Goto("select", "shutdown")
    /\ inShutdown' = TRUE
    /\ UNCHANGED <<code, resources, os, listener, errCh, conn>>

\* Mutant: the error is dropped.
ResultDropped(err) == 0

\* ErrServerClosed is success, any other error is not.
ResultCode(err) == IF err = "ErrServerClosed" THEN 0 ELSE 1

SelectErr ==
    /\ errCh # "empty"
    /\ Goto("select", "closeRedis")
    /\ errCh' = "empty" /\ code' = ResultCode(errCh)
    /\ UNCHANGED <<resources, os, listener, inShutdown, conn>>

\* Mutant: Shutdown's result is taken for granted.
DrainedAnyway ==
    /\ listener # "serving"
    /\ Goto("shutdown", "await")
    /\ UNCHANGED <<code, resources, os, http>>

\* Shutdown returns nil: the accept loop has ended, no connection is left.
ShutdownDrained ==
    /\ listener # "serving"
    /\ \A c \in Conns : conn[c] = "none"
    /\ Goto("shutdown", "await")
    /\ UNCHANGED <<code, resources, os, http>>

\* Mutant: Shutdown gets a context without a deadline.
ShutdownWithoutTimeout ==
    /\ \A c \in Conns : conn[c] # "active"
    /\ Goto("shutdown", "closeRedis") /\ code' = 1
    /\ UNCHANGED <<resources, os, http>>

\* Ten seconds are over (or closing the listener failed): Run returns the
\* error, whatever the handlers are doing.
ShutdownFails ==
    /\ Goto("shutdown", "closeRedis") /\ code' = 1
    /\ UNCHANGED <<resources, os, http>>

AwaitErr ==
    /\ errCh # "empty"
    /\ Goto("await", "closeRedis")
    /\ errCh' = "empty" /\ code' = ResultCode(errCh)
    /\ UNCHANGED <<resources, os, listener, inShutdown, conn>>

\* Application.Close, deferred in Run: Redis, then the pool.
CloseRedis == CloseIfAny("redis", "closeRedis", "closeMySQL")
CloseMySQL == CloseIfAny("mysql", "closeMySQL", "stop")

\* The deferred stop: signals kill again, ctx is cancelled.
DeferredStop ==
    /\ Goto("stop", "exit")
    /\ notify' = FALSE /\ ctxDone' = TRUE
    /\ UNCHANGED <<proc, signals, code, resources, http>>

\* main returns, or os.Exit(1).
Exit ==
    /\ proc = "running" /\ main = "exit"
    /\ proc' = "exited"
    /\ UNCHANGED <<main, code, signals, notify, ctxDone, resources, http>>

-----------------------------------------------------------------------------
(***************************************************************************)
(* The other goroutines and the operating system                           *)
(***************************************************************************)
\* Mutant: the goroutine does not wait for the first signal.
WatcherStopsAtOnce ==
    /\ proc = "running" /\ notify
    /\ notify' = FALSE /\ ctxDone' = TRUE
    /\ UNCHANGED <<main, code, proc, signals, resources, http>>

\* go func() { <-ctx.Done(); stop() }()
WatcherStops ==
    /\ proc = "running" /\ notify /\ ctxDone
    /\ notify' = FALSE
    /\ UNCHANGED <<main, code, proc, signals, ctxDone, resources, http>>

\* SIGINT or SIGTERM.
Signal ==
    /\ proc = "running" /\ signals < MaxSignals
    /\ signals' = signals + 1
    /\ IF notify THEN ctxDone' = TRUE /\ UNCHANGED proc
                 ELSE proc' = "killed" /\ UNCHANGED ctxDone
    /\ UNCHANGED <<notify, main, code, resources, http>>

\* ListenAndServe: the port is bound unless Shutdown was called before.
Listen ==
    /\ proc = "running" /\ listener = "starting" /\ ~inShutdown
    /\ listener' = "serving"
    /\ UNCHANGED <<main, code, resources, os, errCh, inShutdown, conn>>

\* ListenAndServe returns and its error is sent: the port is taken or
\* accepting fails, ...
ListenFails ==
    /\ proc = "running"
    /\ listener = "starting" \/ (listener = "serving" /\ ~inShutdown)
    /\ errCh = "empty"
    /\ listener' = "ended" /\ errCh' = "failure"
    /\ UNCHANGED <<main, code, resources, os, inShutdown, conn>>

\* ... or the server is shut down.
ListenClosed ==
    /\ proc = "running" /\ listener \in {"starting", "serving"} /\ inShutdown
    /\ errCh = "empty"
    /\ listener' = "ended" /\ errCh' = "ErrServerClosed"
    /\ UNCHANGED <<main, code, resources, os, inShutdown, conn>>

\* Connection c goes from one state to another.
Move(c, from, to) ==
    /\ proc = "running" /\ conn[c] = from
    /\ conn' = [conn EXCEPT ![c] = to]
    /\ UNCHANGED <<main, code, resources, os, listener, errCh, inShutdown>>

Accept(c) == listener = "serving" /\ Move(c, "none", "active")

\* The next request on a connection that was kept alive; it may win the race
\* against a Shutdown that is about to close the idle connection.
NextRequest(c) == Move(c, "idle", "active")

\* The handler returns.  A server that is shutting down keeps nothing alive.
HandlerReturns(c) == Move(c, "active", IF inShutdown THEN "none" ELSE "idle")

\* The client hangs up, or Shutdown closes the idle connection.
CloseIdle(c) == Move(c, "idle", "none")

-----------------------------------------------------------------------------
Bootstrap ==
    \/ NotifyContext
    \/ OpenMySQL \/ SkipMySQL \/ OpenMySQLFails \/ PingMySQL \/ PingMySQLFails
    \/ OpenRedis \/ SkipRedis \/ PingRedis \/ PingRedisFails
    \/ Wire \/ WireFails \/ UndoRedis \/ UndoMySQL

ServerRun == Serve \/ SelectDone \/ SelectErr \/ ShutdownDrained \/ ShutdownFails \/ AwaitErr

Leave == CloseRedis \/ CloseMySQL \/ DeferredStop \/ Exit

Listener == Listen \/ ListenFails \/ ListenClosed

Connection(c) == Accept(c) \/ NextRequest(c) \/ HandlerReturns(c) \/ CloseIdle(c)

Next ==
    \/ Bootstrap \/ ServerRun \/ Leave
    \/ WatcherStops \/ Listener \/ Signal
    \/ \E c \in Conns : Connection(c)

Spec == Init /\ [][Next]_vars

\* The main goroutine keeps running.  A ping of MySQL may hang until ctx is
\* cancelled; one of Redis ends by the client's own timeouts.  The shutdown
\* context ends after ten seconds.  A listener that was closed returns.
\* Handlers may run for ever.
FairSpec ==
    /\ Spec
    /\ WF_vars(Bootstrap /\ main # "pingMySQL")
    /\ WF_vars(PingMySQLFails /\ ctxDone)
    /\ WF_vars(ServerRun) /\ WF_vars(Leave)
    /\ WF_vars(ListenClosed)

-----------------------------------------------------------------------------
(***************************************************************************)
(* Properties                                                              *)
(***************************************************************************)
\* The type invariant.
TypeOK ==
    /\ configured \subseteq Resource
    /\ opened \in [Resource -> Nat] /\ closed \in [Resource -> Nat]
    /\ main \in MainStep /\ code \in {0, 1}
    /\ proc \in {"running", "exited", "killed"}
    /\ signals \in Nat /\ notify \in BOOLEAN /\ ctxDone \in BOOLEAN
    /\ listener \in {"none", "starting", "serving", "ended"}
    /\ errCh \in {"empty", "failure", "ErrServerClosed"}
    /\ inShutdown \in BOOLEAN
    /\ conn \in [Conns -> {"none", "active", "idle"}]

\* Whichever step of the start or of the shutdown fails, a process that exits
\* has closed what it opened, each resource once.
ReleasedOnce ==
    \A x \in Resource :
        /\ closed[x] <= opened[x] /\ opened[x] <= 1
        /\ proc = "exited" => closed[x] = opened[x]

\* A handler finds every configured resource open.  Only a process that will
\* report failure (shutdown timed out, listener broke) closes one under it.
ResourcesOutliveHandlers ==
    \A c \in Conns, x \in configured :
        conn[c] = "active" /\ proc = "running" =>
            \/ opened[x] = 1 /\ closed[x] = 0
            \/ code = 1

\* Exit code 0 means a graceful shutdown: a signal asked for it and nobody
\* was being served any more.
ZeroMeansDrained ==
    proc = "exited" /\ code = 0 =>
        /\ signals > 0
        /\ \A c \in Conns : conn[c] = "none"

\* The first signal never kills a process that has registered for signals
\* and not yet finished its clean-up; the second one may.
FirstSignalDrains ==
    proc = "killed" => signals > 1 \/ main \in {"run", "exit"}

\* After a signal or a listener error the process ends, even if a handler
\* hangs for ever or MySQL never answers the ping.
EventuallyExits == (ctxDone \/ errCh = "failure") ~> proc # "running"
=============================================================================
