------------------------------ MODULE Lifecycle ------------------------------
(***************************************************************************)
(* The processes of the service, one after another on the same PostgreSQL: *)
(* main, app.New with its connections and migrations, the goroutine of     *)
(* BackroundRefresh and those it starts, the HTTP server, and the way from *)
(* a signal to the end of the process.  What requests do is BannerService  *)
(* and Server; here it matters only that they write to the tables.         *)
(***************************************************************************)
EXTENDS Runtime, Naturals

CONSTANTS
    Workers,    \* the goroutines refresh has running; bound on their number
    MaxDelay    \* Connect gives up when its delay gets longer: 10 seconds

ASSUME LifecycleAssumption == MaxDelay \in Nat \ {0}

VARIABLES
    main,           \* what main is doing
    interrupted,    \* the context is cancelled by a signal
    late,           \* the deadline of Stop has passed
    reload,         \* cfg.PostgresDB.Reload
    pinger,         \* the goroutine of the Connect main is in
    delay,          \* its defaultDelay, in seconds
    tables,         \* absent, with rows left by earlier processes, empty, or
                    \* with rows written by this one
    loop,           \* what BackroundRefresh is doing
    awaited,        \* the worker whose channel refresh waits on, if any
    worker,         \* what each worker is doing
    rows,           \* which rows each worker has read
    server,         \* the listener
    requests        \* handlers that serve a request

refresherVars == <<loop, awaited, worker, rows>>
serverVars == <<server, requests>>
vars == <<main, interrupted, late, reload, pinger, delay, tables,
          refresherVars, serverVars>>

Clients == {"banners", "redis", "users"}        \* main is in Connect for one
Serving == {"run", "stop"}
Over == {"ended", "killed"}

TypeOK ==
    /\ main \in {"config", "downBanners", "upBanners", "downUsers", "upUsers",
                 "ended", "killed"} \cup Clients \cup Serving
    /\ interrupted \in BOOLEAN
    /\ late \in BOOLEAN
    /\ reload \in BOOLEAN
    /\ pinger \in {"none", "ping", "sleep", "connected", "failed"}
    /\ delay \in 1..(MaxDelay + 1)
    /\ tables \in {"absent", "left", "empty", "written"}
    /\ loop \in {"none", "refresh", "await", "select"}
    /\ awaited \subseteq Workers
    /\ worker \in [Workers -> {"none", "read", "cache", "done", "error"}]
    /\ rows \in [Workers -> {"left", "empty", "written"}]
    /\ server \in {"none", "open", "failed", "closed"}
    /\ requests \subseteq Handlers

Init ==
    /\ main = "config"
    /\ interrupted = FALSE
    /\ late = FALSE
    /\ reload = FALSE
    /\ pinger = "none"
    /\ delay = 1
    /\ tables \in {"absent", "left", "empty"}
    /\ loop = "none"
    /\ awaited = {}
    /\ worker = [w \in Workers |-> "none"]
    /\ rows = [w \in Workers |-> "empty"]
    /\ server = "none"
    /\ requests = {}

\* The process ends and takes every goroutine with it.
Gone(how) ==
    /\ main' = how
    /\ interrupted' = FALSE
    /\ late' = FALSE
    /\ reload' = FALSE
    /\ pinger' = "none"
    /\ delay' = 1
    /\ loop' = "none"
    /\ awaited' = {}
    /\ worker' = [w \in Workers |-> "none"]
    /\ rows' = [w \in Workers |-> "empty"]
    /\ server' = "none"
    /\ requests' = {}
    /\ UNCHANGED tables

\* main returns, or exits.
End == Gone("ended")

(***************************************************************************)
(* Connect of pgtools and of redistools, which are alike.                  *)
(***************************************************************************)

\* main enters Connect, which starts a goroutine; pgxpool.New may refuse the
\* connection string.
Connecting(client) ==
    /\ main' = client
    /\ pinger' \in IF client = "redis" THEN {"ping"} ELSE {"ping", "failed"}
    /\ delay' = 1

Ping ==
    /\ pinger = "ping"
    /\ pinger' \in {"connected", "sleep"}
    /\ UNCHANGED <<main, interrupted, late, reload, delay, tables,
                   refresherVars, serverVars>>

WakeUp_NeverGivesUp ==                                              \* mutant
    /\ pinger = "sleep"
    /\ delay' = IF delay = MaxDelay THEN delay ELSE delay + 1
    /\ pinger' = "ping"
    /\ UNCHANGED <<main, interrupted, late, reload, tables, refresherVars,
                   serverVars>>

WakeUp_OneMore ==                                                   \* mutant
    /\ pinger = "sleep"
    /\ delay' = delay + 1
    /\ pinger' = IF delay > MaxDelay THEN "failed" ELSE "ping"
    /\ UNCHANGED <<main, interrupted, late, reload, tables, refresherVars,
                   serverVars>>

\* It has slept for the delay, also after the last ping it makes.
WakeUp ==
    /\ pinger = "sleep"
    /\ delay' = delay + 1
    /\ pinger' = IF delay = MaxDelay THEN "failed" ELSE "ping"
    /\ UNCHANGED <<main, interrupted, late, reload, tables, refresherVars,
                   serverVars>>

(***************************************************************************)
(* app.New.                                                                *)
(***************************************************************************)

\* config.New and logger.New; each may fail.
ReadConfig ==
    /\ main = "config"
    /\ \/ /\ reload' \in BOOLEAN
          /\ Connecting("banners")
          /\ UNCHANGED <<interrupted, late, tables, refresherVars, serverVars>>
       \/ End

\* ApplyMigration, which takes no context.
Migrating(client) ==
    /\ main' = CASE client = "banners" -> IF reload THEN "downBanners" ELSE "upBanners"
                 [] client = "users"   -> IF reload THEN "downUsers" ELSE "upUsers"
    /\ pinger' = "none"
    /\ delay' = 1

Connected_BannersUnmigrated(client) ==                              \* mutant
    CASE client = "banners" -> Connecting("redis") /\ UNCHANGED loop
      [] client = "redis"   -> Connecting("users") /\ loop' = "refresh"
      [] client = "users"   -> Migrating(client) /\ UNCHANGED loop

\* br.New and ur.New migrate once connected; BackroundRefresh is started
\* between the two, when Redis is connected.
Connected(client) ==
    IF client = "redis"
    THEN Connecting("users") /\ loop' = "refresh"
    ELSE Migrating(client) /\ UNCHANGED loop

\* select in Connect: the goroutine's result, or the context is cancelled;
\* either may be taken when both are there.
ConnectReturns ==
    /\ main \in Clients
    /\ \/ /\ pinger = "connected"
          /\ Connected(main)
          /\ UNCHANGED <<interrupted, late, reload, tables, awaited, worker,
                         rows, serverVars>>
       \/ (pinger = "failed" \/ interrupted) /\ End

\* goose.DownTo(0) drops the tables, in a transaction.
MigrateDown ==
    /\ main \in {"downBanners", "downUsers"}
    /\ \/ /\ tables' = "absent"
          /\ main' = IF main = "downBanners" THEN "upBanners" ELSE "upUsers"
          /\ UNCHANGED <<interrupted, late, reload, pinger, delay,
                         refresherVars, serverVars>>
       \/ Faulty("postgres") /\ End

\* goose.UpTo creates them if it has not yet.  The last one ends New.
MigrateUp ==
    /\ main \in {"upBanners", "upUsers"}
    /\ \/ /\ tables' = IF tables = "absent" THEN "empty" ELSE tables
          /\ IF main = "upBanners"
             THEN Connecting("redis")
             ELSE main' = "run" /\ UNCHANGED <<pinger, delay>>
          /\ UNCHANGED <<interrupted, late, reload, refresherVars, serverVars>>
       \/ Faulty("postgres") /\ End

(***************************************************************************)
(* app.Run, Server.Start and Server.Shutdown.                              *)
(***************************************************************************)

Listen_WhenRefreshing ==                                            \* mutant
    /\ loop # "none"
    /\ server = "none"
    /\ server' \in {"open", "failed"}
    /\ UNCHANGED <<main, interrupted, late, reload, pinger, delay, tables,
                   refresherVars, requests>>

\* ListenAndServe, in a goroutine of the one that Run started.  Its error is
\* logged; ctx.Done() cancels nothing, so main goes on waiting.
Listen ==
    /\ main = "run"
    /\ server = "none"
    /\ server' \in {"open", "failed"}
    /\ UNCHANGED <<main, interrupted, late, reload, pinger, delay, tables,
                   refresherVars, requests>>

\* Start sees the cancelled context too, and shuts the server down.
StartShutsDown ==
    /\ main = "run"
    /\ interrupted
    /\ server \in {"none", "open"}
    /\ server' = "closed"
    /\ UNCHANGED <<main, interrupted, late, reload, pinger, delay, tables,
                   refresherVars, requests>>

Stop_ReturnsAtOnce ==                                               \* mutant
    main = "run" /\ interrupted /\ End

\* <-ctx.Done() in Run, then Stop: http.Server.Shutdown closes the listener.
Stop ==
    /\ main = "run"
    /\ interrupted
    /\ main' = "stop"
    /\ server' = "closed"
    /\ UNCHANGED <<interrupted, late, reload, pinger, delay, tables,
                   refresherVars, requests>>

\* The shorter of five seconds and IdleTimeout has passed.
Deadline ==
    /\ main = "stop"
    /\ ~late
    /\ late' = TRUE
    /\ UNCHANGED <<main, interrupted, reload, pinger, delay, tables,
                   refresherVars, serverVars>>

StopReturns_WhenDrained ==                                          \* mutant
    main = "stop" /\ requests = {} /\ End

\* Shutdown waits for the requests in progress, until the deadline.
StopReturns ==
    /\ main = "stop"
    /\ requests = {} \/ late
    /\ End

(***************************************************************************)
(* Requests.                                                               *)
(***************************************************************************)

Accept(h) ==
    /\ server = "open"
    /\ h \notin requests
    /\ requests' = requests \cup {h}
    /\ UNCHANGED <<main, interrupted, late, reload, pinger, delay, tables,
                   refresherVars, server>>

\* It may have written to the tables.
Answer(h) ==
    /\ h \in requests
    /\ requests' = requests \ {h}
    /\ tables' \in {tables} \cup IF tables = "absent" THEN {} ELSE {"written"}
    /\ UNCHANGED <<main, interrupted, late, reload, pinger, delay,
                   refresherVars, server>>

(***************************************************************************)
(* BackroundRefresh and refresh.                                           *)
(***************************************************************************)

OthersUnchanged ==
    UNCHANGED <<main, interrupted, late, reload, pinger, delay, tables, serverVars>>

\* refresh starts a goroutine and waits.
BeginRefresh(w) ==
    /\ loop = "refresh"
    /\ worker[w] = "none"
    /\ worker' = [worker EXCEPT ![w] = "read"]
    /\ awaited' = {w}
    /\ loop' = "await"
    /\ UNCHANGED rows
    /\ OthersUnchanged

\* The worker's query: it may fail, and does without tables.
ReadRows(w) ==
    /\ worker[w] = "read"
    /\ \/ /\ tables # "absent"
          /\ rows' = [rows EXCEPT ![w] = tables]
          /\ worker' = [worker EXCEPT ![w] = IF tables = "empty" THEN "done" ELSE "cache"]
       \/ /\ tables = "absent" \/ interrupted \/ Faulty("postgres")
          /\ worker' = [worker EXCEPT ![w] = "error"]
          /\ UNCHANGED rows
    /\ UNCHANGED <<loop, awaited>>
    /\ OthersUnchanged

\* It has cached all it read, or a command failed.
CacheRows(w) ==
    /\ worker[w] = "cache"
    /\ \E result \in {"done"} \cup IF interrupted \/ Faulty("redis") THEN {"error"} ELSE {} :
          worker' = [worker EXCEPT ![w] = result]
    /\ UNCHANGED <<loop, awaited, rows>>
    /\ OthersUnchanged

RefreshReturns_AtOnce ==                                            \* mutant
    /\ loop = "await"
    /\ loop' = "select"
    /\ awaited' = {}
    /\ UNCHANGED <<worker, rows>>
    /\ OthersUnchanged

\* The unbuffered channel hands over an error, or is closed; or the context
\* is cancelled and nobody receives from the channel any more.
RefreshReturns ==
    /\ loop = "await"
    /\ \/ \E w \in awaited :
             /\ worker[w] \in {"done", "error"}
             /\ worker' = [worker EXCEPT ![w] = "none"]
       \/ interrupted /\ UNCHANGED worker
    /\ loop' = "select"
    /\ awaited' = {}
    /\ UNCHANGED rows
    /\ OthersUnchanged

\* An abandoned worker can close its channel, but not send an error.
WorkerEnds(w) ==
    /\ worker[w] = "done"
    /\ w \notin awaited
    /\ worker' = [worker EXCEPT ![w] = "none"]
    /\ UNCHANGED <<loop, awaited, rows>>
    /\ OthersUnchanged

\* A tick, or the context: select takes either when both are ready.
NextRefresh ==
    /\ loop = "select"
    /\ loop' \in {"refresh"} \cup IF interrupted THEN {"none"} ELSE {}
    /\ UNCHANGED <<awaited, worker, rows>>
    /\ OthersUnchanged

(***************************************************************************)
(* The environment.                                                        *)
(***************************************************************************)

\* SIGINT, SIGTERM or SIGHUP, once signal.NotifyContext has been called.
Interrupt ==
    /\ main \notin {"config"} \cup Over
    /\ ~interrupted
    /\ interrupted' = TRUE
    /\ UNCHANGED <<main, late, reload, pinger, delay, tables, refresherVars,
                   serverVars>>

Crash ==
    /\ Faulty("crash")
    /\ main \notin Over
    /\ Gone("killed")

\* The operator starts the service again, on the tables as they are.
Relaunch ==
    /\ main \in Over
    /\ main' = "config"
    /\ tables' = IF tables = "written" THEN "left" ELSE tables
    /\ UNCHANGED <<interrupted, late, reload, pinger, delay, refresherVars,
                   serverVars>>

(***************************************************************************)
(* The specification.                                                      *)
(***************************************************************************)

Pinging == Ping \/ WakeUp

Starting == ReadConfig \/ ConnectReturns \/ MigrateDown \/ MigrateUp

Stopping == Stop \/ StopReturns

Refreshing ==
    \/ RefreshReturns
    \/ NextRefresh
    \/ \E w \in Workers :
          BeginRefresh(w) \/ ReadRows(w) \/ CacheRows(w) \/ WorkerEnds(w)

Next ==
    \/ Pinging
    \/ Starting
    \/ Listen
    \/ StartShutsDown
    \/ Stopping
    \/ Deadline
    \/ \E h \in Handlers : Accept(h) \/ Answer(h)
    \/ Refreshing
    \/ Interrupt
    \/ Crash
    \/ Relaunch

Spec == Init /\ [][Next]_vars

\* main and Connect's goroutine run, pings and migrations end one way or the
\* other, and five seconds pass.  Requests need not end, refreshes neither.
Fairness ==
    /\ WF_vars(Pinging)
    /\ WF_vars(Starting)
    /\ WF_vars(Stopping)
    /\ WF_vars(Deadline)

FairSpec == Spec /\ Fairness

(***************************************************************************)
(* Properties.                                                             *)
(***************************************************************************)

\* No request is served by a process that may still drop the tables, or has
\* yet to create them, though New migrates twice.
ServesReady ==
    requests # {} => main \in Serving /\ tables # "absent"

\* What clients of this process have written, its own migrations never drop.
NothingWrittenIsDropped ==
    [][tables = "written" /\ tables' # "written" => main \in Over]_vars

\* With reload, the refresher, which starts before the second migration,
\* never caches a row of the tables that are dropped.
NoDroppedRowsCached ==
    \A w \in Workers : worker[w] = "cache" /\ reload => rows[w] # "left"

\* Until the context is cancelled there is one worker at most and refresh
\* waits for it: none is left that could never send its error.
NoStrayWorkers ==
    \A w \in Workers : worker[w] # "none" /\ ~interrupted => w \in awaited

\* Once started, the process ends by itself only after a signal, not when the
\* server fails to listen, and cuts off requests only after the deadline,
\* though both Run and Start shut the server down.
EndsInOrder ==
    [][main' = "ended" /\ main \in Serving =>
          /\ interrupted
          /\ requests = {} \/ late]_vars

\* The places main passes on its way through app.New that are left, with the
\* one it is at.
PlacesLeft ==
    CASE main = "config"      -> 8
      [] main = "banners"     -> 7
      [] main = "downBanners" -> 6
      [] main = "upBanners"   -> 5
      [] main = "redis"       -> 4
      [] main = "users"       -> 3
      [] main = "downUsers"   -> 2
      [] main = "upUsers"     -> 1

\* The pings and sleeps left to the Connect that main is in, if it is in one.
PingsLeft ==
    CASE pinger = "ping"  -> 2 * (MaxDelay - delay) + 4
      [] pinger = "sleep" -> 2 * (MaxDelay - delay) + 3
      [] OTHER            -> 0

\* How many steps are left to main and Connect: of the start, with all the
\* pings each of three Connects may make, and of the stop.
Left ==
    CASE main \in Over   -> 0
      [] main = "stop"   -> IF late THEN 1 ELSE 2
      [] main = "run"    -> 3
      [] OTHER           -> 3 + (2 * MaxDelay + 3) * PlacesLeft + PingsLeft

\* Each step of them leaves fewer, and nothing else in the process leaves
\* more: no store that stays silent, and no request, keeps the start or the
\* stop going on for ever.
MainRunsOut ==
    [][/\ main \notin Over => Left' <= Left
       /\ Pinging \/ Starting \/ Stopping \/ Deadline => Left' < Left]_vars

\* A signal ends the process whatever it is doing: connecting, migrating,
\* serving requests that do not end, or refreshing.
SignalEnds == interrupted ~> main \in Over

\* The start does not go on for ever when a store does not answer.
StartDecides == main = "config" ~> main \in {"run"} \cup Over

=============================================================================
