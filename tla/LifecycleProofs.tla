--------------------------- MODULE LifecycleProofs ---------------------------
(***************************************************************************)
(* Proofs about Lifecycle, for any number of handlers and workers and any  *)
(* number of pings: what its run checks, except for what must eventually   *)
(* happen.                                                                 *)
(***************************************************************************)
EXTENDS Lifecycle, TLAPS

(***************************************************************************)
(* Type correctness, apart for the flags and for the rest.  The delay is   *)
(* at most MaxDelay before a ping and during a sleep.                      *)
(***************************************************************************)

FlagsOK == interrupted \in BOOLEAN /\ late \in BOOLEAN /\ reload \in BOOLEAN

StatesOK ==
    /\ main \in {"config", "downBanners", "upBanners", "downUsers", "upUsers",
                 "ended", "killed"} \cup Clients \cup Serving
    /\ pinger \in {"none", "ping", "sleep", "connected", "failed"}
    /\ delay \in 1..(MaxDelay + 1)
    /\ pinger \in {"ping", "sleep"} => delay <= MaxDelay
    /\ tables \in {"absent", "left", "empty", "written"}
    /\ loop \in {"none", "refresh", "await", "select"}
    /\ awaited \subseteq Workers
    /\ worker \in [Workers -> {"none", "read", "cache", "done", "error"}]
    /\ rows \in [Workers -> {"left", "empty", "written"}]
    /\ server \in {"none", "open", "failed", "closed"}
    /\ requests \subseteq Handlers

LEMMA FlagsInit == Init => FlagsOK
  BY DEF Init, FlagsOK

LEMMA StatesInit == Init => StatesOK
  BY LifecycleAssumption DEF Init, StatesOK

LEMMA FlagsNext ==
    ASSUME FlagsOK, [Next]_vars
    PROVE  FlagsOK'
<1>1. CASE Ping
  BY <1>1 DEF Ping, FlagsOK, refresherVars, serverVars
<1>2. CASE WakeUp
  BY <1>2 DEF WakeUp, FlagsOK, refresherVars, serverVars
<1>3. CASE ReadConfig
  BY <1>3 DEF ReadConfig, Connecting, End, Gone, FlagsOK, refresherVars, serverVars
<1>4. CASE ConnectReturns
  BY <1>4 DEF ConnectReturns, Connected, Connecting, Migrating, End, Gone, FlagsOK, refresherVars, serverVars
<1>5. CASE MigrateDown
  BY <1>5 DEF MigrateDown, End, Gone, FlagsOK, refresherVars, serverVars
<1>6. CASE MigrateUp
  BY <1>6 DEF MigrateUp, Connecting, End, Gone, FlagsOK, refresherVars, serverVars
<1>7. CASE Listen
  BY <1>7 DEF Listen, FlagsOK, refresherVars, serverVars
<1>8. CASE StartShutsDown
  BY <1>8 DEF StartShutsDown, FlagsOK, refresherVars, serverVars
<1>9. CASE Stop
  BY <1>9 DEF Stop, FlagsOK, refresherVars, serverVars
<1>10. CASE StopReturns
  BY <1>10 DEF StopReturns, End, Gone, FlagsOK, refresherVars, serverVars
<1>11. CASE Deadline
  BY <1>11 DEF Deadline, FlagsOK, refresherVars, serverVars
<1>12. ASSUME NEW h \in Handlers, Accept(h) PROVE FlagsOK'
  BY <1>12 DEF Accept, FlagsOK, refresherVars, serverVars
<1>13. ASSUME NEW h \in Handlers, Answer(h) PROVE FlagsOK'
  BY <1>13 DEF Answer, FlagsOK, refresherVars, serverVars
<1>14. CASE RefreshReturns
  BY <1>14 DEF RefreshReturns, OthersUnchanged, FlagsOK, refresherVars, serverVars
<1>15. CASE NextRefresh
  BY <1>15 DEF NextRefresh, OthersUnchanged, FlagsOK, refresherVars, serverVars
<1>16. ASSUME NEW w \in Workers, BeginRefresh(w) PROVE FlagsOK'
  BY <1>16 DEF BeginRefresh, OthersUnchanged, FlagsOK, refresherVars, serverVars
<1>17. ASSUME NEW w \in Workers, ReadRows(w) PROVE FlagsOK'
  BY <1>17 DEF ReadRows, OthersUnchanged, FlagsOK, refresherVars, serverVars
<1>18. ASSUME NEW w \in Workers, CacheRows(w) PROVE FlagsOK'
  BY <1>18 DEF CacheRows, OthersUnchanged, FlagsOK, refresherVars, serverVars
<1>19. ASSUME NEW w \in Workers, WorkerEnds(w) PROVE FlagsOK'
  BY <1>19 DEF WorkerEnds, OthersUnchanged, FlagsOK, refresherVars, serverVars
<1>20. CASE Interrupt
  BY <1>20 DEF Interrupt, FlagsOK, refresherVars, serverVars
<1>21. CASE Crash
  BY <1>21 DEF Crash, Gone, FlagsOK, refresherVars, serverVars
<1>22. CASE Relaunch
  BY <1>22 DEF Relaunch, FlagsOK, refresherVars, serverVars
<1>23. CASE UNCHANGED vars
  BY <1>23 DEF vars, FlagsOK, refresherVars, serverVars, refresherVars, serverVars
<1> QED
  BY <1>1, <1>2, <1>3, <1>4, <1>5, <1>6, <1>7, <1>8, <1>9, <1>10, <1>11, <1>12, <1>13, <1>14, <1>15, <1>16, <1>17, <1>18, <1>19, <1>20, <1>21, <1>22, <1>23
  DEF Next, Pinging, Starting, Stopping, Refreshing

LEMMA StatesNext ==
    ASSUME StatesOK, [Next]_vars
    PROVE  StatesOK'
<1>1. CASE Ping
  BY <1>1, LifecycleAssumption DEF Ping, StatesOK, Clients, Serving, Over, refresherVars, serverVars
<1>2. CASE WakeUp
  BY <1>2, LifecycleAssumption DEF WakeUp, StatesOK, Clients, Serving, Over, refresherVars, serverVars
<1>3. CASE ReadConfig
  BY <1>3, LifecycleAssumption DEF ReadConfig, Connecting, End, Gone, StatesOK, Clients, Serving, Over, refresherVars, serverVars
<1>4. CASE ConnectReturns
  BY <1>4, LifecycleAssumption DEF ConnectReturns, Connected, Connecting, Migrating, End, Gone, StatesOK, Clients, Serving, Over, refresherVars, serverVars
<1>5. CASE MigrateDown
  BY <1>5, LifecycleAssumption DEF MigrateDown, End, Gone, StatesOK, Clients, Serving, Over, refresherVars, serverVars
<1>6. CASE MigrateUp
  BY <1>6, LifecycleAssumption DEF MigrateUp, Connecting, End, Gone, StatesOK, Clients, Serving, Over, refresherVars, serverVars
<1>7. CASE Listen
  BY <1>7, LifecycleAssumption DEF Listen, StatesOK, Clients, Serving, Over, refresherVars, serverVars
<1>8. CASE StartShutsDown
  BY <1>8, LifecycleAssumption DEF StartShutsDown, StatesOK, Clients, Serving, Over, refresherVars, serverVars
<1>9. CASE Stop
  BY <1>9, LifecycleAssumption DEF Stop, StatesOK, Clients, Serving, Over, refresherVars, serverVars
<1>10. CASE StopReturns
  BY <1>10, LifecycleAssumption DEF StopReturns, End, Gone, StatesOK, Clients, Serving, Over, refresherVars, serverVars
<1>11. CASE Deadline
  BY <1>11, LifecycleAssumption DEF Deadline, StatesOK, Clients, Serving, Over, refresherVars, serverVars
<1>12. ASSUME NEW h \in Handlers, Accept(h) PROVE StatesOK'
  BY <1>12, LifecycleAssumption DEF Accept, StatesOK, Clients, Serving, Over, refresherVars, serverVars
<1>13. ASSUME NEW h \in Handlers, Answer(h) PROVE StatesOK'
  BY <1>13, LifecycleAssumption DEF Answer, StatesOK, Clients, Serving, Over, refresherVars, serverVars
<1>14. CASE RefreshReturns
  BY <1>14, LifecycleAssumption DEF RefreshReturns, OthersUnchanged, StatesOK, Clients, Serving, Over, refresherVars, serverVars
<1>15. CASE NextRefresh
  BY <1>15, LifecycleAssumption DEF NextRefresh, OthersUnchanged, StatesOK, Clients, Serving, Over, refresherVars, serverVars
<1>16. ASSUME NEW w \in Workers, BeginRefresh(w) PROVE StatesOK'
  BY <1>16, LifecycleAssumption DEF BeginRefresh, OthersUnchanged, StatesOK, Clients, Serving, Over, refresherVars, serverVars
<1>17. ASSUME NEW w \in Workers, ReadRows(w) PROVE StatesOK'
  BY <1>17, LifecycleAssumption DEF ReadRows, OthersUnchanged, StatesOK, Clients, Serving, Over, refresherVars, serverVars
<1>18. ASSUME NEW w \in Workers, CacheRows(w) PROVE StatesOK'
  BY <1>18, LifecycleAssumption DEF CacheRows, OthersUnchanged, StatesOK, Clients, Serving, Over, refresherVars, serverVars
<1>19. ASSUME NEW w \in Workers, WorkerEnds(w) PROVE StatesOK'
  BY <1>19, LifecycleAssumption DEF WorkerEnds, OthersUnchanged, StatesOK, Clients, Serving, Over, refresherVars, serverVars
<1>20. CASE Interrupt
  BY <1>20, LifecycleAssumption DEF Interrupt, StatesOK, Clients, Serving, Over, refresherVars, serverVars
<1>21. CASE Crash
  BY <1>21, LifecycleAssumption DEF Crash, Gone, StatesOK, Clients, Serving, Over, refresherVars, serverVars
<1>22. CASE Relaunch
  BY <1>22, LifecycleAssumption DEF Relaunch, StatesOK, Clients, Serving, Over, refresherVars, serverVars
<1>23. CASE UNCHANGED vars
  BY <1>23 DEF vars, StatesOK, Clients, Serving, Over, refresherVars, serverVars, refresherVars, serverVars
<1> QED
  BY <1>1, <1>2, <1>3, <1>4, <1>5, <1>6, <1>7, <1>8, <1>9, <1>10, <1>11, <1>12, <1>13, <1>14, <1>15, <1>16, <1>17, <1>18, <1>19, <1>20, <1>21, <1>22, <1>23
  DEF Next, Pinging, Starting, Stopping, Refreshing

LEMMA TypesNext == FlagsOK /\ StatesOK /\ [Next]_vars => (FlagsOK /\ StatesOK)'
  BY FlagsNext, StatesNext

\* Every variable keeps its type: in particular Connect gives up in time.
THEOREM LifecycleTypeCorrectness == Spec => []TypeOK
<1>1. Init => FlagsOK /\ StatesOK
  BY FlagsInit, StatesInit
<1>2. FlagsOK /\ StatesOK => TypeOK
  BY DEF FlagsOK, StatesOK, TypeOK
<1> QED
  BY <1>1, <1>2, TypesNext, PTL DEF Spec

(***************************************************************************)
(* Requests and migrations.  The server listens only once main is in Run,  *)
(* and from the first migration on there are tables, except while main is  *)
(* about to create those it has dropped.                                   *)
(***************************************************************************)

StartInv ==
    /\ server = "open" \/ requests # {} => main \in Serving
    /\ main \in {"redis", "users", "downUsers"} \cup Serving => tables # "absent"
    /\ tables = "written" => main \in Serving \cup Over

LEMMA StartInvInit == Init => StartInv
  BY DEF Init, StartInv, Serving, Over

LEMMA StartInvNext ==
    ASSUME StatesOK, StartInv, [Next]_vars
    PROVE  StartInv'
<1>1. CASE Ping
  BY <1>1 DEF Ping, StatesOK, StartInv, Clients, Serving, Over, refresherVars, serverVars
<1>2. CASE WakeUp
  BY <1>2 DEF WakeUp, StatesOK, StartInv, Clients, Serving, Over, refresherVars, serverVars
<1>3. CASE ReadConfig
  BY <1>3 DEF ReadConfig, Connecting, End, Gone, StatesOK, StartInv, Clients, Serving, Over, refresherVars, serverVars
<1>4. CASE ConnectReturns
  BY <1>4 DEF ConnectReturns, Connected, Connecting, Migrating, End, Gone, StatesOK, StartInv, Clients, Serving, Over, refresherVars, serverVars
<1>5. CASE MigrateDown
  BY <1>5 DEF MigrateDown, End, Gone, StatesOK, StartInv, Clients, Serving, Over, refresherVars, serverVars
<1>6. CASE MigrateUp
  BY <1>6 DEF MigrateUp, Connecting, End, Gone, StatesOK, StartInv, Clients, Serving, Over, refresherVars, serverVars
<1>7. CASE Listen
  BY <1>7 DEF Listen, StatesOK, StartInv, Clients, Serving, Over, refresherVars, serverVars
<1>8. CASE StartShutsDown
  BY <1>8 DEF StartShutsDown, StatesOK, StartInv, Clients, Serving, Over, refresherVars, serverVars
<1>9. CASE Stop
  BY <1>9 DEF Stop, StatesOK, StartInv, Clients, Serving, Over, refresherVars, serverVars
<1>10. CASE StopReturns
  BY <1>10 DEF StopReturns, End, Gone, StatesOK, StartInv, Clients, Serving, Over, refresherVars, serverVars
<1>11. CASE Deadline
  BY <1>11 DEF Deadline, StatesOK, StartInv, Clients, Serving, Over, refresherVars, serverVars
<1>12. ASSUME NEW h \in Handlers, Accept(h) PROVE StartInv'
  BY <1>12 DEF Accept, StatesOK, StartInv, Clients, Serving, Over, refresherVars, serverVars
<1>13. ASSUME NEW h \in Handlers, Answer(h) PROVE StartInv'
  BY <1>13 DEF Answer, StatesOK, StartInv, Clients, Serving, Over, refresherVars, serverVars
<1>14. CASE RefreshReturns
  BY <1>14 DEF RefreshReturns, OthersUnchanged, StatesOK, StartInv, Clients, Serving, Over, refresherVars, serverVars
<1>15. CASE NextRefresh
  BY <1>15 DEF NextRefresh, OthersUnchanged, StatesOK, StartInv, Clients, Serving, Over, refresherVars, serverVars
<1>16. ASSUME NEW w \in Workers, BeginRefresh(w) PROVE StartInv'
  BY <1>16 DEF BeginRefresh, OthersUnchanged, StatesOK, StartInv, Clients, Serving, Over, refresherVars, serverVars
<1>17. ASSUME NEW w \in Workers, ReadRows(w) PROVE StartInv'
  BY <1>17 DEF ReadRows, OthersUnchanged, StatesOK, StartInv, Clients, Serving, Over, refresherVars, serverVars
<1>18. ASSUME NEW w \in Workers, CacheRows(w) PROVE StartInv'
  BY <1>18 DEF CacheRows, OthersUnchanged, StatesOK, StartInv, Clients, Serving, Over, refresherVars, serverVars
<1>19. ASSUME NEW w \in Workers, WorkerEnds(w) PROVE StartInv'
  BY <1>19 DEF WorkerEnds, OthersUnchanged, StatesOK, StartInv, Clients, Serving, Over, refresherVars, serverVars
<1>20. CASE Interrupt
  BY <1>20 DEF Interrupt, StatesOK, StartInv, Clients, Serving, Over, refresherVars, serverVars
<1>21. CASE Crash
  BY <1>21 DEF Crash, Gone, StatesOK, StartInv, Clients, Serving, Over, refresherVars, serverVars
<1>22. CASE Relaunch
  BY <1>22 DEF Relaunch, StatesOK, StartInv, Clients, Serving, Over, refresherVars, serverVars
<1>23. CASE UNCHANGED vars
  BY <1>23 DEF vars, StatesOK, StartInv, Clients, Serving, Over, refresherVars, serverVars, refresherVars, serverVars
<1> QED
  BY <1>1, <1>2, <1>3, <1>4, <1>5, <1>6, <1>7, <1>8, <1>9, <1>10, <1>11, <1>12, <1>13, <1>14, <1>15, <1>16, <1>17, <1>18, <1>19, <1>20, <1>21, <1>22, <1>23
  DEF Next, Pinging, Starting, Stopping, Refreshing

LEMMA StartInvariance == Spec => [](StatesOK /\ StartInv)
<1>1. Init => StatesOK /\ StartInv
  BY StatesInit, StartInvInit
<1>2. StatesOK /\ StartInv /\ [Next]_vars => (StatesOK /\ StartInv)'
  BY StatesNext, StartInvNext
<1> QED
  BY <1>1, <1>2, PTL DEF Spec

\* Requests only meet tables that no migration of the process touches again.
THEOREM RequestsMeetTables == Spec => []ServesReady
<1>1. StartInv => ServesReady
  BY DEF StartInv, ServesReady
<1> QED
  BY <1>1, StartInvariance, PTL

LEMMA WrittenKept ==
    ASSUME StartInv, [Next]_vars, tables = "written", tables' # "written"
    PROVE  main \in Over
<1>1. main \in Serving \cup Over
  BY DEF StartInv
<1>2. main \in Serving => tables' \in {tables, "written"}
  BY DEF Next, Pinging, Starting, Stopping, Refreshing, Ping, WakeUp, ReadConfig,
         ConnectReturns, MigrateDown, MigrateUp, Listen, StartShutsDown, Stop,
         StopReturns, Deadline, Accept, Answer, RefreshReturns, NextRefresh,
         BeginRefresh, ReadRows, CacheRows, WorkerEnds, OthersUnchanged, Interrupt,
         Crash, Relaunch, End, Gone, Clients, Serving, Over, vars
<1> QED
  BY <1>1, <1>2

\* A process never drops what its own clients have written.
THEOREM WritesSurvive == Spec => NothingWrittenIsDropped
<1>1. StartInv /\ [Next]_vars
        => [tables = "written" /\ tables' # "written" => main \in Over]_vars
  BY WrittenKept
<1> QED
  BY <1>1, StartInvariance, PTL DEF Spec, NothingWrittenIsDropped

(***************************************************************************)
(* The refresher runs from the connection to Redis on.  By then a process  *)
(* that reloads has dropped the tables it found.                           *)
(***************************************************************************)

Refreshed == {"users", "downUsers", "upUsers"} \cup Serving

RefresherInv ==
    /\ loop # "none" => main \in Refreshed
    /\ \A w \in Workers : worker[w] # "none" => main \in Refreshed
    /\ reload /\ main \in {"upBanners", "redis"} \cup Refreshed => tables # "left"
    /\ NoDroppedRowsCached

LEMMA RefresherInvInit == Init => RefresherInv
  BY DEF Init, RefresherInv, NoDroppedRowsCached

LEMMA RefresherInvNext ==
    ASSUME StatesOK, RefresherInv, [Next]_vars
    PROVE  RefresherInv'
<1>1. CASE Ping
  BY <1>1 DEF Ping, StatesOK, RefresherInv, NoDroppedRowsCached, Refreshed, Clients, Serving, Over, refresherVars, serverVars
<1>2. CASE WakeUp
  BY <1>2 DEF WakeUp, StatesOK, RefresherInv, NoDroppedRowsCached, Refreshed, Clients, Serving, Over, refresherVars, serverVars
<1>3. CASE ReadConfig
  BY <1>3 DEF ReadConfig, Connecting, End, Gone, StatesOK, RefresherInv, NoDroppedRowsCached, Refreshed, Clients, Serving, Over, refresherVars, serverVars
<1>4. CASE ConnectReturns
  BY <1>4 DEF ConnectReturns, Connected, Connecting, Migrating, End, Gone, StatesOK, RefresherInv, NoDroppedRowsCached, Refreshed, Clients, Serving, Over, refresherVars, serverVars
<1>5. CASE MigrateDown
  BY <1>5 DEF MigrateDown, End, Gone, StatesOK, RefresherInv, NoDroppedRowsCached, Refreshed, Clients, Serving, Over, refresherVars, serverVars
<1>6. CASE MigrateUp
  BY <1>6 DEF MigrateUp, Connecting, End, Gone, StatesOK, RefresherInv, NoDroppedRowsCached, Refreshed, Clients, Serving, Over, refresherVars, serverVars
<1>7. CASE Listen
  BY <1>7 DEF Listen, StatesOK, RefresherInv, NoDroppedRowsCached, Refreshed, Clients, Serving, Over, refresherVars, serverVars
<1>8. CASE StartShutsDown
  BY <1>8 DEF StartShutsDown, StatesOK, RefresherInv, NoDroppedRowsCached, Refreshed, Clients, Serving, Over, refresherVars, serverVars
<1>9. CASE Stop
  BY <1>9 DEF Stop, StatesOK, RefresherInv, NoDroppedRowsCached, Refreshed, Clients, Serving, Over, refresherVars, serverVars
<1>10. CASE StopReturns
  BY <1>10 DEF StopReturns, End, Gone, StatesOK, RefresherInv, NoDroppedRowsCached, Refreshed, Clients, Serving, Over, refresherVars, serverVars
<1>11. CASE Deadline
  BY <1>11 DEF Deadline, StatesOK, RefresherInv, NoDroppedRowsCached, Refreshed, Clients, Serving, Over, refresherVars, serverVars
<1>12. ASSUME NEW h \in Handlers, Accept(h) PROVE RefresherInv'
  BY <1>12 DEF Accept, StatesOK, RefresherInv, NoDroppedRowsCached, Refreshed, Clients, Serving, Over, refresherVars, serverVars
<1>13. ASSUME NEW h \in Handlers, Answer(h) PROVE RefresherInv'
  BY <1>13 DEF Answer, StatesOK, RefresherInv, NoDroppedRowsCached, Refreshed, Clients, Serving, Over, refresherVars, serverVars
<1>14. CASE RefreshReturns
  BY <1>14 DEF RefreshReturns, OthersUnchanged, StatesOK, RefresherInv, NoDroppedRowsCached, Refreshed, Clients, Serving, Over, refresherVars, serverVars
<1>15. CASE NextRefresh
  BY <1>15 DEF NextRefresh, OthersUnchanged, StatesOK, RefresherInv, NoDroppedRowsCached, Refreshed, Clients, Serving, Over, refresherVars, serverVars
<1>16. ASSUME NEW w \in Workers, BeginRefresh(w) PROVE RefresherInv'
  BY <1>16 DEF BeginRefresh, OthersUnchanged, StatesOK, RefresherInv, NoDroppedRowsCached, Refreshed, Clients, Serving, Over, refresherVars, serverVars
<1>17. ASSUME NEW w \in Workers, ReadRows(w) PROVE RefresherInv'
  BY <1>17 DEF ReadRows, OthersUnchanged, StatesOK, RefresherInv, NoDroppedRowsCached, Refreshed, Clients, Serving, Over, refresherVars, serverVars
<1>18. ASSUME NEW w \in Workers, CacheRows(w) PROVE RefresherInv'
  BY <1>18 DEF CacheRows, OthersUnchanged, StatesOK, RefresherInv, NoDroppedRowsCached, Refreshed, Clients, Serving, Over, refresherVars, serverVars
<1>19. ASSUME NEW w \in Workers, WorkerEnds(w) PROVE RefresherInv'
  BY <1>19 DEF WorkerEnds, OthersUnchanged, StatesOK, RefresherInv, NoDroppedRowsCached, Refreshed, Clients, Serving, Over, refresherVars, serverVars
<1>20. CASE Interrupt
  BY <1>20 DEF Interrupt, StatesOK, RefresherInv, NoDroppedRowsCached, Refreshed, Clients, Serving, Over, refresherVars, serverVars
<1>21. CASE Crash
  BY <1>21 DEF Crash, Gone, StatesOK, RefresherInv, NoDroppedRowsCached, Refreshed, Clients, Serving, Over, refresherVars, serverVars
<1>22. CASE Relaunch
  BY <1>22 DEF Relaunch, StatesOK, RefresherInv, NoDroppedRowsCached, Refreshed, Clients, Serving, Over, refresherVars, serverVars
<1>23. CASE UNCHANGED vars
  BY <1>23 DEF vars, StatesOK, RefresherInv, NoDroppedRowsCached, Refreshed, Clients, Serving, Over, refresherVars, serverVars, refresherVars, serverVars
<1> QED
  BY <1>1, <1>2, <1>3, <1>4, <1>5, <1>6, <1>7, <1>8, <1>9, <1>10, <1>11, <1>12, <1>13, <1>14, <1>15, <1>16, <1>17, <1>18, <1>19, <1>20, <1>21, <1>22, <1>23
  DEF Next, Pinging, Starting, Stopping, Refreshing

\* A process that reloads caches no row of the tables it dropped.
THEOREM DroppedRowsStayDropped == Spec => []NoDroppedRowsCached
<1>1. Init => StatesOK /\ RefresherInv
  BY StatesInit, RefresherInvInit
<1>2. StatesOK /\ RefresherInv /\ [Next]_vars => (StatesOK /\ RefresherInv)'
  BY StatesNext, RefresherInvNext
<1>3. RefresherInv => NoDroppedRowsCached
  BY DEF RefresherInv
<1> QED
  BY <1>1, <1>2, <1>3, PTL DEF Spec

(***************************************************************************)
(* refresh waits for one worker, or for none outside the call.             *)
(***************************************************************************)

WorkerInv ==
    /\ NoStrayWorkers
    /\ loop # "await" => awaited = {}
    /\ \A v, w \in awaited : v = w

LEMMA WorkerInvInit == Init => WorkerInv
  BY DEF Init, WorkerInv, NoStrayWorkers

LEMMA WorkerInvNext ==
    ASSUME StatesOK, RefresherInv, WorkerInv, [Next]_vars
    PROVE  WorkerInv'
<1>1. CASE Ping
  BY <1>1 DEF Ping, StatesOK, RefresherInv, Refreshed, WorkerInv, NoStrayWorkers, Clients, Serving, Over, refresherVars, serverVars
<1>2. CASE WakeUp
  BY <1>2 DEF WakeUp, StatesOK, RefresherInv, Refreshed, WorkerInv, NoStrayWorkers, Clients, Serving, Over, refresherVars, serverVars
<1>3. CASE ReadConfig
  BY <1>3 DEF ReadConfig, Connecting, End, Gone, StatesOK, RefresherInv, Refreshed, WorkerInv, NoStrayWorkers, Clients, Serving, Over, refresherVars, serverVars
<1>4. CASE ConnectReturns
  BY <1>4 DEF ConnectReturns, Connected, Connecting, Migrating, End, Gone, StatesOK, RefresherInv, Refreshed, WorkerInv, NoStrayWorkers, Clients, Serving, Over, refresherVars, serverVars
<1>5. CASE MigrateDown
  BY <1>5 DEF MigrateDown, End, Gone, StatesOK, RefresherInv, Refreshed, WorkerInv, NoStrayWorkers, Clients, Serving, Over, refresherVars, serverVars
<1>6. CASE MigrateUp
  BY <1>6 DEF MigrateUp, Connecting, End, Gone, StatesOK, RefresherInv, Refreshed, WorkerInv, NoStrayWorkers, Clients, Serving, Over, refresherVars, serverVars
<1>7. CASE Listen
  BY <1>7 DEF Listen, StatesOK, RefresherInv, Refreshed, WorkerInv, NoStrayWorkers, Clients, Serving, Over, refresherVars, serverVars
<1>8. CASE StartShutsDown
  BY <1>8 DEF StartShutsDown, StatesOK, RefresherInv, Refreshed, WorkerInv, NoStrayWorkers, Clients, Serving, Over, refresherVars, serverVars
<1>9. CASE Stop
  BY <1>9 DEF Stop, StatesOK, RefresherInv, Refreshed, WorkerInv, NoStrayWorkers, Clients, Serving, Over, refresherVars, serverVars
<1>10. CASE StopReturns
  BY <1>10 DEF StopReturns, End, Gone, StatesOK, RefresherInv, Refreshed, WorkerInv, NoStrayWorkers, Clients, Serving, Over, refresherVars, serverVars
<1>11. CASE Deadline
  BY <1>11 DEF Deadline, StatesOK, RefresherInv, Refreshed, WorkerInv, NoStrayWorkers, Clients, Serving, Over, refresherVars, serverVars
<1>12. ASSUME NEW h \in Handlers, Accept(h) PROVE WorkerInv'
  BY <1>12 DEF Accept, StatesOK, RefresherInv, Refreshed, WorkerInv, NoStrayWorkers, Clients, Serving, Over, refresherVars, serverVars
<1>13. ASSUME NEW h \in Handlers, Answer(h) PROVE WorkerInv'
  BY <1>13 DEF Answer, StatesOK, RefresherInv, Refreshed, WorkerInv, NoStrayWorkers, Clients, Serving, Over, refresherVars, serverVars
<1>14. CASE RefreshReturns
  BY <1>14 DEF RefreshReturns, OthersUnchanged, StatesOK, RefresherInv, Refreshed, WorkerInv, NoStrayWorkers, Clients, Serving, Over, refresherVars, serverVars
<1>15. CASE NextRefresh
  BY <1>15 DEF NextRefresh, OthersUnchanged, StatesOK, RefresherInv, Refreshed, WorkerInv, NoStrayWorkers, Clients, Serving, Over, refresherVars, serverVars
<1>16. ASSUME NEW w \in Workers, BeginRefresh(w) PROVE WorkerInv'
  BY <1>16 DEF BeginRefresh, OthersUnchanged, StatesOK, RefresherInv, Refreshed, WorkerInv, NoStrayWorkers, Clients, Serving, Over, refresherVars, serverVars
<1>17. ASSUME NEW w \in Workers, ReadRows(w) PROVE WorkerInv'
  BY <1>17 DEF ReadRows, OthersUnchanged, StatesOK, RefresherInv, Refreshed, WorkerInv, NoStrayWorkers, Clients, Serving, Over, refresherVars, serverVars
<1>18. ASSUME NEW w \in Workers, CacheRows(w) PROVE WorkerInv'
  BY <1>18 DEF CacheRows, OthersUnchanged, StatesOK, RefresherInv, Refreshed, WorkerInv, NoStrayWorkers, Clients, Serving, Over, refresherVars, serverVars
<1>19. ASSUME NEW w \in Workers, WorkerEnds(w) PROVE WorkerInv'
  BY <1>19 DEF WorkerEnds, OthersUnchanged, StatesOK, RefresherInv, Refreshed, WorkerInv, NoStrayWorkers, Clients, Serving, Over, refresherVars, serverVars
<1>20. CASE Interrupt
  BY <1>20 DEF Interrupt, StatesOK, RefresherInv, Refreshed, WorkerInv, NoStrayWorkers, Clients, Serving, Over, refresherVars, serverVars
<1>21. CASE Crash
  BY <1>21 DEF Crash, Gone, StatesOK, RefresherInv, Refreshed, WorkerInv, NoStrayWorkers, Clients, Serving, Over, refresherVars, serverVars
<1>22. CASE Relaunch
  BY <1>22 DEF Relaunch, StatesOK, RefresherInv, Refreshed, WorkerInv, NoStrayWorkers, Clients, Serving, Over, refresherVars, serverVars
<1>23. CASE UNCHANGED vars
  BY <1>23 DEF vars, StatesOK, RefresherInv, Refreshed, WorkerInv, NoStrayWorkers, Clients, Serving, Over, refresherVars, serverVars, refresherVars, serverVars
<1> QED
  BY <1>1, <1>2, <1>3, <1>4, <1>5, <1>6, <1>7, <1>8, <1>9, <1>10, <1>11, <1>12, <1>13, <1>14, <1>15, <1>16, <1>17, <1>18, <1>19, <1>20, <1>21, <1>22, <1>23
  DEF Next, Pinging, Starting, Stopping, Refreshing

\* Without a signal refresh leaves no goroutine behind.
THEOREM RefreshWaits == Spec => []NoStrayWorkers
<1>1. Init => StatesOK /\ RefresherInv /\ WorkerInv
  BY StatesInit, RefresherInvInit, WorkerInvInit
<1>2. /\ StatesOK /\ RefresherInv /\ WorkerInv
      /\ [Next]_vars
      => (StatesOK /\ RefresherInv /\ WorkerInv)'
  BY StatesNext, RefresherInvNext, WorkerInvNext
<1>3. WorkerInv => NoStrayWorkers
  BY DEF WorkerInv
<1> QED
  BY <1>1, <1>2, <1>3, PTL DEF Spec

(***************************************************************************)
(* main is in Stop only because of a signal.                               *)
(***************************************************************************)

StopInv == main = "stop" => interrupted

LEMMA StopInvInit == Init => StopInv
  BY DEF Init, StopInv

LEMMA StopInvNext == StopInv /\ [Next]_vars => StopInv'
<1> SUFFICES ASSUME StopInv, [Next]_vars PROVE StopInv'
  OBVIOUS
<1>1. CASE ConnectReturns
  BY <1>1 DEF ConnectReturns, Connected, Connecting, Migrating, End, Gone, Clients, StopInv
<1>2. CASE Stop
  BY <1>2 DEF Stop, StopInv
<1>3. CASE Refreshing
  BY <1>3 DEF Refreshing, RefreshReturns, NextRefresh, BeginRefresh, ReadRows,
              CacheRows, WorkerEnds, OthersUnchanged, StopInv
<1>4. CASE \E h \in Handlers : Accept(h) \/ Answer(h)
  BY <1>4 DEF Accept, Answer, StopInv
<1>5. CASE Pinging \/ Listen \/ StartShutsDown \/ Deadline
  BY <1>5 DEF Pinging, Ping, WakeUp, Listen, StartShutsDown, Deadline, StopInv
<1>6. CASE ReadConfig \/ MigrateDown \/ MigrateUp
  BY <1>6 DEF ReadConfig, Connecting, MigrateDown, MigrateUp, End, Gone, StopInv
<1>7. CASE StopReturns \/ Interrupt \/ Crash \/ Relaunch
  BY <1>7 DEF StopReturns, End, Gone, Interrupt, Crash, Relaunch, StopInv
<1>8. CASE UNCHANGED vars
  BY <1>8 DEF vars, StopInv
<1> QED
  BY <1>1, <1>2, <1>3, <1>4, <1>5, <1>6, <1>7, <1>8 DEF Next, Starting, Stopping

LEMMA OrderlyEnd ==
    ASSUME StopInv, [Next]_vars, main' = "ended", main \in Serving
    PROVE  interrupted /\ (requests = {} \/ late)
<1>1. StopReturns
  BY DEF Serving, Clients, Over, Next, Pinging, Starting, Stopping, Refreshing, Ping,
         WakeUp, ReadConfig, ConnectReturns, MigrateDown, MigrateUp, Listen,
         StartShutsDown, Stop, Deadline, Accept, Answer, RefreshReturns, NextRefresh,
         BeginRefresh, ReadRows, CacheRows, WorkerEnds, OthersUnchanged, Interrupt,
         Crash, Relaunch, Gone, vars
<1> QED
  BY <1>1 DEF StopReturns, StopInv

\* The process does not end unasked, nor while requests have time left.
THEOREM ProcessEndsInOrder == Spec => EndsInOrder
<1>1. StopInv /\ [Next]_vars
        => [main' = "ended" /\ main \in Serving =>
               /\ interrupted
               /\ requests = {} \/ late]_vars
  BY OrderlyEnd
<1> QED
  BY <1>1, StopInvInit, StopInvNext, PTL DEF Spec, EndsInOrder

(***************************************************************************)
(* How many steps main and Connect have left.  Connect's goroutine is      *)
(* there only while main is in a Connect: once main has gone on, no ping   *)
(* counts any more.                                                        *)
(***************************************************************************)

PingerInv == main \notin Clients => pinger = "none"

LEMMA PingerInvInit == Init => PingerInv
  BY DEF Init, PingerInv

\* What neither main nor Connect does leaves them as they are.
LEMMA OthersLeaveMain ==
    ASSUME [Next]_vars,
           ~(Pinging \/ Starting \/ Stopping \/ Deadline \/ Crash \/ Relaunch)
    PROVE  UNCHANGED <<main, late, pinger, delay>>
<1>1. CASE Refreshing
  BY <1>1 DEF Refreshing, RefreshReturns, NextRefresh, BeginRefresh, ReadRows,
              CacheRows, WorkerEnds, OthersUnchanged
<1>2. CASE \E h \in Handlers : Accept(h) \/ Answer(h)
  BY <1>2 DEF Accept, Answer
<1>3. CASE Listen \/ StartShutsDown \/ Interrupt \/ UNCHANGED vars
  BY <1>3 DEF Listen, StartShutsDown, Interrupt, vars
<1> QED
  BY <1>1, <1>2, <1>3 DEF Next

LEMMA PingerInvNext == StatesOK /\ PingerInv /\ [Next]_vars => PingerInv'
<1> SUFFICES ASSUME StatesOK, PingerInv, [Next]_vars PROVE PingerInv'
  OBVIOUS
<1>1. CASE Pinging
  BY <1>1 DEF Pinging, Ping, WakeUp, PingerInv
<1>2. CASE ReadConfig
  BY <1>2 DEF ReadConfig, Connecting, End, Gone, Clients, PingerInv
<1>3. CASE ConnectReturns
  BY <1>3 DEF ConnectReturns, Connected, Connecting, Migrating, End, Gone, Clients, PingerInv
<1>4. CASE MigrateDown \/ MigrateUp
  BY <1>4 DEF MigrateDown, MigrateUp, Connecting, End, Gone, Clients, PingerInv
<1>5. CASE Stopping \/ Deadline
  BY <1>5 DEF Stopping, Stop, StopReturns, Deadline, End, Gone, Clients, PingerInv
<1>6. CASE Crash \/ Relaunch
  BY <1>6 DEF Crash, Relaunch, Gone, Over, Clients, PingerInv
<1>7. CASE ~(Pinging \/ Starting \/ Stopping \/ Deadline \/ Crash \/ Relaunch)
  BY <1>7, OthersLeaveMain DEF PingerInv
<1> QED
  BY <1>1, <1>2, <1>3, <1>4, <1>5, <1>6, <1>7 DEF Starting

LEMMA PingerInvariance == Spec => [](StatesOK /\ PingerInv)
<1> QED
  BY StatesInit, PingerInvInit, StatesNext, PingerInvNext, PTL DEF Spec

\* What a place in the start weighs: more than all the steps of a Connect.
Weight == 2 * MaxDelay + 3

InStart == {"config", "downBanners", "upBanners", "downUsers", "upUsers"} \cup Clients

LEMMA PingsAreFew ==
    ASSUME StatesOK
    PROVE  /\ PingsLeft \in Nat
           /\ delay = 1 => PingsLeft < Weight
  BY LifecycleAssumption DEF StatesOK, PingsLeft, Weight

LEMMA PlacesAreFew ==
    ASSUME main \in InStart
    PROVE  PlacesLeft \in 1..8
  BY DEF InStart, Clients, PlacesLeft

LEMMA LeftInStart ==
    ASSUME main \in InStart
    PROVE  Left = 3 + Weight * PlacesLeft + PingsLeft
  BY DEF InStart, Clients, Over, Left, Weight

\* A place further on weighs more than the pings of the Connect there.
LEMMA FurtherOn ==
    ASSUME NEW W \in Nat, NEW p \in 1..8, NEW q \in 1..8, NEW n \in Nat,
           NEW m \in Nat, q < p, m < W
    PROVE  3 + W * q + m < 3 + W * p + n
<1>1. W * q + W <= W * p
  <2>1. p \in {1, 2, 3, 4, 5, 6, 7, 8} /\ q \in {1, 2, 3, 4, 5, 6, 7, 8}
    OBVIOUS
  <2> QED
    BY <2>1
<1>2. W * q \in Nat /\ W * p \in Nat
  OBVIOUS
<1> QED
  BY <1>1, <1>2

\* The next place of the start, at the beginning of a Connect or outside one.
LEMMA OnePlaceLess ==
    ASSUME StatesOK, StatesOK', main \in InStart, main' \in InStart, delay' = 1,
           PlacesLeft' < PlacesLeft
    PROVE  Left' < Left
<1>1. Weight \in Nat
  BY LifecycleAssumption DEF Weight
<1>2. Weight' = Weight
  BY DEF Weight
<1>3. PingsLeft \in Nat /\ PingsLeft' \in Nat /\ PingsLeft' < Weight
  BY PingsAreFew, LifecycleAssumption DEF StatesOK, PingsLeft, Weight
<1>4. PlacesLeft \in 1..8 /\ PlacesLeft' \in 1..8
  BY DEF InStart, Clients, PlacesLeft
<1>5. Left = 3 + Weight * PlacesLeft + PingsLeft
  BY LeftInStart
<1>6. Left' = 3 + Weight * PlacesLeft' + PingsLeft'
  BY DEF InStart, Clients, Over, Left, Weight
<1> QED
  BY <1>1, <1>3, <1>4, <1>5, <1>6, FurtherOn

\* As long as it is starting it has more left than the stop takes.
LEMMA StartIsLonger ==
    ASSUME StatesOK, main \in InStart
    PROVE  Left \in Nat /\ Left > 3
<1>1. Weight \in Nat /\ Weight > 0
  BY LifecycleAssumption DEF Weight
<1>2. PlacesLeft \in {1, 2, 3, 4, 5, 6, 7, 8}
  BY PlacesAreFew
<1>3. Weight * PlacesLeft \in Nat /\ Weight * PlacesLeft > 0
  BY <1>1, <1>2
<1> QED
  BY <1>3, PingsAreFew, LeftInStart

LEMMA EndsTheProcess ==
    ASSUME StatesOK, main \notin Over, main' \in Over
    PROVE  Left' < Left
<1>1. Left' = 0
  BY DEF Left, Over
<1>2. CASE main \in InStart
  BY <1>1, <1>2, StartIsLonger
<1>3. CASE main \in Serving
  BY <1>1, <1>3 DEF Serving, Over, Left
<1> QED
  BY <1>2, <1>3 DEF StatesOK, InStart, Over

LEMMA LeftPinging ==
    ASSUME StatesOK, PingerInv, Pinging
    PROVE  Left' < Left
<1>1. main \in Clients /\ main' = main
  BY DEF Pinging, Ping, WakeUp, PingerInv
<1>2. PingsLeft \in Nat /\ PingsLeft' \in Nat /\ PingsLeft' < PingsLeft
  <2>1. CASE Ping
    BY <2>1, LifecycleAssumption DEF Ping, StatesOK, PingsLeft
  <2>2. CASE WakeUp
    BY <2>2, LifecycleAssumption DEF WakeUp, StatesOK, PingsLeft
  <2> QED
    BY <2>1, <2>2 DEF Pinging
<1>3. PlacesLeft \in {1, 2, 3, 4, 5, 6, 7, 8} /\ PlacesLeft' = PlacesLeft
  BY <1>1 DEF Clients, PlacesLeft
<1>4. Weight \in Nat /\ Weight' = Weight
  BY LifecycleAssumption DEF Weight
<1>5. Left = 3 + Weight * PlacesLeft + PingsLeft
  BY <1>1, LeftInStart DEF InStart
<1>6. Left' = 3 + Weight * PlacesLeft + PingsLeft'
  BY <1>1, <1>3 DEF Clients, Over, Left, Weight
<1>7. Weight * PlacesLeft \in Nat
  BY <1>3, <1>4
<1> QED
  BY <1>2, <1>5, <1>6, <1>7

LEMMA LeftStarting ==
    ASSUME StatesOK, PingerInv, StatesOK', PingerInv', Starting
    PROVE  Left' < Left
<1>1. main \in InStart
  BY DEF Starting, ReadConfig, ConnectReturns, MigrateDown, MigrateUp, InStart, Clients
<1>2. ASSUME End PROVE Left' < Left
  BY <1>1, <1>2, EndsTheProcess DEF End, Gone, InStart, Clients, Over
<1>3. CASE ReadConfig /\ ~End
  <2>1. main = "config" /\ main' = "banners" /\ delay' = 1
    BY <1>3 DEF ReadConfig, Connecting
  <2> QED
    BY <1>1, <2>1, OnePlaceLess DEF InStart, Clients, PlacesLeft
<1>4. CASE ConnectReturns /\ ~End
  <2>1. /\ main \in Clients /\ delay' = 1
        /\ main = "banners" => main' \in {"downBanners", "upBanners"}
        /\ main = "redis" => main' = "users"
        /\ main = "users" => main' \in {"downUsers", "upUsers"}
    BY <1>4 DEF ConnectReturns, Connected, Connecting, Migrating, Clients
  <2> QED
    BY <1>1, <2>1, OnePlaceLess DEF InStart, Clients, PlacesLeft
<1>5. CASE MigrateDown /\ ~End
  <2>1. /\ main \in {"downBanners", "downUsers"}
        /\ main' = IF main = "downBanners" THEN "upBanners" ELSE "upUsers"
        /\ UNCHANGED <<pinger, delay>>
    BY <1>5 DEF MigrateDown
  <2>2. pinger = "none" /\ pinger' = "none"
    BY <2>1 DEF PingerInv, Clients
  <2>3. PingsLeft = 0 /\ PingsLeft' = 0
    BY <2>2 DEF PingsLeft
  <2> QED
    BY <1>1, <2>1, <2>3, LifecycleAssumption
    DEF Left, PlacesLeft, InStart, Clients, Over
<1>6. CASE MigrateUp /\ ~End /\ main = "upBanners"
  <2>1. main' = "redis" /\ delay' = 1
    BY <1>6 DEF MigrateUp, Connecting
  <2> QED
    BY <1>1, <1>6, <2>1, OnePlaceLess DEF InStart, Clients, PlacesLeft
<1>7. CASE MigrateUp /\ ~End /\ main = "upUsers"
  <2>1. main' = "run"
    BY <1>7 DEF MigrateUp
  <2>2. Left' = 3
    BY <2>1 DEF Left, Over
  <2> QED
    BY <1>1, <2>2, StartIsLonger
<1> QED
  BY <1>2, <1>3, <1>4, <1>5, <1>6, <1>7 DEF Starting, MigrateUp

LEMMA LeftStopping ==
    ASSUME StatesOK, FlagsOK, Stopping \/ Deadline
    PROVE  Left' < Left
<1>1. CASE Stop
  BY <1>1 DEF Stop, Left, Over
<1>2. CASE StopReturns
  BY <1>2, EndsTheProcess DEF StopReturns, End, Gone, Over
<1>3. CASE Deadline
  BY <1>3 DEF Deadline, Left, Over
<1> QED
  BY <1>1, <1>2, <1>3 DEF Stopping

LEMMA LeftIsNatural ==
    ASSUME StatesOK
    PROVE  Left \in Nat
<1>1. CASE main \in InStart
  BY <1>1, StartIsLonger
<1>2. CASE main \in Serving \cup Over
  BY <1>2 DEF Left, Serving, Over
<1> QED
  BY <1>1, <1>2 DEF StatesOK, InStart, Over

LEMMA LeftNext ==
    ASSUME FlagsOK, StatesOK, PingerInv, StatesOK', PingerInv', [Next]_vars,
           Left \in Nat, Left' \in Nat
    PROVE  /\ main \notin Over => Left' <= Left
           /\ Pinging \/ Starting \/ Stopping \/ Deadline => Left' < Left
<1>1. CASE Pinging \/ Starting \/ Stopping \/ Deadline
  <2>1. Left' < Left
    BY <1>1, LeftPinging, LeftStarting, LeftStopping
  <2> QED
    BY <2>1
<1>2. CASE ~(Pinging \/ Starting \/ Stopping \/ Deadline)
  <2>1. CASE main \notin Over /\ Crash
    <3>1. Left' < Left
      BY <2>1, EndsTheProcess DEF Crash, Gone, Over
    <3> QED
      BY <1>2, <3>1
  <2>2. CASE main \notin Over /\ ~Crash
    <3>1. UNCHANGED <<main, late, pinger, delay>>
      BY <1>2, <2>2, OthersLeaveMain DEF Relaunch
    <3>2. Left' = Left
      BY <3>1 DEF Left, PlacesLeft, PingsLeft
    <3> QED
      BY <1>2, <3>2
  <2> QED
    BY <1>2, <2>1, <2>2
<1> QED
  BY <1>1, <1>2

\* The start and the stop take a bounded number of steps of main's own,
\* whatever the stores, the requests and the refresher do.
THEOREM StartAndStopAreBounded == Spec => MainRunsOut
<1> DEFINE Inv == FlagsOK /\ StatesOK /\ PingerInv
           Step ==
              /\ main \notin Over => Left' <= Left
              /\ Pinging \/ Starting \/ Stopping \/ Deadline => Left' < Left
<1>1. Init => Inv
  BY FlagsInit, StatesInit, PingerInvInit
<1>2. Inv /\ [Next]_vars => Inv'
  BY TypesNext, PingerInvNext
<1>3. Inv => Left \in Nat
  BY LeftIsNatural
<1>4. /\ Inv /\ Inv'
      /\ Left \in Nat /\ (Left \in Nat)'
      /\ [Next]_vars
      => [Step]_vars
  BY LeftNext
<1> QED
  BY <1>1, <1>2, <1>3, <1>4, PTL DEF Spec, MainRunsOut

=============================================================================
