# Banners: TLA+ specifications, checks and proofs

This directory holds the formal model of the banners service in `src/`: an HTTP
API over a PostgreSQL table, with a Redis cache in front of it that a background
goroutine keeps filled. The modules are translated from the Go code. TLC checks
them on small instances; TLAPS proves the main results for every value of the
constants.

## 1. The system

| Component | State | Operations | Correct when |
|---|---|---|---|
| HTTP server (`api/server`, wrappers in `api/oapi`) | requests in progress | the seven endpoints | only admins change banners; others get revisions that were switched on, of late; a username has one owner; the status says what happened |
| BannerService (`services/bannerservice`) | the locals of its methods | GetBanner, CreateBanner, UpdateBanner, DeleteBanner, BackroundRefresh/refresh | what readers get is bounded in age, current when they ask for that, and never a false "not found" |
| BannerCache (`bannercache/redis`) | `banner:<id>` with expiry, sets `feature:<f>:tag:<t>` | CreateBanner (SET, SADDs), GetUserBanner (SMEMBERS, GETs), DeleteBanner (DEL) | an entry can be found by each of its tags; entries expire |
| BannersPostgresRepo (`bannerrepo/postgres`) | table `banners`, the pool of connections, open transactions | insert, update, delete, select, each one transaction | a method is as good as one step on the table; every connection comes back to the pool |
| AuthService (`services/authservice`) | sign-ups in progress | CreateUser, Auth, Login | only admins make admins |
| UsersPostgresRepo (`userrepo/postgres`) | table `users` | CreateUser, GetUser | as for banners; usernames are unique |
| jwtauth | tokens clients hold | GetToken, ValidateTokenRole | a token gives its role, until it expires |
| pgtools, redistools | the goroutine of a Connect and its delay | Connect with retries, ApplyMigration, CommitOrRollback | the pool is up or the start fails; a transaction ends |
| App, `cmd/banners` | where main is; the goroutines it started; the listener | main, New, Run, Stop | everything is up before requests; the process ends when asked, and not before its requests |
| Schema (`migrations/`) | the two tables, one admin | up, down | what clients wrote is not dropped |
| Config, Logger | none that others read | | |

How they interact: a handler runs in a goroutine of `net/http`, calls
AuthService or BannerService, and these call their repository and the cache;
nothing in the process locks anything, so handlers meet each other and the
refresher only in PostgreSQL and Redis. BannerService talks to each store with
several commands per operation, and no transaction spans both.

What is hard here:

- deletes, updates, late SETs of CreateBanner and a refresh that read its rows
  long ago interleave command by command on the same keys;
- the refresher's ticker drops ticks when a refresh takes long, and the entries
  it should renew expire meanwhile;
- GetUserBanner draws ids at random *with* replacement, as often as there are
  ids: it may never look at the one that would answer;
- any command may fail before or after its effect, a COMMIT may be applied and
  reported as failed, the process may die between two commands while both
  stores live on;
- a token is checked at the start of a request and the write comes later;
  tokens come from users that are created with tokens;
- transactions of several handlers are open at once, on few connections, and
  wait for connections and for row locks; a list is read row by row and an
  error in the middle looks like its end;
- the refresher starts before the second migration, and with `reload` that one
  drops the tables it reads; a signal may come at any moment of all this.

`PROJECT.json` lists these hazards with their lines and the properties that
would catch them.

## 2. Modules

    Runtime      the handlers, what may fail, how a transaction ends
    Banner       banners, revisions, contents
      BannerRepo     (Banner, Runtime)      the table
        BannerAnswers  (BannerRepo)           what callers ask and are told
          BannerStore    (BannerAnswers)        abstract: the service's promise
          BannerService  (BannerAnswers, BannerCache)  handlers and refresher
      BannerCache    (Banner)               Redis
      RepoMethods    (Banner, Runtime)      the repository's methods
        RepoCalls        (BannerRepo, RepoMethods)  abstract: one step each
        RepoTransactions (RepoMethods)        transactions, pool and locks
    AuthService  (Runtime)                  users, tokens, sign-ups
    Server       (BannerService, AuthService)      the HTTP API
    Lifecycle    (Runtime)                  processes from start to end
    MCBannerService, MCServer, MCRepoTransactions  instances for TLC
    BannerServiceProofs, ProgressProofs, BannerStoreProofs, AuthServiceProofs,
    ServerProofs, LifecycleProofs, RepoTransactionsProofs

Three levels describe the banners. RepoTransactions, the code of the repository
as it runs, implements RepoCalls, methods with one step each. BannerService is
written with those steps (`InsertBanner`, `UpdateRow`, ... of BannerRepo, which
RepoCalls takes too), and implements BannerStore. Server runs BannerService.

**Runtime.** `Outcomes`, `Applied` and `Reported` are `pgtools.CommitOrRollback`:
committed, rolled back, or committed with the answer lost. `Faults` selects what
may fail in an instance.

**Banner, BannerRepo.** A row is `[id, rev, feature, tags, active]`. The content
text is represented by `rev`, a number that grows with every update, so that
revisions can be told apart; it exists in the model only. `InsertBanner`,
`UpdateRow`, `DeleteRow` and `SelectBanners` are the four methods of the
repository. `drawn` are the ids the SERIAL column has given to INSERTs that have
ended, in whatever order; a rolled back INSERT may use one up.

**BannerCache.** One operator per Redis command. `ttl` is the time an entry has
left. The `feature:...` sets have no expiry and ids are never removed from them,
as in the code.

**BannerService.** One action per command or transaction; `pc[p]` names the next
command of process `p`. `req`, `members`, `tries`, `target` are the locals of a
handler's method, `todo`, `newTags` those of `bannerCache.CreateBanner` and
`refresh`.

| Code | Actions |
|---|---|
| GetBanner | `GetBannerFromRepo`; or `GetMembers`, `GetEntry` (`Hit`, `Miss`), `GetBannerAfterMiss` |
| CreateBanner | `CreateBanner`, `CacheSet`, `CacheSAdd` |
| UpdateBanner | `UpdateBanner` |
| DeleteBanner | `DeleteFromCache`, `DeleteFromRepo` |
| BackroundRefresh, refresh | `NextRefresh`, `RefreshRead`, `CacheSet`, `CacheSAdd` |
| time, death and restart | `Tick` (expiry, the ticker, ages), `Crash` |
| the rest of the server | `Elsewhere` |

`age[b]` is how long ago the banner `b`, with its id, revision and contents, was
last a row of the table: it is not in the code, no guard reads it, and the
staleness properties are stated with it.

**BannerAnswers, BannerStore.** BannerStore is what a caller may rely on: a
table, writes that take effect in one step, and answers that are what the table
holds, or, for users who did not ask for the last revision, one active banner
that was a row less than `MaxAge` ticks ago. It has no cache, no processes and
no locals; the ids in `created` are stored and still have to be reported, once.
`ImplementsStore` says that BannerService, with `created` mapped to the ids
handlers are still caching, is a BannerStore. BannerAnswers has what the two
share: requests, replies and ages.

**RepoMethods, RepoCalls, RepoTransactions.** In RepoTransactions a handler that
calls a method takes a connection from the pool and sends BEGIN, executes its
statement, fetches rows one at a time, and ends with COMMIT or ROLLBACK, which
is where `CommitOrRollback` is deferred; every command may fail, before or after
its effect. PostgreSQL is modelled as READ COMMITTED: a statement sees what is
committed, an UPDATE or DELETE waits for the lock of its row and then takes the
row as it is. `answer` is the method's result so far, `broken` an aborted
transaction or a lost connection, of which the method may not know.

| Code | Actions |
|---|---|
| a method is called | `Call` |
| `db.Begin` | `Begin`, `BeginFails` |
| `QueryRow`, `Exec`, `Query` | `ExecuteInsert`, `ExecuteWrite`, `ExecuteSelect`, `ExecuteRefused`, `ExecuteFails` |
| `for rows.Next()` | `NextRow`, `ScanFails`, `RowsEnd` |
| deferred `CommitOrRollback` | `Commit`, `CommitFails`, `Rollback` |
| the method returns | `Return` |

RepoCalls has one action per method on the table of BannerRepo. `IsAtomic` is
the refinement: rows are decided when the SELECT is executed, a write when it is
committed, an error as soon as the transaction is broken (`Decided`). That the
last one is right for a list is not evident in the code: `rows.Err` is never
looked at, and only the COMMIT, which fails in a broken transaction, keeps a
list that was cut short from being returned.

**Lifecycle.** `main` is where `main()` is: reading the configuration, in one of
three Connects, in a migration down or up, running, stopping, over. `pinger` and
`delay` are the goroutine of Connect. `loop`, `awaited`, `worker` and `rows` are
BackroundRefresh, the goroutine refresh waits for, and all goroutines refresh
has started; `server` and `requests` the listener and the handlers at work.
`tables` tells rows of earlier processes from those of this one. A process that
is over may be launched again on the tables it left.

| Code | Actions |
|---|---|
| `config.New`, `logger.New` | `ReadConfig` |
| `Connect` of pgtools, redistools | `Ping`, `WakeUp`, `ConnectReturns` |
| `ApplyMigration` | `MigrateDown`, `MigrateUp` |
| `Server.Start` | `Listen`, `StartShutsDown` |
| `Run`, `Stop`, `Server.Shutdown` | `Stop`, `Deadline`, `StopReturns` |
| `BackroundRefresh`, `refresh` | `BeginRefresh`, `ReadRows`, `CacheRows`, `RefreshReturns`, `WorkerEnds`, `NextRefresh` |
| `net/http`, signals, the operator | `Accept`, `Answer`, `Interrupt`, `Crash`, `Relaunch` |

**AuthService.** A stored user is his role and the client who knows his
password; a token is its role, and `token[c][r]` the time the newest one of that
role a client holds is good for. `CreateUser` checks the caller's token and
`InsertUser` does the INSERT after bcrypt, so other requests come between.

**Server.** A request is received (`ReceiveBannerRequest`: wrapper, token, body)
and refused with a status or passed on; `ServeBannerRequest` runs the actions of
BannerService for it and maps what the service returns to a status. `PostAuth`,
`PostUser` and `FinishPostUser` run those of AuthService. `call[h]` is the
request a handler is in, with who sent it and the token it came with, `response`
what the last step answered. Receiving a request and the first command of the
service are separate steps: the token may expire, and other handlers run, in
between.

A definition marked "mutant" is not part of the specification: it is the
definition below it with one mistake, kept to show that a property can fail.

## 3. Runs

| Run | Instance | Shows |
|---|---|---|
| `service_safety` | 2 handlers, 1 banner, 2 revisions, expiry 2, lag 1, all faults, crashes | types; an entry of the cache left the table at most `MaxAge` minus its remaining time ago (`CacheStaleness`); readers get nothing that ceased to be the row `MaxAge` ago (`ServedStaleness`); admins and `use_last_revision` get the table (`FreshReads`); "none" only if there is none (`NoFalseMiss`); users get active revisions only (`OffNeverServed`); all callers see a BannerStore (`ImplementsStore`) |
| `service_index` | 1 handler, 2 banners, 2 tags, no faults | what is cached can be found by each of its tags once its writers are done (`IndexComplete`); nobody in a method is without a next command (`NobodyIsStuck`), and each command leaves fewer to the one who sends it (`WorkRunsOut`); a refresh leaves each row it passes listed under all its tags (`RefreshRepairs`); drawing the same expired member of two again and again is no "not found" (`NoFalseMiss`, with two members here) |
| `service_live` | 1 handler, 1 banner, no faults, fair | a deleted banner leaves the cache for good (`DeletedIsForgotten`), a row that stays is cached (`CacheCatchesUp`), requests are answered (`Answered`); what is long gone from the table is never cached or served again (`ForgottenForGood`) |
| `repo_transactions` | 2 handlers, pools of 1 and 2, 2 ids, 2 revisions, 3 queries, all faults, crashes, fair | types; each connection is in the pool or with one transaction (`ConnectionsAreKept`); pool and locks do not wait for each other (`NobodyDeadlocks`); methods are atomic (`IsAtomic`); each call returns (`CallsReturn`), for each command leaves fewer to it (`CallsRunOut`) |
| `auth_safety` | 2 handlers, 2 clients, 3 names, 3 roles, PostgreSQL faults, crashes | nobody but the operator ever has an admin's password or token (`NoEscalation`) |
| `server_safety` | 2 handlers, 1 banner, 2 revisions, 2 clients, 2 names, 2 roles, crashes | types, and no method runs for a handler without a request (`ServerTypeOK`); a row changes only as the operator's own request, with an admin's token, asks for it (`OnlyAdminsWrite`); other clients are answered with revisions that are switched on and were a row less than `MaxAge` ago, and with the row itself for `use_last_revision` (`UsersSeeWhatWasOn`); a username has one owner (`NamesHaveOneOwner`) |
| `lifecycle` | 2 requests, 2 workers, delays to 10 s, all faults, crashes, fair | types; requests meet tables that exist and stay (`ServesReady`, `NothingWrittenIsDropped`); the refresher caches no row that is dropped (`NoDroppedRowsCached`) and leaves no worker behind before the end (`NoStrayWorkers`); requests are cut off only after the deadline (`EndsInOrder`); a signal ends the process (`SignalEnds`); a start decides (`StartDecides`); main and Connect have a bounded number of steps left, whatever goes on beside them (`MainRunsOut`) |
| `service_deleted_served` | as `service_live` | finding 1 |
| `service_delete_lost` | PostgreSQL faults | finding 2 |
| `service_moved` | two features | finding 3 |
| `service_off_served` | no faults | finding 4 |
| `server_created_lost` | PostgreSQL faults | finding 5 |

Run one with `tlc -config ServiceSafety.cfg MCBannerService.tla`.

Findings, all of them places where the code does other than a document of the
repository says:

1. README.md:75 promises that a deleted banner is not served. DELETE removes the
   key first and the row second; a refresh in between, or one that read the row
   earlier, sets the key again.
2. `DeleteBanner` drops errors of PostgreSQL other than "not found" and the
   client is answered 204 while the row is still there.
3. A banner moved to another feature stays in the old feature's set, where its
   *new* revision is found and served: a pair that was never current, for as
   long as the banner is refreshed. The task allows answers five minutes old.
4. An UPDATE leaves the cache alone, so a user who reads without
   `use_last_revision` gets a banner that was switched off since, in its last
   active revision. ТЗ.md:21 says that ordinary users must not get a banner that
   is switched off; tests/banners_test.go:398 expects the 200, and ТЗ.md:20
   allows answers five minutes old. The documents do not say which goes first.
   What does hold is about revisions: one that is switched off reaches no user
   (`OffNeverServed`), and one that is served was the row less than `MaxAge` ago.
5. `userrepo.CreateUser` loses the error of COMMIT, so that the client gets 201
   and a token for a user who is not stored. (The banner repository uses named
   results and does not have this.)

Two more, which one request to a handler shows, so that no run is spent on them:
the handlers compare with the repository's `ErrNotFound`, the service returns its
own, and PATCH and DELETE of an unknown id are answered 500 and not 404
(`StatusOf`; server.go:265 and 337, api/banners.v1.yaml:277 and 319); POST /user
with a name that exists is answered 401 and not 409 (`FinishPostUser`;
api/banners.v1.yaml:387).

Also seen, and not stated as properties because no document says otherwise: a
PATCH overwrites what its body leaves out with zero values (`FromBody`); a user
created with the role `""` is stored and answered 401, as there is no token for
him, and the name is taken (`InsertUser`); a user who asks for `feature_id=-1`
gets banners of any feature, since that is how "no filter" is written
(`SelectBanners`); a negative limit is answered 500 (`OutOfRange`); two banners
may have the same feature and tag, and a reader is then given any one of them;
a server that cannot listen leaves the process waiting for a signal (`Listen`);
a refresh that fails after the context is cancelled leaves its goroutine blocked
for the rest of the process (`WorkerEnds`).

### Bounds

Each is a constant or is named where it is used.

- `MaxId`, `MaxRev`: banners ever inserted and revisions of each. One banner
  with two revisions has every race on a key: the old and the new revision, the
  deleted and the cached one. Two banners are needed for the refresher's loop,
  shared index sets and the drawing of a wrong member, and `service_index` has
  them. Ids are never reused, so each banner's story is independent of others
  but for the index.
- `ExpTime` (also the ticker's period, as in `app.go`) and
  `MaxAge = ExpTime + MaxLag`, beyond which ages are not counted: the
  properties do not tell them apart. It is two ticks in the instances of
  BannerService, so that a key outlives a tick and can be read when it is no
  longer new. It is one tick in the composed instances, which are not about
  staleness.
- `MaxLag`: how many ticks may pass between reading a row and the last command
  that caches it. The code has no such limit. It is an assumption about how slow
  Redis and the scheduler are against the expiry of five minutes, made by
  `Tick`, and the staleness results are relative to it. It is 1 in the instances
  of BannerService and 0 in the composed one, which is not about staleness; the
  proofs cover every value.
- `Handlers`: two on BannerService, on AuthService and on the whole server, so
  that a write of one meets the request of another, two sign-ups compete for a
  name, and the refresher runs beside both. The theorems hold for any number.
- `Clients`, `Names`, `Roles`, `TTL`: the operator and one other client. In
  `auth_safety` the migration's user and two new names, the role admin, another
  and none, tokens that last two ticks: who has signed up with one name can use
  his token to sign up with the other. `server_safety` has one new name, no empty
  role and tokens of one tick. Whatever a second other client could add is an
  admin token or password, and there are none for him to add:
  `AdminsFromAdmins` proves it for any number.
- `Faults`: crashes only in `server_safety`, where two handlers, the refresher,
  users and tokens are composed. Each component is checked with its faults on
  its own, and the theorems about the server (`OnlyTheOperatorWrites`,
  `UsersGetWhatWasOn`, `NamesAreKept`) are proved with all of them.
- Handlers are symmetric in `server_safety`, and its states are told apart by
  `View`: all variables but `out` and `response`, what the last step answered.
  No action reads these, and the action properties read them in the next state
  only, so that nothing is lost by it.
- `Asked` is what readers ask for; `Inputs` and `Bodies` what admins send.
- `MaxConns`, in RepoTransactions: `cfg.MaxConns` is any size up to it. With two
  handlers a pool of one makes them wait for the connection and a pool of two
  for a row's lock. Two ids and two revisions are enough for a lost update, an
  INSERT that draws its id before another that commits first, and a list of two
  rows that is cut short. `Selects` are a query for everything, one with offset
  and limit, one with a negative limit.
- `Workers`, in Lifecycle: how many goroutines of refresh exist at once. One is
  at work before a signal; the second shows those a cancelled refresh leaves.
  Any further one would do what these do, and `RefreshWaits` is proved for any
  number. `MaxDelay` is the code's: ten seconds, hence ten pings.

### Fairness

`FairSpec` assumes weak fairness of `Serving(h)` (a handler that has begun goes
on: Go schedules every runnable goroutine, and go-redis and pgx return), of
`Refreshing` (the same for the refresher) and of `Tick`. Clients are not obliged
to send anything, so liveness cannot come from somebody's request. The instance
has no faults: with a Redis that always fails nothing is ever cached.

In RepoTransactions, `Fetch`, `CommitOrRollback` and `Return` of a handler are
weakly fair, like `Serving` above. `Begin` and `Execute` are strongly fair,
because they wait for a connection or a lock that others take and give back:
pgxpool and PostgreSQL serve those that wait in turn. No action that fails is
under fairness, so calls return without the help of a fault.

In Lifecycle, main and the goroutine of Connect go on (`Starting`, `Stopping`,
`Pinging`): a ping and a migration end one way or the other, and a sleep ends.
`Deadline` is weakly fair, since five seconds pass. Nothing is assumed of
requests, which may hang, or of the refresher; the two liveness properties hold
all the same.

### Abstractions

- A client that disconnects cancels `r.Context()`, and the commands in flight
  end with an error: those behaviours are the faults `"redis"` and `"postgres"`.
- A command that was sent before a crash and is applied after the restart is not
  modelled. Redis and PostgreSQL keep their data; the loss of Redis' data would
  be an expiry of everything at once.
- In BannerService each transaction takes effect at one point. RepoTransactions
  shows that the transactions of the repository do, in one statement each.
- Of a transaction whose connection is lost, PostgreSQL notices at once: its lock
  is gone as soon as the handler's transaction is broken.
- Every client has one password, not shared. Of several tokens of one role only
  the newest is kept, which is valid whenever an older one is. Errors of bcrypt
  (a password over 72 bytes) and names over 32 characters end CreateUser like a
  failing INSERT.
- GET /banner, which only reads, is answered without saying with what. The list,
  with offset and limit, is `Page` in RepoTransactions.
- A migration, down or up, is one step, for goose runs it in a transaction.

## 4. Proofs

`tlapm M.tla` for each of the seven modules `...Proofs` checks all of them. They
use the assumptions named in the modules (`Banner-`, `ExpTime-`, `Service-`,
`Auth-`, `Server-`, `Lifecycle-`, `RepoMethods-` and
`RepoTransactionsAssumption`), which TLC evaluates in the runs. That `Tags` is finite, in `BannerAssumption`, is
needed to count what a writer has left; in the code a tag is an `int`, and a
banner has a slice of them. Every safety property and every action property of
the passing runs is proved for every value of the constants, but `IndexComplete`
only where Redis does not fail and the process does not die, which is when it is
checked too. `ForgottenForGood`, `NobodyIsStuck`, `WorkRunsOut` and
`RefreshRepairs` are checked on instances without faults, where their runs have
other questions to answer, and proved with all faults and crashes.

- `TypeCorrectness`. `TypeOK` is not inductive: that `tries` does not go below
  zero needs `pc[h] = "get" => tries[h] > 0`, and that a DEL or DELETE names an
  id needs `target` to be one. `TypeInv` adds these facts about the locals
  (`LocalInv`).
- `CacheIsBounded`, `ServedIsBounded`. `StaleInv` follows a row on its way: what
  is in the table has age 0; what a process holds in `todo` is no older than
  `held`, which `Tick` keeps under `MaxLag`; so what a SET puts into the cache,
  with the full expiry, satisfies age + ttl <= MaxAge, and each tick adds one to
  the age and takes one from the ttl. A GET that finds an entry finds one with
  ttl at least 1, hence of an age below `MaxAge`.
- `AdminsReadTheTable`, `MissesAreTrue`, `OffIsHidden`. A reply is made in the
  step that reads the table, so the three are about one step, but for a hit of
  the cache: it must not answer a reader who may only be answered from the
  table, which takes `UsersInv`, that a handler in the loop of GetUserBanner has
  a request for which the cache may answer.
- `IndexIsComplete`. `Listed` generalises `IndexComplete` to writers that are not
  done: each tag of what is cached is in the index or awaited by a process that
  is still caching that id. `OneRowEach` says that a process has one revision of
  each banner to cache. A SADD that fails, or a crash between SET and SADD,
  breaks it, and the next refresh repairs it: hence the premise `NothingLost`.
- `ServiceIsAStore`. Each step of BannerService is mapped to one of BannerStore
  or to `Quiet`; a hit is `AnswerOfLate`, by `StaleInv`; a crash is `Restart`.
  `CreatingInv` says that a row in progress has an id that was drawn, which no
  other handler has, and that a handler has one row at most, so that each id is
  reported once.
- `AuthTypeCorrectness`, `AdminsFromAdmins`. `NoEscalation` is not inductive,
  because a handler may be between the check and the INSERT; `AdminInv` adds
  `SignupInv`, that an admin about to be stored is the operator's.
- `ServerRunsBannerService`, `ServerRunsAuthService`: the composed system
  implements each component's specification, so that every theorem about a
  component holds of the server (`ServerServesBounded`,
  `ServerAdminsFromAdmins`). `CallInv` says that the arguments in `call` fit the
  method of the endpoint, so that they are inputs of the component.
- `OnlyTheOperatorWrites`. `WriterInv` says that a call of a writing endpoint is
  the operator's and came with an admin's token; `InCallInv` that a handler
  inside a method of the service is in a call of an endpoint that uses this
  method; `AskingInv` that what it holds in its locals, the request or the id to
  delete, is that of its call. With them a step that changes the table is one of
  a handler whose own call asks for just this change (`WritesTable`), whatever
  other handlers are doing.
- `ServerTypeCorrectness`, `UsersGetWhatWasOn`, `ServerIsAStore`. `RoleInv` says
  that a call whose request claims to be an admin's is the operator's. With
  `AskingInv`, a reply ends the call of the handler whose request it answers
  (`AnswersTheCall`), so that `OffIsHidden`, `ServedIsBounded` and
  `AdminsReadTheTable`, taken over from BannerService, speak of the client of
  that call. A step in which no service replies has nothing served
  (`OthersServeNone`).
- `NamesAreKept`. `FinishedSignup` says what the end of a sign-up does to users
  and to the sign-ups of others, `OthersSignNobodyUp` that no other step stores
  a user or answers a sign-up; the check that the name is free and the INSERT
  are one statement of PostgreSQL, so that no invariant is needed but types.
- Lifecycle: `StartInv` says what exists at each place of the start: no request and
  no open listener before main is in Run, tables after each migration up, no row
  written by this process before it serves; it gives `RequestsMeetTables` and
  `WritesSurvive`. `RefresherInv` says that the refresher and its goroutines
  exist only once Redis is connected, and that with reload the tables are by
  then not those that earlier processes left, because the first migration has
  dropped these (`DroppedRowsStayDropped`). `WorkerInv`
  says that whom refresh awaits is at work and, before a signal, is the only one
  (`RefreshWaits`). `StopInv` says that main only stops when it was interrupted
  (`ProcessEndsInOrder`).
- RepoTransactions: `IInv` adds to the types and `ConnectionsAreKept` what locals
  hold at each command (`LocalInv`), that the id of an open INSERT is its own and
  free (`IdInv`), and that a lock has one owner and its row is still there, with
  a revision left (`LockInv`). `EveryConnectionIsKept` counts transactions; the
  cardinality of a finite set that grows or shrinks by one element is the lemma
  it rests on. `NoDeadlock`: a handler that waits for a lock waits for one that
  is about to end, and if no connection is idle somebody has one.
  `TransactionsAreAtomic` maps each command to a step of RepoCalls or a stutter;
  a COMMIT is the method's step because the lock kept the row as the statement
  found it.

- `GoneForGood`. `Outdated` is about a revision that is neither the row of its id
  nor can be it again, because its id is drawn and the row, if there is one, has
  the same or a later revision; `StepOnRows` says what a step may do to a row.
  Whatever is on its way to the cache is younger than `MaxAge`, by `StaleInv`, so
  a SET that is late, also one of a process that was started again, cannot be of
  an outdated one. This is the safety half of `DeletedIsForgotten`: entries that
  are left expire, and no new ones come.
- `SomethingToDo`, `RefreshIsThorough`. `PlacesInv` says of each process where in
  its rows it is: in the loop of GetUserBanner there are members; while it
  caches there are rows, of different ids, and the row at hand is in the index
  under those of its tags that are no longer to be sent (`ListedSoFar`). The second part is
  stable because ids are never removed from the sets, so nobody's command can
  undo it (`IndexNeverShrinks`).
- `CommandsRunOut`, `CallsComeToAnEnd`, `StartAndStopAreBounded` each give a
  natural number that a process, a call, or main with its Connect has left, and
  prove that its own steps lower it and that nobody else's raise it. In
  BannerService it counts draws, rows and tags, for a refresh from before it
  knows how many rows there are, hence the bound by `MaxId`; a crash starts the
  refresh anew. In RepoTransactions a SELECT finds one row for each id
  at most (`SelectIsFew`), and `PendingInv` says that what is left to fetch is
  finite. In Lifecycle it weighs each
  place of the start with more than all the pings of a Connect, and needs
  `PingerInv`: no goroutine of Connect counts once main has gone on.
- `ServerForgets`, `ServerRefreshRepairs`, `ServerCallsRunOut` carry the results
  about BannerService over to the server.

What remains with TLC: liveness (`DeletedIsForgotten`, `CacheCatchesUp`,
`Answered`, `SignalEnds`, `StartDecides`, `CallsReturn`), since fairness and
ENABLED are beyond the prover. The measures are what is hard in `Answered`,
`CallsReturn`, `SignalEnds` and `StartDecides`: with `NobodyIsStuck`,
`NobodyDeadlocks` and the fairness of section 3, steps that lower a natural
number are taken until none is left. Only that last, temporal argument is left
to the model checker, and to the instances of the runs. `DeletedIsForgotten` and
`CacheCatchesUp` also need that time passes. Nothing here needs induction over
data.

## 5. Not modelled

- The read and write time-outs of `net/http`, and GET /docs, which serves a file.
- `Shutdown` of BannerService and of BannersPostgresRepo: nothing calls them, the
  pool is closed by the end of the process.
- The generated client (used by the tests only), the logger (output only), the
  values of the configuration that only libraries read.
- After a migration down, ids start again while Redis keeps keys of dropped
  rows, for as long as they last. Lifecycle has no cache and BannerService no
  migration; an instance with both is out of TLC's reach.
- Uniqueness of a banner by feature and tag, which `src/ТЗ/ТЗ.md` asks for and
  neither schema nor code enforces: there is no code to model.

## 6. Plan

Done, in the order of importance: BannerService over repository and cache;
AuthService; the server that composes them; the abstract BannerStore and the
refinement; the repository's transactions under the service; the life of the
process; the safety properties of all of them, proved; the measures behind their
liveness, proved.

Left: a composition of Lifecycle with the cache, small enough to check, for the
keys that outlive a migration down; lists of GET /banner in Server itself; and
crashes in the liveness run, where what must happen eventually has to be stated
for the time after the last of them.
