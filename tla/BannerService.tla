--------------------------- MODULE BannerService ---------------------------
(***************************************************************************)
(* BannerService: the handlers that run its methods concurrently, and the  *)
(* one goroutine that runs BackroundRefresh, over the PostgreSQL table     *)
(* (BannerRepo) and the Redis cache (BannerCache).  A step is one command  *)
(* to Redis or one transaction; what a method does between two of them is  *)
(* local to it and goes with the first.  Redis and PostgreSQL outlive a    *)
(* crash of the service.                                                   *)
(*                                                                         *)
(* Time is counted in ticks and kept relative (what is left, how long ago) *)
(* so that the states are finitely many.                                   *)
(***************************************************************************)
EXTENDS BannerAnswers, BannerCache

CONSTANTS
    Refresher,  \* the goroutine of BackroundRefresh
    MaxLag,     \* bound: ticks between reading a row and the last command
                \* that caches what was read
    Inputs      \* the contents admins submit

Procs == Handlers \cup {Refresher}

ASSUME ServiceAssumption ==
    /\ Refresher \notin Handlers
    /\ MaxLag \in Nat
    /\ Asked \subseteq Int
    /\ Requests # {}
    /\ Inputs \subseteq Contents

VARIABLES
    pc,         \* the command each process issues next
    req,        \* the request for a banner a handler serves
    members,    \* what SMEMBERS returned to a handler
    tries,      \* iterations left of the loop in GetUserBanner
    target,     \* the id a handler deletes
    todo,       \* rows read, or inserted, that a process has yet to cache
    newTags,    \* tags of the current row that await their SADD
    held,       \* ticks since todo was read or inserted
    ticker,     \* ticks until time.Ticker fires
    tickBuf     \* its channel of capacity one holds a tick

loopVars == <<req, members, tries, target>>
timerVars == <<ticker, tickBuf>>
vars == <<repoVars, cacheVars, pc, loopVars, todo, newTags, held, timerVars,
          age, out>>

MaxAge == ExpTime + MaxLag      \* bound: age counts no further

HandlersTypeOK ==
    /\ req \in [Handlers -> Requests]
    /\ members \in [Handlers -> SUBSET BannerIds]
    /\ tries \in [Handlers -> 0..MaxId]
    /\ target \in [Handlers -> 0..MaxId]

CachingTypeOK ==
    /\ todo \in [Procs -> SUBSET Banners]
    /\ newTags \in [Procs -> SUBSET Tags]
    /\ held \in [Procs -> 0..MaxLag]

TimeTypeOK ==
    /\ ticker \in 1..ExpTime
    /\ tickBuf \in BOOLEAN
    /\ age \in [Banners -> 0..MaxAge]

TypeOK ==
    /\ RepoTypeOK
    /\ CacheTypeOK
    /\ pc \in [Procs -> {"idle", "get", "query", "delete",
                         "select", "wait", "set", "sadd"}]
    /\ HandlersTypeOK
    /\ CachingTypeOK
    /\ TimeTypeOK
    /\ out \in Replies

\* The locals of a handler that serves no request.
NoRequest == CHOOSE q \in Requests : TRUE

Init ==
    /\ RepoInit
    /\ CacheInit
    /\ pc = [p \in Procs |-> IF p = Refresher THEN "select" ELSE "idle"]
    /\ req = [h \in Handlers |-> NoRequest]
    /\ members = [h \in Handlers |-> {}]
    /\ tries = [h \in Handlers |-> 0]
    /\ target = [h \in Handlers |-> 0]
    /\ todo = [p \in Procs |-> {}]
    /\ newTags = [p \in Procs |-> {}]
    /\ held = [p \in Procs |-> 0]
    /\ ticker = ExpTime
    /\ tickBuf = FALSE
    /\ age = [b \in Banners |-> MaxAge]
    /\ out = NoReply

(***************************************************************************)
(* Helpers.                                                                *)
(***************************************************************************)

\* Handler h returns r: its locals are gone, the server runs it again.
Reply(h, r) ==
    /\ pc' = [pc EXCEPT ![h] = "idle"]
    /\ req' = [req EXCEPT ![h] = NoRequest]
    /\ members' = [members EXCEPT ![h] = {}]
    /\ tries' = [tries EXCEPT ![h] = 0]
    /\ target' = [target EXCEPT ![h] = 0]
    /\ out' = r

\* Process p moves on to its next command and nothing is replied.
Goto(p, label) ==
    /\ pc' = [pc EXCEPT ![p] = label]
    /\ out' = NoReply

\* A Redis command: done and answered, or it fails, before or after its effect.
RedisError(Effect) == Faulty("redis") /\ (Effect \/ UNCHANGED cacheVars)

Aged(n) == AgedUpTo(n, MaxAge)

CacheMayAnswer_IgnoresAdmin(q) == ~q.useLast                       \* mutant

\* !req.UseLastRevision && !req.IsAdmin.
CacheMayAnswer(q) == ~q.useLast /\ ~q.admin

\* GetBannerByFeatureAndTags with OnlyActive: !req.IsAdmin.
QueryRepo(h, q) ==
    /\ \/ Reply(h, Found(q, SelectBanners(q.feature, {q.tag}, ~q.admin)))
       \/ Faulty("postgres") /\ Reply(h, Done("error", 0))
    /\ UNCHANGED <<repoVars, cacheVars, todo, newTags, held, timerVars, age>>

(***************************************************************************)
(* GetBanner.                                                              *)
(***************************************************************************)

\* An admin, or a user with use_last_revision, is answered from the table.
GetBannerFromRepo(h, q) ==
    /\ pc[h] = "idle"
    /\ ~CacheMayAnswer(q)
    /\ QueryRepo(h, q)

Loop_NoneToo(h, ids) ==                                             \* mutant
    /\ members' = [members EXCEPT ![h] = ids]
    /\ tries' = [tries EXCEPT ![h] = Cardinality(ids)]
    /\ Goto(h, "get")
    /\ UNCHANGED target

\* SMEMBERS gave ids to the loop of GetUserBanner, which runs len(ids) times.
Loop(h, ids) ==
    /\ members' = [members EXCEPT ![h] = ids]
    /\ tries' = [tries EXCEPT ![h] = Cardinality(ids)]
    /\ Goto(h, IF ids = {} THEN "query" ELSE "get")
    /\ UNCHANGED target

\* bannerCache.GetUserBanner begins with SMEMBERS; an error ends it.
GetMembers(h, q) ==
    /\ pc[h] = "idle"
    /\ CacheMayAnswer(q)
    /\ req' = [req EXCEPT ![h] = q]
    /\ \/ Loop(h, Members(q.feature, q.tag))
       \/ Faulty("redis") /\ Goto(h, "query") /\ UNCHANGED <<members, tries, target>>
    /\ UNCHANGED <<repoVars, cacheVars, todo, newTags, held, timerVars, age>>

Serves_AnyCached(b) == b # NoBanner                                 \* mutant

\* A cached banner answers GetUserBanner only while it is active.
Serves(b) == b # NoBanner /\ b.active

Hit_RenewsExpiry(h, id) ==                                          \* mutant
    /\ Serves(cached[id])
    /\ Reply(h, Found(req[h], {cached[id]}))
    /\ SetBanner(cached[id])

\* GET of banner:<id> found an active banner.
Hit(h, id) ==
    /\ Serves(cached[id])
    /\ Reply(h, Found(req[h], {cached[id]}))
    /\ UNCHANGED cacheVars

Miss_OneTooMany(h, id) ==                                           \* mutant
    /\ ~Serves(cached[id])
    /\ tries' = [tries EXCEPT ![h] = @ - 1]
    /\ Goto(h, IF tries[h] = 0 THEN "query" ELSE "get")
    /\ UNCHANGED <<cacheVars, req, members, target>>

Miss_UntilFound(h, id) ==                                           \* mutant
    /\ ~Serves(cached[id])
    /\ Goto(h, "get")
    /\ UNCHANGED <<cacheVars, loopVars>>

Miss_IsFinal(h, id) ==                                              \* mutant
    /\ ~Serves(cached[id])
    /\ IF tries[h] = 1
       THEN Reply(h, Found(req[h], {}))
       ELSE /\ tries' = [tries EXCEPT ![h] = @ - 1]
            /\ Goto(h, "get")
            /\ UNCHANGED <<req, members, target>>
    /\ UNCHANGED cacheVars

\* It found none, or one switched off: the loop goes on or has ended.
Miss(h, id) ==
    /\ ~Serves(cached[id])
    /\ tries' = [tries EXCEPT ![h] = @ - 1]
    /\ Goto(h, IF tries[h] = 1 THEN "query" ELSE "get")
    /\ UNCHANGED <<cacheVars, req, members, target>>

\* One iteration: GET of a member drawn with rand.Intn, so that one member
\* may be drawn twice and another never.
GetEntry(h) ==
    /\ pc[h] = "get"
    /\ \/ \E id \in members[h] : Hit(h, id) \/ Miss(h, id)
       \/ Faulty("redis") /\ Goto(h, "query") /\ UNCHANGED <<cacheVars, loopVars>>
    /\ UNCHANGED <<repoVars, todo, newTags, held, timerVars, age>>

\* The cache had no answer: the table gives it.
GetBannerAfterMiss(h) ==
    /\ pc[h] = "query"
    /\ QueryRepo(h, req[h])

(***************************************************************************)
(* CreateBanner: the INSERT, then bannerCache.CreateBanner.                *)
(***************************************************************************)

CreateBanner_IgnoresCommit(h, c) ==                                 \* mutant
    /\ pc[h] = "idle"
    /\ \E id \in BannerIds, o \in Outcomes(Faulty("postgres")) :
          /\ InsertBanner(id, c, o)
          /\ todo' = [todo EXCEPT ![h] = {Row(id, 1, c)}]
    /\ Goto(h, "set")
    /\ Aged(0)
    /\ UNCHANGED <<cacheVars, loopVars, newTags, held, timerVars>>

CreateBanner(h, c) ==
    /\ pc[h] = "idle"
    /\ \E id \in BannerIds, o \in Outcomes(Faulty("postgres")) :
          /\ InsertBanner(id, c, o)
          /\ IF Reported(o)
             THEN /\ todo' = [todo EXCEPT ![h] = {Row(id, 1, c)}]
                  /\ Goto(h, "set")
                  /\ UNCHANGED loopVars
             ELSE /\ Reply(h, Done("error", 0))
                  /\ UNCHANGED todo
    /\ Aged(0)
    /\ UNCHANGED <<cacheVars, newTags, held, timerVars>>

(***************************************************************************)
(* bannerCache.CreateBanner, for the row a handler inserted and for each   *)
(* row the refresher read, in the order of their ids.                      *)
(***************************************************************************)

\* The row p is caching.
Current(p, b) == b \in todo[p] /\ \A o \in todo[p] : b.id <= o.id

\* bannerCache.CreateBanner has returned to p for the last time: a handler
\* replies, whether or not that was with an error; refresh ends.
StopCaching(p) ==
    /\ todo' = [todo EXCEPT ![p] = {}]
    /\ newTags' = [newTags EXCEPT ![p] = {}]
    /\ held' = [held EXCEPT ![p] = 0]
    /\ IF p = Refresher
       THEN Goto(p, "wait") /\ UNCHANGED loopVars
       ELSE \E b \in todo[p] : Reply(p, Done("created", b.id))

\* It has returned nil for b: the loop of refresh takes the next row.
CachedRow(p, b) ==
    IF todo[p] = {b}
    THEN StopCaching(p)
    ELSE /\ todo' = [todo EXCEPT ![p] = @ \ {b}]
         /\ newTags' = [newTags EXCEPT ![p] = {}]
         /\ Goto(p, "set")
         /\ UNCHANGED <<held, loopVars>>

CacheSet_KnownIndex(p) ==                                           \* mutant
    /\ pc[p] = "set"
    /\ \E b \in todo[p] :
          /\ Current(p, b)
          /\ SetBanner(b)
          /\ IF b.tags = {} \/ p = Refresher
             THEN CachedRow(p, b)
             ELSE /\ newTags' = [newTags EXCEPT ![p] = b.tags]
                  /\ Goto(p, "sadd")
                  /\ UNCHANGED <<todo, held, loopVars>>
    /\ UNCHANGED <<repoVars, timerVars, age>>

CacheSet(p) ==
    /\ pc[p] = "set"
    /\ \E b \in todo[p] :
          /\ Current(p, b)
          /\ \/ /\ SetBanner(b)
                /\ IF b.tags = {}
                   THEN CachedRow(p, b)
                   ELSE /\ newTags' = [newTags EXCEPT ![p] = b.tags]
                        /\ Goto(p, "sadd")
                        /\ UNCHANGED <<todo, held, loopVars>>
             \/ RedisError(SetBanner(b)) /\ StopCaching(p)
    /\ UNCHANGED <<repoVars, timerVars, age>>

CacheSAdd(p, t) ==
    /\ pc[p] = "sadd"
    /\ t \in newTags[p]
    /\ \E b \in todo[p] :
          /\ Current(p, b)
          /\ \/ /\ AddToIndex(b, t)
                /\ IF newTags[p] = {t}
                   THEN CachedRow(p, b)
                   ELSE /\ newTags' = [newTags EXCEPT ![p] = @ \ {t}]
                        /\ Goto(p, "sadd")
                        /\ UNCHANGED <<todo, held, loopVars>>
             \/ RedisError(AddToIndex(b, t)) /\ StopCaching(p)
    /\ UNCHANGED <<repoVars, timerVars, age>>

(***************************************************************************)
(* UpdateBanner: the table only, banner:<id> is left as it is.             *)
(***************************************************************************)

UpdateBanner(h, id, c) ==
    /\ pc[h] = "idle"
    /\ \/ \E o \in Outcomes(Faulty("postgres")) :
             /\ UpdateRow(id, c, o)
             /\ Reply(h, Done(IF Reported(o) THEN "updated" ELSE "error", id))
       \/ /\ ~Stored(id)
          /\ \/ Reply(h, Done("notFound", id))
             \/ Faulty("postgres") /\ Reply(h, Done("error", id))
          /\ UNCHANGED repoVars
    /\ Aged(0)
    /\ UNCHANGED <<cacheVars, todo, newTags, held, timerVars>>

(***************************************************************************)
(* DeleteBanner: DEL, then DELETE.  An error of DEL is only logged, and of *)
(* the errors of DELETE only ErrNotFound is returned.                      *)
(***************************************************************************)

DeleteFromCache(h, id) ==
    /\ pc[h] = "idle"
    /\ DelBanner(id) \/ RedisError(DelBanner(id))
    /\ target' = [target EXCEPT ![h] = id]
    /\ Goto(h, "delete")
    /\ UNCHANGED <<repoVars, req, members, tries, todo, newTags, held,
                   timerVars, age>>

DeleteFromRepo(h) ==
    /\ pc[h] = "delete"
    /\ \/ \E o \in Outcomes(Faulty("postgres")) :
             /\ DeleteRow(target[h], o)
             /\ Reply(h, Done("deleted", target[h]))
       \/ /\ ~Stored(target[h])
          /\ \/ Reply(h, Done("notFound", target[h]))
             \/ Faulty("postgres") /\ Reply(h, Done("deleted", target[h]))
          /\ UNCHANGED repoVars
    /\ Aged(0)
    /\ UNCHANGED <<cacheVars, todo, newTags, held, timerVars>>

(***************************************************************************)
(* BackroundRefresh and refresh.                                           *)
(***************************************************************************)

RefreshRead_ActiveOnly ==                                           \* mutant
    /\ pc[Refresher] = "select"
    /\ LET rows == SelectBanners(NoFilter, {}, TRUE) IN
          /\ todo' = [todo EXCEPT ![Refresher] = rows]
          /\ Goto(Refresher, IF rows = {} THEN "wait" ELSE "set")
    /\ UNCHANGED <<repoVars, cacheVars, loopVars, newTags, held, timerVars, age>>

\* refresh reads every row, active or not: FeatureID = -1 and no tags.
RefreshRead ==
    /\ pc[Refresher] = "select"
    /\ \/ LET rows == SelectBanners(NoFilter, {}, FALSE) IN
          /\ todo' = [todo EXCEPT ![Refresher] = rows]
          /\ Goto(Refresher, IF rows = {} THEN "wait" ELSE "set")
       \/ /\ Faulty("postgres")
          /\ Goto(Refresher, "wait")
          /\ UNCHANGED todo
    /\ UNCHANGED <<repoVars, cacheVars, loopVars, newTags, held, timerVars, age>>

\* case <-t.C.
NextRefresh ==
    /\ pc[Refresher] = "wait"
    /\ tickBuf
    /\ tickBuf' = FALSE
    /\ Goto(Refresher, "select")
    /\ UNCHANGED <<repoVars, cacheVars, loopVars, todo, newTags, held, ticker,
                   age>>

(***************************************************************************)
(* The environment.                                                        *)
(***************************************************************************)

\* A tick the channel has no room for is dropped by time.Ticker.
TickerRuns ==
    /\ ticker' = IF ticker = 1 THEN ExpTime ELSE ticker - 1
    /\ tickBuf' = (tickBuf \/ ticker = 1)

\* Time passes, though not beyond MaxLag for a row on its way to the cache.
Tick ==
    /\ \A p \in Procs : todo[p] # {} => held[p] < MaxLag
    /\ held' = [p \in Procs |-> IF todo[p] = {} THEN 0 ELSE held[p] + 1]
    /\ UNCHANGED <<repoVars, pc, loopVars, todo, newTags>>
    /\ ExpireKeys
    /\ TickerRuns
    /\ Aged(1)
    /\ out' = NoReply

\* The service dies and is started again on the table and cache it left.
Crash ==
    /\ Faulty("crash")
    /\ pc' = [p \in Procs |-> IF p = Refresher THEN "select" ELSE "idle"]
    /\ req' = [h \in Handlers |-> NoRequest]
    /\ members' = [h \in Handlers |-> {}]
    /\ tries' = [h \in Handlers |-> 0]
    /\ target' = [h \in Handlers |-> 0]
    /\ todo' = [p \in Procs |-> {}]
    /\ newTags' = [p \in Procs |-> {}]
    /\ held' = [p \in Procs |-> 0]
    /\ ticker' = ExpTime
    /\ tickBuf' = FALSE
    /\ out' = NoReply
    /\ UNCHANGED <<repoVars, cacheVars, age>>

\* The server is at work elsewhere: receives requests, or serves those that
\* are not for this service.
Elsewhere ==
    /\ out' = NoReply
    /\ UNCHANGED <<repoVars, cacheVars, pc, loopVars, todo, newTags, held,
                   timerVars, age>>

(***************************************************************************)
(* The specification.                                                      *)
(***************************************************************************)

Request(h) ==
    \/ \E q \in Requests : GetBannerFromRepo(h, q) \/ GetMembers(h, q)
    \/ \E c \in Inputs : CreateBanner(h, c)
    \/ \E id \in BannerIds, c \in Inputs : UpdateBanner(h, id, c)
    \/ \E id \in BannerIds : DeleteFromCache(h, id)

Caching(p) == CacheSet(p) \/ \E t \in Tags : CacheSAdd(p, t)

Serving(h) ==
    GetEntry(h) \/ GetBannerAfterMiss(h) \/ DeleteFromRepo(h) \/ Caching(h)

Refreshing == RefreshRead \/ NextRefresh \/ Caching(Refresher)

Next ==
    \/ \E h \in Handlers : Request(h) \/ Serving(h)
    \/ Refreshing
    \/ Tick
    \/ Crash
    \/ Elsewhere

Spec == Init /\ [][Next]_vars

\* A request once begun is served to its end, the refresher runs, time
\* passes.  Nothing obliges a client to send a request.
Fairness ==
    /\ \A h \in Handlers : WF_vars(Serving(h))
    /\ WF_vars(Refreshing)
    /\ WF_vars(Tick)

FairSpec == Spec /\ Fairness

(***************************************************************************)
(* Properties.                                                             *)
(***************************************************************************)

\* The banners the last step replied with.
Served == IF out.kind = "banners" THEN out.banners ELSE {}

\* What is in the cache is no older than its time there and the time it took
\* to get there: deletes and updates that the cache was not told of, and late
\* SETs of rows read before them, are undone by expiry alone.
CacheStaleness ==
    \A id \in BannerIds :
        cached[id] # NoBanner => age[cached[id]] + ttl[id] <= MaxAge

\* No reader, through whichever path, gets a revision that ceased to be the
\* row ExpTime + MaxLag ticks ago or earlier.
ServedStaleness ==
    \A b \in Served : age[b] < MaxAge

\* Admins and use_last_revision read the table, whatever the cache holds.
FreshReads ==
    out.kind = "banners" /\ (out.req.admin \/ out.req.useLast) =>
        out.banners = SelectBanners(out.req.feature, {out.req.tag},
                                    ~out.req.admin)

\* A user is told that there is no banner only when the table has none for
\* him: misses, expiry, an unlucky draw and a dead Redis all fall back to it.
NoFalseMiss ==
    out.kind = "banners" /\ out.banners = {} =>
        SelectBanners(out.req.feature, {out.req.tag}, ~out.req.admin) = {}

\* Of the revisions of a banner only active ones reach a user, though the
\* refresher caches the others too.
OffNeverServed ==
    \A b \in Served : b.active \/ out.req.admin

\* A cached banner is listed under its feature and each of its tags once no
\* process is still caching that id (without errors of Redis or crashes).
IndexComplete ==
    \A id \in BannerIds :
        cached[id] # NoBanner /\ (\A p \in Procs : \A b \in todo[p] : b.id # id) =>
            \A t \in cached[id].tags : id \in index[cached[id].feature][t]

\* A revision that is not, and will not be, the row of its id, and that was
\* not for as long as time is counted: deleted, overwritten or never stored.
Outdated(b) ==
    /\ age[b] = MaxAge
    /\ b.id \in drawn
    /\ table[b.id] # NoBanner => table[b.id] # b /\ b.rev <= table[b.id].rev

\* It never comes back: ids are not used twice, revisions not repeated, and
\* no SET that is late, nor a crash, puts it into the cache or an answer.
ForgottenForGood ==
    [][\A b \in Banners :
          Outdated(b) => Outdated(b)' /\ cached'[b.id] # b /\ b \notin Served']_vars

\* How many commands a process may still send before its handler replies, or
\* its refresh ends, whatever the commands return.
Left(p) ==
    LET perRow == 1 + Cardinality(Tags) IN
    CASE pc[p] = "get"    -> 1 + tries[p]
      [] pc[p] \in {"query", "delete"} -> 1
      [] pc[p] = "select" -> 1 + MaxId * perRow
      [] pc[p] = "set"    -> Cardinality(todo[p]) * perRow
      [] pc[p] = "sadd"   -> (Cardinality(todo[p]) - 1) * perRow + Cardinality(newTags[p])
      [] OTHER            -> 0

\* Each command takes the one who sends it closer to the end of its method,
\* and no command of others takes him back: neither the draws of GetUserBanner
\* nor the rows and tags of a refresh, nor errors, make a loop without an end.
\* Only a crash makes the refresher start over.
WorkRunsOut ==
    [][/\ \A p \in Procs :
             Left(p) > 0 => Left(p)' <= Left(p) \/ (p = Refresher /\ Crash)
       /\ \A h \in Handlers : Serving(h) => Left(h)' < Left(h)
       /\ Refreshing =>
             pc[Refresher] = "wait" \/ Left(Refresher)' < Left(Refresher)]_vars

\* In the middle of a method there always is a next command: a member to
\* draw, a row to SET, a tag to SADD.
NobodyIsStuck ==
    \A p \in Procs :
        /\ pc[p] = "get" => members[p] # {}
        /\ pc[p] \in {"set", "sadd"} => \E b \in todo[p] : Current(p, b)
        /\ pc[p] = "sadd" => newTags[p] # {}

\* A refresh goes on to the next row only when this one is listed under all
\* its tags: it repairs what SADDs that failed, and crashes between SET and
\* SADD, left undone.
RefreshRepairs ==
    [][\A b \in todo[Refresher] :
          b \notin todo'[Refresher] /\ todo'[Refresher] # {} =>
              \A t \in b.tags : b.id \in index'[b.feature][t]]_vars

\* A deleted banner leaves the cache for good, even if a refresh that had
\* read it puts it back after the DEL.
DeletedIsForgotten ==
    \A id \in BannerIds :
        (id \in drawn /\ table[id] = NoBanner) ~> [](cached[id] = NoBanner)

\* A row that stays as it is gets cached, active or not.
CacheCatchesUp ==
    \A id \in BannerIds, r \in Revisions :
        (table[id] # NoBanner /\ table[id].rev = r)
            ~> \/ table[id] = NoBanner \/ table[id].rev # r
               \/ cached[id] # NoBanner /\ cached[id].rev = r

\* Every request is answered: the loop over the members ends.
Answered == \A h \in Handlers : pc[h] # "idle" ~> pc[h] = "idle"

\* The banners inserted by handlers that have yet to reply.
BeingCreated == {b.id : b \in UNION {todo[h] : h \in Handlers}}

Store == INSTANCE BannerStore WITH created <- BeingCreated

\* Whatever the cache, the refresher, faults and crashes do, callers see what
\* BannerStore promises: in particular, no id is reported as created twice,
\* and no banner is shown that was not, as it is shown, a row of late.
ImplementsStore == Store!Spec

\* README.md: a user without use_last_revision must not get a deleted banner.
DeletedNotServed == \A b \in Served : table[b.id] # NoBanner

\* ТЗ.md: ordinary users must not get a banner that is switched off.
OffNotServed ==
    \A b \in Served :
        out.req.admin \/ table[b.id] = NoBanner \/ table[b.id].active

\* api/banners.v1.yaml: 204 of DELETE says that the banner is deleted.
DeletedIsGone == out.kind = "deleted" => table[out.id] = NoBanner

\* GET /user_banner returns a banner of the feature and tag asked for.
ServedAsAsked ==
    \A b \in Served : b.feature = out.req.feature /\ out.req.tag \in b.tags

=============================================================================
