------------------------- MODULE BannerStoreProofs -------------------------
(***************************************************************************)
(* BannerService implements BannerStore, for every value of its constants. *)
(***************************************************************************)
EXTENDS BannerServiceProofs

(***************************************************************************)
(* The mapping needs two facts.  A handler that is in GetUserBanner serves *)
(* a request the cache may answer (UsersInv); and a handler caches the one *)
(* row it inserted, whose id no other handler has.                         *)
(***************************************************************************)

CreatingInv ==
    \A h \in Handlers :
        /\ pc[h] \notin {"set", "sadd"} => todo[h] = {}
        /\ \A b \in todo[h] :
              /\ b.id \in drawn
              /\ \A g \in Handlers : \A c \in todo[g] :
                    g = h \/ c.id = b.id => g = h /\ c = b

\* An id once drawn stays so, and no handler gets a row to cache.
LEMMA CreatingKept ==
    ASSUME TypeInv, TypeInv', CreatingInv, drawn \subseteq drawn',
           \A h \in Handlers : /\ todo'[h] \subseteq todo[h]
                               /\ pc'[h] \notin {"set", "sadd"} => todo'[h] = {}
    PROVE  CreatingInv'
<1>1. \A h \in Handlers : \A b \in todo[h] : b.id \in drawn'
  BY DEF CreatingInv
<1> SUFFICES ASSUME NEW h \in Handlers, NEW b \in todo'[h],
                    NEW g \in Handlers, NEW c \in todo'[g], g = h \/ c.id = b.id
             PROVE  g = h /\ c = b
  BY <1>1 DEF CreatingInv
<1>2. b \in todo[h] /\ c \in todo[g]
  OBVIOUS
<1> QED
  BY <1>2 DEF CreatingInv

\* A step that leaves todo and the table alone and keeps every handler either
\* in or out of bannerCache.CreateBanner.
LEMMA CreatingUnchanged ==
    ASSUME TypeInv, TypeInv', CreatingInv, drawn' = drawn, UNCHANGED todo,
           \A h \in Handlers : pc[h] \in {"set", "sadd"} => pc'[h] \in {"set", "sadd"},
           NEW p, \A h \in Handlers : h # p => pc'[h] = pc[h],
           p \in Handlers => pc[p] \notin {"set", "sadd"}
    PROVE  CreatingInv'
<1>1. \A h \in Handlers : pc'[h] \notin {"set", "sadd"} => todo'[h] = {}
  BY DEF CreatingInv
<1> QED
  BY <1>1, CreatingKept

LEMMA CreatingInit == Init => CreatingInv
  BY DEF Init, CreatingInv, Procs

LEMMA QueryKeepsCreating ==
    ASSUME TypeInv, TypeInv', CreatingInv, NEW h \in Handlers, NEW q, QueryRepo(h, q),
           pc[h] \notin {"set", "sadd"}
    PROVE  CreatingInv'
<1>1. PICK r : Reply(h, r)
  BY DEF QueryRepo
<1> QED
  BY <1>1, CreatingUnchanged DEF CreatingInv, QueryRepo, Reply, TypeInv, LocalInv, Procs, repoVars

LEMMA GetMembersKeepsCreating ==
    ASSUME TypeInv, TypeInv', CreatingInv, NEW h \in Handlers, NEW q \in Requests,
           GetMembers(h, q)
    PROVE  CreatingInv'
<1>1. PICK label \in {"get", "query"} : Goto(h, label)
  BY DEF GetMembers, Loop
<1> QED
  BY <1>1, CreatingUnchanged DEF CreatingInv, GetMembers, Goto, TypeInv, LocalInv, Procs, repoVars

LEMMA GetEntryKeepsCreating ==
    ASSUME TypeInv, TypeInv', CreatingInv, NEW h \in Handlers, GetEntry(h)
    PROVE  CreatingInv'
<1>1. CASE \E id \in members[h] : Hit(h, id)
  <2>1. PICK r : Reply(h, r)
    BY <1>1 DEF Hit
  <2> QED
    BY <2>1, CreatingUnchanged DEF GetEntry, CreatingInv, Reply, TypeInv, LocalInv, Procs, repoVars
<1>2. CASE ~\E id \in members[h] : Hit(h, id)
  <2>1. PICK label \in {"get", "query"} : Goto(h, label) /\ UNCHANGED req
    BY <1>2 DEF GetEntry, Miss, loopVars
  <2> QED
    BY <2>1, CreatingUnchanged DEF GetEntry, CreatingInv, Goto, TypeInv, LocalInv, Procs, repoVars
<1> QED
  BY <1>1, <1>2

LEMMA CreateKeepsCreating ==
    ASSUME TypeInv, TypeInv', CreatingInv, NEW h \in Handlers, NEW c \in Inputs,
           CreateBanner(h, c)
    PROVE  CreatingInv'
<1>1. PICK id \in BannerIds, o \in Outcomes(Faulty("postgres")) :
         /\ InsertBanner(id, c, o)
         /\ IF Reported(o)
            THEN /\ todo' = [todo EXCEPT ![h] = {Row(id, 1, c)}]
                 /\ Goto(h, "set")
                 /\ UNCHANGED loopVars
            ELSE /\ Reply(h, Done("error", 0))
                 /\ UNCHANGED todo
  BY DEF CreateBanner
<1>2. pc[h] = "idle" /\ todo[h] = {}
  BY DEF CreateBanner, CreatingInv
<1>3. CASE Reported(o)
  <2>1. drawn' = drawn \cup {id} /\ id \notin drawn
    BY <1>1, <1>3 DEF InsertBanner, Applied, Reported
  <2>2. /\ todo'[h] = {Row(id, 1, c)}
        /\ \A g \in Handlers : g # h => todo'[g] = todo[g]
    BY <1>1, <1>3 DEF TypeInv, CachingTypeOK, Procs
  <2>3. /\ pc'[h] = "set"
        /\ \A g \in Handlers : g # h => pc'[g] = pc[g]
    BY <1>1, <1>3 DEF Goto, TypeInv, LocalInv, Procs
  <2>4. \A g \in Handlers : \A b \in todo[g] : b.id \in drawn
    BY DEF CreatingInv
  <2>5. \A b \in todo'[h] : b.id = id
    BY <2>2 DEF Row
  <2> QED
    <3> SUFFICES ASSUME NEW g \in Handlers
                 PROVE  /\ pc'[g] \notin {"set", "sadd"} => todo'[g] = {}
                        /\ \A b \in todo'[g] :
                              /\ b.id \in drawn'
                              /\ \A k \in Handlers : \A d \in todo'[k] :
                                    k = g \/ d.id = b.id => k = g /\ d = b
      BY DEF CreatingInv
    <3>1. pc'[g] \notin {"set", "sadd"} => todo'[g] = {}
      BY <2>2, <2>3 DEF CreatingInv
    <3>2. ASSUME NEW b \in todo'[g] PROVE b.id \in drawn'
      BY <2>1, <2>2, <2>4, <2>5, <3>2
    <3>3. ASSUME NEW b \in todo'[g], NEW k \in Handlers, NEW d \in todo'[k], k = g \/ d.id = b.id
          PROVE  k = g /\ d = b
      <4>1. CASE g = h /\ k = h
        BY <2>2, <3>3, <4>1
      <4>2. CASE g # h /\ k # h
        BY <2>2, <3>3, <4>2 DEF CreatingInv
      <4>3. CASE (g = h /\ k # h) \/ (g # h /\ k = h)
        BY <2>1, <2>2, <2>4, <2>5, <3>3, <4>3
      <4> QED
        BY <4>1, <4>2, <4>3
    <3> QED
      BY <3>1, <3>2, <3>3
<1>4. CASE ~Reported(o)
  <2>1. drawn \subseteq drawn'
    BY <1>1 DEF InsertBanner
  <2>2. \A g \in Handlers : /\ todo'[g] \subseteq todo[g]
                            /\ pc'[g] \notin {"set", "sadd"} => todo'[g] = {}
    BY <1>1, <1>2, <1>4 DEF Reply, CreatingInv, TypeInv, LocalInv, Procs
  <2> QED
    BY <2>1, <2>2, CreatingKept DEF CreatingInv
<1> QED
  BY <1>3, <1>4

\* bannerCache.CreateBanner returned to p, took its next row, or goes on.
LEMMA CachingKeepsCreating ==
    ASSUME TypeInv, TypeInv', CreatingInv, NEW p \in Procs, Caching(p)
    PROVE  CreatingInv'
<1>1. PICK b \in todo[p] : \/ CachedRow(p, b)
                           \/ StopCaching(p)
                           \/ Goto(p, "sadd") /\ UNCHANGED <<todo, loopVars>>
  <2>1. CASE CacheSet(p)
    BY <2>1 DEF CacheSet
  <2>2. CASE \E t \in Tags : CacheSAdd(p, t)
    BY <2>2 DEF CacheSAdd
  <2> QED
    BY <2>1, <2>2 DEF Caching
<1>2. drawn' = drawn
  BY DEF Caching, CacheSet, CacheSAdd, repoVars
<1>3. CASE StopCaching(p)
  <2>1. \A g \in Procs : todo'[g] \subseteq todo[g] /\ (g = p => todo'[g] = {})
    BY <1>3 DEF StopCaching, TypeInv, CachingTypeOK
  <2>2. (\E label \in {"wait"} : Goto(p, label) /\ UNCHANGED loopVars)
          \/ (p \in Handlers /\ \E r : Reply(p, r))
    BY <1>3 DEF StopCaching, Procs
  <2>3. \A g \in Procs : g # p => pc'[g] = pc[g]
    BY <2>2 DEF Goto, Reply, TypeInv, LocalInv
  <2> QED
    <3>1. \A g \in Handlers : pc'[g] \notin {"set", "sadd"} => todo'[g] = {}
      BY <2>1, <2>3 DEF CreatingInv, Procs
    <3> QED
      BY <1>2, <2>1, <3>1, CreatingKept DEF CreatingInv, Procs
<1>4. CASE ~StopCaching(p)
  <2>1. PICK label \in {"set", "sadd"} : Goto(p, label) /\ UNCHANGED loopVars
    BY <1>1, <1>4 DEF CachedRow
  <2>2. \A g \in Procs : todo'[g] \subseteq todo[g]
    BY <1>1, <1>4 DEF CachedRow, TypeInv, CachingTypeOK
  <2> QED
    <3>1. \A g \in Handlers : pc'[g] \notin {"set", "sadd"} => todo'[g] = {}
      BY <2>1, <2>2 DEF Goto, TypeInv, LocalInv, CreatingInv, Procs
    <3> QED
      BY <1>2, <2>2, <3>1, CreatingKept DEF CreatingInv, Procs
<1> QED
  BY <1>3, <1>4

\* A handler that is not caching replies, or moves to its DELETE.
LEMMA OthersKeepCreating ==
    ASSUME TypeInv, TypeInv', CreatingInv, NEW h \in Handlers,
           \/ \E id \in BannerIds, c \in Inputs : UpdateBanner(h, id, c)
           \/ \E id \in BannerIds : DeleteFromCache(h, id)
           \/ DeleteFromRepo(h)
    PROVE  CreatingInv'
<1>1. drawn' = drawn /\ UNCHANGED todo /\ pc[h] \notin {"set", "sadd", "get", "query"}
  BY DEF UpdateBanner, UpdateRow, DeleteFromCache, DeleteFromRepo, DeleteRow, repoVars
<1>2. \/ \E r : Reply(h, r)
      \/ Goto(h, "delete") /\ UNCHANGED req
  BY DEF UpdateBanner, DeleteFromCache, DeleteFromRepo
<1> QED
  <2>1. \A g \in Handlers : g # h => pc'[g] = pc[g]
    BY <1>2 DEF Reply, Goto, TypeInv, LocalInv, Procs
  <2> QED
    BY <1>1, <2>1, CreatingUnchanged DEF CreatingInv

LEMMA RefreshKeepsCreating ==
    ASSUME TypeInv, TypeInv', CreatingInv, RefreshRead \/ NextRefresh
    PROVE  CreatingInv'
<1>1. PICK label \in {"wait", "set", "select"} : Goto(Refresher, label) /\ UNCHANGED loopVars
  BY DEF RefreshRead, NextRefresh
<1>3. drawn' = drawn /\ \A h \in Handlers : todo'[h] = todo[h] /\ pc'[h] = pc[h]
  BY <1>1, ServiceAssumption
  DEF RefreshRead, NextRefresh, Goto, TypeInv, LocalInv, CachingTypeOK, Procs, repoVars
<1> QED
  BY <1>3, CreatingKept DEF CreatingInv

LEMMA CreatingNext == TypeInv /\ TypeInv' /\ CreatingInv /\ [Next]_vars => CreatingInv'
<1> SUFFICES ASSUME TypeInv, TypeInv', CreatingInv, [Next]_vars PROVE CreatingInv'
  OBVIOUS
<1>1. ASSUME NEW h \in Handlers, Request(h) PROVE CreatingInv'
  <2>1. ASSUME NEW q \in Requests, GetBannerFromRepo(h, q) PROVE CreatingInv'
    BY <2>1, QueryKeepsCreating DEF GetBannerFromRepo
  <2> QED
    BY <1>1, <2>1, GetMembersKeepsCreating, CreateKeepsCreating, OthersKeepCreating
    DEF Request
<1>2. ASSUME NEW h \in Handlers, Serving(h) PROVE CreatingInv'
  <2>1. CASE GetBannerAfterMiss(h)
    BY <2>1, QueryKeepsCreating DEF GetBannerAfterMiss
  <2> QED
    BY <1>2, <2>1, GetEntryKeepsCreating, OthersKeepCreating, CachingKeepsCreating
    DEF Serving, Procs
<1>3. CASE Refreshing
  BY <1>3, RefreshKeepsCreating, CachingKeepsCreating DEF Refreshing, Procs
<1>4. CASE Crash
  BY <1>4 DEF Crash, CreatingInv, Procs
<1>5. CASE Tick \/ Elsewhere \/ UNCHANGED vars
  BY <1>5 DEF Tick, Elsewhere, vars, CreatingInv, repoVars, loopVars
<1> QED
  BY <1>1, <1>2, <1>3, <1>4, <1>5 DEF Next

LEMMA CreatingInvariance == Spec => []CreatingInv
  BY TypeInvariance, CreatingInit, CreatingNext, PTL DEF Spec

(***************************************************************************)
(* The refinement.                                                         *)
(***************************************************************************)

\* What callers and the store cannot tell from nothing happening.
LEMMA QuietStep ==
    ASSUME out' = NoReply, UNCHANGED <<repoVars, age, BeingCreated>>
    PROVE  Store!Next
  BY DEF Store!Next, Store!Quiet, Store!repoVars, Store!NoReply, NoReply, repoVars

\* Which banners are being created depends on todo of the handlers alone.
LEMMA CreatedSame ==
    ASSUME \A h \in Handlers : todo'[h] = todo[h]
    PROVE  BeingCreated' = BeingCreated
  BY DEF BeingCreated

LEMMA QueryStep ==
    ASSUME NEW h \in Handlers, NEW q \in Requests, QueryRepo(h, q)
    PROVE  Store!Next
<1>1. BeingCreated' = BeingCreated
  BY CreatedSame DEF QueryRepo
<1>2. CASE Reply(h, Found(q, SelectBanners(q.feature, {q.tag}, ~q.admin)))
  <2>1. Store!AnswerFromTable(q)
    BY <1>1, <1>2
    DEF QueryRepo, Reply, Found, SelectBanners, NoFilter, Store!AnswerFromTable,
        Store!Found, Store!SelectBanners, Store!NoFilter, Store!repoVars, repoVars,
        Store!BannerIds, BannerIds
  <2> QED
    BY <2>1 DEF Store!Next, Store!Requests, Requests
<1>3. CASE Faulty("postgres") /\ Reply(h, Done("error", 0))
  <2>1. Store!NoAnswer
    BY <1>1, <1>3
    DEF QueryRepo, Reply, Done, Faulty, Store!NoAnswer, Store!Done, Store!Faulty,
        Store!repoVars, repoVars
  <2> QED
    BY <2>1 DEF Store!Next
<1> QED
  BY <1>2, <1>3 DEF QueryRepo

LEMMA HitStep ==
    ASSUME TypeInv, StaleInv, UsersInv, CreatingInv, NEW h \in Handlers, GetEntry(h),
           NEW id \in BannerIds, Hit(h, id)
    PROVE  Store!Next
<1>1. cached[id] \in Banners /\ cached[id].active
  BY DEF Hit, Serves, TypeInv, CacheTypeOK
<1>2. age[cached[id]] < MaxAge
  <2>1. /\ ttl[id] # 0
        /\ age[cached[id]] + ttl[id] <= MaxAge
    BY DEF Hit, Serves, StaleInv, CacheInv, KeysInv, CacheStaleness
  <2>2. age[cached[id]] \in Int /\ ttl[id] \in Nat /\ MaxAge \in Int
    BY <1>1, ExpTimeAssumption, ServiceAssumption
    DEF TypeInv, CacheTypeOK, TimeTypeOK, MaxAge
  <2> QED
    BY <2>1, <2>2
<1>3. req[h] \in Requests /\ ~req[h].admin /\ ~req[h].useLast
  BY DEF GetEntry, UsersInv, CacheMayAnswer, TypeInv, LocalInv, HandlersTypeOK
<1>4. BeingCreated' = BeingCreated
  BY CreatedSame DEF GetEntry
<1>5. Store!AnswerOfLate(req[h])
  BY <1>1, <1>2, <1>3, <1>4
  DEF GetEntry, Hit, Reply, Found, Store!AnswerOfLate, Store!Found, Store!Banners,
      Banners, Store!repoVars, repoVars, Store!BannerIds, BannerIds,
      Store!Revisions, Revisions
<1> QED
  BY <1>3, <1>5 DEF Store!Next, Store!Requests, Requests

\* The created banner joins those being created.
LEMMA CreateStep ==
    ASSUME TypeInv, CreatingInv, NEW h \in Handlers, NEW c \in Inputs, CreateBanner(h, c)
    PROVE  Store!Next
<1>1. PICK id \in BannerIds, o \in Outcomes(Faulty("postgres")) :
         /\ InsertBanner(id, c, o)
         /\ IF Reported(o)
            THEN /\ todo' = [todo EXCEPT ![h] = {Row(id, 1, c)}]
                 /\ Goto(h, "set")
            ELSE /\ Reply(h, Done("error", 0))
                 /\ UNCHANGED todo
  BY DEF CreateBanner
<1>2. /\ Store!InsertBanner(id, c, o)
      /\ id \in Store!BannerIds
      /\ o \in Store!Outcomes(Store!Faulty("postgres"))
      /\ Store!Reported(o) <=> Reported(o)
  BY <1>1
  DEF InsertBanner, Row, Applied, Outcomes, Faulty, Reported, Store!InsertBanner,
      BannerIds, Store!BannerIds, Store!Row, Store!Applied, Store!Outcomes, Store!Faulty, Store!Reported
<1>3. Store!Aged(0)
  BY DEF CreateBanner, Aged, AgedUpTo, Store!Aged, Store!AgedUpTo, Store!Banners,
         Banners, Store!BannerIds, BannerIds, Store!Revisions, Revisions
<1>4. CASE Reported(o)
  <2>1. BeingCreated' = BeingCreated \cup {id}
    <3>1. todo[h] = {}
      BY DEF CreateBanner, CreatingInv
    <3>2. todo'[h] = {Row(id, 1, c)}
      BY <1>1, <1>4 DEF TypeInv, CachingTypeOK, Procs
    <3>3. \A g \in Handlers : g # h => todo'[g] = todo[g]
      BY <1>1, <1>4 DEF TypeInv, CachingTypeOK, Procs
    <3>4. Row(id, 1, c).id = id
      BY DEF Row
    <3> QED
      BY <3>1, <3>2, <3>3, <3>4 DEF BeingCreated
  <2>2. out' = NoReply
    BY <1>1, <1>4 DEF Goto
  <2>3. Store!Create(c)
    BY <1>2, <1>3, <1>4, <2>1, <2>2 DEF Store!Create, Store!NoReply, NoReply
  <2> QED
    BY <2>3 DEF Store!Next
<1>5. CASE ~Reported(o)
  <2>1. BeingCreated' = BeingCreated
    BY <1>1, <1>5, CreatedSame
  <2>2. out' = Done("error", 0)
    BY <1>1, <1>5 DEF Reply
  <2>3. Store!Create(c)
    BY <1>2, <1>3, <1>5, <2>1, <2>2 DEF Store!Create, Store!Done, Done
  <2> QED
    BY <2>3 DEF Store!Next
<1> QED
  BY <1>4, <1>5

\* The row a handler has cached was the only one it held, and its alone.
LEMMA ReportStep ==
    ASSUME TypeInv, CreatingInv, NEW h \in Handlers, StopCaching(h),
           UNCHANGED <<repoVars, age>>
    PROVE  Store!Next
<1>1. PICK b \in todo[h] : Reply(h, Done("created", b.id))
  BY ServiceAssumption DEF StopCaching
<1>2. b.id \in BannerIds
  BY DEF TypeInv, CachingTypeOK, Procs, Banners
<1>3. /\ todo'[h] = {}
      /\ \A g \in Handlers : g # h => todo'[g] = todo[g]
  BY DEF StopCaching, TypeInv, CachingTypeOK, Procs
<1>4. BeingCreated' = BeingCreated \ {b.id}
  <2>1. \A g \in Handlers : \A c \in todo[g] : c.id = b.id <=> g = h
    BY DEF CreatingInv
  <2> QED
    BY <1>3, <2>1 DEF BeingCreated
<1>5. b.id \in BeingCreated
  BY DEF BeingCreated
<1>6. Store!ReportCreated(b.id)
  BY <1>1, <1>4, <1>5
  DEF Reply, Done, Store!ReportCreated, Store!Done, Store!repoVars, repoVars
<1> QED
  BY <1>2, <1>6 DEF Store!Next, Store!BannerIds, BannerIds

LEMMA CachingStep ==
    ASSUME TypeInv, CreatingInv, NEW p \in Procs, Caching(p)
    PROVE  Store!Next
<1>1. UNCHANGED <<repoVars, age>>
  BY DEF Caching, CacheSet, CacheSAdd
<1>2. PICK b \in todo[p] :
         \/ CachedRow(p, b)
         \/ StopCaching(p)
         \/ Goto(p, "sadd") /\ UNCHANGED todo
  <2>1. CASE CacheSet(p)
    BY <2>1 DEF CacheSet
  <2>2. CASE \E t \in Tags : CacheSAdd(p, t)
    BY <2>2 DEF CacheSAdd
  <2> QED
    BY <2>1, <2>2 DEF Caching
<1>3. CASE p = Refresher
  <2>1. out' = NoReply
    BY <1>2, <1>3 DEF CachedRow, StopCaching, Goto
  <2>2. \A h \in Handlers : todo'[h] = todo[h]
    BY <1>2, <1>3, ServiceAssumption
    DEF CachedRow, StopCaching, TypeInv, CachingTypeOK, Procs
  <2> QED
    BY <1>1, <2>1, <2>2, CreatedSame, QuietStep
<1>4. CASE p \in Handlers
  <2>1. todo[p] = {b}
    BY <1>4 DEF CreatingInv
  <2>2. StopCaching(p) \/ (out' = NoReply /\ UNCHANGED todo)
    BY <1>2, <2>1 DEF CachedRow, Goto
  <2> QED
    BY <1>1, <1>4, <2>2, ReportStep, CreatedSame, QuietStep
<1> QED
  BY <1>3, <1>4 DEF Procs

\* Rows that stay in the table do not age, nor do others in no time.
LEMMA AgesKept ==
    ASSUME TypeInv, StaleInv, Aged(0), UNCHANGED repoVars
    PROVE  UNCHANGED age
<1>1. MaxAge \in Nat
  BY ExpTimeAssumption, ServiceAssumption DEF MaxAge
<1>2. \A b \in Banners : age[b] \in 0..MaxAge
  BY DEF TypeInv, TimeTypeOK
<1>3. \A b \in Banners : table[b.id] = b => age[b] = 0
  BY BannerAssumption DEF StaleInv, RowsInv, Banners
<1>4. \A b \in Banners :
         age[b] = IF table'[b.id] = b THEN 0
                  ELSE IF age[b] + 0 > MaxAge THEN MaxAge
                  ELSE age[b] + 0
  BY <1>1, <1>2, <1>3 DEF repoVars
<1>5. age = [b \in Banners |-> age[b]]
  BY DEF TypeInv, TimeTypeOK
<1> QED
  BY <1>4, <1>5 DEF Aged, AgedUpTo

LEMMA NotThereStep ==
    ASSUME NEW id \in BannerIds, ~Stored(id), UNCHANGED <<repoVars, age, BeingCreated>>,
           \/ out' = Done("notFound", id)
           \/ Faulty("postgres") /\ out' \in {Done("error", id), Done("deleted", id)}
    PROVE  Store!Next
<1>1. Store!NotThere(id)
  BY DEF Stored, Faulty, Done, repoVars, Store!NotThere, Store!Stored,
         Store!Faulty, Store!Done, Store!repoVars, Store!BannerIds, BannerIds
<1> QED
  BY <1>1 DEF Store!Next, Store!BannerIds, BannerIds

LEMMA UpdateStep ==
    ASSUME TypeInv, StaleInv, NEW h \in Handlers, NEW id \in BannerIds,
           NEW c \in Inputs, UpdateBanner(h, id, c)
    PROVE  Store!Next
<1>1. BeingCreated' = BeingCreated
  BY CreatedSame DEF UpdateBanner
<1>2. CASE Stored(id)
  <2>1. PICK o \in Outcomes(Faulty("postgres")) :
           /\ UpdateRow(id, c, o)
           /\ out' = Done(IF Reported(o) THEN "updated" ELSE "error", id)
    BY <1>2 DEF UpdateBanner, Reply
  <2>2. Store!Aged(0)
    BY DEF UpdateBanner, Aged, AgedUpTo, Store!Aged, Store!AgedUpTo, Store!Banners,
           Banners, Store!BannerIds, BannerIds, Store!Revisions, Revisions
  <2>3. Store!Update(id, c)
    BY <1>1, <2>1, <2>2
    DEF Store!Update, UpdateRow, Stored, Row, Applied, Outcomes, Faulty, Reported,
        Done, Store!UpdateRow, Store!Stored, Store!Row, Store!Applied,
        Store!Outcomes, Store!Faulty, Store!Reported, Store!Done, Store!BannerIds,
        BannerIds
  <2> QED
    BY <2>3 DEF Store!Next, Store!BannerIds, BannerIds
<1>3. CASE ~Stored(id)
  <2>1. UNCHANGED repoVars
    BY <1>3 DEF UpdateBanner, UpdateRow
  <2>2. \/ out' = Done("notFound", id)
        \/ Faulty("postgres") /\ out' = Done("error", id)
    BY <1>3 DEF UpdateBanner, UpdateRow, Reply
  <2> QED
    BY <1>1, <1>3, <2>1, <2>2, AgesKept, NotThereStep DEF UpdateBanner
<1> QED
  BY <1>2, <1>3

LEMMA DeleteStep ==
    ASSUME TypeInv, StaleInv, NEW h \in Handlers, DeleteFromRepo(h)
    PROVE  Store!Next
<1> DEFINE id == target[h]
<1>1. id \in BannerIds
  BY DEF DeleteFromRepo, TypeInv, LocalInv, TargetInv
<1>2. BeingCreated' = BeingCreated
  BY CreatedSame DEF DeleteFromRepo
<1>3. CASE Stored(id)
  <2>1. PICK o \in Outcomes(Faulty("postgres")) :
           DeleteRow(id, o) /\ out' = Done("deleted", id)
    BY <1>3 DEF DeleteFromRepo, Reply
  <2>2. Store!Aged(0)
    BY DEF DeleteFromRepo, Aged, AgedUpTo, Store!Aged, Store!AgedUpTo,
           Store!Banners, Banners, Store!BannerIds, BannerIds, Store!Revisions,
           Revisions
  <2>3. Store!Delete(id)
    BY <1>2, <2>1, <2>2
    DEF Store!Delete, DeleteRow, Stored, Applied, Outcomes, Faulty, Done,
        Store!DeleteRow, Store!Stored, Store!Applied, Store!Outcomes,
        Store!Faulty, Store!Done, Store!BannerIds, BannerIds
  <2> QED
    BY <1>1, <2>3 DEF Store!Next, Store!BannerIds, BannerIds
<1>4. CASE ~Stored(id)
  <2>1. UNCHANGED repoVars
    BY <1>4 DEF DeleteFromRepo, DeleteRow
  <2>2. \/ out' = Done("notFound", id)
        \/ Faulty("postgres") /\ out' = Done("deleted", id)
    BY <1>4 DEF DeleteFromRepo, DeleteRow, Reply
  <2> QED
    BY <1>1, <1>2, <1>4, <2>1, <2>2, AgesKept, NotThereStep DEF DeleteFromRepo
<1> QED
  BY <1>3, <1>4

LEMMA TickStep ==
    ASSUME TypeInv, Tick
    PROVE  Store!Next
<1>1. BeingCreated' = BeingCreated
  BY CreatedSame DEF Tick
<1>2. Store!Time
  BY <1>1
  DEF Tick, Aged, AgedUpTo, NoReply, repoVars, Store!Time, Store!Aged,
      Store!AgedUpTo, Store!NoReply, Store!repoVars, Store!Banners, Banners,
      Store!BannerIds, BannerIds, Store!Revisions, Revisions
<1> QED
  BY <1>2 DEF Store!Next

LEMMA CrashStep ==
    ASSUME Crash
    PROVE  Store!Next
<1>1. BeingCreated' = {}
  BY DEF Crash, BeingCreated, Procs
<1>2. Store!Restart
  BY <1>1
  DEF Crash, Faulty, NoReply, repoVars, Store!Restart, Store!Faulty,
      Store!NoReply, Store!repoVars
<1> QED
  BY <1>2 DEF Store!Next

LEMMA StoreInit == Init => Store!Init
<1> SUFFICES ASSUME Init PROVE Store!Init
  OBVIOUS
<1>1. BeingCreated = {}
  BY DEF Init, BeingCreated, Procs
<1> QED
  BY <1>1
  DEF Init, RepoInit, NoReply, Store!Init, Store!RepoInit, Store!NoReply,
      Store!Banners, Banners, Store!BannerIds, BannerIds, Store!Revisions, Revisions

LEMMA StoreNext ==
    TypeInv /\ StaleInv /\ UsersInv /\ CreatingInv /\ [Next]_vars => [Store!Next]_(Store!storeVars)
<1> SUFFICES ASSUME TypeInv, StaleInv, UsersInv, CreatingInv, [Next]_vars
             PROVE  [Store!Next]_(Store!storeVars)
  OBVIOUS
<1>1. ASSUME NEW h \in Handlers, Request(h) PROVE Store!Next
  <2>1. ASSUME NEW q \in Requests, GetBannerFromRepo(h, q) PROVE Store!Next
    BY <2>1, QueryStep DEF GetBannerFromRepo
  <2>2. ASSUME NEW q \in Requests, GetMembers(h, q) PROVE Store!Next
    <3>1. out' = NoReply
      BY <2>2 DEF GetMembers, Loop, Goto
    <3> QED
      BY <2>2, <3>1, CreatedSame, QuietStep DEF GetMembers
  <2>3. ASSUME NEW id \in BannerIds, DeleteFromCache(h, id) PROVE Store!Next
    BY <2>3, CreatedSame, QuietStep DEF DeleteFromCache, Goto
  <2> QED
    BY <1>1, <2>1, <2>2, <2>3, CreateStep, UpdateStep DEF Request
<1>2. ASSUME NEW h \in Handlers, Serving(h) PROVE Store!Next
  <2>1. CASE GetEntry(h)
    <3>1. ASSUME NEW id \in members[h], Hit(h, id) PROVE Store!Next
      <4>1. id \in BannerIds
        BY DEF TypeInv, LocalInv, HandlersTypeOK
      <4> QED
        BY <2>1, <3>1, <4>1, HitStep
    <3>2. CASE ~\E id \in members[h] : Hit(h, id)
      <4>1. out' = NoReply
        BY <2>1, <3>2 DEF GetEntry, Miss, Goto
      <4> QED
        BY <2>1, <4>1, CreatedSame, QuietStep DEF GetEntry
    <3> QED
      BY <3>1, <3>2
  <2>2. CASE GetBannerAfterMiss(h)
    <3>1. req[h] \in Requests
      BY DEF TypeInv, LocalInv, HandlersTypeOK
    <3> QED
      BY <2>2, <3>1, QueryStep DEF GetBannerAfterMiss
  <2> QED
    BY <1>2, <2>1, <2>2, DeleteStep, CachingStep DEF Serving, Procs
<1>3. CASE Refreshing
  <2>1. ASSUME RefreshRead \/ NextRefresh PROVE Store!Next
    <3>1. out' = NoReply /\ UNCHANGED <<repoVars, age>>
      BY <2>1 DEF RefreshRead, NextRefresh, Goto
    <3>2. \A h \in Handlers : todo'[h] = todo[h]
      BY <2>1, ServiceAssumption
      DEF RefreshRead, NextRefresh, TypeInv, CachingTypeOK, Procs
    <3> QED
      BY <3>1, <3>2, CreatedSame, QuietStep
  <2> QED
    BY <1>3, <2>1, CachingStep DEF Refreshing, Procs
<1>4. CASE Elsewhere
  BY <1>4, CreatedSame, QuietStep DEF Elsewhere
<1>5. CASE UNCHANGED vars
  <2>1. BeingCreated' = BeingCreated
    BY <1>5, CreatedSame DEF vars
  <2> QED
    BY <1>5, <2>1 DEF vars, repoVars, Store!storeVars, Store!repoVars
<1> QED
  BY <1>1, <1>2, <1>3, <1>4, <1>5, TickStep, CrashStep DEF Next

\* Callers of BannerService, whatever the cache, the refresher, other callers,
\* faults and crashes do, see the behaviour of BannerStore.
THEOREM ServiceIsAStore == Spec => ImplementsStore
  BY TypeInvariance, StaleInvariance, UsersInvariance, CreatingInvariance, StoreInit, StoreNext, PTL
  DEF Spec, ImplementsStore, Store!Spec

=============================================================================
