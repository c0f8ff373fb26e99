------------------------ MODULE BannerServiceProofs ------------------------
(***************************************************************************)
(* Proofs about BannerService, for every value of its constants: its type  *)
(* invariant, the bound on how stale the cache and a reply may be, which   *)
(* banners a reply has, and the completeness of the index.                 *)
(***************************************************************************)
EXTENDS BannerService, FiniteSetTheorems, TLAPS

(***************************************************************************)
(* Type correctness.  TypeOK needs two facts about the local states: the   *)
(* loop of GetUserBanner is only entered with iterations left, and an id   *)
(* is chosen before DELETE is sent.                                        *)
(***************************************************************************)

LoopInv == \A h \in Handlers : pc[h] = "get" => tries[h] # 0

TargetInv == \A h \in Handlers : pc[h] = "delete" => target[h] \in BannerIds

\* What a step of a handler that replies or moves on is about.
LocalInv ==
    /\ pc \in [Procs -> {"idle", "get", "query", "delete",
                         "select", "wait", "set", "sadd"}]
    /\ HandlersTypeOK
    /\ out \in Replies
    /\ LoopInv
    /\ TargetInv

TypeInv ==
    /\ RepoTypeOK
    /\ CacheTypeOK
    /\ LocalInv
    /\ CachingTypeOK
    /\ TimeTypeOK

\* What a query returns are rows of the table.
LEMMA SelectType ==
    ASSUME RepoTypeOK, NEW f, NEW ts, NEW a
    PROVE  SelectBanners(f, ts, a) \subseteq Banners
  BY DEF SelectBanners, RepoTypeOK

\* A member list of the index holds at most MaxId ids, and some if not empty.
LEMMA MembersType ==
    ASSUME CacheTypeOK, NEW f, NEW t \in Tags
    PROVE  /\ Members(f, t) \subseteq BannerIds
           /\ Cardinality(Members(f, t)) \in 0..MaxId
           /\ Cardinality(Members(f, t)) = 0 => Members(f, t) = {}
<1>1. Members(f, t) \subseteq BannerIds
  BY DEF Members, CacheTypeOK
<1>2. /\ IsFiniteSet(BannerIds)
      /\ Cardinality(BannerIds) = MaxId
  <2>1. IsFiniteSet(1..MaxId) /\ Cardinality(1..MaxId) = IF 1 > MaxId THEN 0 ELSE MaxId - 1 + 1
    BY FS_Interval, BannerAssumption
  <2> QED
    BY <2>1, BannerAssumption DEF BannerIds
<1>3. /\ IsFiniteSet(Members(f, t))
      /\ Cardinality(Members(f, t)) <= MaxId
  BY <1>1, <1>2, FS_Subset
<1>4. Cardinality(Members(f, t)) \in Nat
  BY <1>3, FS_CardinalityType
<1>5. Cardinality(Members(f, t)) = 0 => Members(f, t) = {}
  BY <1>3, FS_EmptySet
<1> QED
  BY <1>1, <1>3, <1>4, <1>5, BannerAssumption

LEMMA FoundType ==
    ASSUME NEW q \in Requests, NEW bs \in SUBSET Banners
    PROVE  Found(q, bs) \in Replies
  BY DEF Found, Replies

LEMMA DoneType ==
    ASSUME NEW k \in {"created", "updated", "deleted", "notFound", "error"},
           NEW id \in 0..MaxId
    PROVE  Done(k, id) \in Replies
  BY DEF Done, Replies

\* Whatever h replies, its locals are back to their initial values.
LEMMA ReplyType ==
    ASSUME LocalInv, NEW h \in Handlers, NEW r \in Replies, Reply(h, r)
    PROVE  LocalInv'
<1>1. NoRequest \in Requests
  BY ServiceAssumption DEF NoRequest
<1> QED
  BY <1>1, BannerAssumption
  DEF LocalInv, HandlersTypeOK, LoopInv, TargetInv, Reply, Procs

\* Moving on to a command other than GET and DELETE touches no local.
LEMMA GotoType ==
    ASSUME LocalInv, NEW p \in Procs,
           NEW label \in {"query", "select", "wait", "set", "sadd"},
           Goto(p, label), UNCHANGED loopVars
    PROVE  LocalInv'
  BY DEF LocalInv, HandlersTypeOK, LoopInv, TargetInv, Goto, Procs, loopVars, Replies

\* Ages stay in range and grow by at most n; the rows of the table have none.
LEMMA AgedType ==
    ASSUME TimeTypeOK, NEW n \in Nat, Aged(n)
    PROVE  /\ age' \in [Banners -> 0..MaxAge]
           /\ \A b \in Banners : age'[b] <= age[b] + n
           /\ \A b \in Banners : table'[b.id] = b => age'[b] = 0
<1>1. MaxAge \in Nat
  BY ExpTimeAssumption, ServiceAssumption DEF MaxAge
<1> QED
  BY <1>1 DEF TimeTypeOK, Aged, AgedUpTo

LEMMA SetBannerType ==
    ASSUME CacheTypeOK, NEW b \in Banners, SetBanner(b)
    PROVE  CacheTypeOK'
  BY ExpTimeAssumption, SMTT(30) DEF CacheTypeOK, SetBanner, Banners

LEMMA AddToIndexType ==
    ASSUME CacheTypeOK, NEW b \in Banners, NEW t, AddToIndex(b, t)
    PROVE  CacheTypeOK'
  BY ZenonT(40) DEF CacheTypeOK, AddToIndex, Banners

LEMMA DelBannerType ==
    ASSUME CacheTypeOK, NEW id, DelBanner(id)
    PROVE  CacheTypeOK'
<1>1. cached' \in [BannerIds -> Banners \cup {NoBanner}]
  BY DEF CacheTypeOK, DelBanner
<1>2. ttl' \in [BannerIds -> 0..ExpTime]
  <2>1. 0 \in 0..ExpTime
    BY ExpTimeAssumption
  <2> QED
    BY <2>1 DEF CacheTypeOK, DelBanner
<1> QED
  BY <1>1, <1>2 DEF CacheTypeOK, DelBanner

\* A row written has the id it is stored under, whatever the outcome.
LEMMA RowType ==
    ASSUME NEW id \in BannerIds, NEW r \in Revisions, NEW c \in Contents
    PROVE  Row(id, r, c) \in Banners
  BY DEF Row, Banners, Contents

LEMMA InsertType ==
    ASSUME RepoTypeOK, NEW id, NEW c \in Contents, NEW o, InsertBanner(id, c, o)
    PROVE  RepoTypeOK' /\ Row(id, 1, c) \in Banners
<1>1. id \in BannerIds /\ 1 \in Revisions
  BY BannerAssumption DEF InsertBanner, Revisions
<1>2. Row(id, 1, c) \in Banners
  BY <1>1, RowType
<1> QED
  BY <1>1, <1>2 DEF RepoTypeOK, InsertBanner

LEMMA UpdateType ==
    ASSUME RepoTypeOK, NEW id, NEW c \in Contents, NEW o, UpdateRow(id, c, o)
    PROVE  RepoTypeOK'
<1>1. id \in BannerIds /\ table[id].rev + 1 \in Revisions
  BY BannerAssumption
  DEF RepoTypeOK, UpdateRow, Stored, Revisions, Banners
<1>2. Row(id, table[id].rev + 1, c) \in Banners
  BY <1>1, RowType
<1> QED
  BY <1>1, <1>2 DEF RepoTypeOK, UpdateRow

LEMMA DeleteType ==
    ASSUME RepoTypeOK, NEW id, NEW o, DeleteRow(id, o)
    PROVE  RepoTypeOK'
  BY DEF RepoTypeOK, DeleteRow, Stored

LEMMA QueryRepoType ==
    ASSUME TypeInv, NEW h \in Handlers, NEW q \in Requests, QueryRepo(h, q)
    PROVE  TypeInv'
<1>1. SelectBanners(q.feature, {q.tag}, ~q.admin) \subseteq Banners
  BY SelectType DEF TypeInv
<1>2. PICK r \in Replies : Reply(h, r)
  BY <1>1, FoundType, DoneType, BannerAssumption DEF QueryRepo
<1>3. LocalInv'
  BY <1>2, ReplyType DEF TypeInv
<1> QED
  BY <1>3 DEF TypeInv, QueryRepo, RepoTypeOK, CacheTypeOK, CachingTypeOK,
              TimeTypeOK, repoVars, cacheVars, timerVars

\* bannerCache.CreateBanner ends for p: a handler replies with a row's id.
LEMMA StopCachingType ==
    ASSUME LocalInv, CachingTypeOK, NEW p \in Procs, StopCaching(p)
    PROVE  LocalInv' /\ CachingTypeOK'
<1>1. LocalInv'
  <2>1. CASE p = Refresher
    BY <2>1, GotoType DEF StopCaching
  <2>2. CASE p # Refresher
    <3>1. p \in Handlers
      BY <2>2 DEF Procs
    <3>2. PICK b \in todo[p] : Reply(p, Done("created", b.id))
      BY <2>2 DEF StopCaching
    <3>3. b.id \in 0..MaxId
      BY <3>2, BannerAssumption DEF CachingTypeOK, Banners, BannerIds
    <3> QED
      BY <3>1, <3>2, <3>3, DoneType, ReplyType
  <2> QED
    BY <2>1, <2>2
<1>2. CachingTypeOK'
  BY ServiceAssumption DEF CachingTypeOK, StopCaching
<1> QED
  BY <1>1, <1>2

LEMMA CachedRowType ==
    ASSUME LocalInv, CachingTypeOK, NEW p \in Procs, NEW b, CachedRow(p, b)
    PROVE  LocalInv' /\ CachingTypeOK'
<1>1. CASE todo[p] = {b}
  BY <1>1, StopCachingType DEF CachedRow
<1>2. CASE todo[p] # {b}
  <2>1. LocalInv'
    BY <1>2, GotoType DEF CachedRow
  <2>2. CachingTypeOK'
    BY <1>2 DEF CachedRow, CachingTypeOK
  <2> QED
    BY <2>1, <2>2
<1> QED
  BY <1>1, <1>2

(***************************************************************************)
(* One lemma per action.                                                   *)
(***************************************************************************)

LEMMA TypeInit == Init => TypeInv
<1> SUFFICES ASSUME Init PROVE TypeInv
  OBVIOUS
<1>1. RepoTypeOK
  BY BannerAssumption DEF Init, RepoInit, RepoTypeOK
<1>2. CacheTypeOK
  BY ExpTimeAssumption DEF Init, CacheInit, CacheTypeOK
<1>3. LocalInv
  <2>1. NoRequest \in Requests
    BY ServiceAssumption DEF NoRequest
  <2> QED
    BY <2>1, BannerAssumption, ServiceAssumption
    DEF Init, LocalInv, HandlersTypeOK, LoopInv, TargetInv, Procs, Replies
<1>4. CachingTypeOK
  BY ServiceAssumption DEF Init, CachingTypeOK
<1>5. TimeTypeOK
  <2>1. MaxAge \in 0..MaxAge /\ ExpTime \in 1..ExpTime
    BY ExpTimeAssumption, ServiceAssumption DEF MaxAge
  <2> QED
    BY <2>1 DEF Init, TimeTypeOK
<1> QED
  BY <1>1, <1>2, <1>3, <1>4, <1>5 DEF TypeInv

LEMMA TypeGetMembers ==
    ASSUME TypeInv, NEW h \in Handlers, NEW q \in Requests, GetMembers(h, q)
    PROVE  TypeInv'
<1>1. LocalInv'
  <2>1. CASE Loop(h, Members(q.feature, q.tag))
    <3> DEFINE ids == Members(q.feature, q.tag)
    <3>1. /\ ids \subseteq BannerIds
          /\ Cardinality(ids) \in 0..MaxId
          /\ Cardinality(ids) = 0 => ids = {}
      BY MembersType DEF TypeInv, Requests
    <3> HIDE DEF ids
    <3> QED
      BY <2>1, <3>1
      DEF TypeInv, LocalInv, HandlersTypeOK, LoopInv, TargetInv, GetMembers,
          Loop, Goto, Procs, Replies, ids
  <2>2. CASE Goto(h, "query") /\ UNCHANGED <<members, tries, target>>
    BY <2>2
    DEF TypeInv, LocalInv, HandlersTypeOK, LoopInv, TargetInv, GetMembers, Goto,
        Procs, Replies
  <2> QED
    BY <2>1, <2>2 DEF GetMembers
<1> QED
  BY <1>1 DEF TypeInv, GetMembers, RepoTypeOK, CacheTypeOK, CachingTypeOK,
              TimeTypeOK, repoVars, cacheVars, timerVars

LEMMA TypeGetEntry ==
    ASSUME TypeInv, NEW h \in Handlers, GetEntry(h)
    PROVE  TypeInv'
<1>1. LocalInv'
  <2>1. CASE \E id \in members[h] : Hit(h, id)
    <3>1. PICK id \in BannerIds : Hit(h, id)
      BY <2>1 DEF TypeInv, LocalInv, HandlersTypeOK
    <3>2. cached[id] \in Banners
      BY <3>1 DEF TypeInv, CacheTypeOK, Hit, Serves
    <3>3. Found(req[h], {cached[id]}) \in Replies
      BY <3>2, FoundType DEF TypeInv, LocalInv, HandlersTypeOK
    <3> QED
      BY <3>1, <3>3, ReplyType DEF TypeInv, Hit
  <2>2. CASE \E id \in members[h] : Miss(h, id)
    <3>1. tries[h] \in 0..MaxId /\ tries[h] # 0
      BY DEF GetEntry, TypeInv, LocalInv, HandlersTypeOK, LoopInv
    <3>2. tries[h] - 1 \in 0..MaxId /\ (tries[h] # 1 => tries[h] - 1 # 0)
      BY <3>1, BannerAssumption
    <3>3. tries' \in [Handlers -> 0..MaxId]
      BY <2>2, <3>2 DEF Miss, TypeInv, LocalInv, HandlersTypeOK
    <3>4. LoopInv'
      BY <2>2, <3>2
      DEF Miss, Goto, TypeInv, LocalInv, HandlersTypeOK, LoopInv, Procs
    <3> QED
      BY <2>2, <3>3, <3>4
      DEF Miss, Goto, TypeInv, LocalInv, HandlersTypeOK, TargetInv, Procs, Replies
  <2>3. CASE Goto(h, "query") /\ UNCHANGED <<cacheVars, loopVars>>
    BY <2>3, GotoType DEF TypeInv, Procs
  <2> QED
    BY <2>1, <2>2, <2>3 DEF GetEntry
<1>2. CacheTypeOK'
  BY DEF GetEntry, Hit, Miss, TypeInv, CacheTypeOK, cacheVars
<1> QED
  BY <1>1, <1>2 DEF TypeInv, GetEntry, RepoTypeOK, CachingTypeOK, TimeTypeOK,
                    repoVars, timerVars

LEMMA TypeCreateBanner ==
    ASSUME TypeInv, NEW h \in Handlers, NEW c \in Inputs, CreateBanner(h, c)
    PROVE  TypeInv'
<1>1. PICK id \in BannerIds, o \in Outcomes(Faulty("postgres")) :
         /\ InsertBanner(id, c, o)
         /\ IF Reported(o)
            THEN /\ todo' = [todo EXCEPT ![h] = {Row(id, 1, c)}]
                 /\ Goto(h, "set")
                 /\ UNCHANGED loopVars
            ELSE /\ Reply(h, Done("error", 0))
                 /\ UNCHANGED todo
  BY DEF CreateBanner
<1>2. RepoTypeOK' /\ Row(id, 1, c) \in Banners
  BY <1>1, InsertType, ServiceAssumption DEF TypeInv
<1>3. LocalInv'
  BY <1>1, GotoType, ReplyType, DoneType, BannerAssumption DEF TypeInv, Procs
<1>4. CachingTypeOK'
  BY <1>1, <1>2 DEF CreateBanner, TypeInv, CachingTypeOK, Procs
<1>5. TimeTypeOK'
  BY AgedType DEF CreateBanner, TypeInv, TimeTypeOK, timerVars
<1> QED
  BY <1>2, <1>3, <1>4, <1>5 DEF TypeInv, CreateBanner, CacheTypeOK, cacheVars

LEMMA TypeCacheSet ==
    ASSUME TypeInv, NEW p \in Procs, CacheSet(p)
    PROVE  TypeInv'
<1>1. PICK b \in Banners :
         \/ /\ SetBanner(b)
            /\ IF b.tags = {}
               THEN CachedRow(p, b)
               ELSE /\ newTags' = [newTags EXCEPT ![p] = b.tags]
                    /\ Goto(p, "sadd")
                    /\ UNCHANGED <<todo, held, loopVars>>
         \/ RedisError(SetBanner(b)) /\ StopCaching(p)
  BY DEF CacheSet, TypeInv, CachingTypeOK
<1>2. CacheTypeOK'
  <2>1. CASE SetBanner(b)
    BY <2>1, SetBannerType DEF TypeInv
  <2>2. CASE UNCHANGED cacheVars
    BY <2>2 DEF TypeInv, CacheTypeOK, cacheVars
  <2> QED
    BY <1>1, <2>1, <2>2 DEF RedisError
<1>3. LocalInv' /\ CachingTypeOK'
  <2>1. CASE CachedRow(p, b)
    BY <2>1, CachedRowType DEF TypeInv
  <2>2. CASE StopCaching(p)
    BY <2>2, StopCachingType DEF TypeInv
  <2>3. CASE /\ newTags' = [newTags EXCEPT ![p] = b.tags]
             /\ Goto(p, "sadd")
             /\ UNCHANGED <<todo, held, loopVars>>
    <3>1. LocalInv'
      BY <2>3, GotoType DEF TypeInv
    <3>2. CachingTypeOK'
      BY <2>3 DEF TypeInv, CachingTypeOK, Banners
    <3> QED
      BY <3>1, <3>2
  <2> QED
    BY <1>1, <2>1, <2>2, <2>3
<1> QED
  BY <1>2, <1>3 DEF TypeInv, CacheSet, RepoTypeOK, TimeTypeOK, repoVars, timerVars

LEMMA TypeCacheSAdd ==
    ASSUME TypeInv, NEW p \in Procs, NEW t \in Tags, CacheSAdd(p, t)
    PROVE  TypeInv'
<1>1. PICK b \in Banners :
         \/ /\ AddToIndex(b, t)
            /\ IF newTags[p] = {t}
               THEN CachedRow(p, b)
               ELSE /\ newTags' = [newTags EXCEPT ![p] = @ \ {t}]
                    /\ Goto(p, "sadd")
                    /\ UNCHANGED <<todo, held, loopVars>>
         \/ RedisError(AddToIndex(b, t)) /\ StopCaching(p)
  BY DEF CacheSAdd, TypeInv, CachingTypeOK
<1>2. CacheTypeOK'
  <2>1. CASE AddToIndex(b, t)
    BY <2>1, AddToIndexType DEF TypeInv
  <2>2. CASE UNCHANGED cacheVars
    BY <2>2 DEF TypeInv, CacheTypeOK, cacheVars
  <2> QED
    BY <1>1, <2>1, <2>2 DEF RedisError
<1>3. LocalInv' /\ CachingTypeOK'
  <2>1. CASE CachedRow(p, b)
    BY <2>1, CachedRowType DEF TypeInv
  <2>2. CASE StopCaching(p)
    BY <2>2, StopCachingType DEF TypeInv
  <2>3. CASE /\ newTags' = [newTags EXCEPT ![p] = @ \ {t}]
             /\ Goto(p, "sadd")
             /\ UNCHANGED <<todo, held, loopVars>>
    <3>1. LocalInv'
      BY <2>3, GotoType DEF TypeInv
    <3>2. CachingTypeOK'
      BY <2>3 DEF TypeInv, CachingTypeOK
    <3> QED
      BY <3>1, <3>2
  <2> QED
    BY <1>1, <2>1, <2>2, <2>3
<1> QED
  BY <1>2, <1>3 DEF TypeInv, CacheSAdd, RepoTypeOK, TimeTypeOK, repoVars, timerVars

LEMMA TypeUpdateBanner ==
    ASSUME TypeInv, NEW h \in Handlers, NEW id \in BannerIds, NEW c \in Inputs,
           UpdateBanner(h, id, c)
    PROVE  TypeInv'
<1>1. RepoTypeOK'
  <2>1. CASE \E o : UpdateRow(id, c, o)
    BY <2>1, UpdateType, ServiceAssumption DEF TypeInv
  <2>2. CASE UNCHANGED repoVars
    BY <2>2 DEF TypeInv, RepoTypeOK, repoVars
  <2> QED
    BY <2>1, <2>2 DEF UpdateBanner
<1>2. PICK k \in {"updated", "error", "notFound"} : Reply(h, Done(k, id))
  BY DEF UpdateBanner
<1>3. id \in 0..MaxId
  BY BannerAssumption DEF BannerIds
<1>4. LocalInv'
  BY <1>2, <1>3, DoneType, ReplyType DEF TypeInv
<1>5. TimeTypeOK'
  BY AgedType DEF UpdateBanner, TypeInv, TimeTypeOK, timerVars
<1> QED
  BY <1>1, <1>4, <1>5
  DEF TypeInv, UpdateBanner, CacheTypeOK, CachingTypeOK, cacheVars

LEMMA TypeDeleteFromCache ==
    ASSUME TypeInv, NEW h \in Handlers, NEW id \in BannerIds,
           DeleteFromCache(h, id)
    PROVE  TypeInv'
<1>1. CacheTypeOK'
  <2>1. CASE UNCHANGED cacheVars
    BY <2>1 DEF TypeInv, CacheTypeOK, cacheVars
  <2> QED
    BY <2>1, DelBannerType DEF DeleteFromCache, RedisError, TypeInv
<1>2. LocalInv'
  BY BannerAssumption
  DEF DeleteFromCache, TypeInv, LocalInv, HandlersTypeOK, LoopInv, TargetInv,
      Goto, Procs, Replies, BannerIds
<1> QED
  BY <1>1, <1>2 DEF TypeInv, DeleteFromCache, RepoTypeOK, CachingTypeOK,
                    TimeTypeOK, repoVars, timerVars

LEMMA TypeDeleteFromRepo ==
    ASSUME TypeInv, NEW h \in Handlers, DeleteFromRepo(h)
    PROVE  TypeInv'
<1>1. RepoTypeOK'
  <2>1. CASE \E o : DeleteRow(target[h], o)
    BY <2>1, DeleteType DEF TypeInv
  <2>2. CASE UNCHANGED repoVars
    BY <2>2 DEF TypeInv, RepoTypeOK, repoVars
  <2> QED
    BY <2>1, <2>2 DEF DeleteFromRepo
<1>2. PICK k \in {"deleted", "notFound"} : Reply(h, Done(k, target[h]))
  BY DEF DeleteFromRepo
<1>3. target[h] \in 0..MaxId
  BY DEF TypeInv, LocalInv, HandlersTypeOK
<1>4. LocalInv'
  BY <1>2, <1>3, DoneType, ReplyType DEF TypeInv
<1>5. TimeTypeOK'
  BY AgedType DEF DeleteFromRepo, TypeInv, TimeTypeOK, timerVars
<1> QED
  BY <1>1, <1>4, <1>5
  DEF TypeInv, DeleteFromRepo, CacheTypeOK, CachingTypeOK, cacheVars

LEMMA TypeRefreshRead ==
    ASSUME TypeInv, RefreshRead
    PROVE  TypeInv'
<1> DEFINE rows == SelectBanners(NoFilter, {}, FALSE)
<1>1. rows \subseteq Banners
  BY SelectType DEF TypeInv
<1>2. PICK label \in {"wait", "set"} : Goto(Refresher, label)
  BY DEF RefreshRead
<1>3. LocalInv'
  BY <1>2, GotoType DEF RefreshRead, TypeInv, Procs
<1>4. CachingTypeOK'
  BY <1>1 DEF RefreshRead, TypeInv, CachingTypeOK
<1> QED
  BY <1>3, <1>4 DEF TypeInv, RefreshRead, RepoTypeOK, CacheTypeOK, TimeTypeOK,
                    repoVars, cacheVars, timerVars

LEMMA TypeNextRefresh ==
    ASSUME TypeInv, NextRefresh
    PROVE  TypeInv'
<1>1. LocalInv'
  BY GotoType DEF NextRefresh, TypeInv, Procs
<1> QED
  BY <1>1 DEF TypeInv, NextRefresh, RepoTypeOK, CacheTypeOK, CachingTypeOK,
              TimeTypeOK, repoVars, cacheVars

LEMMA TypeTick ==
    ASSUME TypeInv, Tick
    PROVE  TypeInv'
<1>1. CacheTypeOK'
  <2>1. ttl' \in [BannerIds -> 0..ExpTime]
    <3>1. \A n \in 0..ExpTime :
             0 \in 0..ExpTime /\ (n # 0 => n - 1 \in 0..ExpTime)
      BY ExpTimeAssumption
    <3> QED
      BY <3>1 DEF Tick, ExpireKeys, TypeInv, CacheTypeOK
  <2>2. cached' \in [BannerIds -> Banners \cup {NoBanner}]
    BY DEF Tick, ExpireKeys, TypeInv, CacheTypeOK
  <2> QED
    BY <2>1, <2>2 DEF Tick, ExpireKeys, TypeInv, CacheTypeOK
<1>2. CachingTypeOK'
  <2>1. held' \in [Procs -> 0..MaxLag]
    BY ServiceAssumption DEF Tick, TypeInv, CachingTypeOK
  <2> QED
    BY <2>1 DEF Tick, TypeInv, CachingTypeOK
<1>3. TimeTypeOK'
  <2>1. age' \in [Banners -> 0..MaxAge]
    BY AgedType DEF Tick, TypeInv
  <2>2. ticker' \in 1..ExpTime /\ tickBuf' \in BOOLEAN
    BY ExpTimeAssumption DEF Tick, TickerRuns, TypeInv, TimeTypeOK
  <2> QED
    BY <2>1, <2>2 DEF TimeTypeOK
<1>4. LocalInv'
  BY DEF Tick, TypeInv, LocalInv, HandlersTypeOK, LoopInv, TargetInv, loopVars,
         Replies
<1> QED
  BY <1>1, <1>2, <1>3, <1>4 DEF Tick, TypeInv, RepoTypeOK, repoVars

LEMMA TypeCrash ==
    ASSUME TypeInv, Crash
    PROVE  TypeInv'
<1>1. LocalInv'
  <2>1. NoRequest \in Requests
    BY ServiceAssumption DEF NoRequest
  <2> QED
    BY <2>1, BannerAssumption, ServiceAssumption
    DEF Crash, LocalInv, HandlersTypeOK, LoopInv, TargetInv, Procs, Replies
<1>2. CachingTypeOK'
  BY ServiceAssumption DEF Crash, CachingTypeOK
<1>3. TimeTypeOK'
  <2>1. ExpTime \in 1..ExpTime
    BY ExpTimeAssumption
  <2> QED
    BY <2>1 DEF Crash, TypeInv, TimeTypeOK
<1> QED
  BY <1>1, <1>2, <1>3 DEF TypeInv, Crash, RepoTypeOK, CacheTypeOK, repoVars, cacheVars

LEMMA TypeNext == TypeInv /\ [Next]_vars => TypeInv'
<1> SUFFICES ASSUME TypeInv, [Next]_vars PROVE TypeInv'
  OBVIOUS
<1>1. ASSUME NEW h \in Handlers, Request(h) PROVE TypeInv'
  <2>1. ASSUME NEW q \in Requests, GetBannerFromRepo(h, q) PROVE TypeInv'
    BY <2>1, QueryRepoType DEF GetBannerFromRepo
  <2> QED
    BY <1>1, <2>1, TypeGetMembers, TypeCreateBanner, TypeUpdateBanner,
       TypeDeleteFromCache DEF Request
<1>2. ASSUME NEW p \in Procs, Caching(p) PROVE TypeInv'
  BY <1>2, TypeCacheSet, TypeCacheSAdd DEF Caching
<1>3. ASSUME NEW h \in Handlers, Serving(h) PROVE TypeInv'
  <2>1. CASE GetBannerAfterMiss(h)
    <3>1. req[h] \in Requests
      BY DEF TypeInv, LocalInv, HandlersTypeOK
    <3> QED
      BY <2>1, <3>1, QueryRepoType DEF GetBannerAfterMiss
  <2> QED
    BY <1>2, <1>3, <2>1, TypeGetEntry, TypeDeleteFromRepo DEF Serving, Procs
<1>4. CASE Refreshing
  BY <1>2, <1>4, TypeRefreshRead, TypeNextRefresh DEF Refreshing, Procs
<1>5. CASE UNCHANGED vars
  BY <1>5 DEF TypeInv, RepoTypeOK, CacheTypeOK, LocalInv, HandlersTypeOK, LoopInv,
              TargetInv, CachingTypeOK, TimeTypeOK, vars, repoVars, cacheVars,
              loopVars, timerVars
<1>6. CASE Elsewhere
  BY <1>6 DEF Elsewhere, TypeInv, RepoTypeOK, CacheTypeOK, LocalInv, HandlersTypeOK,
              LoopInv, TargetInv, CachingTypeOK, TimeTypeOK, repoVars, cacheVars,
              loopVars, timerVars, Replies
<1> QED
  BY <1>1, <1>3, <1>4, <1>5, <1>6, TypeTick, TypeCrash DEF Next

LEMMA TypeInvariance == Spec => []TypeInv
  BY TypeInit, TypeNext, PTL DEF Spec

\* Every variable keeps its type, the loop counter of GetUserBanner included:
\* it never runs below zero, whatever members it was given.
THEOREM TypeCorrectness == Spec => []TypeOK
<1>1. TypeInv => TypeOK
  BY DEF TypeInv, LocalInv, TypeOK
<1> QED
  BY <1>1, TypeInvariance, PTL

(***************************************************************************)
(* Staleness.  CacheStaleness is not inductive: a SET must put an old row  *)
(* there no later than MaxLag after it left the table, so the invariant    *)
(* follows a row from the table (age 0) through todo (age at most the time *)
(* it is held) into the cache (age at most MaxAge less the time it stays). *)
(***************************************************************************)

RowsInv ==
    \A id \in BannerIds :
        table[id] # NoBanner =>
            table[id].id = id /\ age[table[id]] = 0

TodoInv ==
    \A p \in Procs : \A b \in todo[p] : age[b] <= held[p]

\* A key that is there has time left and holds the banner it is named after.
KeysInv ==
    \A id \in BannerIds :
        cached[id] # NoBanner => cached[id].id = id /\ ttl[id] # 0

CacheInv == KeysInv /\ CacheStaleness

StaleInv == RowsInv /\ TodoInv /\ CacheInv

\* No revision is older than it was.
NotOlder ==
    \A b \in Banners : age'[b] <= age[b]

LEMMA NotOlderKept ==
    ASSUME TypeInv, UNCHANGED age
    PROVE  NotOlder
  BY DEF NotOlder, TypeInv, TimeTypeOK

LEMMA NotOlderWrite ==
    ASSUME TypeInv, Aged(0)
    PROVE  NotOlder
<1>1. \A b \in Banners : age'[b] <= age[b] + 0
  BY AgedType DEF TypeInv
<1> QED
  BY <1>1 DEF NotOlder, TypeInv, TimeTypeOK

LEMMA RowsKept ==
    ASSUME RowsInv, UNCHANGED <<repoVars, age>>
    PROVE  RowsInv'
  BY DEF RowsInv, repoVars

\* A step that writes the table, or lets time pass, and keeps ids in place.
LEMMA RowsAged ==
    ASSUME TypeInv, RepoTypeOK', NEW n \in Nat, Aged(n),
           \A id \in BannerIds : table'[id] # NoBanner => table'[id].id = id
    PROVE  RowsInv'
<1>1. \A b \in Banners : table'[b.id] = b => age'[b] = 0
  BY AgedType DEF TypeInv
<1> QED
  BY <1>1 DEF RowsInv, RepoTypeOK, Banners

\* Processes may give up rows or have some left; none gets new ones.
LEMMA TodoKept ==
    ASSUME TypeInv, TypeInv', TodoInv, NotOlder,
           \A p \in Procs : \/ todo'[p] = {}
                            \/ todo'[p] \subseteq todo[p] /\ held'[p] = held[p]
    PROVE  TodoInv'
<1> SUFFICES ASSUME NEW p \in Procs, NEW b \in todo'[p]
             PROVE  age'[b] <= held'[p]
  BY DEF TodoInv
<1>1. b \in todo[p] /\ held'[p] = held[p]
  OBVIOUS
<1>2. b \in Banners
  BY <1>1 DEF TypeInv, CachingTypeOK, Banners
<1>3. age[b] <= held[p] /\ age'[b] <= age[b]
  BY <1>1, <1>2 DEF TodoInv, NotOlder
<1> QED
  BY <1>1, <1>2, <1>3 DEF TypeInv, TimeTypeOK, CachingTypeOK

\* The cache and its clock stay as they are, or lose an entry.
LEMMA CacheKept ==
    ASSUME TypeInv, TypeInv', CacheInv, NotOlder,
           \A id \in BannerIds : \/ cached'[id] = NoBanner
                                 \/ cached'[id] = cached[id] /\ ttl'[id] = ttl[id]
    PROVE  CacheInv'
<1> SUFFICES ASSUME NEW id \in BannerIds, cached'[id] # NoBanner
             PROVE  /\ cached'[id].id = id /\ ttl'[id] # 0
                    /\ age'[cached'[id]] + ttl'[id] <= MaxAge
  BY DEF CacheInv, KeysInv, CacheStaleness
<1>1. cached'[id] = cached[id] /\ ttl'[id] = ttl[id]
  OBVIOUS
<1>2. cached[id] \in Banners
  BY <1>1 DEF TypeInv, CacheTypeOK, Banners
<1>3. age'[cached[id]] <= age[cached[id]]
  BY <1>2 DEF NotOlder
<1>4. age[cached[id]] + ttl[id] <= MaxAge
  BY <1>1 DEF CacheInv, CacheStaleness
<1>5. /\ age[cached[id]] \in Int
      /\ age'[cached[id]] \in Int
      /\ ttl[id] \in Int
      /\ MaxAge \in Int
  BY <1>2, ExpTimeAssumption, ServiceAssumption
  DEF TypeInv, TimeTypeOK, CacheTypeOK, MaxAge
<1>6. age'[cached'[id]] + ttl'[id] <= MaxAge
  BY <1>1, <1>3, <1>4, <1>5
<1>7. cached'[id].id = id /\ ttl'[id] # 0
  BY <1>1 DEF CacheInv, KeysInv
<1> QED
  BY <1>6, <1>7

LEMMA CacheUnchanged ==
    ASSUME TypeInv, TypeInv', CacheInv, NotOlder, UNCHANGED <<cached, ttl>>
    PROVE  CacheInv'
  BY CacheKept

LEMMA CacheDel ==
    ASSUME TypeInv, TypeInv', CacheInv, NotOlder, NEW id, DelBanner(id)
    PROVE  CacheInv'
<1>1. \A i \in BannerIds : \/ cached'[i] = NoBanner
                           \/ cached'[i] = cached[i] /\ ttl'[i] = ttl[i]
  BY DEF DelBanner, TypeInv, CacheTypeOK
<1> QED
  BY <1>1, CacheKept

\* A row that is at most MaxLag old is set.
LEMMA CacheSetFresh ==
    ASSUME TypeInv, TypeInv', CacheInv, UNCHANGED age,
           NEW b \in Banners, SetBanner(b), age[b] <= MaxLag
    PROVE  CacheInv'
<1> SUFFICES ASSUME NEW id \in BannerIds, cached'[id] # NoBanner
             PROVE  /\ cached'[id].id = id /\ ttl'[id] # 0
                    /\ age'[cached'[id]] + ttl'[id] <= MaxAge
  BY DEF CacheInv, KeysInv, CacheStaleness
<1>1. CASE id = b.id
  <2>1. cached'[id] = b /\ ttl'[id] = ExpTime
    BY <1>1 DEF SetBanner, TypeInv, CacheTypeOK
  <2>2. age[b] \in Int
    BY <1>1, ExpTimeAssumption, ServiceAssumption DEF TypeInv, TimeTypeOK, MaxAge
  <2>3. age'[b] + ExpTime <= MaxAge
    BY <1>1, <2>2, ExpTimeAssumption, ServiceAssumption DEF MaxAge
  <2> QED
    BY <1>1, <2>1, <2>3, ExpTimeAssumption
<1>2. CASE id # b.id
  <2>1. cached'[id] = cached[id] /\ ttl'[id] = ttl[id]
    BY <1>2 DEF SetBanner, TypeInv, CacheTypeOK
  <2> QED
    BY <2>1 DEF CacheInv, KeysInv, CacheStaleness
<1> QED
  BY <1>1, <1>2

\* What a process has yet to cache is young enough to be set.
LEMMA TodoYoung ==
    ASSUME TypeInv, TodoInv, NEW p \in Procs, NEW b \in todo[p]
    PROVE  b \in Banners /\ age[b] <= MaxLag
<1>1. b \in Banners
  BY DEF TypeInv, CachingTypeOK, Banners
<1>2. age[b] \in Int /\ held[p] \in 0..MaxLag
  BY <1>1 DEF TypeInv, TimeTypeOK, CachingTypeOK
<1> QED
  BY <1>1, <1>2, ServiceAssumption DEF TodoInv

LEMMA StaleInit == Init => StaleInv
  BY DEF Init, RepoInit, CacheInit, StaleInv, RowsInv, TodoInv, CacheInv, KeysInv,
         CacheStaleness

\* Steps of handlers that read, and steps that move a process on.
LEMMA StaleReads ==
    ASSUME StaleInv, UNCHANGED <<repoVars, cacheVars, todo, held, age>>
    PROVE  StaleInv'
  BY DEF StaleInv, RowsInv, TodoInv, CacheInv, KeysInv, CacheStaleness, repoVars,
         cacheVars

LEMMA StaleCreateBanner ==
    ASSUME TypeInv, TypeInv', StaleInv, NEW h \in Handlers, NEW c \in Inputs,
           CreateBanner(h, c)
    PROVE  StaleInv'
<1>1. PICK id \in BannerIds, o \in Outcomes(Faulty("postgres")) :
         /\ InsertBanner(id, c, o)
         /\ IF Reported(o)
            THEN todo' = [todo EXCEPT ![h] = {Row(id, 1, c)}]
            ELSE UNCHANGED todo
  BY DEF CreateBanner
<1>2. Row(id, 1, c) \in Banners
  BY <1>1, InsertType, ServiceAssumption DEF TypeInv
<1>3. NotOlder
  BY NotOlderWrite DEF CreateBanner
<1>4. RowsInv'
  <2>1. \A i \in BannerIds : table'[i] # NoBanner => table'[i].id = i
    BY <1>1, <1>2
    DEF InsertBanner, Row, StaleInv, RowsInv, TypeInv, RepoTypeOK
  <2> QED
    BY <2>1, RowsAged DEF CreateBanner, TypeInv
<1>5. TodoInv'
  <2>1. CASE Reported(o)
    <3>1. table'[id] = Row(id, 1, c)
      BY <1>1, <1>2, <2>1
      DEF InsertBanner, Applied, Reported, TypeInv, RepoTypeOK
    <3>2. age'[Row(id, 1, c)] = 0
      BY <1>2, <1>4, <3>1, BannerAssumption DEF RowsInv, Row
    <3> SUFFICES ASSUME NEW p \in Procs, NEW b \in todo'[p]
                 PROVE  age'[b] <= held'[p]
      BY DEF TodoInv
    <3>3. CASE p = h
      <4>1. b = Row(id, 1, c)
        BY <1>1, <2>1, <3>3 DEF TypeInv, CachingTypeOK, Procs
      <4>2. held'[p] \in 0..MaxLag
        BY DEF TypeInv, CachingTypeOK
      <4> QED
        BY <3>2, <4>1, <4>2, ServiceAssumption DEF Row
    <3>4. CASE p # h
      <4>1. b \in todo[p] /\ held'[p] = held[p]
        BY <1>1, <2>1, <3>4 DEF CreateBanner, TypeInv, CachingTypeOK
      <4>2. b \in Banners
        BY <4>1 DEF TypeInv, CachingTypeOK, Banners
      <4> QED
        BY <1>3, <4>1, <4>2
        DEF StaleInv, TodoInv, NotOlder, TypeInv, TimeTypeOK, CachingTypeOK
    <3> QED
      BY <3>3, <3>4
  <2>2. CASE ~Reported(o)
    BY <1>1, <1>3, <2>2, TodoKept DEF CreateBanner, StaleInv
  <2> QED
    BY <2>1, <2>2
<1>6. CacheInv'
  BY <1>3, CacheUnchanged DEF CreateBanner, StaleInv, cacheVars
<1> QED
  BY <1>4, <1>5, <1>6 DEF StaleInv

\* CachedRow and StopCaching take rows off todo and leave held for the rest.
LEMMA TodoShrinks ==
    ASSUME TypeInv, NEW p \in Procs, NEW b,
           \/ CachedRow(p, b)
           \/ StopCaching(p)
           \/ UNCHANGED <<todo, held>>
    PROVE  \A q \in Procs : \/ todo'[q] = {}
                            \/ todo'[q] \subseteq todo[q] /\ held'[q] = held[q]
  BY DEF CachedRow, StopCaching, TypeInv, CachingTypeOK

LEMMA StaleCacheSet ==
    ASSUME TypeInv, TypeInv', StaleInv, NEW p \in Procs, CacheSet(p)
    PROVE  StaleInv'
<1>1. PICK b \in todo[p] :
         /\ SetBanner(b) \/ UNCHANGED cacheVars
         /\ \/ CachedRow(p, b)
            \/ StopCaching(p)
            \/ UNCHANGED <<todo, held>>
  BY DEF CacheSet, RedisError
<1>2. UNCHANGED age /\ NotOlder
  BY NotOlderKept DEF CacheSet
<1>3. TodoInv'
  BY <1>1, <1>2, TodoShrinks, TodoKept DEF StaleInv
<1>4. CacheInv'
  <2>1. CASE SetBanner(b)
    BY <1>2, <2>1, TodoYoung, CacheSetFresh DEF StaleInv
  <2>2. CASE UNCHANGED cacheVars
    BY <1>2, <2>2, CacheUnchanged DEF StaleInv, cacheVars
  <2> QED
    BY <1>1, <2>1, <2>2
<1>5. RowsInv'
  BY RowsKept DEF CacheSet, StaleInv
<1> QED
  BY <1>3, <1>4, <1>5 DEF StaleInv

LEMMA StaleCacheSAdd ==
    ASSUME TypeInv, TypeInv', StaleInv, NEW p \in Procs, NEW t \in Tags,
           CacheSAdd(p, t)
    PROVE  StaleInv'
<1>1. PICK b \in todo[p] :
         /\ AddToIndex(b, t) \/ UNCHANGED cacheVars
         /\ \/ CachedRow(p, b)
            \/ StopCaching(p)
            \/ UNCHANGED <<todo, held>>
  BY DEF CacheSAdd, RedisError
<1>2. NotOlder
  BY NotOlderKept DEF CacheSAdd
<1>3. TodoInv'
  BY <1>1, <1>2, TodoShrinks, TodoKept DEF StaleInv
<1>4. CacheInv'
  BY <1>1, <1>2, CacheUnchanged DEF AddToIndex, StaleInv, cacheVars
<1>5. RowsInv'
  BY RowsKept DEF CacheSAdd, StaleInv
<1> QED
  BY <1>3, <1>4, <1>5 DEF StaleInv

LEMMA StaleUpdateBanner ==
    ASSUME TypeInv, TypeInv', StaleInv, NEW h \in Handlers, NEW id \in BannerIds,
           NEW c \in Inputs, UpdateBanner(h, id, c)
    PROVE  StaleInv'
<1>1. NotOlder
  BY NotOlderWrite DEF UpdateBanner
<1>2. RowsInv'
  <2>1. \A i \in BannerIds : table'[i] # NoBanner => table'[i].id = i
    BY DEF UpdateBanner, UpdateRow, Row, StaleInv, RowsInv, TypeInv, RepoTypeOK,
           repoVars
  <2> QED
    BY <2>1, RowsAged DEF UpdateBanner, TypeInv
<1>3. TodoInv'
  BY <1>1, TodoKept DEF UpdateBanner, StaleInv
<1>4. CacheInv'
  BY <1>1, CacheUnchanged DEF UpdateBanner, StaleInv, cacheVars
<1> QED
  BY <1>2, <1>3, <1>4 DEF StaleInv

LEMMA StaleDeleteFromCache ==
    ASSUME TypeInv, TypeInv', StaleInv, NEW h \in Handlers, NEW id \in BannerIds,
           DeleteFromCache(h, id)
    PROVE  StaleInv'
<1>1. NotOlder
  BY NotOlderKept DEF DeleteFromCache
<1>2. CacheInv'
  BY <1>1, CacheDel, CacheUnchanged DEF DeleteFromCache, RedisError, StaleInv, cacheVars
<1>3. RowsInv' /\ TodoInv'
  BY DEF DeleteFromCache, StaleInv, RowsInv, TodoInv, repoVars
<1> QED
  BY <1>2, <1>3 DEF StaleInv

LEMMA StaleDeleteFromRepo ==
    ASSUME TypeInv, TypeInv', StaleInv, NEW h \in Handlers, DeleteFromRepo(h)
    PROVE  StaleInv'
<1>1. NotOlder
  BY NotOlderWrite DEF DeleteFromRepo
<1>2. RowsInv'
  <2>1. \A i \in BannerIds : table'[i] # NoBanner => table'[i].id = i
    BY DEF DeleteFromRepo, DeleteRow, StaleInv, RowsInv, TypeInv, RepoTypeOK,
           repoVars
  <2> QED
    BY <2>1, RowsAged DEF DeleteFromRepo, TypeInv
<1>3. TodoInv'
  BY <1>1, TodoKept DEF DeleteFromRepo, StaleInv
<1>4. CacheInv'
  BY <1>1, CacheUnchanged DEF DeleteFromRepo, StaleInv, cacheVars
<1> QED
  BY <1>2, <1>3, <1>4 DEF StaleInv

\* The rows read are those of the table: none has an age yet.
LEMMA StaleRefreshRead ==
    ASSUME TypeInv, TypeInv', StaleInv, RefreshRead
    PROVE  StaleInv'
<1> DEFINE rows == SelectBanners(NoFilter, {}, FALSE)
<1>1. \A b \in rows : age[b] = 0
  BY DEF SelectBanners, StaleInv, RowsInv
<1>2. todo' = [todo EXCEPT ![Refresher] = rows] \/ UNCHANGED todo
  BY DEF RefreshRead
<1> HIDE DEF rows
<1>3. TodoInv'
  <2> SUFFICES ASSUME NEW p \in Procs, NEW b \in todo'[p]
               PROVE  age'[b] <= held'[p]
    BY DEF TodoInv
  <2>1. age' = age /\ held' = held /\ held[p] \in 0..MaxLag
    BY DEF RefreshRead, TypeInv, CachingTypeOK
  <2>2. b \in todo[p] \/ b \in rows
    BY <1>2 DEF TypeInv, CachingTypeOK
  <2> QED
    BY <1>1, <2>1, <2>2, ServiceAssumption DEF StaleInv, TodoInv
<1>4. RowsInv' /\ CacheInv'
  BY DEF RefreshRead, StaleInv, RowsInv, CacheInv, KeysInv, CacheStaleness,
         repoVars, cacheVars
<1> QED
  BY <1>3, <1>4 DEF StaleInv

\* Time adds to an age what it takes from the time left to hold or to keep.
LEMMA StaleTick ==
    ASSUME TypeInv, TypeInv', StaleInv, Tick
    PROVE  StaleInv'
<1>1. \A b \in Banners :
         /\ age'[b] <= age[b] + 1
         /\ age[b] \in Int /\ age'[b] \in Int
  BY AgedType DEF Tick, TypeInv, TimeTypeOK
<1>2. RowsInv'
  <2>1. \A id \in BannerIds : table'[id] # NoBanner => table'[id].id = id
    BY DEF Tick, StaleInv, RowsInv, repoVars
  <2> QED
    BY <2>1, RowsAged DEF Tick, TypeInv
<1>3. TodoInv'
  <2> SUFFICES ASSUME NEW p \in Procs, NEW b \in todo'[p]
               PROVE  age'[b] <= held'[p]
    BY DEF TodoInv
  <2>1. b \in todo[p] /\ held'[p] = held[p] + 1 /\ held[p] \in Int
    BY DEF Tick, TypeInv, CachingTypeOK
  <2>2. b \in Banners
    BY <2>1 DEF TypeInv, CachingTypeOK, Banners
  <2>3. age[b] <= held[p]
    BY <2>1 DEF StaleInv, TodoInv
  <2> QED
    BY <1>1, <2>1, <2>2, <2>3
<1>4. CacheInv'
  <2> SUFFICES ASSUME NEW id \in BannerIds, cached'[id] # NoBanner
               PROVE  /\ cached'[id].id = id /\ ttl'[id] # 0
                      /\ age'[cached'[id]] + ttl'[id] <= MaxAge
    BY DEF CacheInv, KeysInv, CacheStaleness
  <2>1. cached'[id] = cached[id] /\ ttl[id] # 1
    BY DEF Tick, ExpireKeys
  <2>2. /\ cached[id].id = id /\ ttl[id] # 0
        /\ age[cached[id]] + ttl[id] <= MaxAge
    BY <2>1 DEF StaleInv, CacheInv, KeysInv, CacheStaleness
  <2>3. ttl'[id] = ttl[id] - 1 /\ ttl[id] \in Int
    BY <2>2 DEF Tick, ExpireKeys, TypeInv, CacheTypeOK
  <2>4. cached[id] \in Banners
    BY <2>1 DEF TypeInv, CacheTypeOK, Banners
  <2>5. MaxAge \in Int
    BY ExpTimeAssumption, ServiceAssumption DEF MaxAge
  <2>6. age'[cached[id]] + ttl'[id] <= MaxAge
    BY <1>1, <2>2, <2>3, <2>4, <2>5
  <2> QED
    BY <2>1, <2>2, <2>3, <2>6
<1> QED
  BY <1>2, <1>3, <1>4 DEF StaleInv

LEMMA StaleCrash ==
    ASSUME TypeInv, TypeInv', StaleInv, Crash
    PROVE  StaleInv'
<1>1. TodoInv'
  BY DEF Crash, TodoInv
<1> QED
  BY <1>1 DEF Crash, StaleInv, RowsInv, CacheInv, KeysInv, CacheStaleness, repoVars,
              cacheVars

LEMMA StaleNext == TypeInv /\ TypeInv' /\ StaleInv /\ [Next]_vars => StaleInv'
<1> SUFFICES ASSUME TypeInv, TypeInv', StaleInv, [Next]_vars PROVE StaleInv'
  OBVIOUS
<1>1. ASSUME NEW h \in Handlers, Request(h) PROVE StaleInv'
  <2>1. ASSUME NEW q \in Requests, GetBannerFromRepo(h, q) \/ GetMembers(h, q)
        PROVE  StaleInv'
    BY <2>1, StaleReads DEF GetBannerFromRepo, QueryRepo, GetMembers
  <2> QED
    BY <1>1, <2>1, StaleCreateBanner, StaleUpdateBanner, StaleDeleteFromCache
    DEF Request
<1>2. ASSUME NEW p \in Procs, Caching(p) PROVE StaleInv'
  BY <1>2, StaleCacheSet, StaleCacheSAdd DEF Caching
<1>3. ASSUME NEW h \in Handlers, Serving(h) PROVE StaleInv'
  <2>1. CASE GetEntry(h)
    BY <2>1, StaleReads DEF GetEntry, Hit, Miss
  <2>2. CASE GetBannerAfterMiss(h)
    BY <2>2, StaleReads DEF GetBannerAfterMiss, QueryRepo
  <2> QED
    BY <1>2, <1>3, <2>1, <2>2, StaleDeleteFromRepo DEF Serving, Procs
<1>4. CASE Refreshing
  <2>1. CASE NextRefresh
    BY <2>1, StaleReads DEF NextRefresh
  <2> QED
    BY <1>2, <1>4, <2>1, StaleRefreshRead DEF Refreshing, Procs
<1>5. CASE UNCHANGED vars
  BY <1>5, StaleReads DEF vars
<1>6. CASE Elsewhere
  BY <1>6, StaleReads DEF Elsewhere
<1> QED
  BY <1>1, <1>3, <1>4, <1>5, <1>6, StaleTick, StaleCrash DEF Next

LEMMA StaleInvariance == Spec => []StaleInv
  BY TypeInvariance, StaleInit, StaleNext, PTL DEF Spec

\* However refreshes, creates, deletes, faults and crashes interleave, nothing
\* in the cache is older than ExpTime + MaxLag less the time it has left.
THEOREM CacheIsBounded == Spec => []CacheStaleness
<1>1. StaleInv => CacheStaleness
  BY DEF StaleInv, CacheInv
<1> QED
  BY <1>1, StaleInvariance, PTL

(***************************************************************************)
(* What is served comes from the cache, with time left there, or from the  *)
(* table.                                                                  *)
(***************************************************************************)

\* Every reply other than banners serves none.
LEMMA DoneServesNone ==
    ASSUME NEW k \in {"created", "updated", "deleted", "notFound", "error"},
           NEW id, out' = Done(k, id)
    PROVE  ServedStaleness'
  BY DEF ServedStaleness, Served, Done

LEMMA QueryServesRows ==
    ASSUME TypeInv, StaleInv, NEW h, NEW q, QueryRepo(h, q)
    PROVE  ServedStaleness'
<1>1. CASE Reply(h, Found(q, SelectBanners(q.feature, {q.tag}, ~q.admin)))
  <2>1. Served' = SelectBanners(q.feature, {q.tag}, ~q.admin)
    BY <1>1 DEF Reply, Served, Found
  <2>2. \A b \in SelectBanners(q.feature, {q.tag}, ~q.admin) : age[b] = 0
    BY DEF SelectBanners, StaleInv, RowsInv
  <2>3. 0 < MaxAge
    BY ExpTimeAssumption, ServiceAssumption DEF MaxAge
  <2> QED
    BY <2>1, <2>2, <2>3 DEF ServedStaleness, QueryRepo
<1>2. CASE Reply(h, Done("error", 0))
  BY <1>2, DoneServesNone DEF Reply
<1> QED
  BY <1>1, <1>2 DEF QueryRepo

LEMMA HitServesYoung ==
    ASSUME TypeInv, StaleInv, NEW h, NEW id \in BannerIds, Hit(h, id), UNCHANGED age
    PROVE  ServedStaleness'
<1>1. cached[id] # NoBanner /\ Served' = {cached[id]}
  BY DEF Hit, Serves, Reply, Served, Found
<1>2. /\ cached[id].id = id /\ ttl[id] # 0
      /\ age[cached[id]] + ttl[id] <= MaxAge
  BY <1>1 DEF StaleInv, CacheInv, KeysInv, CacheStaleness
<1>3. /\ cached[id] \in Banners
      /\ age[cached[id]] \in Int
      /\ ttl[id] \in Nat
      /\ MaxAge \in Int
  BY <1>1, ExpTimeAssumption, ServiceAssumption
  DEF TypeInv, CacheTypeOK, TimeTypeOK, MaxAge
<1>4. age[cached[id]] < MaxAge
  BY <1>2, <1>3
<1> QED
  BY <1>1, <1>2, <1>4 DEF ServedStaleness

LEMMA SilentServesNone ==
    ASSUME out' = NoReply
    PROVE  ServedStaleness'
  BY DEF ServedStaleness, Served, NoReply

LEMMA StopCachingServesNone ==
    ASSUME NEW p, StopCaching(p)
    PROVE  ServedStaleness'
  BY SilentServesNone, DoneServesNone DEF StopCaching, Goto, Reply

LEMMA CachingServesNone ==
    ASSUME NEW p \in Procs, Caching(p)
    PROVE  ServedStaleness'
<1>1. PICK b : \/ CachedRow(p, b)
               \/ StopCaching(p)
               \/ Goto(p, "sadd")
  BY DEF Caching, CacheSet, CacheSAdd
<1> QED
  BY <1>1, StopCachingServesNone, SilentServesNone DEF CachedRow, Goto

LEMMA ServedNext ==
    TypeInv /\ StaleInv /\ ServedStaleness /\ [Next]_vars => ServedStaleness'
<1> SUFFICES ASSUME TypeInv, StaleInv, ServedStaleness, [Next]_vars
             PROVE  ServedStaleness'
  OBVIOUS
<1>1. ASSUME NEW h \in Handlers, Request(h) PROVE ServedStaleness'
  <2>1. ASSUME NEW q \in Requests, GetBannerFromRepo(h, q) PROVE ServedStaleness'
    BY <2>1, QueryServesRows DEF GetBannerFromRepo
  <2>2. ASSUME NEW q \in Requests, GetMembers(h, q) PROVE ServedStaleness'
    BY <2>2, SilentServesNone DEF GetMembers, Loop, Goto
  <2>3. ASSUME NEW c \in Inputs, CreateBanner(h, c) PROVE ServedStaleness'
    BY <2>3, SilentServesNone, DoneServesNone DEF CreateBanner, Goto, Reply
  <2>4. ASSUME NEW id \in BannerIds, NEW c \in Inputs, UpdateBanner(h, id, c)
        PROVE  ServedStaleness'
    BY <2>4, DoneServesNone DEF UpdateBanner, Reply
  <2>5. ASSUME NEW id \in BannerIds, DeleteFromCache(h, id) PROVE ServedStaleness'
    BY <2>5, SilentServesNone DEF DeleteFromCache, Goto
  <2> QED
    BY <1>1, <2>1, <2>2, <2>3, <2>4, <2>5 DEF Request
<1>2. ASSUME NEW h \in Handlers, Serving(h) PROVE ServedStaleness'
  <2>1. CASE GetEntry(h)
    <3>1. ASSUME NEW id \in members[h], Hit(h, id) PROVE ServedStaleness'
      <4>1. id \in BannerIds
        BY DEF TypeInv, LocalInv, HandlersTypeOK
      <4> QED
        BY <2>1, <3>1, <4>1, HitServesYoung DEF GetEntry
    <3> QED
      BY <2>1, <3>1, SilentServesNone DEF GetEntry, Miss, Goto
  <2>2. CASE GetBannerAfterMiss(h)
    BY <2>2, QueryServesRows DEF GetBannerAfterMiss
  <2>3. CASE DeleteFromRepo(h)
    BY <2>3, DoneServesNone DEF DeleteFromRepo, Reply
  <2> QED
    BY <1>2, <2>1, <2>2, <2>3, CachingServesNone DEF Serving, Procs
<1>3. CASE Refreshing
  BY <1>3, CachingServesNone, SilentServesNone
  DEF Refreshing, RefreshRead, NextRefresh, Goto, Procs
<1>4. CASE Tick \/ Crash \/ Elsewhere
  BY <1>4, SilentServesNone DEF Tick, Crash, Elsewhere
<1>5. CASE UNCHANGED vars
  BY <1>5 DEF vars, ServedStaleness, Served
<1> QED
  BY <1>1, <1>2, <1>3, <1>4, <1>5 DEF Next

\* No reader is ever served a revision that left the table MaxAge ticks ago
\* or earlier, for any number of handlers, banners and faults.
THEOREM ServedIsBounded == Spec => []ServedStaleness
<1>1. Init => ServedStaleness
  BY DEF Init, ServedStaleness, Served, NoReply
<1> QED
  BY <1>1, TypeInvariance, StaleInvariance, ServedNext, PTL DEF Spec

(***************************************************************************)
(* Which banners a reply has.  Only users who leave the choice to the      *)
(* service are in the loop that reads the cache.                           *)
(***************************************************************************)

UsersInv == \A h \in Handlers : pc[h] = "get" => CacheMayAnswer(req[h])

LEMMA UsersReply ==
    ASSUME UsersInv, NEW h \in Handlers, NEW r, TypeInv, Reply(h, r)
    PROVE  UsersInv'
  BY DEF UsersInv, Reply, TypeInv, LocalInv, HandlersTypeOK, Procs, CacheMayAnswer

LEMMA UsersGoto ==
    ASSUME UsersInv, TypeInv, NEW p \in Procs,
           NEW label \in {"query", "delete", "select", "wait", "set", "sadd"},
           Goto(p, label), UNCHANGED req
    PROVE  UsersInv'
  BY DEF UsersInv, Goto, TypeInv, LocalInv, HandlersTypeOK, Procs, CacheMayAnswer

LEMMA UsersCaching ==
    ASSUME UsersInv, TypeInv, NEW p \in Procs, Caching(p)
    PROVE  UsersInv'
<1>1. ASSUME StopCaching(p) PROVE UsersInv'
  BY <1>1, UsersReply, UsersGoto DEF StopCaching, loopVars, Procs
<1>2. PICK b : \/ CachedRow(p, b)
               \/ StopCaching(p)
               \/ Goto(p, "sadd") /\ UNCHANGED loopVars
  BY DEF Caching, CacheSet, CacheSAdd
<1> QED
  BY <1>1, <1>2, UsersGoto DEF CachedRow, loopVars

LEMMA UsersGetMembers ==
    ASSUME UsersInv, TypeInv, NEW h \in Handlers, NEW q \in Requests, GetMembers(h, q)
    PROVE  UsersInv'
<1>1. /\ CacheMayAnswer(q)
      /\ req' = [req EXCEPT ![h] = q]
      /\ \E label : pc' = [pc EXCEPT ![h] = label]
  BY DEF GetMembers, Loop, Goto
<1> QED
  BY <1>1 DEF UsersInv, TypeInv, LocalInv, HandlersTypeOK, Procs, CacheMayAnswer

LEMMA UsersGetEntry ==
    ASSUME UsersInv, TypeInv, NEW h \in Handlers, GetEntry(h)
    PROVE  UsersInv'
<1>1. \/ \E r : Reply(h, r)
      \/ Goto(h, "query") /\ UNCHANGED req
      \/ Goto(h, "get") /\ UNCHANGED req
  BY DEF GetEntry, Hit, Miss, loopVars
<1>2. CASE Goto(h, "get") /\ UNCHANGED req
  BY <1>2 DEF GetEntry, UsersInv, Goto, TypeInv, LocalInv, HandlersTypeOK, Procs,
              CacheMayAnswer
<1> QED
  BY <1>1, <1>2, UsersReply, UsersGoto DEF Procs

LEMMA UsersNext == UsersInv /\ TypeInv /\ [Next]_vars => UsersInv'
<1> SUFFICES ASSUME UsersInv, TypeInv, [Next]_vars PROVE UsersInv'
  OBVIOUS
<1>1. ASSUME NEW h \in Handlers, Request(h) PROVE UsersInv'
  <2>1. ASSUME NEW q \in Requests, GetBannerFromRepo(h, q) PROVE UsersInv'
    BY <2>1, UsersReply DEF GetBannerFromRepo, QueryRepo
  <2>2. ASSUME NEW c \in Inputs, CreateBanner(h, c) PROVE UsersInv'
    BY <2>2, UsersReply, UsersGoto DEF CreateBanner, loopVars, Procs
  <2>3. ASSUME NEW id \in BannerIds, NEW c \in Inputs, UpdateBanner(h, id, c)
        PROVE  UsersInv'
    BY <2>3, UsersReply DEF UpdateBanner
  <2>4. ASSUME NEW id \in BannerIds, DeleteFromCache(h, id) PROVE UsersInv'
    BY <2>4, UsersGoto DEF DeleteFromCache, Procs
  <2> QED
    BY <1>1, <2>1, <2>2, <2>3, <2>4, UsersGetMembers DEF Request
<1>2. ASSUME NEW h \in Handlers, Serving(h) PROVE UsersInv'
  BY <1>2, UsersReply, UsersCaching, UsersGetEntry
  DEF Serving, GetBannerAfterMiss, QueryRepo, DeleteFromRepo, Procs
<1>3. CASE Refreshing
  <2>1. ASSUME RefreshRead PROVE UsersInv'
    BY <2>1, UsersGoto DEF RefreshRead, loopVars, Procs
  <2>2. ASSUME NextRefresh PROVE UsersInv'
    BY <2>2, UsersGoto DEF NextRefresh, loopVars, Procs
  <2> QED
    BY <1>3, <2>1, <2>2, UsersCaching DEF Refreshing, Procs
<1>4. CASE Tick \/ Elsewhere \/ UNCHANGED vars
  BY <1>4 DEF Tick, Elsewhere, vars, loopVars, UsersInv, CacheMayAnswer
<1>5. CASE Crash
  BY <1>5, ServiceAssumption DEF Crash, UsersInv, Procs
<1> QED
  BY <1>1, <1>2, <1>3, <1>4, <1>5 DEF Next

LEMMA UsersInvariance == Spec => []UsersInv
<1>1. Init => UsersInv
  BY ServiceAssumption DEF Init, UsersInv, Procs
<1> QED
  BY <1>1, TypeInvariance, UsersNext, PTL DEF Spec

\* What every reply with banners is like.
ReadsInv == FreshReads /\ NoFalseMiss /\ OffNeverServed

LEMMA OtherReplies ==
    ASSUME out'.kind # "banners"
    PROVE  ReadsInv'
  BY DEF ReadsInv, FreshReads, NoFalseMiss, OffNeverServed, Served

LEMMA DoneReads ==
    ASSUME NEW k \in {"created", "updated", "deleted", "notFound", "error"}, NEW id
    PROVE  Done(k, id).kind # "banners"
  BY DEF Done

LEMMA SilentReads == NoReply.kind # "banners"
  BY DEF NoReply

LEMMA QueryReads ==
    ASSUME NEW h, NEW q \in Requests, QueryRepo(h, q)
    PROVE  ReadsInv'
<1>1. CASE Reply(h, Found(q, SelectBanners(q.feature, {q.tag}, ~q.admin)))
  <2>1. /\ out'.banners = SelectBanners(q.feature, {q.tag}, ~q.admin)
        /\ out'.req = q
        /\ Served' = out'.banners
    BY <1>1 DEF Reply, Found, Served
  <2>2. SelectBanners(q.feature, {q.tag}, ~q.admin)'
            = SelectBanners(q.feature, {q.tag}, ~q.admin)
    BY DEF QueryRepo, repoVars, SelectBanners
  <2>3. \A b \in SelectBanners(q.feature, {q.tag}, ~q.admin) : b.active \/ q.admin
    BY DEF SelectBanners
  <2>4. FreshReads' /\ NoFalseMiss'
    BY <2>1, <2>2 DEF FreshReads, NoFalseMiss
  <2>5. OffNeverServed'
    BY <2>1, <2>3 DEF OffNeverServed
  <2> QED
    BY <2>4, <2>5 DEF ReadsInv
<1>2. CASE Reply(h, Done("error", 0))
  BY <1>2, OtherReplies, DoneReads DEF Reply
<1> QED
  BY <1>1, <1>2 DEF QueryRepo

\* The cache answers users, with a banner that is active.
LEMMA HitReads ==
    ASSUME UsersInv, NEW h \in Handlers, pc[h] = "get", NEW id, Hit(h, id)
    PROVE  ReadsInv'
<1>1. /\ out'.banners = {cached[id]}
      /\ out'.req = req[h]
      /\ Served' = {cached[id]}
      /\ cached[id].active
  BY DEF Hit, Serves, Reply, Found, Served
<1>2. ~req[h].admin /\ ~req[h].useLast
  BY DEF UsersInv, CacheMayAnswer
<1>3. FreshReads' /\ NoFalseMiss'
  BY <1>1, <1>2 DEF FreshReads, NoFalseMiss
<1>4. OffNeverServed'
  BY <1>1 DEF OffNeverServed
<1> QED
  BY <1>3, <1>4 DEF ReadsInv

LEMMA CachingReads ==
    ASSUME NEW p \in Procs, Caching(p)
    PROVE  ReadsInv'
<1>1. ASSUME StopCaching(p) PROVE ReadsInv'
  BY <1>1, OtherReplies, SilentReads, DoneReads DEF StopCaching, Goto, Reply
<1>2. PICK b : \/ CachedRow(p, b)
               \/ StopCaching(p)
               \/ Goto(p, "sadd")
  BY DEF Caching, CacheSet, CacheSAdd
<1> QED
  BY <1>1, <1>2, OtherReplies, SilentReads DEF CachedRow, Goto

LEMMA ReadsNext ==
    TypeInv /\ UsersInv /\ ReadsInv /\ [Next]_vars => ReadsInv'
<1> SUFFICES ASSUME TypeInv, UsersInv, ReadsInv, [Next]_vars PROVE ReadsInv'
  OBVIOUS
<1>1. ASSUME NEW h \in Handlers, Request(h) PROVE ReadsInv'
  <2>1. ASSUME NEW q \in Requests, GetBannerFromRepo(h, q) PROVE ReadsInv'
    BY <2>1, QueryReads DEF GetBannerFromRepo
  <2>2. ASSUME NEW q \in Requests, GetMembers(h, q) PROVE ReadsInv'
    BY <2>2, OtherReplies, SilentReads DEF GetMembers, Loop, Goto
  <2>3. ASSUME NEW c \in Inputs, CreateBanner(h, c) PROVE ReadsInv'
    BY <2>3, OtherReplies, SilentReads, DoneReads DEF CreateBanner, Goto, Reply
  <2>4. ASSUME NEW id \in BannerIds, NEW c \in Inputs, UpdateBanner(h, id, c)
        PROVE  ReadsInv'
    BY <2>4, OtherReplies, DoneReads DEF UpdateBanner, Reply
  <2>5. ASSUME NEW id \in BannerIds, DeleteFromCache(h, id) PROVE ReadsInv'
    BY <2>5, OtherReplies, SilentReads DEF DeleteFromCache, Goto
  <2> QED
    BY <1>1, <2>1, <2>2, <2>3, <2>4, <2>5 DEF Request
<1>2. ASSUME NEW h \in Handlers, Serving(h) PROVE ReadsInv'
  <2>1. ASSUME GetEntry(h) PROVE ReadsInv'
    BY <2>1, HitReads, OtherReplies, SilentReads DEF GetEntry, Miss, Goto
  <2>2. ASSUME GetBannerAfterMiss(h) PROVE ReadsInv'
    <3>1. req[h] \in Requests
      BY DEF TypeInv, LocalInv, HandlersTypeOK
    <3> QED
      BY <2>2, <3>1, QueryReads DEF GetBannerAfterMiss
  <2>3. ASSUME DeleteFromRepo(h) PROVE ReadsInv'
    BY <2>3, OtherReplies, DoneReads DEF DeleteFromRepo, Reply
  <2> QED
    BY <1>2, <2>1, <2>2, <2>3, CachingReads DEF Serving, Procs
<1>3. CASE Refreshing
  BY <1>3, CachingReads, OtherReplies, SilentReads
  DEF Refreshing, RefreshRead, NextRefresh, Goto, Procs
<1>4. CASE Tick \/ Crash \/ Elsewhere
  BY <1>4, OtherReplies, SilentReads DEF Tick, Crash, Elsewhere
<1>5. CASE UNCHANGED vars
  BY <1>5 DEF vars, repoVars, ReadsInv, FreshReads, NoFalseMiss, OffNeverServed,
              Served, SelectBanners
<1> QED
  BY <1>1, <1>2, <1>3, <1>4, <1>5 DEF Next

LEMMA ReadsInvariance == Spec => []ReadsInv
<1>1. Init => ReadsInv
  BY DEF Init, NoReply, ReadsInv, FreshReads, NoFalseMiss, OffNeverServed, Served
<1> QED
  BY <1>1, TypeInvariance, UsersInvariance, ReadsNext, PTL DEF Spec

\* An admin, or a user who asked for the last revision, is always answered
\* with what the table holds at that moment.
THEOREM AdminsReadTheTable == Spec => []FreshReads
  BY ReadsInvariance, PTL DEF ReadsInv

\* Misses, unlucky draws, expiry and errors of Redis never hide a banner that
\* the table has for the reader.
THEOREM MissesAreTrue == Spec => []NoFalseMiss
  BY ReadsInvariance, PTL DEF ReadsInv

\* A banner that is switched off is shown to admins only.
THEOREM OffIsHidden == Spec => []OffNeverServed
  BY ReadsInvariance, PTL DEF ReadsInv

(***************************************************************************)
(* The index.  IndexComplete is not inductive: while a banner is being     *)
(* cached, the tags under which it is not yet listed are those some        *)
(* process still has an SADD to send for.  Without errors of Redis and     *)
(* crashes it will send them.                                              *)
(***************************************************************************)

\* The SADD of banner b to tag t is p's to send.
Awaits(p, b, t) ==
    pc[p] = "sadd" /\ Current(p, b) /\ t \in newTags[p]

Listed ==
    \A id \in BannerIds :
        cached[id] # NoBanner =>
            \A t \in cached[id].tags :
                \/ id \in index[cached[id].feature][t]
                \/ \E p \in Procs : Awaits(p, cached[id], t)

OneRowEach ==
    \A p \in Procs : \A b, c \in todo[p] : b.id = c.id => b = c

IndexInv == Listed /\ OneRowEach

NothingLost == ~Faulty("redis") /\ ~Faulty("crash")

\* Processes at an SADD, p apart, stay there.
Undisturbed(p) ==
    \A q \in Procs \ {p} :
        pc[q] = "sadd" =>
            pc'[q] = "sadd" /\ todo'[q] = todo[q] /\ newTags'[q] = newTags[q]

LEMMA ListedIsComplete == KeysInv /\ Listed => IndexComplete
  BY DEF KeysInv, Listed, IndexComplete, Awaits, Current

\* Entries are only removed, and nobody at an SADD is disturbed.
LEMMA ListedKept ==
    ASSUME Listed, NEW p, Undisturbed(p), p \in Procs => pc[p] # "sadd",
           UNCHANGED index,
           \A id \in BannerIds : cached'[id] \in {cached[id], NoBanner}
    PROVE  Listed'
  BY DEF Listed, Undisturbed, Awaits, Current

LEMMA UndisturbedReply ==
    ASSUME TypeInv, NEW p \in Procs,
           \/ \E r : Reply(p, r)
           \/ \E label : Goto(p, label),
           \A q \in Procs \ {p} : todo'[q] = todo[q] /\ newTags'[q] = newTags[q]
    PROVE  Undisturbed(p)
  BY DEF Undisturbed, Reply, Goto, TypeInv, LocalInv

LEMMA UniqueKept ==
    ASSUME OneRowEach, \A q \in Procs : todo'[q] \subseteq todo[q]
    PROVE  OneRowEach'
  BY DEF OneRowEach

LEMMA CachedRowEffect ==
    ASSUME TypeInv, NEW p \in Procs, NEW b, CachedRow(p, b)
    PROVE  /\ Undisturbed(p)
           /\ \A q \in Procs : todo'[q] \subseteq todo[q]
<1>1. /\ \/ \E r : Reply(p, r)
         \/ \E label : Goto(p, label)
      /\ \/ todo' = [todo EXCEPT ![p] = {}]
         \/ todo' = [todo EXCEPT ![p] = @ \ {b}]
      /\ newTags' = [newTags EXCEPT ![p] = {}]
  BY DEF CachedRow, StopCaching
<1>2. /\ \A q \in Procs \ {p} : todo'[q] = todo[q] /\ newTags'[q] = newTags[q]
      /\ todo'[p] \subseteq todo[p]
  BY <1>1 DEF TypeInv, CachingTypeOK
<1> QED
  BY <1>1, <1>2, UndisturbedReply

\* A row that is set is listed when all its SADDs are sent, p's the next ones.
LEMMA IndexCacheSet ==
    ASSUME TypeInv, IndexInv, NothingLost, NEW p \in Procs, CacheSet(p)
    PROVE  IndexInv'
<1>1. PICK b \in todo[p] :
        /\ pc[p] = "set"
        /\ Current(p, b)
        /\ SetBanner(b)
        /\ IF b.tags = {}
           THEN CachedRow(p, b)
           ELSE /\ newTags' = [newTags EXCEPT ![p] = b.tags]
                /\ Goto(p, "sadd")
                /\ UNCHANGED todo
  BY DEF CacheSet, RedisError, NothingLost
<1>2. b \in Banners
  BY DEF TypeInv, CachingTypeOK, Banners
<1>3. /\ Undisturbed(p)
      /\ \A q \in Procs : todo'[q] \subseteq todo[q]
  <2>1. CASE b.tags = {}
    BY <1>1, <2>1, CachedRowEffect
  <2>2. CASE b.tags # {}
    <3>1. \A q \in Procs \ {p} : todo'[q] = todo[q] /\ newTags'[q] = newTags[q]
      BY <1>1, <2>2 DEF TypeInv, CachingTypeOK
    <3> QED
      BY <1>1, <2>2, <3>1, UndisturbedReply
  <2> QED
    BY <2>1, <2>2
<1>4. Listed'
  <2> SUFFICES ASSUME NEW id \in BannerIds, NEW e, e = cached'[id], e # NoBanner,
                      NEW t \in e.tags
               PROVE  \/ id \in index'[e.feature][t]
                      \/ \E q \in Procs : Awaits(q, e, t)'
    BY DEF Listed, Awaits, Current
  <2>1. CASE id = b.id
    <3>1. e = b
      BY <1>1, <2>1 DEF SetBanner, TypeInv, CacheTypeOK
    <3>2. /\ pc'[p] = "sadd"
          /\ newTags'[p] = b.tags
          /\ todo' = todo
      BY <1>1, <3>1 DEF Goto, TypeInv, LocalInv, CachingTypeOK
    <3>3. Awaits(p, e, t)'
      BY <1>1, <3>1, <3>2 DEF Awaits, Current
    <3> QED
      BY <3>3
  <2>2. CASE id # b.id
    <3>1. e = cached[id] /\ index' = index
      BY <1>1, <2>2 DEF SetBanner, TypeInv, CacheTypeOK
    <3>2. \/ id \in index[e.feature][t]
          \/ \E q \in Procs : Awaits(q, e, t)
      BY <3>1 DEF Listed, IndexInv
    <3>3. \A q \in Procs : Awaits(q, e, t) => Awaits(q, e, t)'
      BY <1>1, <1>3 DEF Awaits, Current, Undisturbed
    <3> QED
      BY <3>1, <3>2, <3>3
  <2> QED
    BY <2>1, <2>2
<1> QED
  BY <1>3, <1>4, UniqueKept DEF IndexInv

LEMMA IndexCacheSAdd ==
    ASSUME TypeInv, KeysInv, IndexInv, NothingLost, NEW p \in Procs,
           NEW t \in Tags, CacheSAdd(p, t)
    PROVE  IndexInv'
<1>1. PICK b \in todo[p] :
        /\ pc[p] = "sadd"
        /\ Current(p, b)
        /\ AddToIndex(b, t)
        /\ IF newTags[p] = {t}
           THEN CachedRow(p, b)
           ELSE /\ newTags' = [newTags EXCEPT ![p] = @ \ {t}]
                /\ Goto(p, "sadd")
                /\ UNCHANGED todo
  BY DEF CacheSAdd, RedisError, NothingLost
<1>2. b \in Banners
  BY DEF TypeInv, CachingTypeOK, Banners
<1>3. /\ Undisturbed(p)
      /\ \A q \in Procs : todo'[q] \subseteq todo[q]
  <2>1. CASE newTags[p] = {t}
    BY <1>1, <2>1, CachedRowEffect
  <2>2. CASE newTags[p] # {t}
    <3>1. \A q \in Procs \ {p} : todo'[q] = todo[q] /\ newTags'[q] = newTags[q]
      BY <1>1, <2>2 DEF TypeInv, CachingTypeOK
    <3> QED
      BY <1>1, <2>2, <3>1, UndisturbedReply
  <2> QED
    BY <2>1, <2>2
<1>4. /\ b.id \in index'[b.feature][t]
      /\ \A f \in Features, u \in Tags : index[f][u] \subseteq index'[f][u]
  BY <1>1, <1>2 DEF AddToIndex, TypeInv, CacheTypeOK, Banners
<1>5. Listed'
  <2> SUFFICES ASSUME NEW id \in BannerIds, NEW e, e = cached'[id], e # NoBanner,
                      NEW u \in e.tags
               PROVE  \/ id \in index'[e.feature][u]
                      \/ \E q \in Procs : Awaits(q, e, u)'
    BY DEF Listed, Awaits, Current
  <2>1. e = cached[id]
    BY <1>1 DEF AddToIndex
  <2>2. e \in Banners
    BY <2>1 DEF TypeInv, CacheTypeOK, Banners
  <2>3. e.feature \in Features /\ u \in Tags
    BY <2>2 DEF Banners
  <2>4. CASE id \in index[e.feature][u]
    BY <1>4, <2>3, <2>4
  <2>5. ASSUME NEW q \in Procs, q # p, Awaits(q, e, u)
        PROVE  Awaits(q, e, u)'
    BY <1>3, <2>5 DEF Awaits, Current, Undisturbed
  <2>6. CASE Awaits(p, e, u)
    <3>1. e = b
      <4>1. e \in todo[p] /\ e.id <= b.id /\ b.id <= e.id
        BY <1>1, <2>6 DEF Awaits, Current
      <4>2. e.id \in Int /\ b.id \in Int
        BY <1>2, <2>2 DEF Banners, BannerIds
      <4>3. e.id = b.id
        BY <4>1, <4>2
      <4> QED
        BY <4>1, <4>3 DEF IndexInv, OneRowEach
    <3>2. CASE u = t
      <4>1. e.id = id
        BY <2>1 DEF KeysInv
      <4> QED
        BY <1>4, <3>1, <3>2, <4>1
    <3>3. CASE u # t
      <4>1. u \in newTags[p] \ {t}
        BY <2>6, <3>3 DEF Awaits
      <4>2. newTags[p] # {t}
        BY <4>1
      <4>3. /\ newTags'[p] = newTags[p] \ {t}
            /\ pc'[p] = "sadd"
            /\ todo' = todo
        BY <1>1, <4>2 DEF Goto, TypeInv, LocalInv, CachingTypeOK
      <4>4. Awaits(p, e, u)'
        BY <2>6, <4>1, <4>3 DEF Awaits, Current
      <4> QED
        BY <4>4
    <3> QED
      BY <3>2, <3>3
  <2> QED
    BY <2>1, <2>4, <2>5, <2>6 DEF Listed, IndexInv
<1> QED
  BY <1>3, <1>5, UniqueKept DEF IndexInv

\* A step of a process that is not at an SADD and caches nothing in it.
LEMMA IndexOther ==
    ASSUME TypeInv, IndexInv, NEW p \in Procs, pc[p] # "sadd",
           \/ \E r : Reply(p, r)
           \/ \E label : Goto(p, label),
           UNCHANGED <<todo, newTags, index>>,
           \A id \in BannerIds : cached'[id] \in {cached[id], NoBanner}
    PROVE  IndexInv'
<1>1. Undisturbed(p)
  BY UndisturbedReply
<1> QED
  BY <1>1, ListedKept, UniqueKept DEF IndexInv

LEMMA IndexCreateBanner ==
    ASSUME TypeInv, IndexInv, NEW h \in Handlers, NEW c \in Inputs, CreateBanner(h, c)
    PROVE  IndexInv'
<1>1. /\ pc[h] = "idle"
      /\ \/ \E r : Reply(h, r)
         \/ Goto(h, "set")
      /\ \/ todo' = todo
         \/ \E b : todo' = [todo EXCEPT ![h] = {b}]
      /\ UNCHANGED <<cached, index, newTags>>
  BY DEF CreateBanner, cacheVars
<1>2. /\ \A q \in Procs \ {h} : todo'[q] = todo[q] /\ newTags'[q] = newTags[q]
      /\ \A q \in Procs : \/ todo'[q] = todo[q]
                          \/ \E b : todo'[q] = {b}
  BY <1>1 DEF TypeInv, CachingTypeOK
<1>3. Undisturbed(h)
  BY <1>1, <1>2, UndisturbedReply DEF Procs
<1>4. Listed'
  BY <1>1, <1>3, ListedKept DEF IndexInv
<1>5. OneRowEach'
  <2> SUFFICES ASSUME NEW q \in Procs, NEW b \in todo'[q], NEW c1 \in todo'[q], b.id = c1.id
               PROVE  b = c1
    BY DEF OneRowEach
  <2> QED
    BY <1>2 DEF IndexInv, OneRowEach
<1> QED
  BY <1>4, <1>5 DEF IndexInv

\* The rows of the table have different ids.
LEMMA IndexRefreshRead ==
    ASSUME TypeInv, RowsInv, IndexInv, RefreshRead
    PROVE  IndexInv'
<1>1. /\ pc[Refresher] = "select"
      /\ \E label : Goto(Refresher, label)
      /\ \/ todo' = todo
         \/ todo' = [todo EXCEPT ![Refresher] = SelectBanners(NoFilter, {}, FALSE)]
      /\ UNCHANGED <<cached, index, newTags>>
  BY DEF RefreshRead, cacheVars
<1>2. /\ \A q \in Procs \ {Refresher} : todo'[q] = todo[q] /\ newTags'[q] = newTags[q]
      /\ \A q \in Procs : \/ todo'[q] = todo[q]
                          \/ todo'[q] = SelectBanners(NoFilter, {}, FALSE)
  BY <1>1 DEF TypeInv, CachingTypeOK
<1>3. Undisturbed(Refresher)
  BY <1>1, <1>2, UndisturbedReply DEF Procs
<1>4. Listed'
  BY <1>1, <1>3, ListedKept DEF IndexInv
<1>5. \A b, c \in SelectBanners(NoFilter, {}, FALSE) : b.id = c.id => b = c
  BY DEF SelectBanners, RowsInv
<1>6. OneRowEach'
  <2> SUFFICES ASSUME NEW q \in Procs, NEW b \in todo'[q], NEW c \in todo'[q], b.id = c.id
               PROVE  b = c
    BY DEF OneRowEach
  <2>1. CASE todo'[q] = todo[q]
    BY <2>1 DEF IndexInv, OneRowEach
  <2>2. CASE todo'[q] = SelectBanners(NoFilter, {}, FALSE)
    BY <1>5, <2>2
  <2> QED
    BY <1>2, <2>1, <2>2
<1> QED
  BY <1>4, <1>6 DEF IndexInv

LEMMA IndexTick ==
    ASSUME TypeInv, IndexInv, Tick
    PROVE  IndexInv'
<1>1. \A id \in BannerIds : cached'[id] \in {cached[id], NoBanner}
  BY DEF Tick, ExpireKeys
<1>2. /\ UNCHANGED <<todo, newTags, pc, index>>
  BY DEF Tick, ExpireKeys
<1>3. Listed'
  BY <1>1, <1>2 DEF IndexInv, Listed, Awaits, Current
<1> QED
  BY <1>2, <1>3, UniqueKept DEF IndexInv

LEMMA IndexNext ==
    ASSUME TypeInv, StaleInv, IndexInv, NothingLost, [Next]_vars
    PROVE  IndexInv'
<1>1. ASSUME NEW h \in Handlers, Request(h) PROVE IndexInv'
  <2>1. ASSUME NEW q \in Requests, GetBannerFromRepo(h, q) PROVE IndexInv'
    BY <2>1, IndexOther DEF GetBannerFromRepo, QueryRepo, cacheVars, Procs
  <2>2. ASSUME NEW q \in Requests, GetMembers(h, q) PROVE IndexInv'
    BY <2>2, IndexOther DEF GetMembers, Loop, cacheVars, Procs
  <2>3. ASSUME NEW id \in BannerIds, NEW c \in Inputs, UpdateBanner(h, id, c)
        PROVE  IndexInv'
    BY <2>3, IndexOther DEF UpdateBanner, cacheVars, Procs
  <2>4. ASSUME NEW id \in BannerIds, DeleteFromCache(h, id) PROVE IndexInv'
    <3>1. /\ UNCHANGED index
          /\ \A i \in BannerIds : cached'[i] \in {cached[i], NoBanner}
      BY <2>4 DEF DeleteFromCache, DelBanner, RedisError, cacheVars, TypeInv, CacheTypeOK
    <3> QED
      BY <2>4, <3>1, IndexOther DEF DeleteFromCache, Procs
  <2> QED
    BY <1>1, <2>1, <2>2, <2>3, <2>4, IndexCreateBanner DEF Request
<1>2. ASSUME NEW p \in Procs, Caching(p) PROVE IndexInv'
  BY <1>2, IndexCacheSet, IndexCacheSAdd DEF Caching, StaleInv, CacheInv
<1>3. ASSUME NEW h \in Handlers, Serving(h) PROVE IndexInv'
  <2>1. ASSUME GetEntry(h) PROVE IndexInv'
    BY <2>1, IndexOther DEF GetEntry, Hit, Miss, cacheVars, Procs
  <2>2. ASSUME GetBannerAfterMiss(h) PROVE IndexInv'
    BY <2>2, IndexOther DEF GetBannerAfterMiss, QueryRepo, cacheVars, Procs
  <2>3. ASSUME DeleteFromRepo(h) PROVE IndexInv'
    BY <2>3, IndexOther DEF DeleteFromRepo, cacheVars, Procs
  <2> QED
    BY <1>2, <1>3, <2>1, <2>2, <2>3 DEF Serving, Procs
<1>4. CASE Refreshing
  <2>1. ASSUME NextRefresh PROVE IndexInv'
    BY <2>1, IndexOther DEF NextRefresh, cacheVars, Procs
  <2> QED
    BY <1>2, <1>4, <2>1, IndexRefreshRead DEF Refreshing, Procs, StaleInv
<1>5. CASE Elsewhere \/ UNCHANGED vars
  BY <1>5 DEF Elsewhere, vars, cacheVars, IndexInv, Listed, OneRowEach, Awaits, Current
<1>6. ~Crash
  BY DEF NothingLost, Crash
<1> QED
  BY <1>1, <1>3, <1>4, <1>5, <1>6, IndexTick DEF Next

\* While Redis answers and the service stays up, a cached banner that nobody
\* is caching any more is listed under its feature and every one of its tags.
THEOREM IndexIsComplete == Spec => [](NothingLost => IndexComplete)
<1>1. Init => IndexInv
  BY DEF Init, CacheInit, IndexInv, Listed, OneRowEach
<1>2. TypeInv /\ StaleInv /\ (NothingLost => IndexInv) /\ [Next]_vars
        => (NothingLost => IndexInv)'
  BY IndexNext DEF NothingLost, Faulty
<1>3. StaleInv /\ (NothingLost => IndexInv) => (NothingLost => IndexComplete)
  BY ListedIsComplete DEF IndexInv, StaleInv, CacheInv
<1>4. Spec => [](NothingLost => IndexInv)
  BY <1>1, <1>2, TypeInvariance, StaleInvariance, PTL DEF Spec
<1> QED
  BY <1>3, <1>4, StaleInvariance, PTL

=============================================================================
