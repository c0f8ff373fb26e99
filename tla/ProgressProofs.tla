--------------------------- MODULE ProgressProofs ---------------------------
(***************************************************************************)
(* Proofs that BannerService gets on, for every value of its constants:    *)
(* what is outdated stays away for good, every method sends finitely many  *)
(* commands and always has a next one, and a refresh leaves no row behind  *)
(* that is not listed.  With the fairness of FairSpec the second is why    *)
(* requests are answered; the step from it to liveness is TLC's.           *)
(***************************************************************************)
EXTENDS BannerServiceProofs

(***************************************************************************)
(* Outdated revisions.  An INSERT takes an id never used, an UPDATE writes *)
(* a revision never written, and time does not make a revision younger.    *)
(***************************************************************************)

LEMMA MaxAgeType == MaxAge \in Nat \ {0}
  BY ExpTimeAssumption, ServiceAssumption DEF MaxAge

\* The row of an id in drawn is only taken away or replaced by a later one.
LEMMA RowOutdated ==
    ASSUME TypeInv, TypeInv', NEW b \in Banners, Outdated(b),
           \/ UNCHANGED repoVars
           \/ \E id, c, o : InsertBanner(id, c, o)
           \/ \E id, c, o : UpdateRow(id, c, o)
           \/ \E id, o : DeleteRow(id, o)
    PROVE  /\ b.id \in drawn'
           /\ table'[b.id] # NoBanner => table'[b.id] # b /\ b.rev <= table'[b.id].rev
<1>1. b.id \in BannerIds /\ b.rev \in Int
  BY DEF Banners, Revisions
<1>2. /\ b.id \in drawn
      /\ table[b.id] # NoBanner => table[b.id] # b /\ b.rev <= table[b.id].rev
  BY DEF Outdated
<1>3. CASE UNCHANGED repoVars
  BY <1>2, <1>3 DEF repoVars
<1>4. ASSUME NEW id, NEW c, NEW o, InsertBanner(id, c, o)
      PROVE  b.id \in drawn' /\ table'[b.id] = table[b.id]
  BY <1>1, <1>2, <1>4 DEF InsertBanner, TypeInv, RepoTypeOK
<1>5. ASSUME NEW id, NEW c, NEW o, UpdateRow(id, c, o)
      PROVE  /\ b.id \in drawn'
             /\ table'[b.id] # NoBanner => table'[b.id] # b /\ b.rev <= table'[b.id].rev
  <2>1. CASE table'[b.id] = table[b.id]
    BY <1>2, <1>5, <2>1 DEF UpdateRow
  <2>2. CASE table'[b.id] # table[b.id]
    <3>1. /\ id = b.id
          /\ table[b.id] # NoBanner
          /\ table'[b.id] = Row(id, table[id].rev + 1, c)
      BY <1>1, <1>5, <2>2 DEF UpdateRow, Stored, TypeInv, RepoTypeOK
    <3>2. table[b.id].rev \in Int
      BY <1>1, <3>1 DEF TypeInv, RepoTypeOK, Banners, Revisions
    <3>3. b.rev < table'[b.id].rev /\ table'[b.id].rev \in Int
      BY <1>1, <1>2, <3>1, <3>2 DEF Row
    <3>4. table'[b.id] # b /\ b.rev <= table'[b.id].rev
      BY <1>1, <3>3
    <3> QED
      BY <1>2, <1>5, <3>4 DEF UpdateRow
  <2> QED
    BY <2>1, <2>2
<1>6. ASSUME NEW id, NEW o, DeleteRow(id, o)
      PROVE  b.id \in drawn' /\ table'[b.id] \in {table[b.id], NoBanner}
  BY <1>1, <1>2, <1>6 DEF DeleteRow, TypeInv, RepoTypeOK
<1> QED
  BY <1>2, <1>3, <1>4, <1>5, <1>6

LEMMA AgeOutdated ==
    ASSUME TypeInv, NEW b \in Banners, Outdated(b), NEW n \in Nat,
           Aged(n) \/ UNCHANGED age, table'[b.id] # b
    PROVE  age'[b] = MaxAge
<1>1. age[b] = MaxAge
  BY DEF Outdated
<1>2. CASE Aged(n)
  <2>1. age[b] + n > MaxAge \/ age[b] + n = MaxAge
    BY <1>1, MaxAgeType
  <2> QED
    BY <1>1, <1>2, <2>1, MaxAgeType DEF Aged, AgedUpTo
<1> QED
  BY <1>1, <1>2

\* What a step does to the table and to the ages.
LEMMA StepOnRows ==
    ASSUME [Next]_vars
    PROVE  /\ \/ UNCHANGED repoVars
              \/ \E id, c, o : InsertBanner(id, c, o)
              \/ \E id, c, o : UpdateRow(id, c, o)
              \/ \E id, o : DeleteRow(id, o)
           /\ UNCHANGED age \/ Aged(0) \/ Aged(1)
<1> DEFINE Rows == /\ \/ UNCHANGED repoVars
                      \/ \E id, c, o : InsertBanner(id, c, o)
                      \/ \E id, c, o : UpdateRow(id, c, o)
                      \/ \E id, o : DeleteRow(id, o)
                   /\ UNCHANGED age \/ Aged(0) \/ Aged(1)
<1>1. ASSUME NEW h \in Handlers, Request(h) PROVE Rows
  <2>1. ASSUME NEW q \in Requests, GetBannerFromRepo(h, q) \/ GetMembers(h, q) PROVE Rows
    BY <2>1 DEF GetBannerFromRepo, QueryRepo, GetMembers
  <2>2. ASSUME NEW c \in Inputs, CreateBanner(h, c) PROVE Rows
    BY <2>2 DEF CreateBanner
  <2>3. ASSUME NEW id \in BannerIds, NEW c \in Inputs, UpdateBanner(h, id, c) PROVE Rows
    BY <2>3 DEF UpdateBanner
  <2>4. ASSUME NEW id \in BannerIds, DeleteFromCache(h, id) PROVE Rows
    BY <2>4 DEF DeleteFromCache
  <2> QED
    BY <1>1, <2>1, <2>2, <2>3, <2>4 DEF Request
<1>2. ASSUME NEW p, Caching(p) PROVE Rows
  BY <1>2 DEF Caching, CacheSet, CacheSAdd
<1>3. ASSUME NEW h \in Handlers, Serving(h) PROVE Rows
  <2>1. CASE DeleteFromRepo(h)
    BY <2>1 DEF DeleteFromRepo
  <2> QED
    BY <1>2, <1>3, <2>1 DEF Serving, GetEntry, GetBannerAfterMiss, QueryRepo
<1>4. CASE Refreshing
  BY <1>2, <1>4 DEF Refreshing, RefreshRead, NextRefresh
<1>5. CASE Tick \/ Crash \/ Elsewhere \/ UNCHANGED vars
  BY <1>5 DEF Tick, Crash, Elsewhere, vars
<1> QED
  BY <1>1, <1>3, <1>4, <1>5 DEF Next

LEMMA OutdatedStays ==
    ASSUME TypeInv, TypeInv', [Next]_vars, NEW b \in Banners, Outdated(b)
    PROVE  Outdated(b)'
<1>1. /\ b.id \in drawn'
      /\ table'[b.id] # NoBanner => table'[b.id] # b /\ b.rev <= table'[b.id].rev
  BY StepOnRows, RowOutdated
<1>2. table'[b.id] # b
  BY <1>1, BannerAssumption
<1>3. age'[b] = MaxAge
  BY <1>2, StepOnRows, AgeOutdated
<1> QED
  BY <1>1, <1>3 DEF Outdated, MaxAge

\* Whatever is late, lost or started again, a revision that has been gone for
\* as long as time is counted is never cached, nor shown, again.
THEOREM GoneForGood == Spec => ForgottenForGood
<1>1. ASSUME TypeInv, TypeInv', StaleInv', ServedStaleness', [Next]_vars,
             NEW b \in Banners, Outdated(b)
      PROVE  Outdated(b)' /\ cached'[b.id] # b /\ b \notin Served'
  <2>1. Outdated(b)' /\ age'[b] = MaxAge
    BY <1>1, OutdatedStays DEF Outdated, MaxAge
  <2>2. b.id \in BannerIds /\ b # NoBanner
    BY BannerAssumption DEF Banners
  <2>3. cached'[b.id] # b
    <3> SUFFICES ASSUME cached'[b.id] = b PROVE FALSE
      OBVIOUS
    <3>1. /\ ttl'[b.id] # 0
          /\ age'[b] + ttl'[b.id] <= MaxAge
      BY <1>1, <2>2 DEF StaleInv, CacheInv, KeysInv, CacheStaleness, MaxAge
    <3>2. ttl'[b.id] \in Nat
      BY <1>1, <2>2, ExpTimeAssumption DEF TypeInv, CacheTypeOK
    <3> QED
      BY <2>1, <3>1, <3>2, MaxAgeType
  <2>4. b \notin Served'
    BY <1>1, <2>1, MaxAgeType DEF ServedStaleness, MaxAge
  <2> QED
    BY <2>1, <2>3, <2>4
<1>2. TypeInv /\ TypeInv' /\ StaleInv' /\ ServedStaleness' /\ [Next]_vars =>
        [\A b \in Banners :
            Outdated(b) => Outdated(b)' /\ cached'[b.id] # b /\ b \notin Served']_vars
  BY <1>1
<1> QED
  BY <1>2, TypeInvariance, StaleInvariance, ServedIsBounded, PTL
  DEF Spec, ForgottenForGood

(***************************************************************************)
(* Where a process may be.  In the loop of GetUserBanner there is a member *)
(* to draw; at a SET or SADD there are rows, of different ids, and at an   *)
(* SADD the current one is listed under every tag that awaits none.        *)
(***************************************************************************)

Placed(p) ==
    /\ p = Refresher => pc[p] \in {"select", "wait", "set", "sadd"}
    /\ pc[p] = "get" => members[p] # {}
    /\ todo[p] # {} <=> pc[p] \in {"set", "sadd"}
    /\ pc[p] = "sadd" => newTags[p] # {}
    /\ \A b, c \in todo[p] : b.id = c.id => b = c

ListedSoFar(p) ==
    pc[p] = "sadd" =>
        \A b \in todo[p] : Current(p, b) =>
            \A t \in b.tags \ newTags[p] : b.id \in index[b.feature][t]

PlacesInv == \A p \in Procs : Placed(p) /\ ListedSoFar(p)

\* A step of p leaves the locals of all others as they are.
Own(p) ==
    /\ \E l : pc' = [pc EXCEPT ![p] = l]
    /\ UNCHANGED todo \/ \E s : todo' = [todo EXCEPT ![p] = s]
    /\ UNCHANGED newTags \/ \E s : newTags' = [newTags EXCEPT ![p] = s]
    /\ UNCHANGED members \/ \E s : members' = [members EXCEPT ![p] = s]
    /\ UNCHANGED tries \/ \E n : tries' = [tries EXCEPT ![p] = n]

Untouched(q) ==
    /\ pc'[q] = pc[q]
    /\ todo'[q] = todo[q]
    /\ newTags'[q] = newTags[q]
    /\ q \in Handlers => members'[q] = members[q] /\ tries'[q] = tries[q]

LEMMA OwnUntouched ==
    ASSUME TypeInv, NEW p \in Procs, Own(p), NEW q \in Procs, q # p
    PROVE  Untouched(q)
<1>1. pc'[q] = pc[q] /\ todo'[q] = todo[q] /\ newTags'[q] = newTags[q]
  BY DEF Own, TypeInv, LocalInv, CachingTypeOK
<1>2. q \in Handlers => members'[q] = members[q] /\ tries'[q] = tries[q]
  BY DEF Own, TypeInv, LocalInv, HandlersTypeOK
<1> QED
  BY <1>1, <1>2 DEF Untouched

LEMMA OwnReply ==
    ASSUME NEW p, NEW r, Reply(p, r),
           UNCHANGED todo \/ \E s : todo' = [todo EXCEPT ![p] = s],
           UNCHANGED newTags \/ \E s : newTags' = [newTags EXCEPT ![p] = s]
    PROVE  Own(p)
  BY DEF Own, Reply

LEMMA OwnGoto ==
    ASSUME NEW p, NEW label, Goto(p, label),
           UNCHANGED todo \/ \E s : todo' = [todo EXCEPT ![p] = s],
           UNCHANGED newTags \/ \E s : newTags' = [newTags EXCEPT ![p] = s],
           UNCHANGED members \/ \E s : members' = [members EXCEPT ![p] = s],
           UNCHANGED tries \/ \E n : tries' = [tries EXCEPT ![p] = n]
    PROVE  Own(p)
  BY DEF Own, Goto

LEMMA OwnCachedRow ==
    ASSUME NEW p, NEW b, StopCaching(p) \/ CachedRow(p, b)
    PROVE  Own(p)
<1>1. CASE StopCaching(p)
  <2>1. /\ \E s : todo' = [todo EXCEPT ![p] = s]
        /\ \E s : newTags' = [newTags EXCEPT ![p] = s]
    BY <1>1 DEF StopCaching
  <2> QED
    BY <1>1, <2>1, OwnReply, OwnGoto DEF StopCaching, loopVars
<1>2. CASE CachedRow(p, b) /\ ~StopCaching(p)
  <2>1. /\ Goto(p, "set")
        /\ todo' = [todo EXCEPT ![p] = todo[p] \ {b}]
        /\ newTags' = [newTags EXCEPT ![p] = {}]
        /\ UNCHANGED <<members, tries>>
    BY <1>2 DEF CachedRow, loopVars
  <2> QED
    BY <2>1, OwnGoto
<1> QED
  BY <1>1, <1>2

LEMMA OwnCaching ==
    ASSUME NEW p, Caching(p)
    PROVE  Own(p)
<1>1. PICK b : \/ CachedRow(p, b)
               \/ StopCaching(p)
               \/ /\ \E s : newTags' = [newTags EXCEPT ![p] = s]
                  /\ Goto(p, "sadd")
                  /\ UNCHANGED <<todo, loopVars>>
  BY DEF Caching, CacheSet, CacheSAdd
<1> QED
  BY <1>1, OwnCachedRow, OwnGoto DEF loopVars

LEMMA OwnRequest ==
    ASSUME NEW h \in Handlers, Request(h)
    PROVE  Own(h)
<1>1. ASSUME NEW q \in Requests, GetBannerFromRepo(h, q) PROVE Own(h)
  BY <1>1, OwnReply DEF GetBannerFromRepo, QueryRepo
<1>2. ASSUME NEW q \in Requests, GetMembers(h, q) PROVE Own(h)
  <2>1. /\ \E l : pc' = [pc EXCEPT ![h] = l]
        /\ UNCHANGED members \/ \E s : members' = [members EXCEPT ![h] = s]
        /\ UNCHANGED tries \/ \E n : tries' = [tries EXCEPT ![h] = n]
    BY <1>2 DEF GetMembers, Loop, Goto
  <2> QED
    BY <1>2, <2>1 DEF GetMembers, Own
<1>3. ASSUME NEW c \in Inputs, CreateBanner(h, c) PROVE Own(h)
  <2>1. \/ \E r : Reply(h, r) /\ UNCHANGED todo
        \/ Goto(h, "set") /\ UNCHANGED loopVars /\ \E s : todo' = [todo EXCEPT ![h] = s]
    BY <1>3 DEF CreateBanner
  <2> QED
    BY <1>3, <2>1, OwnReply, OwnGoto DEF CreateBanner, loopVars
<1>4. ASSUME NEW id \in BannerIds, NEW c \in Inputs, UpdateBanner(h, id, c) PROVE Own(h)
  BY <1>4, OwnReply DEF UpdateBanner
<1>5. ASSUME NEW id \in BannerIds, DeleteFromCache(h, id) PROVE Own(h)
  BY <1>5, OwnGoto DEF DeleteFromCache
<1> QED
  BY <1>1, <1>2, <1>3, <1>4, <1>5 DEF Request

LEMMA OwnServing ==
    ASSUME NEW h \in Handlers, Serving(h)
    PROVE  Own(h)
<1>1. CASE GetEntry(h)
  <2>1. \/ \E r : Reply(h, r)
        \/ (\E l : Goto(h, l)) /\ UNCHANGED <<members, tries>>
        \/ /\ \E l : Goto(h, l)
           /\ \E n : tries' = [tries EXCEPT ![h] = n]
           /\ UNCHANGED members
    BY <1>1 DEF GetEntry, Hit, Miss, loopVars
  <2> QED
    BY <1>1, <2>1, OwnReply, OwnGoto DEF GetEntry
<1>2. CASE GetBannerAfterMiss(h)
  BY <1>2, OwnReply DEF GetBannerAfterMiss, QueryRepo
<1>3. CASE DeleteFromRepo(h)
  BY <1>3, OwnReply DEF DeleteFromRepo
<1> QED
  BY <1>1, <1>2, <1>3, OwnCaching DEF Serving

LEMMA OwnRefreshing ==
    ASSUME Refreshing
    PROVE  Own(Refresher)
<1>1. CASE RefreshRead
  <2>1. /\ \E l : Goto(Refresher, l)
        /\ UNCHANGED todo \/ \E s : todo' = [todo EXCEPT ![Refresher] = s]
    BY <1>1 DEF RefreshRead
  <2> QED
    BY <1>1, <2>1, OwnGoto DEF RefreshRead, loopVars
<1>2. CASE NextRefresh
  BY <1>2, OwnGoto DEF NextRefresh, loopVars
<1> QED
  BY <1>1, <1>2, OwnCaching DEF Refreshing

\* SADD adds, and nothing removes from the index.
IndexGrows ==
    \A f \in Features, t \in Tags : index[f][t] \subseteq index'[f][t]

LEMMA IndexNeverShrinks ==
    ASSUME TypeInv, [Next]_vars
    PROVE  IndexGrows
<1>1. ASSUME UNCHANGED index PROVE IndexGrows
  BY <1>1 DEF IndexGrows
<1>2. ASSUME NEW p \in Procs, Caching(p) PROVE IndexGrows
  <2>1. PICK b \in todo[p] :
            \/ SetBanner(b)
            \/ \E t \in Tags : AddToIndex(b, t)
            \/ UNCHANGED cacheVars
    BY <1>2 DEF Caching, CacheSet, CacheSAdd, RedisError
  <2>2. b \in Banners
    BY DEF TypeInv, CachingTypeOK
  <2>3. CASE \E t \in Tags : AddToIndex(b, t)
    BY <2>2, <2>3 DEF AddToIndex, IndexGrows, TypeInv, CacheTypeOK, Banners
  <2> QED
    BY <1>1, <2>1, <2>3 DEF SetBanner, cacheVars
<1>3. ASSUME NEW h \in Handlers, Request(h) PROVE UNCHANGED index
  BY <1>3 DEF Request, GetBannerFromRepo, QueryRepo, GetMembers, CreateBanner, UpdateBanner,
              DeleteFromCache, DelBanner, RedisError, cacheVars
<1>4. ASSUME NEW h \in Handlers, Serving(h) PROVE IndexGrows
  BY <1>1, <1>2, <1>4 DEF Serving, GetEntry, Hit, Miss, GetBannerAfterMiss, QueryRepo,
                          DeleteFromRepo, cacheVars, Procs
<1>5. ASSUME Refreshing PROVE IndexGrows
  BY <1>1, <1>2, <1>5 DEF Refreshing, RefreshRead, NextRefresh, cacheVars, Procs
<1> QED
  BY <1>1, <1>3, <1>4, <1>5
  DEF Next, Tick, ExpireKeys, Crash, Elsewhere, vars, cacheVars

LEMMA PlacesUntouched ==
    ASSUME TypeInv, PlacesInv, NEW q \in Procs, Untouched(q), IndexGrows
    PROVE  Placed(q)' /\ ListedSoFar(q)'
<1>1. Placed(q)'
  BY DEF PlacesInv, Untouched, Placed, Procs
<1>2. ListedSoFar(q)'
  <2> SUFFICES ASSUME pc'[q] = "sadd", NEW b \in todo'[q], Current(q, b)',
                      NEW t \in b.tags \ newTags'[q]
               PROVE  b.id \in index'[b.feature][t]
    BY DEF ListedSoFar, Current
  <2>1. b.id \in index[b.feature][t]
    BY DEF PlacesInv, ListedSoFar, Untouched, Current
  <2>2. b.feature \in Features /\ t \in Tags
    BY DEF Untouched, TypeInv, CachingTypeOK, Banners
  <2> QED
    BY <2>1, <2>2 DEF IndexGrows
<1> QED
  BY <1>1, <1>2

\* A process that has nothing to cache and draws no member.
LEMMA PlacedElsewhere ==
    ASSUME TypeInv, NEW p \in Procs,
           NEW label \in {"idle", "query", "delete", "select", "wait"},
           p = Refresher => label \in {"select", "wait"},
           pc' = [pc EXCEPT ![p] = label], todo'[p] = {}
    PROVE  Placed(p)' /\ ListedSoFar(p)'
<1>1. pc'[p] = label
  BY DEF TypeInv, LocalInv
<1> QED
  BY <1>1 DEF Placed, ListedSoFar

LEMMA PlacedReply ==
    ASSUME TypeInv, NEW h \in Handlers, NEW r, Reply(h, r), todo'[h] = {}
    PROVE  Placed(h)' /\ ListedSoFar(h)'
  BY PlacedElsewhere, ServiceAssumption DEF Reply, Procs

LEMMA PlacedStop ==
    ASSUME TypeInv, NEW p \in Procs, StopCaching(p)
    PROVE  Placed(p)' /\ ListedSoFar(p)'
<1>1. todo'[p] = {}
  BY DEF StopCaching, TypeInv, CachingTypeOK
<1>2. CASE p = Refresher
  BY <1>1, <1>2, PlacedElsewhere DEF StopCaching, Goto
<1>3. CASE p # Refresher
  BY <1>1, <1>3, PlacedReply DEF StopCaching, Procs
<1> QED
  BY <1>2, <1>3

LEMMA PlacedCachedRow ==
    ASSUME TypeInv, PlacesInv, NEW p \in Procs, NEW b \in todo[p], CachedRow(p, b)
    PROVE  Placed(p)' /\ ListedSoFar(p)'
<1>1. CASE todo[p] = {b}
  BY <1>1, PlacedStop DEF CachedRow
<1>2. CASE todo[p] # {b}
  <2>1. pc'[p] = "set" /\ todo'[p] = todo[p] \ {b}
    BY <1>2 DEF CachedRow, Goto, TypeInv, LocalInv, CachingTypeOK
  <2>2. todo'[p] # {}
    BY <1>2, <2>1
  <2> QED
    BY <2>1, <2>2 DEF PlacesInv, Placed, ListedSoFar
<1> QED
  BY <1>1, <1>2

\* The row a process is caching is one.
LEMMA CurrentIsOne ==
    ASSUME TypeInv, PlacesInv, NEW p \in Procs, NEW b, NEW c,
           Current(p, b), Current(p, c)
    PROVE  b = c
<1>1. b \in todo[p] /\ c \in todo[p] /\ b.id <= c.id /\ c.id <= b.id
  BY DEF Current
<1>2. b.id \in Int /\ c.id \in Int
  BY <1>1 DEF TypeInv, CachingTypeOK, Banners, BannerIds
<1>3. b.id = c.id
  BY <1>1, <1>2
<1> QED
  BY <1>1, <1>3 DEF PlacesInv, Placed

LEMMA PlacedSet ==
    ASSUME TypeInv, PlacesInv, NEW p \in Procs, CacheSet(p)
    PROVE  Placed(p)' /\ ListedSoFar(p)'
<1>1. PICK b \in todo[p] :
        /\ Current(p, b)
        /\ \/ StopCaching(p)
           \/ CachedRow(p, b)
           \/ /\ b.tags # {}
              /\ newTags' = [newTags EXCEPT ![p] = b.tags]
              /\ Goto(p, "sadd")
              /\ UNCHANGED todo
  BY DEF CacheSet
<1>2. CASE /\ b.tags # {}
           /\ newTags' = [newTags EXCEPT ![p] = b.tags]
           /\ Goto(p, "sadd")
           /\ UNCHANGED todo
  <2>1. pc'[p] = "sadd" /\ newTags'[p] = b.tags /\ todo' = todo
    BY <1>2 DEF Goto, TypeInv, LocalInv, CachingTypeOK
  <2>2. Placed(p)'
    BY <1>2, <2>1 DEF PlacesInv, Placed
  <2>3. ListedSoFar(p)'
    <3> SUFFICES ASSUME NEW c \in todo[p], Current(p, c)
                 PROVE  c.tags \ b.tags = {}
      BY <2>1 DEF ListedSoFar, Current
    <3> QED
      BY <1>1, CurrentIsOne
  <2> QED
    BY <2>2, <2>3
<1> QED
  BY <1>1, <1>2, PlacedStop, PlacedCachedRow

LEMMA PlacedSAdd ==
    ASSUME TypeInv, PlacesInv, NEW p \in Procs, NEW t \in Tags, CacheSAdd(p, t)
    PROVE  Placed(p)' /\ ListedSoFar(p)'
<1>1. PICK b \in todo[p] :
        /\ Current(p, b)
        /\ \/ StopCaching(p)
           \/ CachedRow(p, b)
           \/ /\ AddToIndex(b, t)
              /\ newTags[p] # {t}
              /\ newTags' = [newTags EXCEPT ![p] = @ \ {t}]
              /\ Goto(p, "sadd")
              /\ UNCHANGED todo
  BY DEF CacheSAdd
<1>2. CASE /\ AddToIndex(b, t)
           /\ newTags[p] # {t}
           /\ newTags' = [newTags EXCEPT ![p] = @ \ {t}]
           /\ Goto(p, "sadd")
           /\ UNCHANGED todo
  <2>1. pc[p] = "sadd" /\ t \in newTags[p]
    BY DEF CacheSAdd
  <2>2. pc'[p] = "sadd" /\ newTags'[p] = newTags[p] \ {t} /\ todo' = todo
    BY <1>2 DEF Goto, TypeInv, LocalInv, CachingTypeOK
  <2>3. Placed(p)'
    <3>1. newTags'[p] # {}
      BY <1>2, <2>1, <2>2
    <3> QED
      BY <2>1, <2>2, <3>1 DEF PlacesInv, Placed
  <2>4. ListedSoFar(p)'
    <3> SUFFICES ASSUME NEW c \in todo[p], Current(p, c),
                        NEW u \in c.tags \ (newTags[p] \ {t})
                 PROVE  c.id \in index'[c.feature][u]
      BY <2>2 DEF ListedSoFar, Current
    <3>1. c = b
      BY <1>1, CurrentIsOne
    <3>2. b \in Banners /\ u \in Tags
      BY <3>1 DEF TypeInv, CachingTypeOK, Banners
    <3>3. /\ b.id \in index'[b.feature][t]
          /\ index[b.feature][u] \subseteq index'[b.feature][u]
      BY <1>2, <3>2 DEF AddToIndex, TypeInv, CacheTypeOK, Banners
    <3>4. u # t => b.id \in index[b.feature][u]
      BY <1>1, <2>1, <3>1 DEF PlacesInv, ListedSoFar
    <3> QED
      BY <3>1, <3>3, <3>4
  <2> QED
    BY <2>3, <2>4
<1> QED
  BY <1>1, <1>2, PlacedStop, PlacedCachedRow

LEMMA PlacedRefreshRead ==
    ASSUME TypeInv, StaleInv, PlacesInv, RefreshRead
    PROVE  Placed(Refresher)' /\ ListedSoFar(Refresher)'
<1> DEFINE rows == SelectBanners(NoFilter, {}, FALSE)
<1>1. \A b, c \in rows : b.id = c.id => b = c
  BY DEF SelectBanners, StaleInv, RowsInv
<1>2. todo[Refresher] = {}
  BY DEF RefreshRead, PlacesInv, Placed, Procs
<1>3. \/ /\ todo' = [todo EXCEPT ![Refresher] = rows]
         /\ Goto(Refresher, IF rows = {} THEN "wait" ELSE "set")
      \/ Goto(Refresher, "wait") /\ UNCHANGED todo
  BY DEF RefreshRead
<1> HIDE DEF rows
<1>4. \/ todo'[Refresher] = {} /\ pc' = [pc EXCEPT ![Refresher] = "wait"]
      \/ todo'[Refresher] = rows /\ rows # {} /\ pc'[Refresher] = "set"
  BY <1>2, <1>3 DEF Goto, TypeInv, LocalInv, CachingTypeOK, Procs
<1>5. CASE todo'[Refresher] = {} /\ pc' = [pc EXCEPT ![Refresher] = "wait"]
  BY <1>5, PlacedElsewhere DEF Procs
<1>6. CASE todo'[Refresher] = rows /\ rows # {} /\ pc'[Refresher] = "set"
  BY <1>1, <1>6 DEF Placed, ListedSoFar
<1> QED
  BY <1>4, <1>5, <1>6

LEMMA PlacedRequest ==
    ASSUME TypeInv, PlacesInv, NEW h \in Handlers, Request(h)
    PROVE  Placed(h)' /\ ListedSoFar(h)'
<1>1. pc[h] = "idle"
  BY DEF Request, GetBannerFromRepo, GetMembers, CreateBanner, UpdateBanner, DeleteFromCache
<1>2. todo[h] = {} /\ h \in Procs /\ h # Refresher
  BY <1>1, ServiceAssumption DEF PlacesInv, Placed, Procs
<1>3. ASSUME NEW q \in Requests, GetBannerFromRepo(h, q) PROVE Placed(h)' /\ ListedSoFar(h)'
  BY <1>2, <1>3, PlacedReply DEF GetBannerFromRepo, QueryRepo
<1>4. ASSUME NEW q \in Requests, GetMembers(h, q) PROVE Placed(h)' /\ ListedSoFar(h)'
  <2>1. CASE Goto(h, "query")
    BY <1>2, <1>4, <2>1, PlacedElsewhere DEF GetMembers, Goto
  <2>2. CASE ~Goto(h, "query")
    <3>1. pc'[h] = "get" /\ members'[h] # {}
      BY <1>2, <1>4, <2>2
      DEF GetMembers, Loop, Goto, TypeInv, LocalInv, HandlersTypeOK
    <3> QED
      BY <1>2, <1>4, <3>1 DEF GetMembers, Placed, ListedSoFar
  <2> QED
    BY <2>1, <2>2
<1>5. ASSUME NEW c \in Inputs, CreateBanner(h, c) PROVE Placed(h)' /\ ListedSoFar(h)'
  <2>1. CASE \E r : Reply(h, r) /\ UNCHANGED todo
    BY <1>2, <2>1, PlacedReply
  <2>2. ASSUME NEW b, Goto(h, "set"), todo' = [todo EXCEPT ![h] = {b}]
        PROVE  Placed(h)' /\ ListedSoFar(h)'
    <3>1. pc'[h] = "set" /\ todo'[h] = {b}
      BY <1>2, <2>2 DEF Goto, TypeInv, LocalInv, CachingTypeOK
    <3> QED
      BY <1>2, <3>1 DEF Placed, ListedSoFar
  <2> QED
    BY <1>5, <2>1, <2>2 DEF CreateBanner
<1>6. ASSUME NEW id \in BannerIds, NEW c \in Inputs, UpdateBanner(h, id, c)
      PROVE  Placed(h)' /\ ListedSoFar(h)'
  BY <1>2, <1>6, PlacedReply DEF UpdateBanner
<1>7. ASSUME NEW id \in BannerIds, DeleteFromCache(h, id) PROVE Placed(h)' /\ ListedSoFar(h)'
  BY <1>2, <1>7, PlacedElsewhere DEF DeleteFromCache, Goto
<1> QED
  BY <1>3, <1>4, <1>5, <1>6, <1>7 DEF Request

LEMMA PlacedGetEntry ==
    ASSUME TypeInv, PlacesInv, NEW h \in Handlers, GetEntry(h)
    PROVE  Placed(h)' /\ ListedSoFar(h)'
<1>1. /\ todo'[h] = {} /\ members[h] # {}
      /\ h \in Procs /\ h # Refresher
  BY ServiceAssumption DEF GetEntry, PlacesInv, Placed, Procs
<1>2. CASE Goto(h, "query")
  BY <1>1, <1>2, PlacedElsewhere DEF Goto
<1>3. CASE \E r : Reply(h, r)
  BY <1>1, <1>3, PlacedReply
<1>4. CASE Goto(h, "get") /\ UNCHANGED members
  <2>1. pc'[h] = "get"
    BY <1>1, <1>4 DEF Goto, TypeInv, LocalInv
  <2> QED
    BY <1>1, <1>4, <2>1 DEF Placed, ListedSoFar
<1>5. \/ \E r : Reply(h, r)
      \/ Goto(h, "query")
      \/ Goto(h, "get") /\ UNCHANGED members
  BY DEF GetEntry, Hit, Miss
<1> QED
  BY <1>2, <1>3, <1>4, <1>5

LEMMA PlacedServing ==
    ASSUME TypeInv, PlacesInv, NEW h \in Handlers, Serving(h)
    PROVE  Placed(h)' /\ ListedSoFar(h)'
<1>1. CASE GetBannerAfterMiss(h) \/ DeleteFromRepo(h)
  <2>1. todo'[h] = {} /\ \E r : Reply(h, r)
    BY <1>1 DEF GetBannerAfterMiss, DeleteFromRepo, QueryRepo, PlacesInv, Placed, Procs
  <2> QED
    BY <2>1, PlacedReply
<1> QED
  BY <1>1, PlacedGetEntry, PlacedSet, PlacedSAdd DEF Serving, Caching, Procs

LEMMA PlacedRefreshing ==
    ASSUME TypeInv, StaleInv, PlacesInv, Refreshing
    PROVE  Placed(Refresher)' /\ ListedSoFar(Refresher)'
<1>1. CASE NextRefresh
  <2>1. todo'[Refresher] = {} /\ pc' = [pc EXCEPT ![Refresher] = "select"]
    BY <1>1 DEF NextRefresh, Goto, PlacesInv, Placed, Procs
  <2> QED
    BY <2>1, PlacedElsewhere DEF Procs
<1> QED
  BY <1>1, PlacedRefreshRead, PlacedSet, PlacedSAdd DEF Refreshing, Caching, Procs

LEMMA PlacesNext ==
    ASSUME TypeInv, StaleInv, PlacesInv, [Next]_vars
    PROVE  PlacesInv'
<1>1. ASSUME NEW p \in Procs, Own(p), Placed(p)' /\ ListedSoFar(p)' PROVE PlacesInv'
  BY <1>1, OwnUntouched, PlacesUntouched, IndexNeverShrinks DEF PlacesInv
<1>2. ASSUME NEW h \in Handlers, Request(h) \/ Serving(h) PROVE PlacesInv'
  BY <1>1, <1>2, OwnRequest, OwnServing, PlacedRequest, PlacedServing DEF Procs
<1>3. CASE Refreshing
  BY <1>1, <1>3, OwnRefreshing, PlacedRefreshing DEF Procs
<1>4. CASE Tick \/ Elsewhere \/ UNCHANGED vars
  <2>1. \A q \in Procs : Untouched(q)
    BY <1>4 DEF Tick, Elsewhere, vars, loopVars, Untouched
  <2> QED
    BY <2>1, PlacesUntouched, IndexNeverShrinks DEF PlacesInv
<1>5. CASE Crash
  BY <1>5, ServiceAssumption DEF Crash, PlacesInv, Placed, ListedSoFar, Procs
<1> QED
  BY <1>2, <1>3, <1>4, <1>5 DEF Next

LEMMA PlacesInvariance == Spec => []PlacesInv
<1>1. Init => PlacesInv
  BY ServiceAssumption DEF Init, PlacesInv, Placed, ListedSoFar, Procs
<1> QED
  BY <1>1, TypeInvariance, StaleInvariance, PlacesNext, PTL DEF Spec

\* A set of rows that is not empty has one to begin with.
LEMMA FirstRow ==
    ASSUME TypeInv, NEW p \in Procs, todo[p] # {}
    PROVE  \E b \in todo[p] : Current(p, b)
<1> DEFINE ids == {b.id : b \in todo[p]}
<1>1. ids \subseteq Nat /\ ids # {}
  BY BannerAssumption DEF TypeInv, CachingTypeOK, Banners, BannerIds
<1> HIDE DEF ids
<1>2. PICK n \in ids : \A m \in ids : ~(<<m, n>> \in OpToRel(<, Nat))
  BY <1>1, NatLessThanWellFounded, WFMin
<1>3. ASSUME NEW m \in ids PROVE n <= m
  <2>1. m \in Nat /\ n \in Nat /\ <<m, n>> \in Nat \X Nat
    BY <1>1
  <2>2. ~(m < n)
    BY <1>2, <2>1 DEF OpToRel
  <2> QED
    BY <2>1, <2>2
<1> QED
  BY <1>3 DEF Current, ids

\* Whatever was drawn, read, lost or started again, a process in the middle of
\* a method has a next command to send.
THEOREM SomethingToDo == Spec => []NobodyIsStuck
<1>1. TypeInv /\ PlacesInv => NobodyIsStuck
  BY FirstRow DEF PlacesInv, Placed, NobodyIsStuck
<1> QED
  BY <1>1, TypeInvariance, PlacesInvariance, PTL

\* The refresher is done with a row, and goes on, when it is listed.
LEMMA RowDone ==
    ASSUME TypeInv, PlacesInv, Caching(Refresher),
           NEW b \in todo[Refresher], b \notin todo'[Refresher], todo'[Refresher] # {}
    PROVE  \A t \in b.tags : b.id \in index'[b.feature][t]
<1> DEFINE p == Refresher
<1>1. p \in Procs
  BY DEF Procs
<1>2. ~StopCaching(p)
  BY <1>1 DEF StopCaching, TypeInv, CachingTypeOK
<1>3. ASSUME NEW c, CachedRow(p, c) PROVE b = c
  BY <1>1, <1>2, <1>3 DEF CachedRow, TypeInv, CachingTypeOK
<1>4. CASE CacheSet(p)
  BY <1>2, <1>3, <1>4 DEF CacheSet
<1>5. ASSUME NEW t \in Tags, CacheSAdd(p, t)
      PROVE  \A u \in b.tags : b.id \in index'[b.feature][u]
  <2>1. /\ pc[p] = "sadd" /\ newTags[p] = {t}
        /\ Current(p, b) /\ AddToIndex(b, t)
    BY <1>2, <1>3, <1>5 DEF CacheSAdd
  <2>2. b \in Banners
    BY <1>1 DEF TypeInv, CachingTypeOK
  <2>3. \A u \in b.tags \ {t} : b.id \in index[b.feature][u]
    BY <1>1, <2>1 DEF PlacesInv, ListedSoFar
  <2>4. /\ b.id \in index'[b.feature][t]
        /\ \A u \in Tags : index[b.feature][u] \subseteq index'[b.feature][u]
    BY <1>5, <2>1, <2>2 DEF AddToIndex, TypeInv, CacheTypeOK, Banners
  <2> QED
    BY <2>2, <2>3, <2>4 DEF Banners
<1> QED
  BY <1>4, <1>5 DEF Caching

\* A refresh leaves no row behind that cannot be found by each of its tags,
\* whatever SADDs of others were lost or never sent.
THEOREM RefreshIsThorough == Spec => RefreshRepairs
<1>1. ASSUME TypeInv, PlacesInv, [Next]_vars,
             NEW b \in todo[Refresher], b \notin todo'[Refresher], todo'[Refresher] # {}
      PROVE  \A t \in b.tags : b.id \in index'[b.feature][t]
  <2>1. ~Untouched(Refresher)
    BY <1>1 DEF Untouched
  <2>2. ASSUME NEW h \in Handlers, Request(h) \/ Serving(h) PROVE FALSE
    BY <1>1, <2>1, <2>2, OwnRequest, OwnServing, OwnUntouched, ServiceAssumption DEF Procs
  <2>3. ~RefreshRead /\ ~NextRefresh
    BY <1>1 DEF RefreshRead, NextRefresh, PlacesInv, Placed, Procs
  <2>4. ~Tick /\ ~Crash /\ ~Elsewhere /\ ~UNCHANGED vars
    BY <1>1 DEF Tick, Crash, Elsewhere, vars, Procs
  <2>5. Caching(Refresher)
    BY <1>1, <2>2, <2>3, <2>4 DEF Next, Refreshing
  <2> QED
    BY <1>1, <2>5, RowDone
<1>2. TypeInv /\ PlacesInv /\ [Next]_vars =>
        [\A b \in todo[Refresher] :
            b \notin todo'[Refresher] /\ todo'[Refresher] # {} =>
                \A t \in b.tags : b.id \in index'[b.feature][t]]_vars
  BY <1>1
<1> QED
  BY <1>2, TypeInvariance, PlacesInvariance, PTL DEF Spec, RefreshRepairs

(***************************************************************************)
(* The measure Left: what it counts is finite, and each command takes from *)
(* it.  The rows a process is caching have different ids and hence are no  *)
(* more than MaxId.                                                        *)
(***************************************************************************)

PerRow == 1 + Cardinality(Tags)

LEMMA TagsAreFew ==
    ASSUME NEW S \in SUBSET Tags
    PROVE  /\ Cardinality(Tags) \in Nat
           /\ Cardinality(S) \in Nat
           /\ Cardinality(S) <= Cardinality(Tags)
           /\ S # {} => Cardinality(S) >= 1
           /\ \A t \in S : Cardinality(S \ {t}) = Cardinality(S) - 1
<1>1. IsFiniteSet(Tags) /\ Cardinality(Tags) \in Nat
  BY BannerAssumption, FS_CardinalityType
<1>2. IsFiniteSet(S) /\ Cardinality(S) <= Cardinality(Tags)
  BY <1>1, FS_Subset
<1>3. Cardinality(S) \in Nat /\ (Cardinality(S) = 0 <=> S = {})
  BY <1>2, FS_CardinalityType, FS_EmptySet
<1>4. \A t \in S : Cardinality(S \ {t}) = Cardinality(S) - 1
  BY <1>2, FS_RemoveElement
<1> QED
  BY <1>1, <1>2, <1>3, <1>4

LEMMA RowsAreFew ==
    ASSUME NEW S \in SUBSET Banners, \A b, c \in S : b.id = c.id => b = c
    PROVE  /\ IsFiniteSet(S)
           /\ Cardinality(S) \in Nat
           /\ Cardinality(S) <= MaxId
           /\ S # {} => Cardinality(S) >= 1
           /\ \A b \in S : Cardinality(S \ {b}) = Cardinality(S) - 1
<1> DEFINE f == [b \in S |-> b.id]
<1>1. IsFiniteSet(BannerIds) /\ Cardinality(BannerIds) = MaxId
  BY FS_Interval, BannerAssumption DEF BannerIds
<1>2. f \in Injection(S, BannerIds)
  BY DEF Injection, IsInjective, Banners
<1>3. IsFiniteSet(S) /\ Cardinality(S) <= MaxId
  BY <1>1, <1>2, FS_Injection
<1>4. Cardinality(S) \in Nat /\ (Cardinality(S) = 0 <=> S = {})
  BY <1>3, FS_CardinalityType, FS_EmptySet
<1>5. \A b \in S : Cardinality(S \ {b}) = Cardinality(S) - 1
  BY <1>3, FS_RemoveElement
<1> QED
  BY <1>3, <1>4, <1>5

LEMMA OneRowLess ==
    ASSUME NEW k \in Nat, NEW m \in Nat
    PROVE  /\ k * m \in Nat
           /\ k >= 1 => k * m = (k - 1) * m + m /\ (k - 1) * m \in Nat
  OBVIOUS

LEMMA FewerRows ==
    ASSUME NEW j \in Nat, NEW k \in Nat, NEW m \in Nat, j <= k
    PROVE  j * m <= k * m
  OBVIOUS

\* How many rows and SADDs are left for p, and what they amount to.
LEMMA TodoIsFew ==
    ASSUME TypeInv, PlacesInv, NEW p \in Procs
    PROVE  /\ PerRow \in Nat \ {0}
           /\ Cardinality(todo[p]) \in Nat
           /\ Cardinality(todo[p]) <= MaxId
           /\ todo[p] # {} => Cardinality(todo[p]) >= 1
           /\ \A b \in todo[p] : Cardinality(todo[p] \ {b}) = Cardinality(todo[p]) - 1
           /\ Cardinality(newTags[p]) \in Nat
           /\ newTags[p] # {} => Cardinality(newTags[p]) >= 1
<1>1. todo[p] \in SUBSET Banners /\ newTags[p] \in SUBSET Tags
  BY DEF TypeInv, CachingTypeOK
<1>2. \A b, c \in todo[p] : b.id = c.id => b = c
  BY DEF PlacesInv, Placed
<1>3. PerRow \in Nat \ {0} /\ Cardinality(newTags[p]) \in Nat
  BY <1>1, TagsAreFew DEF PerRow
<1> QED
  BY <1>1, <1>2, <1>3, TagsAreFew, RowsAreFew

LEMMA LeftType ==
    ASSUME TypeInv, PlacesInv, NEW p \in Procs
    PROVE  Left(p) \in Nat
<1>1. CASE pc[p] = "get"
  <2>1. p \in Handlers
    BY <1>1 DEF PlacesInv, Placed, Procs
  <2>2. tries[p] \in Nat
    BY <2>1, BannerAssumption DEF TypeInv, LocalInv, HandlersTypeOK
  <2> QED
    BY <1>1, <2>2 DEF Left
<1>2. CASE pc[p] = "select"
  <2>1. MaxId * PerRow \in Nat
    BY TodoIsFew, OneRowLess, BannerAssumption
  <2> QED
    BY <1>2, <2>1 DEF Left, PerRow
<1>3. CASE pc[p] \in {"set", "sadd"}
  <2>1. /\ Cardinality(todo[p]) * PerRow \in Nat
        /\ (Cardinality(todo[p]) - 1) * PerRow \in Nat
    BY <1>3, TodoIsFew, OneRowLess DEF PlacesInv, Placed
  <2> QED
    BY <1>3, <2>1, TodoIsFew DEF Left, PerRow
<1>4. CASE pc[p] \notin {"get", "select", "set", "sadd"}
  BY <1>4 DEF Left
<1> QED
  BY <1>1, <1>2, <1>3, <1>4

\* In the next state, too.
LEMMA LeftTypeNext ==
    TypeInv' /\ PlacesInv' => \A p \in Procs : Left(p)' \in Nat
<1>1. TypeInv /\ PlacesInv => \A p \in Procs : Left(p) \in Nat
  BY LeftType
<1>2. (TypeInv /\ PlacesInv => \A p \in Procs : Left(p) \in Nat)'
  BY <1>1, PTL
<1> QED
  BY <1>2

LEMMA LeftUntouched ==
    ASSUME PlacesInv, NEW q \in Procs, Untouched(q)
    PROVE  Left(q)' = Left(q)
<1>1. CASE pc[q] = "get"
  <2>1. q \in Handlers
    BY <1>1 DEF PlacesInv, Placed, Procs
  <2> QED
    BY <1>1, <2>1 DEF Untouched, Left
<1>2. CASE pc[q] # "get"
  BY <1>2 DEF Untouched, Left
<1> QED
  BY <1>1, <1>2

LEMMA NothingLeft ==
    ASSUME TypeInv, NEW p \in Procs, NEW label \in {"idle", "wait"},
           pc' = [pc EXCEPT ![p] = label]
    PROVE  Left(p)' = 0
<1>1. pc'[p] = label
  BY DEF TypeInv, LocalInv
<1> QED
  BY <1>1 DEF Left

LEMMA LeftReply ==
    ASSUME TypeInv, NEW h \in Handlers, NEW r, Reply(h, r)
    PROVE  Left(h)' = 0
  BY NothingLeft DEF Reply, Procs

LEMMA LeftStop ==
    ASSUME TypeInv, NEW p \in Procs, StopCaching(p)
    PROVE  Left(p)' = 0
  BY NothingLeft DEF StopCaching, Goto, Reply

LEMMA LeftCachedRow ==
    ASSUME TypeInv, PlacesInv, NEW p \in Procs, NEW b \in todo[p], CachedRow(p, b)
    PROVE  Left(p)' \in {0, (Cardinality(todo[p]) - 1) * PerRow}
<1>1. CASE todo[p] = {b}
  BY <1>1, LeftStop DEF CachedRow
<1>2. CASE todo[p] # {b}
  <2>1. pc'[p] = "set" /\ todo'[p] = todo[p] \ {b}
    BY <1>2 DEF CachedRow, Goto, TypeInv, LocalInv, CachingTypeOK
  <2>2. Cardinality(todo'[p]) = Cardinality(todo[p]) - 1
    BY <2>1, TodoIsFew
  <2> QED
    BY <2>1, <2>2 DEF Left, PerRow
<1> QED
  BY <1>1, <1>2

LEMMA LeftSet ==
    ASSUME TypeInv, PlacesInv, NEW p \in Procs, CacheSet(p)
    PROVE  Left(p)' < Left(p)
<1> DEFINE k == Cardinality(todo[p])
<1>1. PICK b \in todo[p] :
        \/ StopCaching(p)
        \/ CachedRow(p, b)
        \/ /\ newTags' = [newTags EXCEPT ![p] = b.tags]
           /\ Goto(p, "sadd")
           /\ UNCHANGED todo
  BY DEF CacheSet
<1>2. k \in Nat /\ k >= 1 /\ PerRow \in Nat \ {0}
  BY <1>1, TodoIsFew
<1>3. Left(p) = k * PerRow
  BY DEF CacheSet, Left, PerRow
<1> HIDE DEF k
<1>4. Left(p) = (k - 1) * PerRow + PerRow /\ (k - 1) * PerRow \in Nat
  BY <1>2, <1>3, OneRowLess
<1>5. CASE StopCaching(p) \/ CachedRow(p, b)
  <2>1. Left(p)' \in {0, (k - 1) * PerRow}
    BY <1>5, LeftStop, LeftCachedRow DEF k
  <2> QED
    BY <1>2, <1>4, <2>1
<1>6. CASE /\ newTags' = [newTags EXCEPT ![p] = b.tags]
           /\ Goto(p, "sadd")
           /\ UNCHANGED todo
  <2>1. pc'[p] = "sadd" /\ newTags'[p] = b.tags /\ todo'[p] = todo[p]
    BY <1>6 DEF Goto, TypeInv, LocalInv, CachingTypeOK
  <2>2. Left(p)' = (k - 1) * PerRow + Cardinality(b.tags)
    BY <2>1 DEF Left, PerRow, k
  <2>3. b.tags \in SUBSET Tags
    BY DEF TypeInv, CachingTypeOK, Banners
  <2>4. Cardinality(b.tags) \in Nat /\ Cardinality(b.tags) < PerRow
    BY <2>3, TagsAreFew DEF PerRow
  <2> QED
    BY <1>2, <1>4, <2>2, <2>4
<1> QED
  BY <1>1, <1>5, <1>6

LEMMA LeftSAdd ==
    ASSUME TypeInv, PlacesInv, NEW p \in Procs, NEW t \in Tags, CacheSAdd(p, t)
    PROVE  Left(p)' < Left(p)
<1> DEFINE k == Cardinality(todo[p])
           n == Cardinality(newTags[p])
<1>1. PICK b \in todo[p] :
        \/ StopCaching(p)
        \/ CachedRow(p, b)
        \/ /\ newTags' = [newTags EXCEPT ![p] = @ \ {t}]
           /\ Goto(p, "sadd")
           /\ UNCHANGED todo
  BY DEF CacheSAdd
<1>2. /\ k \in Nat /\ k >= 1 /\ PerRow \in Nat \ {0}
      /\ n \in Nat /\ n >= 1
  BY <1>1, TodoIsFew DEF CacheSAdd
<1>3. Left(p) = (k - 1) * PerRow + n
  BY DEF CacheSAdd, Left, PerRow
<1>4. newTags[p] \in SUBSET Tags /\ t \in newTags[p]
  BY DEF CacheSAdd, TypeInv, CachingTypeOK
<1>5. Cardinality(newTags[p] \ {t}) = n - 1
  BY <1>4, TagsAreFew
<1> HIDE DEF k, n
<1>6. (k - 1) * PerRow \in Nat
  BY <1>2, OneRowLess
<1>7. CASE StopCaching(p) \/ CachedRow(p, b)
  <2>1. Left(p)' \in {0, (k - 1) * PerRow}
    BY <1>7, LeftStop, LeftCachedRow DEF k
  <2> QED
    BY <1>2, <1>3, <1>6, <2>1
<1>8. CASE /\ newTags' = [newTags EXCEPT ![p] = @ \ {t}]
           /\ Goto(p, "sadd")
           /\ UNCHANGED todo
  <2>1. pc'[p] = "sadd" /\ newTags'[p] = newTags[p] \ {t} /\ todo'[p] = todo[p]
    BY <1>8 DEF Goto, TypeInv, LocalInv, CachingTypeOK
  <2>2. Left(p)' = (k - 1) * PerRow + (n - 1)
    BY <1>5, <2>1 DEF Left, PerRow, k
  <2> QED
    BY <1>2, <1>3, <1>6, <2>2
<1> QED
  BY <1>1, <1>7, <1>8

LEMMA LeftGetEntry ==
    ASSUME TypeInv, NEW h \in Handlers, GetEntry(h)
    PROVE  Left(h)' < Left(h)
<1>1. pc[h] = "get" /\ tries[h] \in Nat /\ tries[h] # 0
  BY BannerAssumption DEF GetEntry, TypeInv, LocalInv, HandlersTypeOK, LoopInv
<1>2. Left(h) = 1 + tries[h]
  BY <1>1 DEF Left
<1>3. CASE \E r : Reply(h, r)
  BY <1>1, <1>2, <1>3, LeftReply
<1>4. CASE Goto(h, "query")
  <2>1. Left(h)' = 1
    BY <1>4 DEF Goto, TypeInv, LocalInv, Procs, Left
  <2> QED
    BY <1>1, <1>2, <2>1
<1>5. CASE Goto(h, "get") /\ tries' = [tries EXCEPT ![h] = @ - 1]
  <2>1. pc'[h] = "get" /\ tries'[h] = tries[h] - 1
    BY <1>5 DEF Goto, TypeInv, LocalInv, HandlersTypeOK, Procs
  <2>2. Left(h)' = 1 + (tries[h] - 1)
    BY <2>1 DEF Left
  <2> QED
    BY <1>1, <1>2, <2>2
<1>6. \/ \E r : Reply(h, r)
      \/ Goto(h, "query")
      \/ Goto(h, "get") /\ tries' = [tries EXCEPT ![h] = @ - 1]
  BY DEF GetEntry, Hit, Miss
<1> QED
  BY <1>3, <1>4, <1>5, <1>6

LEMMA LeftServing ==
    ASSUME TypeInv, PlacesInv, NEW h \in Handlers, Serving(h)
    PROVE  Left(h)' < Left(h)
<1>1. CASE GetBannerAfterMiss(h) \/ DeleteFromRepo(h)
  <2>1. /\ pc[h] \in {"query", "delete"}
        /\ \E r : Reply(h, r)
    BY <1>1 DEF GetBannerAfterMiss, QueryRepo, DeleteFromRepo
  <2>2. Left(h) = 1 /\ Left(h)' = 0
    BY <2>1, LeftReply DEF Left
  <2> QED
    BY <2>2
<1> QED
  BY <1>1, LeftGetEntry, LeftSet, LeftSAdd DEF Serving, Caching, Procs

LEMMA LeftRefreshRead ==
    ASSUME TypeInv, TypeInv', StaleInv, PlacesInv, PlacesInv', RefreshRead
    PROVE  Left(Refresher)' < Left(Refresher)
<1> DEFINE k == Cardinality(todo[Refresher])
<1>1. Refresher \in Procs
  BY DEF Procs
<1>2. PerRow \in Nat \ {0} /\ k' \in Nat /\ k' <= MaxId
  <2>1. PerRow \in Nat \ {0}
    BY <1>1, TodoIsFew
  <2>2. todo'[Refresher] \in SUBSET Banners
    BY <1>1 DEF TypeInv, CachingTypeOK
  <2>3. \A b, c \in todo'[Refresher] : b.id = c.id => b = c
    BY <1>1 DEF PlacesInv, Placed
  <2> QED
    BY <2>1, <2>2, <2>3, RowsAreFew
<1>3. Left(Refresher) = 1 + MaxId * PerRow
  BY DEF RefreshRead, Left, PerRow
<1>4. Left(Refresher)' \in {0, k' * PerRow}
  <2>1. pc'[Refresher] \in {"wait", "set"}
    BY <1>1 DEF RefreshRead, Goto, TypeInv, LocalInv
  <2> QED
    BY <2>1 DEF Left, PerRow
<1> HIDE DEF k
<1>5. /\ MaxId * PerRow \in Nat
      /\ k' * PerRow \in Nat
      /\ k' * PerRow <= MaxId * PerRow
  BY <1>2, OneRowLess, FewerRows, BannerAssumption
<1> QED
  BY <1>3, <1>4, <1>5

LEMMA LeftRefreshing ==
    ASSUME TypeInv, TypeInv', StaleInv, PlacesInv, PlacesInv', Refreshing
    PROVE  pc[Refresher] = "wait" \/ Left(Refresher)' < Left(Refresher)
<1>1. NextRefresh => pc[Refresher] = "wait"
  BY DEF NextRefresh
<1> QED
  BY <1>1, LeftRefreshRead, LeftSet, LeftSAdd DEF Refreshing, Caching, Procs

LEMMA LeftNext ==
    ASSUME TypeInv, TypeInv', StaleInv, PlacesInv, PlacesInv', [Next]_vars,
           NEW p \in Procs, Left(p) > 0
    PROVE  Left(p)' <= Left(p) \/ (p = Refresher /\ Crash)
<1>1. Left(p) \in Nat /\ Left(p)' \in Nat
  BY LeftType, LeftTypeNext
<1>2. ASSUME Untouched(p) PROVE Left(p)' <= Left(p)
  BY <1>1, <1>2, LeftUntouched
<1>3. ASSUME NEW h \in Handlers, Request(h) PROVE Left(p)' <= Left(p)
  <2>1. pc[h] = "idle"
    BY <1>3
    DEF Request, GetBannerFromRepo, GetMembers, CreateBanner, UpdateBanner, DeleteFromCache
  <2>2. p # h
    BY <2>1 DEF Left
  <2> QED
    BY <1>2, <1>3, <2>2, OwnRequest, OwnUntouched DEF Procs
<1>4. ASSUME NEW h \in Handlers, Serving(h) PROVE Left(p)' <= Left(p)
  BY <1>1, <1>2, <1>4, LeftServing, OwnServing, OwnUntouched DEF Procs
<1>5. ASSUME Refreshing PROVE Left(p)' <= Left(p)
  <2>1. CASE p # Refresher
    BY <1>2, <1>5, <2>1, OwnRefreshing, OwnUntouched DEF Procs
  <2>2. CASE p = Refresher
    <3>1. pc[p] # "wait"
      BY DEF Left
    <3> QED
      BY <1>1, <1>5, <2>2, <3>1, LeftRefreshing
  <2> QED
    BY <2>1, <2>2
<1>6. CASE Tick \/ Elsewhere \/ UNCHANGED vars
  BY <1>2, <1>6 DEF Tick, Elsewhere, vars, loopVars, Untouched
<1>7. CASE Crash
  <2>1. p # Refresher => pc'[p] = "idle"
    BY <1>7 DEF Crash
  <2>2. p # Refresher => Left(p)' = 0
    BY <2>1 DEF Left
  <2> QED
    BY <1>1, <1>7, <2>2
<1> QED
  BY <1>3, <1>4, <1>5, <1>6, <1>7 DEF Next

\* Every method, and every refresh, sends finitely many commands, no more than
\* it has left when it begins, whatever they return and whoever else is busy.
THEOREM CommandsRunOut == Spec => WorkRunsOut
<1> DEFINE A == /\ \A p \in Procs :
                      Left(p) > 0 => Left(p)' <= Left(p) \/ (p = Refresher /\ Crash)
                /\ \A h \in Handlers : Serving(h) => Left(h)' < Left(h)
                /\ Refreshing =>
                      pc[Refresher] = "wait" \/ Left(Refresher)' < Left(Refresher)
<1>1. TypeInv /\ TypeInv' /\ StaleInv /\ PlacesInv /\ PlacesInv' /\ [Next]_vars => A
  BY LeftNext, LeftServing, LeftRefreshing
<1>2. TypeInv /\ TypeInv' /\ StaleInv /\ PlacesInv /\ PlacesInv' /\ [Next]_vars => [A]_vars
  BY <1>1
<1>3. Spec => [][A]_vars
  BY <1>2, TypeInvariance, StaleInvariance, PlacesInvariance, PTL DEF Spec
<1> QED
  BY <1>3 DEF WorkRunsOut

=============================================================================
