---------------------------- MODULE ServerProofs ----------------------------
(***************************************************************************)
(* The server runs its services as they are specified: every behaviour of  *)
(* Server is one of BannerService and one of AuthService, so that what is  *)
(* proved of them holds of the whole; and what it adds to them: who writes *)
(* and who is shown what.                                                  *)
(***************************************************************************)
EXTENDS Server, BannerStoreProofs, ProgressProofs, AuthServiceProofs

\* A handler calls a method with arguments that the method expects.
FitsEndpoint(k) ==
    /\ k.client \in Clients
    /\ k.endpoint = "GET /user_banner" => k.args \in Requests
    /\ k.endpoint = "POST /banner" => k.args \in Inputs
    /\ k.endpoint = "PATCH /banner/{id}" =>
          k.args.id \in BannerIds /\ k.args.content \in Inputs
    /\ k.endpoint = "DELETE /banner/{id}" => k.args.id \in BannerIds

CallInv ==
    /\ DOMAIN call = Handlers
    /\ \A h \in Handlers : call[h] # NoCall => FitsEndpoint(call[h])

LEMMA HeadersTyped == \A c : Headers(c) \subseteq Tokens
  BY DEF Headers, Presentable, Tokens

\* Passing a request on, or answering it, keeps the other handlers' calls.
LEMMA PassFits ==
    ASSUME CallInv, NEW h \in Handlers, NEW e, NEW c, NEW t, NEW args,
           FitsEndpoint([endpoint |-> e, client |-> c, token |-> t, args |-> args]),
           Pass(h, e, c, t, args)
    PROVE  CallInv'
  BY DEF CallInv, Pass

LEMMA RespondFits ==
    ASSUME CallInv, NEW h \in Handlers, NEW status, Respond(h, status)
    PROVE  CallInv'
  BY DEF CallInv, Respond

LEMMA ReturnFits ==
    ASSUME CallInv, NEW h \in Handlers, Return(h)
    PROVE  CallInv'
  BY RespondFits DEF CallInv, Return

\* The handler of GET /user_banner completes a request for the service.
LEMMA UserBannerAsks ==
    ASSUME NEW h, NEW c, NEW t, GetUserBanner(h, c, t)
    PROVE  \E q \in Requests :
              q.admin = IsAdmin(t) /\ Pass(h, "GET /user_banner", c, t, q)
<1>1. PICK p \in UserBannerParams :
         Pass(h, "GET /user_banner", c, t,
              [feature |-> p.feature, tag |-> p.tag, admin |-> IsAdmin(t),
               useLast |-> p.useLast])
  BY DEF GetUserBanner
<1>2. [feature |-> p.feature, tag |-> p.tag, admin |-> IsAdmin(t),
       useLast |-> p.useLast] \in Requests
  BY DEF UserBannerParams, Requests, IsAdmin
<1> QED
  BY <1>1, <1>2

LEMMA ReceiveFits ==
    ASSUME CallInv, NEW h \in Handlers, ReceiveBannerRequest(h)
    PROVE  CallInv'
<1>1. ASSUME NEW c \in Clients, NEW t \in Headers(c), GetBanner(h, c, t)
      PROVE  CallInv'
  BY <1>1, PassFits DEF GetBanner, FitsEndpoint
<1>2. ASSUME NEW c \in Clients, NEW t \in Headers(c), PostBanner(h, c, t)
      PROVE  CallInv'
  BY <1>2, PassFits, ServerAssumption DEF PostBanner, FitsEndpoint
<1>3. ASSUME NEW c \in Clients, NEW t \in Headers(c), PatchBannerId(h, c, t)
      PROVE  CallInv'
  BY <1>3, PassFits, ServerAssumption DEF PatchBannerId, FitsEndpoint
<1>4. ASSUME NEW c \in Clients, NEW t \in Headers(c), DeleteBannerId(h, c, t)
      PROVE  CallInv'
  BY <1>4, PassFits DEF DeleteBannerId, FitsEndpoint
<1>5. ASSUME NEW c \in Clients, NEW t, GetUserBanner(h, c, t) PROVE CallInv'
  <2>1. PICK q \in Requests : Pass(h, "GET /user_banner", c, t, q)
    BY <1>5, UserBannerAsks
  <2> QED
    BY <2>1, PassFits DEF FitsEndpoint
<1> QED
  BY <1>1, <1>2, <1>3, <1>4, <1>5, RespondFits
  DEF ReceiveBannerRequest, Malformed, Unauthorised, Forbidden

\* A step that serves a request answers it or is a step of the service.
LEMMA ServingReturns ==
    ASSUME NEW h \in Handlers, ServeBannerRequest(h)
    PROVE  Return(h) \/ Respond(h, 200) \/ Respond(h, 500)
<1>1. CASE BeginCall(h)
  BY <1>1, Zenon DEF BeginCall
<1>2. CASE ContinueCall(h)
  BY <1>2, Zenon DEF ContinueCall
<1>3. CASE ListBanners(h)
  BY <1>3, Zenon DEF ListBanners
<1> QED
  BY <1>1, <1>2, <1>3, Zenon DEF ServeBannerRequest

LEMMA CallInvInit == ServerInit => CallInv
  BY DEF ServerInit, CallInv

LEMMA CallInvNext == CallInv /\ [ServerNext]_serverVars => CallInv'
<1> SUFFICES ASSUME CallInv, [ServerNext]_serverVars PROVE CallInv'
  OBVIOUS
<1>1. ASSUME NEW h \in Handlers, ServeBannerRequest(h) PROVE CallInv'
  BY <1>1, ServingReturns, ReturnFits, RespondFits
<1>2. ASSUME NEW h \in Handlers, PostAuth(h) PROVE CallInv'
  BY <1>2, RespondFits DEF PostAuth, Malformed
<1>3. ASSUME NEW h \in Handlers, PostUser(h) PROVE CallInv'
  <2>1. ASSUME NEW c \in Clients, NEW t, Pass(h, "POST /user", c, t, Absent)
        PROVE  CallInv'
    BY <2>1, PassFits DEF FitsEndpoint
  <2> QED
    BY <1>3, <2>1, RespondFits DEF PostUser, Malformed
<1>4. ASSUME NEW h \in Handlers, FinishPostUser(h) PROVE CallInv'
  BY <1>4, RespondFits DEF FinishPostUser
<1>5. CASE ServerRefreshing \/ ServerTick \/ UNCHANGED serverVars
  BY <1>5 DEF ServerRefreshing, ServerTick, serverVars, CallInv
<1>6. CASE ServerCrash
  BY <1>6 DEF ServerCrash, CallInv
<1> QED
  BY <1>1, <1>2, <1>3, <1>4, <1>5, <1>6, ReceiveFits DEF ServerNext

LEMMA CallInvariance == ServerSpec => []CallInv
  BY CallInvInit, CallInvNext, PTL DEF ServerSpec

(***************************************************************************)
(* Each step of the server is a step of each service, or none.             *)
(***************************************************************************)

LEMMA ServiceStep == CallInv /\ [ServerNext]_serverVars => [Next]_vars
<1> SUFFICES ASSUME CallInv, [ServerNext]_serverVars PROVE [Next]_vars
  OBVIOUS
<1>1. ASSUME NEW h \in Handlers, ServeBannerRequest(h) PROVE [Next]_vars
  <2>1. call[h] # NoCall /\ FitsEndpoint(call[h])
    BY <1>1 DEF ServeBannerRequest, CallInv
  <2>2. CASE BeginCall(h)
    <3>1. Request(h)
      BY <2>1, <2>2 DEF BeginCall, FitsEndpoint, Request
    <3> QED
      BY <3>1 DEF Next
  <2>3. CASE ContinueCall(h)
    BY <2>3 DEF ContinueCall, Next
  <2>4. CASE ListBanners(h)
    BY <2>4 DEF ListBanners, Next
  <2> QED
    BY <1>1, <2>2, <2>3, <2>4 DEF ServeBannerRequest
<1>2. ASSUME Elsewhere PROVE [Next]_vars
  BY <1>2 DEF Next
<1>3. CASE ServerRefreshing \/ ServerTick \/ ServerCrash
  BY <1>3 DEF ServerRefreshing, ServerTick, ServerCrash, Next
<1>4. CASE UNCHANGED serverVars
  BY <1>4 DEF serverVars
<1> QED
  BY <1>1, <1>2, <1>3, <1>4
  DEF ServerNext, ReceiveBannerRequest, PostAuth, PostUser, FinishPostUser

LEMMA AuthStep == [ServerNext]_serverVars => [AuthNext]_authVars
<1> SUFFICES ASSUME [ServerNext]_serverVars PROVE [AuthNext]_authVars
  OBVIOUS
<1>1. ASSUME NEW h \in Handlers, PostAuth(h) PROVE [AuthNext]_authVars
  BY <1>1 DEF PostAuth, AuthNext
<1>2. ASSUME NEW h \in Handlers, PostUser(h) PROVE [AuthNext]_authVars
  <2>1. ASSUME NEW c \in Clients, NEW n \in Names, NEW r \in Roles,
               NEW t \in Presentable(c),
               \/ CreateUser(h, c, n, r, t, "pending")
               \/ CreateUser(h, c, n, r, t, "error")
        PROVE  AuthNext
    BY <2>1 DEF AuthNext
  <2> QED
    BY <1>2, <2>1 DEF PostUser
<1>3. ASSUME NEW h \in Handlers, FinishPostUser(h) PROVE [AuthNext]_authVars
  BY <1>3 DEF FinishPostUser, AuthNext
<1>4. CASE ServerTick \/ ServerCrash
  BY <1>4 DEF ServerTick, ServerCrash, AuthNext
<1>5. CASE UNCHANGED serverVars
  BY <1>5 DEF serverVars
<1> QED
  BY <1>1, <1>2, <1>3, <1>4, <1>5
  DEF ServerNext, ReceiveBannerRequest, ServeBannerRequest, ServerRefreshing

\* The server uses BannerService as it is specified: with the arguments it
\* expects, one method at a time in each handler, beside the refresher.
THEOREM ServerRunsBannerService == ServerSpec => Spec
<1>1. ServerInit => Init
  BY DEF ServerInit
<1> QED
  BY <1>1, CallInvariance, ServiceStep, PTL DEF ServerSpec, Spec

\* It uses AuthService as that is specified.
THEOREM ServerRunsAuthService == ServerSpec => AuthSpec
<1>1. ServerInit => AuthInit
  BY DEF ServerInit
<1> QED
  BY <1>1, AuthStep, PTL DEF ServerSpec, AuthSpec

\* What clients of the API are served is bounded in age.
THEOREM ServerServesBounded == ServerSpec => []ServedStaleness
  BY ServerRunsBannerService, ServedIsBounded, PTL

\* No sequence of API calls makes an admin of anybody but the operator.
THEOREM ServerAdminsFromAdmins == ServerSpec => []NoEscalation
  BY ServerRunsAuthService, AdminsFromAdmins, PTL

(***************************************************************************)
(* Only admins write.  A write is made steps after the token was checked,  *)
(* so the invariant says whose call a handler is in, and in which call a   *)
(* handler is that has yet to delete a row.                                *)
(***************************************************************************)

Writing == {"POST /banner", "PATCH /banner/{id}", "DELETE /banner/{id}"}

\* Calls that write are the operator's, let in with an admin's token.
WriterInv ==
    \A h \in Handlers :
        call[h] # NoCall /\ call[h].endpoint \in Writing
            => call[h].client = Operator /\ IsAdmin(call[h].token)

\* A handler inside a service's method is in a call of that method.
InCallInv ==
    \A h \in Handlers :
        /\ pc[h] # "idle" =>
              /\ call[h] # NoCall
              /\ call[h].endpoint \in {"POST /banner", "DELETE /banner/{id}",
                                       "GET /user_banner"}
        /\ pc[h] = "delete" => call[h].endpoint = "DELETE /banner/{id}"
        /\ signup[h] # NoSignup =>
              call[h] # NoCall /\ call[h].endpoint = "POST /user"

\* What is known of a state by the theorems above.
Known == TypeInv /\ AuthTypeOK /\ NoEscalation /\ CallInv

LEMMA KnownInvariance == ServerSpec => []Known
  BY ServerRunsBannerService, ServerRunsAuthService, TypeInvariance,
     AuthTypeCorrectness, AdminsFromAdmins, CallInvariance, PTL DEF Known

LEMMA AdmittedIsOperator ==
    ASSUME Known, NEW c \in Clients, NEW t \in Headers(c), Admitted(t)
    PROVE  c = Operator
<1>1. t \in Presentable(c) /\ IsAdmin(t)
  BY DEF Admitted, Authorised, Headers
<1> QED
  BY <1>1, AdminIsOperator DEF Known

LEMMA PassKeepsWriters ==
    ASSUME CallInv, WriterInv, NEW h \in Handlers, NEW e, NEW c, NEW t, NEW args,
           Pass(h, e, c, t, args), e \in Writing => c = Operator /\ IsAdmin(t)
    PROVE  WriterInv'
  BY DEF CallInv, WriterInv, Pass

LEMMA RespondKeepsWriters ==
    ASSUME CallInv, WriterInv, NEW h \in Handlers, NEW status, Respond(h, status)
    PROVE  WriterInv'
  BY DEF CallInv, WriterInv, Respond

LEMMA ReceiveKeepsWriters ==
    ASSUME Known, WriterInv, NEW h \in Handlers, ReceiveBannerRequest(h)
    PROVE  WriterInv'
<1> USE DEF Known
<1>1. ASSUME NEW c \in Clients, NEW t \in Headers(c), Admitted(t),
             \/ GetBanner(h, c, t) \/ PostBanner(h, c, t)
             \/ PatchBannerId(h, c, t) \/ DeleteBannerId(h, c, t)
      PROVE  WriterInv'
  <2>1. PICK e, args : Pass(h, e, c, t, args)
    BY <1>1 DEF GetBanner, PostBanner, PatchBannerId, DeleteBannerId
  <2>2. c = Operator /\ IsAdmin(t)
    BY <1>1, AdmittedIsOperator DEF Admitted
  <2> QED
    BY <2>1, <2>2, PassKeepsWriters
<1>2. ASSUME NEW c \in Clients, NEW t, GetUserBanner(h, c, t) PROVE WriterInv'
  BY <1>2, UserBannerAsks, PassKeepsWriters DEF Writing
<1> QED
  BY <1>1, <1>2, RespondKeepsWriters
  DEF ReceiveBannerRequest, Malformed, Unauthorised, Forbidden

LEMMA WriterNext == Known /\ WriterInv /\ [ServerNext]_serverVars => WriterInv'
<1> SUFFICES ASSUME Known, WriterInv, [ServerNext]_serverVars PROVE WriterInv'
  OBVIOUS
<1> USE DEF Known
<1>1. ASSUME NEW h \in Handlers, ServeBannerRequest(h) PROVE WriterInv'
  <2>1. CASE Return(h)
    BY <2>1, RespondKeepsWriters DEF Return, WriterInv
  <2> QED
    BY <1>1, <2>1, ServingReturns, RespondKeepsWriters
<1>2. ASSUME NEW h \in Handlers, PostAuth(h) PROVE WriterInv'
  BY <1>2, RespondKeepsWriters DEF PostAuth, Malformed
<1>3. ASSUME NEW h \in Handlers, PostUser(h) PROVE WriterInv'
  <2>1. ASSUME NEW c \in Clients, NEW t, Pass(h, "POST /user", c, t, Absent)
        PROVE  WriterInv'
    BY <2>1, PassKeepsWriters DEF Writing
  <2> QED
    BY <1>3, <2>1, RespondKeepsWriters DEF PostUser, Malformed
<1>4. ASSUME NEW h \in Handlers, FinishPostUser(h) PROVE WriterInv'
  BY <1>4, RespondKeepsWriters DEF FinishPostUser
<1>5. CASE ServerRefreshing \/ ServerTick \/ UNCHANGED serverVars
  BY <1>5 DEF ServerRefreshing, ServerTick, serverVars, WriterInv
<1>6. CASE ServerCrash
  BY <1>6 DEF ServerCrash, WriterInv
<1> QED
  BY <1>1, <1>2, <1>3, <1>4, <1>5, <1>6, ReceiveKeepsWriters DEF ServerNext

\* A step of BannerService in handler h either returns to h, which is idle
\* then, or moves h alone to another command.
MovesOnly(h, labels) ==
    \E l \in labels : /\ pc' = [pc EXCEPT ![h] = l]
                      /\ out' # NoReply => l = "idle"

LEMMA ReplyMoves ==
    ASSUME NEW h, NEW r, Reply(h, r)
    PROVE  MovesOnly(h, {"idle"})
  BY DEF Reply, MovesOnly

LEMMA GotoMoves ==
    ASSUME NEW h, NEW l, Goto(h, l)
    PROVE  MovesOnly(h, {l})
  BY DEF Goto, MovesOnly

LEMMA CachingMoves ==
    ASSUME NEW h \in Handlers, Caching(h)
    PROVE  MovesOnly(h, {"idle", "set", "sadd"})
<1>1. h # Refresher
  BY ServiceAssumption
<1>2. PICK b : CachedRow(h, b) \/ StopCaching(h) \/ Goto(h, "sadd")
  BY DEF Caching, CacheSet, CacheSAdd
<1>3. CASE StopCaching(h)
  <2>1. PICK r : Reply(h, r)
    BY <1>1, <1>3 DEF StopCaching
  <2> QED
    BY <2>1, ReplyMoves DEF MovesOnly
<1>4. CASE Goto(h, "set") \/ Goto(h, "sadd")
  BY <1>4, GotoMoves DEF MovesOnly
<1> QED
  BY <1>2, <1>3, <1>4 DEF CachedRow

LEMMA ServingMoves ==
    ASSUME NEW h \in Handlers, Serving(h)
    PROVE  MovesOnly(h, {"idle", "get", "query", "set", "sadd"})
<1>1. CASE GetEntry(h)
  <2>1. \/ \E r : Reply(h, r)
        \/ Goto(h, "get")
        \/ Goto(h, "query")
    BY <1>1 DEF GetEntry, Hit, Miss
  <2> QED
    BY <2>1, ReplyMoves, GotoMoves DEF MovesOnly
<1>2. CASE GetBannerAfterMiss(h) \/ DeleteFromRepo(h)
  <2>1. \E r : Reply(h, r)
    BY <1>2 DEF GetBannerAfterMiss, QueryRepo, DeleteFromRepo
  <2> QED
    BY <2>1, ReplyMoves DEF MovesOnly
<1>3. CASE Caching(h)
  BY <1>3, CachingMoves DEF MovesOnly
<1> QED
  BY <1>1, <1>2, <1>3 DEF Serving

LEMMA RefreshingMoves ==
    ASSUME Refreshing
    PROVE  \A h \in Handlers : pc'[h] = pc[h]
<1>1. \E l : Goto(Refresher, l)
  BY DEF Refreshing, RefreshRead, NextRefresh, Caching, CacheSet, CacheSAdd,
         CachedRow, StopCaching
<1> QED
  BY <1>1, ServiceAssumption DEF Goto

\* What a call of each endpoint begins with.
LEMMA BeginCallMoves ==
    ASSUME NEW h \in Handlers, BeginCall(h)
    PROVE  /\ call[h].endpoint \in {"GET /user_banner", "POST /banner",
                                    "PATCH /banner/{id}", "DELETE /banner/{id}"}
           /\ call[h].endpoint = "GET /user_banner" =>
                 MovesOnly(h, {"idle", "get", "query"})
           /\ call[h].endpoint = "POST /banner" => MovesOnly(h, {"idle", "set"})
           /\ call[h].endpoint = "PATCH /banner/{id}" => MovesOnly(h, {"idle"})
           /\ call[h].endpoint = "DELETE /banner/{id}" => MovesOnly(h, {"delete"})
<1>1. ASSUME NEW q, GetBannerFromRepo(h, q) \/ GetMembers(h, q)
      PROVE  MovesOnly(h, {"idle", "get", "query"})
  <2>1. \/ \E r : Reply(h, r)
        \/ Goto(h, "get")
        \/ Goto(h, "query")
    BY <1>1 DEF GetBannerFromRepo, QueryRepo, GetMembers, Loop
  <2> QED
    BY <2>1, ReplyMoves, GotoMoves DEF MovesOnly
<1>2. ASSUME NEW c, CreateBanner(h, c) PROVE MovesOnly(h, {"idle", "set"})
  <2>1. (\E r : Reply(h, r)) \/ Goto(h, "set")
    BY <1>2 DEF CreateBanner
  <2> QED
    BY <2>1, ReplyMoves, GotoMoves DEF MovesOnly
<1>3. ASSUME NEW id, NEW c, UpdateBanner(h, id, c) PROVE MovesOnly(h, {"idle"})
  BY <1>3, ReplyMoves DEF UpdateBanner
<1>4. ASSUME NEW id, DeleteFromCache(h, id) PROVE MovesOnly(h, {"delete"})
  BY <1>4, GotoMoves DEF DeleteFromCache
<1> QED
  BY <1>1, <1>2, <1>3, <1>4 DEF BeginCall

LEMMA OthersStayInCall ==
    ASSUME CallInv, NEW h \in Handlers,
           \/ \E status : Respond(h, status)
           \/ \E e, c, t, args : Pass(h, e, c, t, args)
    PROVE  \A g \in Handlers : g # h => call'[g] = call[g]
  BY DEF CallInv, Respond, Pass

LEMMA ServeKeepsInCall ==
    ASSUME Known, InCallInv, NEW h \in Handlers, ServeBannerRequest(h)
    PROVE  InCallInv'
<1>1. /\ call[h] # NoCall
      /\ UNCHANGED signup
      /\ DOMAIN call = Handlers
      /\ pc \in [Procs -> {"idle", "get", "query", "delete", "select", "wait",
                           "set", "sadd"}]
      /\ h \in Procs
  BY DEF ServeBannerRequest, authVars, Known, CallInv, TypeInv, LocalInv, Procs
<1>2. ASSUME NEW labels,
             \A l \in labels :
                l # "idle" => call[h].endpoint \in {"POST /banner",
                                 "DELETE /banner/{id}", "GET /user_banner"},
             "delete" \in labels => call[h].endpoint = "DELETE /banner/{id}",
             MovesOnly(h, labels), Return(h), signup[h] = NoSignup
      PROVE  InCallInv'
  <2>1. PICK l \in labels : /\ pc' = [pc EXCEPT ![h] = l]
                            /\ out' # NoReply => l = "idle"
    BY <1>2 DEF MovesOnly
  <2>2. \A g \in Handlers : g # h => pc'[g] = pc[g] /\ call'[g] = call[g]
    BY <1>1, <1>2, <2>1 DEF Return, Respond, Procs
  <2>3. pc'[h] = l
    BY <1>1, <2>1
  <2>4. l # "idle" => call' = call
    BY <1>2, <2>1 DEF Return
  <2>5. \A g \in Handlers : signup'[g] = signup[g]
    BY <1>1
  <2>6. SUFFICES ASSUME NEW g \in Handlers
        PROVE  /\ pc'[g] # "idle" =>
                     /\ call'[g] # NoCall
                     /\ call'[g].endpoint \in {"POST /banner", "DELETE /banner/{id}",
                                               "GET /user_banner"}
               /\ pc'[g] = "delete" => call'[g].endpoint = "DELETE /banner/{id}"
               /\ signup'[g] # NoSignup =>
                     call'[g] # NoCall /\ call'[g].endpoint = "POST /user"
    BY DEF InCallInv
  <2>7. CASE g # h
    BY <2>2, <2>5, <2>7 DEF InCallInv
  <2>8. CASE g = h
    BY <1>1, <1>2, <2>1, <2>3, <2>4, <2>5, <2>8
  <2> QED
    BY <2>7, <2>8
<1>3. CASE BeginCall(h)
  <2>1. Return(h)
    BY <1>3 DEF BeginCall
  <2>2. signup[h] = NoSignup
    BY <1>3, BeginCallMoves DEF InCallInv
  <2>3. CASE call[h].endpoint = "GET /user_banner"
    BY <1>2, <1>3, <2>1, <2>2, <2>3, BeginCallMoves
  <2>4. CASE call[h].endpoint = "POST /banner"
    BY <1>2, <1>3, <2>1, <2>2, <2>4, BeginCallMoves
  <2>5. CASE call[h].endpoint = "PATCH /banner/{id}"
    BY <1>2, <1>3, <2>1, <2>2, <2>5, BeginCallMoves
  <2>6. CASE call[h].endpoint = "DELETE /banner/{id}"
    BY <1>2, <1>3, <2>1, <2>2, <2>6, BeginCallMoves
  <2> QED
    BY <1>3, <2>3, <2>4, <2>5, <2>6, BeginCallMoves
<1>4. CASE ContinueCall(h)
  <2>1. pc[h] # "idle"
    BY <1>4 DEF ContinueCall, Serving, GetEntry, GetBannerAfterMiss,
                DeleteFromRepo, Caching, CacheSet, CacheSAdd
  <2>2. /\ call[h].endpoint \in {"POST /banner", "DELETE /banner/{id}",
                                 "GET /user_banner"}
        /\ signup[h] = NoSignup
    BY <2>1 DEF InCallInv
  <2> QED
    BY <1>2, <1>4, <2>2, ServingMoves DEF ContinueCall
<1>5. CASE ListBanners(h)
  <2>1. pc[h] = "idle" /\ signup[h] = NoSignup
    BY <1>5 DEF ListBanners, InCallInv
  <2>2. UNCHANGED <<pc, signup>>
    BY <1>1, <1>5 DEF ListBanners, Elsewhere
  <2>3. \A g \in Handlers : g # h => call'[g] = call[g]
    <3>1. \E status : Respond(h, status)
      BY <1>5 DEF ListBanners
    <3> QED
      BY <3>1, OthersStayInCall DEF Known
  <2> QED
    BY <2>1, <2>2, <2>3 DEF InCallInv
<1> QED
  BY <1>3, <1>4, <1>5 DEF ServeBannerRequest

\* Steps that only receive or answer requests, in an idle handler.
LEMMA IdleKeepsInCall ==
    ASSUME Known, InCallInv, NEW h \in Handlers, call[h] = NoCall,
           UNCHANGED <<pc, signup>>,
           \A g \in Handlers : g # h => call'[g] = call[g]
    PROVE  InCallInv'
<1>1. pc[h] = "idle" /\ signup[h] = NoSignup
  BY DEF InCallInv
<1> QED
  BY <1>1 DEF InCallInv

LEMMA PassSignup ==
    ASSUME CallInv, NEW h \in Handlers, NEW c \in Clients, NEW t \in Tokens,
           Pass(h, "POST /user", c, t, Absent)
    PROVE  call'[h] # NoCall /\ call'[h].endpoint = "POST /user"
<1> DEFINE k == [endpoint |-> "POST /user", client |-> c, token |-> t, args |-> Absent]
<1>1. call'[h] = k
  BY DEF CallInv, Pass
<1>2. k \in Calls
  <2>1. "POST /user" \in Endpoints /\ Absent \in Args
    BY DEF Endpoints, Args
  <2> QED
    BY <2>1 DEF Calls
<1>3. k.endpoint = "POST /user"
  OBVIOUS
<1> HIDE DEF k
<1> QED
  BY <1>1, <1>2, <1>3, ServerAssumption

LEMMA InCallNext == Known /\ InCallInv /\ [ServerNext]_serverVars => InCallInv'
<1> SUFFICES ASSUME Known, InCallInv, [ServerNext]_serverVars PROVE InCallInv'
  OBVIOUS
<1>1. ASSUME NEW h \in Handlers, ReceiveBannerRequest(h) PROVE InCallInv'
  <2>1. \/ \E status : Respond(h, status)
        \/ \E e, c, t, args : Pass(h, e, c, t, args)
    BY <1>1 DEF ReceiveBannerRequest, Malformed, Unauthorised, Forbidden, GetBanner,
                PostBanner, PatchBannerId, DeleteBannerId, GetUserBanner
  <2> QED
    BY <1>1, <2>1, OthersStayInCall, IdleKeepsInCall
    DEF ReceiveBannerRequest, Elsewhere, authVars, Known
<1>2. ASSUME NEW h \in Handlers, PostAuth(h) PROVE InCallInv'
  <2>1. (\E status : Respond(h, status)) /\ UNCHANGED signup
    BY <1>2 DEF PostAuth, Malformed, Login, authVars
  <2> QED
    BY <1>2, <2>1, OthersStayInCall, IdleKeepsInCall DEF PostAuth, Elsewhere, Known
<1>3. ASSUME NEW h \in Handlers, PostUser(h) PROVE InCallInv'
  <2>1. CASE UNCHANGED signup /\ \E status : Respond(h, status)
    BY <1>3, <2>1, OthersStayInCall, IdleKeepsInCall DEF PostUser, Elsewhere, Known
  <2>2. ASSUME NEW c \in Clients, NEW n \in Names, NEW r \in Roles,
               NEW t \in Presentable(c), CreateUser(h, c, n, r, t, "pending"),
               Pass(h, "POST /user", c, t, Absent)
        PROVE  InCallInv'
    <3>0. t \in Tokens
      BY HeadersTyped DEF Headers
    <3>1. \A g \in Handlers : g # h => signup'[g] = signup[g]
      BY <2>2 DEF Known, AuthTypeOK, CreateUser
    <3>2. \A g \in Handlers : g # h => call'[g] = call[g]
      BY <2>2, OthersStayInCall DEF Known
    <3>3. call'[h] # NoCall /\ call'[h].endpoint = "POST /user"
      BY <2>2, <3>0, PassSignup DEF Known
    <3>4. pc' = pc /\ pc[h] = "idle"
      BY <1>3 DEF PostUser, Elsewhere, InCallInv
    <3>5. SUFFICES ASSUME NEW g \in Handlers
          PROVE  /\ pc'[g] # "idle" =>
                       /\ call'[g] # NoCall
                       /\ call'[g].endpoint \in {"POST /banner", "DELETE /banner/{id}",
                                                 "GET /user_banner"}
                 /\ pc'[g] = "delete" => call'[g].endpoint = "DELETE /banner/{id}"
                 /\ signup'[g] # NoSignup =>
                       call'[g] # NoCall /\ call'[g].endpoint = "POST /user"
      BY DEF InCallInv
    <3>6. CASE g # h
      BY <3>1, <3>2, <3>4, <3>6 DEF InCallInv
    <3>7. CASE g = h
      BY <3>3, <3>4, <3>7
    <3> QED
      BY <3>6, <3>7
  <2> QED
    BY <1>3, <2>1, <2>2, ZenonT(40) DEF PostUser, Malformed, CreateUser, authVars
<1>4. ASSUME NEW h \in Handlers, FinishPostUser(h) PROVE InCallInv'
  <2>1. /\ \E status : Respond(h, status)
        /\ signup[h] # NoSignup
        /\ signup' = [signup EXCEPT ![h] = NoSignup]
    BY <1>4 DEF FinishPostUser, InsertUser
  <2>2. pc' = pc /\ pc[h] = "idle"
    BY <1>4, <2>1 DEF FinishPostUser, Elsewhere, InCallInv
  <2>3. /\ \A g \in Handlers : g # h => call'[g] = call[g] /\ signup'[g] = signup[g]
        /\ signup'[h] = NoSignup
    BY <2>1, OthersStayInCall DEF Known, AuthTypeOK
  <2> QED
    BY <2>2, <2>3 DEF InCallInv
<1>5. CASE ServerRefreshing
  BY <1>5, RefreshingMoves DEF ServerRefreshing, authVars, InCallInv
<1>6. CASE ServerTick
  BY <1>6 DEF ServerTick, Tick, TokensExpire, InCallInv
<1>7. CASE ServerCrash
  <2>1. \A g \in Handlers : pc'[g] = "idle" /\ signup'[g] = NoSignup
    BY <1>7, ServiceAssumption DEF ServerCrash, Crash, AuthCrash, Procs
  <2> QED
    BY <2>1 DEF InCallInv
<1>8. CASE UNCHANGED serverVars
  BY <1>8 DEF serverVars, vars, authVars, InCallInv
<1> QED
  BY <1>1, <1>2, <1>3, <1>4, <1>5, <1>6, <1>7, <1>8, ServeKeepsInCall DEF ServerNext

LEMMA WriterInvariance == ServerSpec => [](Known /\ WriterInv /\ InCallInv)
<1>1. ServerInit => WriterInv /\ InCallInv
  <2>1. ASSUME ServerInit, NEW h \in Handlers
        PROVE  call[h] = NoCall /\ pc[h] = "idle" /\ signup[h] = NoSignup
    BY <2>1, ServiceAssumption DEF ServerInit, Init, AuthInit, Procs
  <2> QED
    BY <2>1 DEF WriterInv, InCallInv
<1> QED
  BY <1>1, KnownInvariance, WriterNext, InCallNext, PTL DEF ServerSpec

(***************************************************************************)
(* Types.  What a handler is called with fits its endpoint, and what the   *)
(* service returns has a status.                                           *)
(***************************************************************************)

CallTypeOK == call \in [Handlers -> Calls \cup {NoCall}]

LEMMA PassTyped ==
    ASSUME CallTypeOK, NEW h \in Handlers, NEW e \in Endpoints, NEW c \in Clients,
           NEW t \in Tokens, NEW args \in Args, Pass(h, e, c, t, args)
    PROVE  CallTypeOK' /\ response' = NoResponse
<1>1. [endpoint |-> e, client |-> c, token |-> t, args |-> args] \in Calls
  BY DEF Calls
<1> QED
  BY <1>1 DEF CallTypeOK, Pass

LEMMA RespondTyped ==
    ASSUME CallTypeOK, NEW h \in Handlers, NEW status \in Statuses, Respond(h, status)
    PROVE  CallTypeOK' /\ response' \in Statuses
  BY DEF CallTypeOK, Respond

LEMMA StatusTyped ==
    ASSUME NEW r \in Replies, r # NoReply
    PROVE  StatusOf(r) \in Statuses
<1>1. r.kind \in {"banners", "created", "updated", "deleted", "notFound", "error"}
  BY DEF Replies
<1> QED
  BY <1>1 DEF StatusOf, Statuses

ServerTypeInv == CallTypeOK /\ response \in Statuses \cup {NoResponse}

LEMMA ReceiveTyped ==
    ASSUME CallTypeOK, NEW h \in Handlers, ReceiveBannerRequest(h)
    PROVE  ServerTypeInv'
<1>0. ASSUME NEW c \in Clients, NEW t \in Headers(c) PROVE t \in Tokens
  BY <1>0, HeadersTyped
<1>1. ASSUME NEW c \in Clients, NEW t \in Headers(c), GetBanner(h, c, t)
      PROVE  ServerTypeInv'
  BY <1>0, <1>1, PassTyped DEF GetBanner, Endpoints, Args, ServerTypeInv
<1>2. ASSUME NEW c \in Clients, NEW t \in Headers(c), PostBanner(h, c, t)
      PROVE  ServerTypeInv'
  <2>1. PICK b \in Bodies : Pass(h, "POST /banner", c, t, FromBody(b))
    BY <1>2 DEF PostBanner
  <2>2. FromBody(b) \in Args /\ "POST /banner" \in Endpoints
    BY ServerAssumption DEF Args, Endpoints
  <2> QED
    BY <1>0, <2>1, <2>2, PassTyped DEF ServerTypeInv
<1>3. ASSUME NEW c \in Clients, NEW t \in Headers(c), PatchBannerId(h, c, t)
      PROVE  ServerTypeInv'
  <2>1. PICK id \in BannerIds, b \in Bodies :
          Pass(h, "PATCH /banner/{id}", c, t, [id |-> id, content |-> FromBody(b)])
    BY <1>3 DEF PatchBannerId
  <2>2. [id |-> id, content |-> FromBody(b)] \in Args
    BY ServerAssumption DEF Args
  <2>3. "PATCH /banner/{id}" \in Endpoints
    BY DEF Endpoints
  <2> QED
    BY <1>0, <2>1, <2>2, <2>3, PassTyped DEF ServerTypeInv
<1>4. ASSUME NEW c \in Clients, NEW t \in Headers(c), DeleteBannerId(h, c, t)
      PROVE  ServerTypeInv'
  <2>1. PICK id \in BannerIds : Pass(h, "DELETE /banner/{id}", c, t, [id |-> id])
    BY <1>4 DEF DeleteBannerId
  <2>2. [id |-> id] \in Args /\ "DELETE /banner/{id}" \in Endpoints
    BY DEF Args, Endpoints
  <2> QED
    BY <1>0, <2>1, <2>2, PassTyped DEF ServerTypeInv
<1>5. ASSUME NEW c \in Clients, NEW t \in Headers(c), GetUserBanner(h, c, t)
      PROVE  ServerTypeInv'
  <2>1. PICK q \in Requests : Pass(h, "GET /user_banner", c, t, q)
    BY <1>5, UserBannerAsks
  <2>2. q \in Args /\ "GET /user_banner" \in Endpoints
    BY DEF Args, Endpoints
  <2> QED
    BY <1>0, <2>1, <2>2, PassTyped DEF ServerTypeInv
<1>6. ASSUME NEW status \in {400, 401, 403}, Respond(h, status) PROVE ServerTypeInv'
  BY <1>6, RespondTyped DEF Statuses, ServerTypeInv
<1> QED
  BY <1>1, <1>2, <1>3, <1>4, <1>5, <1>6
  DEF ReceiveBannerRequest, Malformed, Unauthorised, Forbidden

LEMMA ServerTypeNext ==
    TypeInv' /\ ServerTypeInv /\ [ServerNext]_serverVars => ServerTypeInv'
<1> SUFFICES ASSUME TypeInv', ServerTypeInv, [ServerNext]_serverVars
             PROVE  ServerTypeInv'
  OBVIOUS
<1> USE DEF ServerTypeInv
<1>1. ASSUME NEW h \in Handlers, NEW status \in Statuses, Respond(h, status)
      PROVE  ServerTypeInv'
  BY <1>1, RespondTyped
<1>2. ASSUME NEW h \in Handlers, Return(h) PROVE ServerTypeInv'
  <2>1. CASE out' = NoReply
    BY <1>2, <2>1 DEF Return, CallTypeOK
  <2>2. CASE out' # NoReply
    <3>1. StatusOf(out') \in Statuses
      BY <2>2, StatusTyped DEF TypeInv, LocalInv
    <3> QED
      BY <1>1, <1>2, <2>2, <3>1 DEF Return
  <2> QED
    BY <2>1, <2>2
<1>3. ASSUME NEW h \in Handlers, ServeBannerRequest(h) PROVE ServerTypeInv'
  <2>1. CASE BeginCall(h) \/ ContinueCall(h)
    BY <1>2, <2>1 DEF BeginCall, ContinueCall
  <2>2. CASE ListBanners(h)
    <3>1. Respond(h, 200) \/ Respond(h, 500)
      BY <2>2 DEF ListBanners
    <3>2. {200, 500} \subseteq Statuses
      BY DEF Statuses
    <3> QED
      BY <1>1, <3>1, <3>2, ZenonT(30)
  <2> QED
    BY <1>3, <2>1, <2>2 DEF ServeBannerRequest
<1>4. ASSUME NEW h \in Handlers, PostAuth(h) PROVE ServerTypeInv'
  BY <1>1, <1>4 DEF PostAuth, Malformed, Statuses
<1>5. ASSUME NEW h \in Handlers, PostUser(h) PROVE ServerTypeInv'
  <2>1. ASSUME NEW c \in Clients, NEW t \in Presentable(c),
               Pass(h, "POST /user", c, t, Absent)
        PROVE  ServerTypeInv'
    <3>1. t \in Tokens
      BY HeadersTyped DEF Headers
    <3> QED
      BY <2>1, <3>1, PassTyped DEF Endpoints, Args
  <2>2. \/ Respond(h, 400) \/ Respond(h, 401)
        \/ \E c \in Clients : \E t \in Presentable(c) :
              Pass(h, "POST /user", c, t, Absent)
    BY <1>5, Zenon DEF PostUser, Malformed
  <2>3. {400, 401} \subseteq Statuses
    BY DEF Statuses
  <2> QED
    BY <1>1, <2>1, <2>2, <2>3, ZenonT(30)
<1>6. ASSUME NEW h \in Handlers, FinishPostUser(h) PROVE ServerTypeInv'
  BY <1>1, <1>6 DEF FinishPostUser, Statuses
<1>7. CASE ServerRefreshing \/ ServerTick \/ UNCHANGED serverVars
  BY <1>7 DEF ServerRefreshing, ServerTick, serverVars, CallTypeOK
<1>8. CASE ServerCrash
  BY <1>8 DEF ServerCrash, CallTypeOK
<1> QED
  BY <1>3, <1>4, <1>5, <1>6, <1>7, <1>8, ReceiveTyped DEF ServerNext

\* Every variable of the server and of its services keeps its type, and a
\* handler is inside a service only in a call.
THEOREM ServerTypeCorrectness == ServerSpec => []ServerTypeOK
<1>1. ServerInit => ServerTypeInv
  BY DEF ServerInit, ServerTypeInv, CallTypeOK
<1>2. TypeInv => TypeOK
  BY DEF TypeInv, LocalInv, TypeOK
<1>3. Known /\ InCallInv /\ TypeOK /\ ServerTypeInv => ServerTypeOK
  BY DEF Known, InCallInv, ServerTypeInv, CallTypeOK, ServerTypeOK, CallOK
<1>4. ServerSpec => []TypeInv
  BY ServerRunsBannerService, TypeInvariance, PTL
<1>5. ServerSpec => []ServerTypeInv
  BY <1>1, <1>4, ServerTypeNext, PTL DEF ServerSpec
<1> QED
  BY <1>2, <1>3, <1>4, <1>5, WriterInvariance, PTL

(***************************************************************************)
(* What is asked and what is done.  The role of the token decides what the *)
(* service is asked for, and what it was asked is what it answers, and the *)
(* banner it was asked to delete the one it deletes.                       *)
(***************************************************************************)

\* Only the operator's calls ask as an admin.
RoleInv ==
    \A h \in Handlers :
        /\ call[h] # NoCall
        /\ call[h].endpoint = "GET /user_banner"
        /\ call[h].client # Operator
        => ~call[h].args.admin

\* A handler on its way to a banner is in the call that asked for it, and one
\* about to delete a row in the call that asked for that.
AskingInv ==
    \A h \in Handlers :
        /\ pc[h] \in {"get", "query"} =>
              call[h].endpoint = "GET /user_banner" /\ req[h] = call[h].args
        /\ pc[h] = "delete" => target[h] = call[h].args.id

LEMMA PassKeepsRoles ==
    ASSUME CallInv, RoleInv, NEW h \in Handlers, NEW e, NEW c, NEW t, NEW args,
           Pass(h, e, c, t, args),
           e = "GET /user_banner" /\ c # Operator => ~args.admin
    PROVE  RoleInv'
  BY DEF CallInv, RoleInv, Pass

LEMMA RespondKeepsRoles ==
    ASSUME CallInv, RoleInv, NEW h \in Handlers, NEW status, Respond(h, status)
    PROVE  RoleInv'
  BY DEF CallInv, RoleInv, Respond

LEMMA ReceiveKeepsRoles ==
    ASSUME Known, RoleInv, NEW h \in Handlers, ReceiveBannerRequest(h)
    PROVE  RoleInv'
<1> USE DEF Known
<1>1. ASSUME NEW c \in Clients, NEW t \in Headers(c), GetBanner(h, c, t)
      PROVE  RoleInv'
  BY <1>1, PassKeepsRoles DEF GetBanner
<1>2. ASSUME NEW c \in Clients, NEW t \in Headers(c), PostBanner(h, c, t)
      PROVE  RoleInv'
  BY <1>2, PassKeepsRoles DEF PostBanner
<1>3. ASSUME NEW c \in Clients, NEW t \in Headers(c), PatchBannerId(h, c, t)
      PROVE  RoleInv'
  BY <1>3, PassKeepsRoles DEF PatchBannerId
<1>4. ASSUME NEW c \in Clients, NEW t \in Headers(c), DeleteBannerId(h, c, t)
      PROVE  RoleInv'
  BY <1>4, PassKeepsRoles DEF DeleteBannerId
<1>5. ASSUME NEW c \in Clients, NEW t \in Headers(c), Authorised(t),
             GetUserBanner(h, c, t)
      PROVE  RoleInv'
  <2>1. IsAdmin(t) => c = Operator
    BY <1>5, AdmittedIsOperator DEF Admitted
  <2>2. PICK q \in Requests : q.admin = IsAdmin(t) /\ Pass(h, "GET /user_banner", c, t, q)
    BY <1>5, UserBannerAsks
  <2>3. c # Operator => ~q.admin
    BY <2>1, <2>2
  <2> QED
    BY <2>2, <2>3, PassKeepsRoles
<1> QED
  BY <1>1, <1>2, <1>3, <1>4, <1>5, RespondKeepsRoles
  DEF ReceiveBannerRequest, Malformed, Unauthorised, Forbidden

LEMMA RoleNext == Known /\ RoleInv /\ [ServerNext]_serverVars => RoleInv'
<1> SUFFICES ASSUME Known, RoleInv, [ServerNext]_serverVars PROVE RoleInv'
  OBVIOUS
<1> USE DEF Known
<1>1. ASSUME NEW h \in Handlers, ServeBannerRequest(h) PROVE RoleInv'
  <2>1. CASE Return(h)
    BY <2>1, RespondKeepsRoles DEF Return, RoleInv
  <2> QED
    BY <1>1, <2>1, ServingReturns, RespondKeepsRoles
<1>2. ASSUME NEW h \in Handlers, PostAuth(h) PROVE RoleInv'
  BY <1>2, RespondKeepsRoles DEF PostAuth, Malformed
<1>3. ASSUME NEW h \in Handlers, PostUser(h) PROVE RoleInv'
  <2>1. ASSUME NEW c \in Clients, NEW t, Pass(h, "POST /user", c, t, Absent)
        PROVE  RoleInv'
    BY <2>1, PassKeepsRoles
  <2> QED
    BY <1>3, <2>1, RespondKeepsRoles DEF PostUser, Malformed
<1>4. ASSUME NEW h \in Handlers, FinishPostUser(h) PROVE RoleInv'
  BY <1>4, RespondKeepsRoles DEF FinishPostUser
<1>5. CASE ServerRefreshing \/ ServerTick \/ UNCHANGED serverVars
  BY <1>5 DEF ServerRefreshing, ServerTick, serverVars, RoleInv
<1>6. CASE ServerCrash
  BY <1>6 DEF ServerCrash, RoleInv
<1> QED
  BY <1>1, <1>2, <1>3, <1>4, <1>5, <1>6, ReceiveKeepsRoles DEF ServerNext

\* Handlers other than h keep what they ask for.
Asking(h) ==
    \A g \in Handlers : g # h =>
        /\ pc'[g] = pc[g]
        /\ req'[g] = req[g]
        /\ target'[g] = target[g]
        /\ call'[g] = call[g]

\* A handler that replies or goes on to another command asks for nothing any
\* more.
LEMMA NotAsking ==
    ASSUME AskingInv, NEW h \in Handlers, Asking(h), pc'[h] \notin {"get", "query", "delete"}
    PROVE  AskingInv'
  BY DEF AskingInv, Asking

\* One that goes on asking stays in its call, with its request.
LEMMA StillAsking ==
    ASSUME AskingInv, NEW h \in Handlers, Asking(h), call'[h] = call[h],
           pc'[h] \in {"get", "query"} =>
              call[h].endpoint = "GET /user_banner" /\ req'[h] = call[h].args,
           pc'[h] = "delete" => target'[h] = call[h].args.id
    PROVE  AskingInv'
  BY DEF AskingInv, Asking

\* What a step of the service in handler h does to the requests.
LEMMA ServedAsking ==
    ASSUME Known, NEW h \in Handlers, BeginCall(h) \/ ContinueCall(h)
    PROVE  /\ \A g \in Handlers : g # h => req'[g] = req[g] /\ target'[g] = target[g]
           /\ pc'[h] \in {"get", "query"} =>
                 \/ call[h].endpoint = "GET /user_banner" /\ req'[h] = call[h].args
                 \/ pc[h] = "get" /\ req'[h] = req[h]
           /\ pc'[h] = "delete" => target'[h] = call[h].args.id
           /\ pc'[h] \in {"get", "query", "delete"} => out' = NoReply
<1>1. /\ req \in [Handlers -> Requests]
      /\ target \in [Handlers -> 0..MaxId]
      /\ pc \in [Procs -> {"idle", "get", "query", "delete", "select", "wait",
                           "set", "sadd"}]
      /\ h \in Procs
      /\ h # Refresher
  BY ServiceAssumption DEF Known, TypeInv, LocalInv, HandlersTypeOK, Procs
<1> DEFINE OthersAsk == \A g \in Handlers : g # h => req'[g] = req[g] /\ target'[g] = target[g]
           Idle == pc'[h] = "idle" /\ OthersAsk
           To(l) == pc'[h] = l /\ req' = req /\ target' = target
<1>2. ASSUME NEW r, Reply(h, r) PROVE Idle
  BY <1>1, <1>2 DEF Reply
<1>3. ASSUME NEW l, Goto(h, l), UNCHANGED <<req, target>> PROVE To(l)
  BY <1>1, <1>3 DEF Goto
<1>4. ASSUME StopCaching(h) PROVE Idle
  BY <1>1, <1>2, <1>4 DEF StopCaching
<1>5. ASSUME Caching(h) PROVE Idle \/ To("set") \/ To("sadd")
  <2>1. PICK b : \/ CachedRow(h, b)
                 \/ StopCaching(h)
                 \/ Goto(h, "sadd") /\ UNCHANGED <<req, target>>
    BY <1>5 DEF Caching, CacheSet, CacheSAdd, loopVars
  <2> QED
    BY <1>3, <1>4, <2>1 DEF CachedRow, loopVars
<1>6. CASE ContinueCall(h)
  <2>1. ASSUME GetEntry(h)
        PROVE  \/ Idle
               \/ /\ pc[h] = "get" /\ pc'[h] \in {"get", "query"} /\ out' = NoReply
                  /\ UNCHANGED <<req, target>>
    BY <1>1, <1>2, <2>1 DEF GetEntry, Hit, Miss, Goto, loopVars
  <2>2. ASSUME GetBannerAfterMiss(h) \/ DeleteFromRepo(h) PROVE Idle
    BY <1>2, <2>2 DEF GetBannerAfterMiss, QueryRepo, DeleteFromRepo
  <2> QED
    BY <1>5, <1>6, <2>1, <2>2 DEF ContinueCall, Serving
<1>7. CASE BeginCall(h)
  <2>1. ASSUME NEW q, GetBannerFromRepo(h, q) PROVE Idle
    BY <1>2, <2>1 DEF GetBannerFromRepo, QueryRepo
  <2>2. ASSUME NEW q, GetMembers(h, q)
        PROVE  /\ req'[h] = q
               /\ out' = NoReply
               /\ pc'[h] \in {"get", "query"}
               /\ OthersAsk
    BY <1>1, <2>2 DEF GetMembers, Loop, Goto
  <2>3. ASSUME NEW c, CreateBanner(h, c) PROVE Idle \/ To("set")
    BY <1>2, <1>3, <2>3 DEF CreateBanner, loopVars
  <2>4. ASSUME NEW id, NEW c, UpdateBanner(h, id, c) PROVE Idle
    BY <1>2, <2>4 DEF UpdateBanner
  <2>5. ASSUME NEW id, DeleteFromCache(h, id)
        PROVE  pc'[h] = "delete" /\ target'[h] = id /\ out' = NoReply /\ OthersAsk
    BY <1>1, <2>5 DEF DeleteFromCache, Goto
  <2> QED
    BY <1>7, <2>1, <2>2, <2>3, <2>4, <2>5 DEF BeginCall
<1> QED
  BY <1>6, <1>7

LEMMA AskingNext == Known /\ InCallInv /\ AskingInv /\ [ServerNext]_serverVars => AskingInv'
<1> SUFFICES ASSUME Known, InCallInv, AskingInv, [ServerNext]_serverVars PROVE AskingInv'
  OBVIOUS
<1>1. ASSUME NEW h \in Handlers, pc[h] = "idle", UNCHANGED <<pc, req, target>>,
             \/ \E status : Respond(h, status)
             \/ \E e, c, t, args : Pass(h, e, c, t, args)
      PROVE  AskingInv'
  <2>1. Asking(h)
    BY <1>1, OthersStayInCall DEF Asking, Known
  <2> QED
    BY <1>1, <2>1, NotAsking
<1>2. ASSUME NEW h \in Handlers, BeginCall(h) \/ ContinueCall(h), call[h] # NoCall
      PROVE  AskingInv'
  <2>1. /\ Return(h)
        /\ \E labels : MovesOnly(h, labels)
    BY <1>2, ServingMoves, BeginCallMoves DEF BeginCall, ContinueCall
  <2>2. Asking(h)
    <3>1. \A g \in Handlers : g # h => pc'[g] = pc[g]
      BY <2>1 DEF MovesOnly, Known, TypeInv, LocalInv, Procs
    <3>2. \A g \in Handlers : g # h => call'[g] = call[g]
      BY <2>1 DEF Return, Respond, Known, CallInv
    <3> QED
      BY <1>2, <3>1, <3>2, ServedAsking DEF Asking
  <2>3. CASE pc'[h] \notin {"get", "query", "delete"}
    BY <2>2, <2>3, NotAsking
  <2>4. CASE pc'[h] \in {"get", "query", "delete"}
    <3>1. call'[h] = call[h]
      BY <1>2, <2>1, <2>4, ServedAsking DEF Return
    <3>2. /\ pc'[h] \in {"get", "query"} =>
                call[h].endpoint = "GET /user_banner" /\ req'[h] = call[h].args
          /\ pc'[h] = "delete" => target'[h] = call[h].args.id
      BY <1>2, ServedAsking DEF AskingInv
    <3> QED
      BY <2>2, <3>1, <3>2, StillAsking
  <2> QED
    BY <2>3, <2>4
<1>3. ASSUME NEW h \in Handlers, ServeBannerRequest(h) PROVE AskingInv'
  <2>1. CASE ListBanners(h)
    <3>1. pc[h] = "idle"
      BY <2>1 DEF ListBanners, InCallInv
    <3> QED
      BY <1>1, <2>1, <3>1 DEF ListBanners, Elsewhere, loopVars
  <2> QED
    BY <1>2, <1>3, <2>1 DEF ServeBannerRequest
<1>4. ASSUME NEW h \in Handlers,
             \/ ReceiveBannerRequest(h) \/ PostAuth(h)
             \/ PostUser(h) \/ FinishPostUser(h)
      PROVE  AskingInv'
  <2>1. \/ \E status : Respond(h, status)
        \/ \E e, c, t, args : Pass(h, e, c, t, args)
    BY <1>4, ZenonT(40)
    DEF ReceiveBannerRequest, PostAuth, PostUser, FinishPostUser, Malformed,
        Unauthorised, Forbidden, GetBanner, PostBanner, PatchBannerId,
        DeleteBannerId, GetUserBanner
  <2>2. UNCHANGED <<pc, req, target>>
    BY <1>4 DEF ReceiveBannerRequest, PostAuth, PostUser, FinishPostUser, Elsewhere,
                loopVars
  <2>3. pc[h] = "idle"
    BY <1>4 DEF ReceiveBannerRequest, PostAuth, PostUser, FinishPostUser, InsertUser,
                InCallInv
  <2> QED
    BY <1>1, <2>1, <2>2, <2>3
<1>5. CASE ServerRefreshing
  <2>1. UNCHANGED <<req, target>> /\ \A h \in Handlers : pc'[h] = pc[h]
    <3>1. UNCHANGED <<req, target>>
      BY <1>5, ServiceAssumption
      DEF ServerRefreshing, Refreshing, RefreshRead, NextRefresh, Caching, CacheSet,
          CacheSAdd, CachedRow, StopCaching, loopVars
    <3> QED
      BY <1>5, <3>1, RefreshingMoves DEF ServerRefreshing
  <2> QED
    BY <1>5, <2>1 DEF ServerRefreshing, AskingInv
<1>6. CASE ServerTick \/ UNCHANGED serverVars
  BY <1>6 DEF ServerTick, Tick, serverVars, vars, loopVars, AskingInv
<1>7. CASE ServerCrash
  BY <1>7, ServiceAssumption DEF ServerCrash, Crash, AskingInv, Procs
<1> QED
  BY <1>3, <1>4, <1>5, <1>6, <1>7 DEF ServerNext

LEMMA AskingInvariance == ServerSpec => [](RoleInv /\ AskingInv)
<1>1. ServerInit => RoleInv /\ AskingInv
  <2>1. ASSUME ServerInit, NEW h \in Handlers
        PROVE  call[h] = NoCall /\ pc[h] = "idle"
    BY <2>1, ServiceAssumption DEF ServerInit, Init, Procs
  <2> QED
    BY <2>1 DEF RoleInv, AskingInv
<1> QED
  BY <1>1, WriterInvariance, RoleNext, AskingNext, PTL DEF ServerSpec

(***************************************************************************)
(* The steps that change the table.                                        *)
(***************************************************************************)

\* Of the service's steps in a handler, three may change the table: the row
\* that the handler's request is about.
LEMMA WritesTable ==
    ASSUME Known, InCallInv, AskingInv, NEW h \in Handlers, ServeBannerRequest(h),
           NEW id \in BannerIds, table'[id] # table[id]
    PROVE  call[h].endpoint \in Writing /\ AsksFor(h, id)
<1> DEFINE args == call[h].args
<1>0. table \in [BannerIds -> Banners \cup {NoBanner}]
  BY DEF Known, TypeInv, RepoTypeOK
<1>1. CASE BeginCall(h)
  <2>1. CASE call[h].endpoint = "GET /user_banner"
    BY <1>1, <2>1
    DEF BeginCall, GetBannerFromRepo, QueryRepo, GetMembers, repoVars
  <2>2. CASE call[h].endpoint = "POST /banner"
    <3>1. CreateBanner(h, args)
      BY <1>1, <2>2 DEF BeginCall
    <3>2. PICK i \in BannerIds, o \in Outcomes(Faulty("postgres")) :
             InsertBanner(i, args, o)
      BY <3>1 DEF CreateBanner
    <3>3. id = i /\ id \notin drawn /\ table'[id] = Row(id, 1, args)
      BY <1>0, <3>2 DEF InsertBanner
    <3> QED
      BY <2>2, <3>3 DEF Writing, AsksFor
  <2>3. CASE call[h].endpoint = "PATCH /banner/{id}"
    <3>1. UpdateBanner(h, args.id, args.content)
      BY <1>1, <2>3 DEF BeginCall
    <3>2. PICK o \in Outcomes(Faulty("postgres")) : UpdateRow(args.id, args.content, o)
      BY <3>1 DEF UpdateBanner, repoVars
    <3>3. /\ id = args.id /\ table[id] # NoBanner
          /\ table'[id] = Row(id, table[id].rev + 1, args.content)
      BY <1>0, <3>2 DEF UpdateRow, Stored
    <3> QED
      BY <2>3, <3>3 DEF Writing, AsksFor
  <2>4. CASE call[h].endpoint = "DELETE /banner/{id}"
    BY <1>1, <2>4 DEF BeginCall, DeleteFromCache, repoVars
  <2> QED
    BY <1>1, <2>1, <2>2, <2>3, <2>4, BeginCallMoves
<1>2. CASE ContinueCall(h)
  <2>1. DeleteFromRepo(h)
    BY <1>2 DEF ContinueCall, Serving, GetEntry, GetBannerAfterMiss, QueryRepo,
                Caching, CacheSet, CacheSAdd, repoVars
  <2>2. call[h].endpoint = "DELETE /banner/{id}" /\ target[h] = args.id
    BY <2>1 DEF DeleteFromRepo, InCallInv, AskingInv
  <2>3. PICK o \in Outcomes(Faulty("postgres")) : DeleteRow(target[h], o)
    BY <2>1 DEF DeleteFromRepo, repoVars
  <2>4. id = args.id /\ table'[id] = NoBanner
    BY <1>0, <2>2, <2>3 DEF DeleteRow, Stored
  <2> QED
    BY <2>2, <2>4 DEF Writing, AsksFor
<1>3. CASE ListBanners(h)
  BY <1>3 DEF ListBanners, Elsewhere, repoVars
<1> QED
  BY <1>1, <1>2, <1>3 DEF ServeBannerRequest

LEMMA OthersWriteNothing ==
    ASSUME [ServerNext]_serverVars,
           ~ \E h \in Handlers : ServeBannerRequest(h)
    PROVE  table' = table
<1>1. CASE UNCHANGED serverVars
  BY <1>1 DEF serverVars, vars, repoVars
<1>2. CASE ServerRefreshing
  BY <1>2 DEF ServerRefreshing, Refreshing, RefreshRead, NextRefresh, Caching,
              CacheSet, CacheSAdd, repoVars
<1>3. CASE ServerTick \/ ServerCrash
  BY <1>3 DEF ServerTick, Tick, ServerCrash, Crash, repoVars
<1> QED
  BY <1>1, <1>2, <1>3
  DEF ServerNext, ReceiveBannerRequest, PostAuth, PostUser, FinishPostUser,
      Elsewhere, repoVars

\* Whatever is requested, by whom, with which tokens and in which order: a row
\* changes only in a step of a handler whose own request is the operator's,
\* had an admin's token and asks for that change of that banner.
THEOREM OnlyTheOperatorWrites == ServerSpec => OnlyAdminsWrite
<1> DEFINE Step ==
       \A id \in BannerIds : table'[id] # table[id] =>
          \E h \in Handlers :
             /\ ServeBannerRequest(h)
             /\ call[h].client = Operator
             /\ IsAdmin(call[h].token)
             /\ AsksFor(h, id)
<1>1. Known /\ WriterInv /\ InCallInv /\ AskingInv /\ [ServerNext]_serverVars
        => [Step]_serverVars
  <2> SUFFICES ASSUME Known, WriterInv, InCallInv, AskingInv, [ServerNext]_serverVars,
                      NEW id \in BannerIds, table'[id] # table[id]
               PROVE  \E h \in Handlers : /\ ServeBannerRequest(h)
                                          /\ call[h].client = Operator
                                          /\ IsAdmin(call[h].token)
                                          /\ AsksFor(h, id)
    OBVIOUS
  <2>1. PICK h \in Handlers : ServeBannerRequest(h)
    BY OthersWriteNothing
  <2>2. call[h].endpoint \in Writing /\ AsksFor(h, id)
    BY <2>1, WritesTable
  <2>3. call[h].client = Operator /\ IsAdmin(call[h].token)
    BY <2>1, <2>2 DEF WriterInv, ServeBannerRequest
  <2> QED
    BY <2>1, <2>2, <2>3
<1> QED
  BY <1>1, WriterInvariance, AskingInvariance, PTL DEF ServerSpec, OnlyAdminsWrite

(***************************************************************************)
(* What users are answered.                                                *)
(***************************************************************************)

\* The banners a call is answered with answer what it asked for.
LEMMA AnswersTheCall ==
    ASSUME Known, AskingInv, NEW h \in Handlers, BeginCall(h) \/ ContinueCall(h),
           out'.kind = "banners"
    PROVE  call[h].endpoint = "GET /user_banner" /\ out'.req = call[h].args
<1>1. ASSUME NEW q, QueryRepo(h, q) PROVE out'.req = q
  BY <1>1 DEF QueryRepo, Reply, Found, Done
<1>2. ASSUME NEW k \in {"created", "updated", "deleted", "notFound", "error"},
             NEW id, Reply(h, Done(k, id))
      PROVE  FALSE
  BY <1>2 DEF Reply, Done
<1>3. ASSUME NEW l, Goto(h, l) PROVE FALSE
  BY <1>3 DEF Goto, NoReply
<1>4. h # Refresher
  BY ServiceAssumption
<1>5. CASE ContinueCall(h)
  <2>1. ASSUME GetEntry(h) PROVE pc[h] = "get" /\ out'.req = req[h]
    BY <1>3, <2>1 DEF GetEntry, Hit, Miss, Reply, Found
  <2>2. ASSUME GetBannerAfterMiss(h) PROVE pc[h] = "query" /\ out'.req = req[h]
    BY <1>1, <2>2 DEF GetBannerAfterMiss
  <2>3. ~DeleteFromRepo(h)
    BY <1>2 DEF DeleteFromRepo
  <2>4. ~StopCaching(h)
    BY <1>2, <1>4 DEF StopCaching
  <2>5. ~Caching(h)
    BY <1>3, <2>4 DEF Caching, CacheSet, CacheSAdd, CachedRow
  <2> QED
    BY <1>5, <2>1, <2>2, <2>3, <2>5 DEF ContinueCall, Serving, AskingInv
<1>6. CASE BeginCall(h)
  <2>1. ASSUME NEW q PROVE ~GetMembers(h, q)
    BY <1>3 DEF GetMembers, Loop
  <2>2. ASSUME NEW c PROVE ~CreateBanner(h, c)
    BY <1>2, <1>3 DEF CreateBanner
  <2>3. ASSUME NEW id, NEW c PROVE ~UpdateBanner(h, id, c)
    BY <1>2 DEF UpdateBanner
  <2>4. ASSUME NEW id PROVE ~DeleteFromCache(h, id)
    BY <1>3 DEF DeleteFromCache
  <2> QED
    BY <1>1, <1>6, <2>1, <2>2, <2>3, <2>4 DEF BeginCall, GetBannerFromRepo
<1> QED
  BY <1>5, <1>6

\* Steps in which no handler is in a call of BannerService serve no banner.
LEMMA OthersServeNone ==
    ASSUME [ServerNext]_serverVars, call' # call,
           ~ \E h \in Handlers : BeginCall(h) \/ ContinueCall(h)
    PROVE  Served' = {}
<1>1. out' = NoReply
  BY DEF ServerNext, serverVars, ReceiveBannerRequest, ServeBannerRequest, ListBanners,
         PostAuth, PostUser, FinishPostUser, ServerRefreshing, ServerTick, ServerCrash,
         Crash, Elsewhere
<1> QED
  BY <1>1 DEF Served, NoReply

\* Whoever cached them and whichever tokens he has: a client who is not the
\* operator is answered with revisions that are switched on and were rows
\* lately, and with the rows as they are if he asks for the last revision.
THEOREM UsersGetWhatWasOn == ServerSpec => UsersSeeWhatWasOn
<1> DEFINE Step ==
       \A h \in Handlers :
          /\ call[h] # NoCall
          /\ call'[h] = NoCall
          /\ call[h].client # Operator
          => \A b \in Served' :
                /\ b.active
                /\ age'[b] < MaxAge
                /\ call[h].args.useLast => table'[b.id] = b
           ReadsWell == OffNeverServed /\ ServedStaleness /\ FreshReads /\ StaleInv
<1>1. Known /\ RoleInv /\ AskingInv /\ ReadsWell' /\ [ServerNext]_serverVars
        => [Step]_serverVars
  <2> SUFFICES ASSUME Known, RoleInv, AskingInv, ReadsWell',
                      [ServerNext]_serverVars, NEW h \in Handlers,
                      call[h] # NoCall, call'[h] = NoCall,
                      call[h].client # Operator, NEW b \in Served'
               PROVE  /\ b.active
                      /\ age'[b] < MaxAge
                      /\ call[h].args.useLast => table'[b.id] = b
    OBVIOUS
  <2>1. PICK g \in Handlers : BeginCall(g) \/ ContinueCall(g)
    BY OthersServeNone
  <2>2. g = h
    <3>1. Return(g)
      BY <2>1 DEF BeginCall, ContinueCall
    <3> QED
      BY <3>1 DEF Return, Respond, Known, CallInv
  <2>3. out'.kind = "banners" /\ b \in out'.banners
    BY DEF Served
  <2>4. call[h].endpoint = "GET /user_banner" /\ out'.req = call[h].args
    BY <2>1, <2>2, <2>3, AnswersTheCall
  <2>5. ~out'.req.admin
    BY <2>4 DEF RoleInv
  <2>6. ASSUME call[h].args.useLast PROVE table'[b.id] = b
    <3>1. b \in SelectBanners(out.req.feature, {out.req.tag}, ~out.req.admin)'
      BY <2>3, <2>4, <2>6 DEF FreshReads
    <3>2. PICK id \in BannerIds : table'[id] # NoBanner /\ b = table'[id]
      BY <3>1 DEF SelectBanners
    <3> QED
      BY <3>2 DEF StaleInv, RowsInv
  <2> QED
    BY <2>5, <2>6 DEF OffNeverServed, ServedStaleness
<1>2. ServerSpec => []ReadsWell
  BY ServerRunsBannerService, OffIsHidden, ServedIsBounded, AdminsReadTheTable,
     StaleInvariance, PTL
<1> QED
  BY <1>1, <1>2, WriterInvariance, AskingInvariance, PTL DEF ServerSpec, UsersSeeWhatWasOn

(***************************************************************************)
(* Usernames.  Whoever else is between the check of his token and the      *)
(* INSERT, the row of a username is written once.                          *)
(***************************************************************************)

\* What the end of a sign-up does to users and to the sign-ups of others.
LEMMA FinishedSignup ==
    ASSUME AuthTypeOK, NEW h \in Handlers, NEW result, InsertUser(h, result)
    PROVE  /\ \A n \in Names : users[n] # NoUser => users'[n] = users[n]
           /\ \A g \in Handlers : g # h => signup'[g] = signup[g]
           /\ result = "created" =>
                 /\ users[signup[h].name] = NoUser
                 /\ users'[signup[h].name] \in
                       {NoUser, [role |-> signup[h].role, password |-> signup[h].client]}
<1>1. signup[h].name \in Names
  BY SignupType DEF InsertUser
<1>2. CASE UNCHANGED users /\ result # "created"
  BY <1>2 DEF AuthTypeOK, InsertUser
<1>3. CASE users[signup[h].name] = NoUser /\ \E o : StoreUser(signup[h], o)
  BY <1>1, <1>3 DEF AuthTypeOK, InsertUser, StoreUser
<1> QED
  BY <1>2, <1>3 DEF InsertUser

\* Only the end of a sign-up changes users, and ends one with an answer.
LEMMA OthersSignNobodyUp ==
    ASSUME AuthTypeOK, [ServerNext]_serverVars,
           ~ \E h \in Handlers : FinishPostUser(h)
    PROVE  /\ users' = users
           /\ \A h \in Handlers :
                 signup[h] # NoSignup => signup'[h] = signup[h] \/ response' = NoResponse
<1>1. ASSUME NEW h \in Handlers, NEW c, NEW n, NEW r, NEW t, NEW result,
             CreateUser(h, c, n, r, t, result)
      PROVE  users' = users /\ \A g \in Handlers : signup[g] # NoSignup => signup'[g] = signup[g]
  BY <1>1 DEF CreateUser, AuthTypeOK
<1>2. ASSUME NEW h \in Handlers, PostUser(h)
      PROVE  users' = users /\ \A g \in Handlers : signup[g] # NoSignup => signup'[g] = signup[g]
  BY <1>1, <1>2, ZenonT(30) DEF PostUser, authVars
<1>3. ASSUME NEW h \in Handlers, PostAuth(h) PROVE UNCHANGED <<users, signup>>
  BY <1>3 DEF PostAuth, Login, authVars
<1>4. CASE ServerTick
  BY <1>4 DEF ServerTick, TokensExpire
<1>5. CASE ServerCrash
  BY <1>5 DEF ServerCrash, AuthCrash
<1>6. CASE UNCHANGED authVars
  BY <1>6 DEF authVars
<1>7. UNCHANGED serverVars => UNCHANGED authVars
  BY DEF serverVars
<1> QED
  BY <1>2, <1>3, <1>4, <1>5, <1>6, <1>7
  DEF ServerNext, ReceiveBannerRequest, ServeBannerRequest, ServerRefreshing

\* However many sign-ups are past the check with one name: the user stored
\* first stays, and 201 goes only to a sign-up that found the name free.
THEOREM NamesAreKept == ServerSpec => NamesHaveOneOwner
<1> DEFINE Step ==
       /\ \A n \in Names : users[n] # NoUser => users'[n] = users[n]
       /\ \A h \in Handlers :
             LET u == signup[h] IN
             /\ u # NoSignup
             /\ signup'[h] = NoSignup
             /\ response' # NoResponse
             /\ response' = 201
             => /\ users[u.name] = NoUser
                /\ users'[u.name] \in
                      {NoUser, [role |-> u.role, password |-> u.client]}
<1>1. Known /\ [ServerNext]_serverVars => [Step]_serverVars
  <2> SUFFICES ASSUME AuthTypeOK, [ServerNext]_serverVars PROVE Step
    BY DEF Known
  <2>1. ASSUME NEW h \in Handlers, FinishPostUser(h) PROVE Step
    <3>1. PICK result : /\ InsertUser(h, result)
                        /\ response' = 201 => result = "created"
      BY <2>1 DEF FinishPostUser, Respond
    <3>2. \A n \in Names : users[n] # NoUser => users'[n] = users[n]
      BY <3>1, FinishedSignup
    <3>3. ASSUME NEW g \in Handlers, signup[g] # NoSignup,
                 signup'[g] = NoSignup, response' = 201
          PROVE  /\ users[signup[g].name] = NoUser
                 /\ users'[signup[g].name] \in
                       {NoUser, [role |-> signup[g].role,
                                 password |-> signup[g].client]}
      <4>1. g = h
        BY <3>1, <3>3, FinishedSignup
      <4> QED
        BY <3>1, <3>3, <4>1, FinishedSignup
    <3> QED
      BY <3>2, <3>3
  <2>2. CASE ~ \E h \in Handlers : FinishPostUser(h)
    BY <2>2, OthersSignNobodyUp
  <2> QED
    BY <2>1, <2>2
<1> QED
  BY <1>1, KnownInvariance, PTL DEF ServerSpec, NamesHaveOneOwner

(***************************************************************************)
(* What the server takes over from BannerService.                          *)
(***************************************************************************)

\* Clients of the API see a store of banners: what a cache and processes
\* beside each other make of it stays within what BannerStore allows.
THEOREM ServerIsAStore == ServerSpec => ImplementsStore
  BY ServerRunsBannerService, ServiceIsAStore, PTL

\* Whichever calls clients make: an entry that a reply could come from is not
\* put back for a banner that is long gone from the table.
THEOREM ServerForgets == ServerSpec => ForgottenForGood
  BY ServerRunsBannerService, GoneForGood, PTL

\* A pass of the refresher repairs the cache beside the handlers of the server.
THEOREM ServerRefreshRepairs == ServerSpec => RefreshRepairs
  BY ServerRunsBannerService, RefreshIsThorough, PTL

\* A call, and a pass of the refresher, takes a bounded number of commands.
THEOREM ServerCallsRunOut == ServerSpec => WorkRunsOut
  BY ServerRunsBannerService, CommandsRunOut, PTL

=============================================================================
