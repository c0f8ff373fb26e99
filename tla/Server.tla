------------------------------- MODULE Server -------------------------------
(***************************************************************************)
(* The HTTP server: its handlers, composed with BannerService and          *)
(* AuthService, whose actions they run.  A request is received (parameters *)
(* bound, token checked, body decoded) and then refused, or passed on to a *)
(* service in a later step; what the service returns becomes a status.     *)
(***************************************************************************)
EXTENDS BannerService, AuthService

CONSTANTS
    Bodies,     \* bodies of POST /banner and PATCH /banner/{id}
    Absent,     \* the body does not have this field, or it is null
    NoToken,    \* the request has no header "token"
    NoCall,     \* the handler serves no request
    NoResponse  \* the last step answered no request

Endpoints == {"GET /banner", "POST /banner", "PATCH /banner/{id}",
              "DELETE /banner/{id}", "GET /user_banner", "POST /auth",
              "POST /user"}

OptionalBodies ==
    [feature : Features \cup {Absent}, tags : (SUBSET Tags) \cup {Absent},
     active : BOOLEAN \cup {Absent}]

\* Parameters of GET /user_banner: tag and feature are required,
\* use_last_revision is false if it is not given.
UserBannerParams == [feature : Asked, tag : Tags, useLast : BOOLEAN]

Given(field, zero) == IF field = Absent THEN zero ELSE field

\* models.Banner made from a body: what is absent keeps Go's zero value.
FromBody(b) == [feature |-> Given(b.feature, 0), tags |-> Given(b.tags, {}),
                active |-> Given(b.active, FALSE)]

\* What a handler calls the service with.
Args == Requests \cup Inputs \cup [id : BannerIds]
            \cup [id : BannerIds, content : Inputs] \cup {Absent}

\* What may be in the header "token".
Tokens == Roles \cup {BadToken, NoToken}

\* A request in progress: params.Token is a local of its handler to the end.
Calls == [endpoint : Endpoints, client : Clients, token : Tokens, args : Args]

ASSUME ServerAssumption ==
    /\ 0 \in Features
    /\ Bodies \subseteq OptionalBodies
    /\ \A b \in Bodies : FromBody(b) \in Inputs
    /\ NoToken \notin Roles \cup {BadToken}
    /\ NoCall \notin Calls

VARIABLES
    call,       \* the request a handler has passed, or will pass, to a service
    response    \* what the last step answered, or NoResponse

serverVars == <<vars, authVars, call, response>>

Statuses == {200, 201, 204, 400, 401, 403, 404, 500}

\* A handler without a request runs no service method.
CallOK ==
    /\ call \in [Handlers -> Calls \cup {NoCall}]
    /\ \A h \in Handlers :
          /\ pc[h] # "idle" => call[h] # NoCall
          /\ signup[h] # NoSignup => call[h] # NoCall

ServerTypeOK ==
    /\ TypeOK
    /\ AuthTypeOK
    /\ CallOK
    /\ response \in Statuses \cup {NoResponse}

ServerInit ==
    /\ Init
    /\ AuthInit
    /\ call = [h \in Handlers |-> NoCall]
    /\ response = NoResponse

(***************************************************************************)
(* Receiving a request.                                                    *)
(***************************************************************************)

\* Handler h is done with its request.
Respond(h, status) ==
    /\ response' = status
    /\ call' = [call EXCEPT ![h] = NoCall]

\* h will call a service with args for a request of c with token t.
Pass(h, e, c, t, args) ==
    /\ call' = [call EXCEPT ![h] =
                   [endpoint |-> e, client |-> c, token |-> t, args |-> args]]
    /\ response' = NoResponse

\* params.Token: the header may be missing.
Headers(c) == Presentable(c) \cup {NoToken}

Authorised(t) == t # NoToken /\ Valid(t)

\* The generated wrapper cannot bind a parameter, or Decode fails: 400.
Malformed(h) == Respond(h, 400)

\* The token is absent or does not validate: 401.
Unauthorised(h, t) == ~Authorised(t) /\ Respond(h, 401)

Admitted_AnyUser(t) == Authorised(t)                                \* mutant

\* The endpoints for admins go on only with such a token ...
Admitted(t) == Authorised(t) /\ IsAdmin(t)

\* ... and answer other valid ones 403.
Forbidden(h, t) == Authorised(t) /\ ~Admitted(t) /\ Respond(h, 403)

GetBanner(h, c, t) == Pass(h, "GET /banner", c, t, Absent)

PostBanner(h, c, t) ==
    \E b \in Bodies : Pass(h, "POST /banner", c, t, FromBody(b))

\* The banner a PATCH writes has the zero value in what its body leaves out.
PatchBannerId(h, c, t) ==
    \E id \in BannerIds, b \in Bodies :
       Pass(h, "PATCH /banner/{id}", c, t, [id |-> id, content |-> FromBody(b)])

DeleteBannerId(h, c, t) ==
    \E id \in BannerIds : Pass(h, "DELETE /banner/{id}", c, t, [id |-> id])

GetUserBanner_AllAdmin(h, c, t) ==                                  \* mutant
    \E p \in UserBannerParams :
       Pass(h, "GET /user_banner", c, t,
            [feature |-> p.feature, tag |-> p.tag, admin |-> Authorised(t),
             useLast |-> p.useLast])

\* Any valid token will do; the role decides what the service is asked for.
GetUserBanner(h, c, t) ==
    \E p \in UserBannerParams :
       Pass(h, "GET /user_banner", c, t,
            [feature |-> p.feature, tag |-> p.tag, admin |-> IsAdmin(t),
             useLast |-> p.useLast])

\* The endpoints that concern banners, up to their call of the service.
ReceiveBannerRequest(h) ==
    /\ call[h] = NoCall
    /\ \/ Malformed(h)
       \/ \E c \in Clients : \E t \in Headers(c) :
             \/ Unauthorised(h, t)
             \/ Forbidden(h, t)
             \/ /\ Admitted(t)
                /\ \/ GetBanner(h, c, t)
                   \/ PostBanner(h, c, t)
                   \/ PatchBannerId(h, c, t)
                   \/ DeleteBannerId(h, c, t)
             \/ Authorised(t) /\ GetUserBanner(h, c, t)
    /\ Elsewhere
    /\ UNCHANGED authVars

(***************************************************************************)
(* POST /auth and POST /user.                                              *)
(***************************************************************************)

\* Any error of Login is answered 401.
PostAuth(h) ==
    /\ call[h] = NoCall
    /\ \/ Malformed(h) /\ UNCHANGED authVars
       \/ \E c \in Clients, n \in Names :
             \/ Login(c, n, "ok") /\ Respond(h, 200)
             \/ Login(c, n, "error") /\ Respond(h, 401)
    /\ Elsewhere

PostUser_Async(h) ==                                                \* mutant
    /\ call[h] = NoCall
    /\ \/ Malformed(h) /\ UNCHANGED authVars
       \/ \E c \in Clients : \E n \in Names, r \in Roles, t \in Presentable(c) :
             \/ CreateUser(h, c, n, r, t, "pending") /\ Respond(h, 201)
             \/ CreateUser(h, c, n, r, t, "error") /\ Respond(h, 401)
    /\ Elsewhere

\* No header is the empty token.
PostUser(h) ==
    /\ call[h] = NoCall
    /\ \/ Malformed(h) /\ UNCHANGED authVars
       \/ \E c \in Clients : \E n \in Names, r \in Roles, t \in Presentable(c) :
             \/ /\ CreateUser(h, c, n, r, t, "pending")
                /\ Pass(h, "POST /user", c, t, Absent)
             \/ /\ CreateUser(h, c, n, r, t, "error")
                /\ Respond(h, 401)
    /\ Elsewhere

\* AuthService.CreateUser goes on; any error of it is answered 401.
FinishPostUser(h) ==
    /\ call[h] # NoCall
    /\ \/ /\ InsertUser(h, "created")
          /\ Respond(h, 201)
       \/ /\ InsertUser(h, "exists") \/ InsertUser(h, "error")
          /\ Respond(h, 401)
    /\ Elsewhere

(***************************************************************************)
(* Calling BannerService.                                                  *)
(***************************************************************************)

\* The status for what the service returned.  Its ErrNotFound is not the
\* repository's, which the handlers look for, so it is an error like others.
StatusOf(returned) ==
    CASE returned.kind = "banners"  -> IF returned.banners = {} THEN 404 ELSE 200
      [] returned.kind = "created"  -> 201
      [] returned.kind = "updated"  -> 200
      [] returned.kind = "deleted"  -> 204
      [] returned.kind = "notFound" -> 500
      [] returned.kind = "error"    -> 500

\* A step of the service: it returns to h, or h stays in the call.
Return(h) ==
    IF out' = NoReply
    THEN response' = NoResponse /\ UNCHANGED call
    ELSE Respond(h, StatusOf(out'))

\* The first step of the service's method that h calls.
BeginCall(h) ==
    LET args == call[h].args IN
    /\ \/ /\ call[h].endpoint = "GET /user_banner"
          /\ GetBannerFromRepo(h, args) \/ GetMembers(h, args)
       \/ /\ call[h].endpoint = "POST /banner"
          /\ CreateBanner(h, args)
       \/ /\ call[h].endpoint = "PATCH /banner/{id}"
          /\ UpdateBanner(h, args.id, args.content)
       \/ /\ call[h].endpoint = "DELETE /banner/{id}"
          /\ DeleteFromCache(h, args.id)
    /\ Return(h)

\* The steps after it.
ContinueCall(h) == Serving(h) /\ Return(h)

\* GET /banner lists rows of the table and changes nothing: an empty list is
\* answered 200 like any other.  The query may fail, and always does with a
\* negative limit or offset.
ListBanners(h) ==
    /\ call[h].endpoint = "GET /banner"
    /\ Respond(h, 200) \/ Respond(h, 500)
    /\ Elsewhere

ServeBannerRequest(h) ==
    /\ call[h] # NoCall
    /\ BeginCall(h) \/ ContinueCall(h) \/ ListBanners(h)
    /\ UNCHANGED authVars

(***************************************************************************)
(* The environment.                                                        *)
(***************************************************************************)

\* BackroundRefresh runs beside the handlers.
ServerRefreshing ==
    /\ Refreshing
    /\ response' = NoResponse
    /\ UNCHANGED <<authVars, call>>

\* One clock for the cache, the refresher and the tokens.
ServerTick ==
    /\ Tick
    /\ TokensExpire
    /\ response' = NoResponse
    /\ UNCHANGED call

ServerCrash ==
    /\ Crash
    /\ AuthCrash
    /\ call' = [h \in Handlers |-> NoCall]
    /\ response' = NoResponse

(***************************************************************************)
(* The specification.                                                      *)
(***************************************************************************)

ServerNext ==
    \/ \E h \in Handlers :
          \/ ReceiveBannerRequest(h)
          \/ ServeBannerRequest(h)
          \/ PostAuth(h)
          \/ PostUser(h)
          \/ FinishPostUser(h)
    \/ ServerRefreshing
    \/ ServerTick
    \/ ServerCrash

ServerSpec == ServerInit /\ [][ServerNext]_serverVars

(***************************************************************************)
(* Properties.                                                             *)
(***************************************************************************)

\* The call h is in asks for what becomes of the row of id in this step.
AsksFor(h, id) ==
    LET args == call[h].args IN
    \/ /\ call[h].endpoint = "POST /banner"
       /\ id \notin drawn
       /\ table'[id] = Row(id, 1, args)
    \/ /\ call[h].endpoint = "PATCH /banner/{id}"
       /\ args.id = id
       /\ table[id] # NoBanner
       /\ table'[id] = Row(id, table[id].rev + 1, args.content)
    \/ /\ call[h].endpoint = "DELETE /banner/{id}"
       /\ args.id = id
       /\ table'[id] = NoBanner

\* A row changes only in a step of a handler whose own request is the
\* operator's, was let in with an admin's token and asks for that change of
\* that banner, whatever other handlers do between the check of the token and
\* the write.
OnlyAdminsWrite ==
    [][\A id \in BannerIds : table'[id] # table[id] =>
          \E h \in Handlers :
             /\ ServeBannerRequest(h)
             /\ call[h].client = Operator
             /\ IsAdmin(call[h].token)
             /\ AsksFor(h, id)]_serverVars

\* Of a banner, a client other than the operator is answered with a revision
\* that is switched on and was the row less than MaxAge ticks ago, and with
\* use_last_revision is the row now: whichever tokens he logged in for,
\* whoever cached it and whoever else is served meanwhile.  (The banner may
\* have been switched off since the revision was cached: OffNotServed.)
UsersSeeWhatWasOn ==
    [][\A h \in Handlers :
          /\ call[h] # NoCall
          /\ call'[h] = NoCall
          /\ call[h].client # Operator
          => \A b \in Served' :
                /\ b.active
                /\ age'[b] < MaxAge
                /\ call[h].args.useLast => table'[b.id] = b]_serverVars

\* Several clients may be past the check of their tokens with one username:
\* a user once stored stays whose he is, and 201 goes only to a client whose
\* name was free until then, and is his now, or free if its COMMIT is lost.
NamesHaveOneOwner ==
    [][/\ \A n \in Names : users[n] # NoUser => users'[n] = users[n]
       /\ \A h \in Handlers :
             LET u == signup[h] IN
             /\ u # NoSignup
             /\ signup'[h] = NoSignup
             /\ response' # NoResponse
             /\ response' = 201
             => /\ users[u.name] = NoUser
                /\ users'[u.name] \in
                      {NoUser, [role |-> u.role, password |-> u.client]}]_serverVars

\* api/banners.v1.yaml: 201, the user was created.
CreatedIsStored ==
    [][\A h \in Handlers :
          /\ signup[h] # NoSignup
          /\ signup'[h] = NoSignup
          /\ response' # NoResponse
          /\ response' = 201
          => users'[signup[h].name] # NoUser]_serverVars

=============================================================================
