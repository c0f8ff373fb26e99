------------------------- MODULE AuthServiceProofs -------------------------
(***************************************************************************)
(* Proofs about AuthService: types, and that admins come from admins.      *)
(***************************************************************************)
EXTENDS AuthService, TLAPS

\* GetToken and the clock keep what is left of a token between 0 and TTL.
LEMMA GetTokenType ==
    ASSUME AuthTypeOK, NEW c \in Clients, NEW r \in Roles, GetToken(c, r)
    PROVE  token' \in [Clients -> [Roles -> 0..TTL]]
<1>1. TTL \in 0..TTL
  BY AuthAssumption
<1> QED
  BY <1>1 DEF AuthTypeOK, GetToken

LEMMA TokensExpireType ==
    ASSUME AuthTypeOK, TokensExpire
    PROVE  AuthTypeOK'
<1>1. ASSUME NEW c \in Clients, NEW r \in Roles
      PROVE  Expire(c, r) \in 0..TTL
  BY AuthAssumption DEF AuthTypeOK, Expire
<1>2. token' \in [Clients -> [Roles -> 0..TTL]]
  BY <1>1 DEF TokensExpire
<1> QED
  BY <1>2 DEF AuthTypeOK, TokensExpire

LEMMA CreateUserType ==
    ASSUME AuthTypeOK, NEW h \in Handlers, NEW c \in Clients, NEW n \in Names,
           NEW r \in Roles, NEW t, NEW result, CreateUser(h, c, n, r, t, result)
    PROVE  AuthTypeOK'
<1>1. [client |-> c, name |-> n, role |-> r] \in Signups
  BY DEF Signups
<1> QED
  BY <1>1 DEF AuthTypeOK, CreateUser

\* The user a handler is about to insert, and what becomes of him.
LEMMA SignupType ==
    ASSUME AuthTypeOK, NEW h \in Handlers, signup[h] # NoSignup
    PROVE  /\ signup[h].client \in Clients
           /\ signup[h].name \in Names
           /\ signup[h].role \in Roles
  BY DEF AuthTypeOK, Signups

LEMMA InsertUserType ==
    ASSUME AuthTypeOK, NEW h \in Handlers, NEW result, InsertUser(h, result)
    PROVE  AuthTypeOK'
<1>1. signup[h] # NoSignup
  BY DEF InsertUser
<1>2. signup' \in [Handlers -> Signups \cup {NoSignup}]
  BY DEF AuthTypeOK, InsertUser
<1>3. users' \in [Names -> Users \cup {NoUser}]
  <2>1. CASE UNCHANGED users
    BY <2>1 DEF AuthTypeOK
  <2>2. ASSUME NEW o, StoreUser(signup[h], o)
        PROVE  users' \in [Names -> Users \cup {NoUser}]
    BY <1>1, <2>2, SignupType DEF StoreUser, AuthTypeOK, Users
  <2> QED
    BY <2>1, <2>2 DEF InsertUser
<1>4. token' \in [Clients -> [Roles -> 0..TTL]]
  <2>1. CASE UNCHANGED token
    BY <2>1 DEF AuthTypeOK
  <2>2. CASE GetToken(signup[h].client, signup[h].role)
    BY <1>1, <2>2, SignupType, GetTokenType
  <2> QED
    BY <2>1, <2>2 DEF InsertUser
<1> QED
  BY <1>2, <1>3, <1>4 DEF AuthTypeOK

LEMMA LoginType ==
    ASSUME AuthTypeOK, NEW c \in Clients, NEW n \in Names, NEW result,
           Login(c, n, result)
    PROVE  AuthTypeOK'
<1>1. CASE UNCHANGED token
  BY <1>1 DEF AuthTypeOK, Login
<1>2. CASE Matches(c, n) /\ GetToken(c, users[n].role)
  <2>1. users[n].role \in Roles
    BY <1>2 DEF AuthTypeOK, Matches, Users
  <2> QED
    BY <1>2, <2>1, GetTokenType DEF AuthTypeOK, Login
<1> QED
  BY <1>1, <1>2 DEF Login

LEMMA AuthTypeInit == AuthInit => AuthTypeOK
<1> SUFFICES ASSUME AuthInit PROVE AuthTypeOK
  OBVIOUS
<1>1. [role |-> adminRole, password |-> Operator] \in Users
  BY AuthAssumption DEF Users
<1>2. 0 \in 0..TTL
  BY AuthAssumption
<1> QED
  BY <1>1, <1>2 DEF AuthInit, AuthTypeOK

LEMMA AuthTypeNext == AuthTypeOK /\ [AuthNext]_authVars => AuthTypeOK'
<1> SUFFICES ASSUME AuthTypeOK, [AuthNext]_authVars PROVE AuthTypeOK'
  OBVIOUS
<1>1. CASE AuthCrash \/ UNCHANGED authVars
  BY <1>1 DEF AuthTypeOK, AuthCrash, authVars
<1> QED
  BY <1>1, CreateUserType, InsertUserType, LoginType, TokensExpireType DEF AuthNext

\* Users, tokens and pending signups keep their types; no token is ever
\* valid for longer than TTL.
THEOREM AuthTypeCorrectness == AuthSpec => []AuthTypeOK
  BY AuthTypeInit, AuthTypeNext, PTL DEF AuthSpec

(***************************************************************************)
(* NoEscalation becomes inductive with SignupInv: between the check of the *)
(* token and the INSERT the new admin exists only in a handler.            *)
(***************************************************************************)

AdminInv == NoEscalation /\ SignupInv

\* A token that passes as an admin's was given to the operator.
LEMMA AdminIsOperator ==
    ASSUME AuthTypeOK, NoEscalation, NEW c \in Clients, NEW t \in Presentable(c),
           IsAdmin(t)
    PROVE  c = Operator
  BY AuthAssumption DEF AuthTypeOK, NoEscalation, Presentable, IsAdmin, Valid

\* A new token of role r may be given to c.
LEMMA GetTokenSafe ==
    ASSUME AuthTypeOK, NoEscalation, NEW c \in Clients, NEW r \in Roles,
           GetToken(c, r), r = adminRole => c = Operator
    PROVE  \A d \in Clients \ {Operator} : token'[d][adminRole] = 0
<1> SUFFICES ASSUME NEW d \in Clients \ {Operator}
             PROVE  token'[d][adminRole] = 0
  OBVIOUS
<1>1. token[d][adminRole] = 0
  BY DEF NoEscalation
<1>2. token'[d][adminRole] = token[d][adminRole]
  BY AuthAssumption DEF GetToken, AuthTypeOK
<1> QED
  BY <1>1, <1>2

LEMMA CreateUserSafe ==
    ASSUME AuthTypeOK, AdminInv, NEW h \in Handlers, NEW c \in Clients,
           NEW n \in Names, NEW r \in Roles, NEW t \in Presentable(c), NEW result,
           CreateUser(h, c, n, r, t, result)
    PROVE  AdminInv'
<1>1. NoEscalation'
  BY DEF AdminInv, NoEscalation, CreateUser
<1>2. SignupInv'
  <2>1. CASE MayCreate(r, t)
    <3>1. r = adminRole => c = Operator
      BY <2>1, AdminIsOperator DEF MayCreate, AdminInv
    <3> QED
      BY <2>1, <3>1 DEF CreateUser, SignupInv, AdminInv, AuthTypeOK
  <2>2. CASE ~MayCreate(r, t)
    BY <2>2 DEF CreateUser, SignupInv, AdminInv
  <2> QED
    BY <2>1, <2>2
<1> QED
  BY <1>1, <1>2 DEF AdminInv

LEMMA InsertUserSafe ==
    ASSUME AuthTypeOK, AdminInv, NEW h \in Handlers, NEW result,
           InsertUser(h, result)
    PROVE  AdminInv'
<1>1. /\ signup[h] # NoSignup
      /\ signup[h].role = adminRole => signup[h].client = Operator
  BY DEF InsertUser, AdminInv, SignupInv
<1>2. SignupInv'
  BY DEF InsertUser, AdminInv, SignupInv, AuthTypeOK
<1>3. \A c \in Clients \ {Operator} : token'[c][adminRole] = 0
  <2>1. CASE UNCHANGED token
    BY <2>1 DEF AdminInv, NoEscalation
  <2>2. CASE GetToken(signup[h].client, signup[h].role)
    BY <1>1, <2>2, SignupType, GetTokenSafe DEF AdminInv
  <2> QED
    BY <2>1, <2>2 DEF InsertUser
<1>4. \A n \in Names : users'[n] # NoUser /\ users'[n].role = adminRole
                          => users'[n].password = Operator
  <2>1. CASE UNCHANGED users
    BY <2>1 DEF AdminInv, NoEscalation
  <2>2. ASSUME NEW o, StoreUser(signup[h], o)
        PROVE  \A n \in Names : users'[n] # NoUser /\ users'[n].role = adminRole
                                   => users'[n].password = Operator
    BY <1>1, <2>2, SignupType DEF StoreUser, AdminInv, NoEscalation, AuthTypeOK
  <2> QED
    BY <2>1, <2>2 DEF InsertUser
<1> QED
  BY <1>2, <1>3, <1>4 DEF AdminInv, NoEscalation

LEMMA LoginSafe ==
    ASSUME AuthTypeOK, AdminInv, NEW c \in Clients, NEW n \in Names, NEW result,
           Login(c, n, result)
    PROVE  AdminInv'
<1>1. SignupInv'
  BY DEF Login, AdminInv, SignupInv
<1>2. CASE UNCHANGED token
  BY <1>1, <1>2 DEF Login, AdminInv, NoEscalation
<1>3. CASE Matches(c, n) /\ GetToken(c, users[n].role)
  <2>1. /\ users[n].role \in Roles
        /\ users[n].role = adminRole => c = Operator
    BY <1>3 DEF AuthTypeOK, Matches, Users, AdminInv, NoEscalation
  <2>2. \A d \in Clients \ {Operator} : token'[d][adminRole] = 0
    BY <1>3, <2>1, GetTokenSafe DEF AdminInv
  <2> QED
    BY <1>1, <2>2 DEF Login, AdminInv, NoEscalation
<1> QED
  BY <1>2, <1>3 DEF Login

LEMMA TokensExpireSafe ==
    ASSUME AuthTypeOK, AdminInv, TokensExpire
    PROVE  AdminInv'
<1>1. ASSUME NEW c \in Clients \ {Operator} PROVE token'[c][adminRole] = 0
  BY AuthAssumption DEF TokensExpire, Expire, AdminInv, NoEscalation
<1> QED
  BY <1>1 DEF TokensExpire, AdminInv, NoEscalation, SignupInv

LEMMA AdminInit == AuthInit => AdminInv
  BY AuthAssumption DEF AuthInit, AdminInv, NoEscalation, SignupInv

LEMMA AdminNext == AuthTypeOK /\ AdminInv /\ [AuthNext]_authVars => AdminInv'
<1> SUFFICES ASSUME AuthTypeOK, AdminInv, [AuthNext]_authVars PROVE AdminInv'
  OBVIOUS
<1>1. CASE AuthCrash \/ UNCHANGED authVars
  BY <1>1 DEF AuthCrash, authVars, AdminInv, NoEscalation, SignupInv
<1> QED
  BY <1>1, CreateUserSafe, InsertUserSafe, LoginSafe, TokensExpireSafe DEF AuthNext

\* However many clients sign up and log in, in whichever order, and whatever
\* fails: only the operator gets to be an admin.
THEOREM AdminsFromAdmins == AuthSpec => []NoEscalation
<1>1. AdminInv => NoEscalation
  BY DEF AdminInv
<1> QED
  BY <1>1, AuthTypeCorrectness, AdminInit, AdminNext, PTL DEF AuthSpec

=============================================================================
