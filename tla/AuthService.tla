---------------------------- MODULE AuthService ----------------------------
(***************************************************************************)
(* AuthService, the users table behind it (UsersPostgresRepo) and the      *)
(* tokens of jwtauth.  CreateUser is two steps: the check of the caller's  *)
(* token, and, bcrypt later, the INSERT.  Login and Auth are one.  Each    *)
(* action has what the method returns as its last parameter.               *)
(*                                                                         *)
(* Every client has one password, which only it knows, so a stored hash is *)
(* the client whose password matches it.  Of the tokens of one role a      *)
(* client was given only the newest is kept: an older one is accepted for  *)
(* a shorter time, and an expired one is as good as a forged one.          *)
(***************************************************************************)
EXTENDS Naturals, Runtime

CONSTANTS
    Clients,    \* who sends requests
    Operator,   \* the client who knows the password in the migration
    Names,      \* usernames, with "Admin", which the migration inserts
    Roles,      \* roles a body of POST /user may name
    TTL,        \* cfg.Auth.TTL, in ticks of the model's clock
    NoUser,     \* no row of that username
    NoSignup,   \* the handler is not in CreateUser
    BadToken    \* expired, forged or "": ValidateTokenRole returns an error

adminRole == "admin"

NoRole == ""

Users == [role : Roles, password : Clients]

Signups == [client : Clients, name : Names, role : Roles]

ASSUME AuthAssumption ==
    /\ Operator \in Clients
    /\ "Admin" \in Names
    /\ adminRole \in Roles
    /\ TTL \in Nat \ {0}
    /\ NoUser \notin Users
    /\ NoSignup \notin Signups
    /\ BadToken \notin Roles

VARIABLES
    users,      \* the row stored under each username, or NoUser
    token,      \* ticks the newest token of a role a client has is valid for
    signup      \* the user a handler is about to insert, or NoSignup

authVars == <<users, token, signup>>

AuthTypeOK ==
    /\ users \in [Names -> Users \cup {NoUser}]
    /\ token \in [Clients -> [Roles -> 0..TTL]]
    /\ signup \in [Handlers -> Signups \cup {NoSignup}]

\* The migration stores one user, an admin.
AuthInit ==
    /\ users = [n \in Names |->
                   IF n = "Admin"
                   THEN [role |-> adminRole, password |-> Operator]
                   ELSE NoUser]
    /\ token = [c \in Clients |-> [r \in Roles |-> 0]]
    /\ signup = [h \in Handlers |-> NoSignup]

(***************************************************************************)
(* jwtauth.  A token is the role it was made for.                          *)
(***************************************************************************)

\* What a client can put into the header "token".
Presentable(c) == {BadToken} \cup {r \in Roles : token[c][r] > 0}

\* ValidateTokenRole returns nil for its error.
Valid(t) == t # BadToken

\* Auth returns TRUE: the token is valid and its role is admin.
IsAdmin(t) == Valid(t) /\ t = adminRole

\* GetToken makes a token for TTL; it refuses a user without a role.
GetToken(c, r) ==
    /\ r # NoRole
    /\ token' = [token EXCEPT ![c][r] = TTL]

\* What is left of a token one tick later.
Expire(c, r) == IF token[c][r] = 0 THEN 0 ELSE token[c][r] - 1

TokensExpire ==
    /\ token' = [c \in Clients |-> [r \in Roles |-> Expire(c, r)]]
    /\ UNCHANGED <<users, signup>>

(***************************************************************************)
(* CreateUser.                                                             *)
(***************************************************************************)

MayCreate_AnyUser(r, t) == r = adminRole => Valid(t)                \* mutant

\* Only admins create admins; for other roles the token is not looked at.
MayCreate(r, t) == r = adminRole => IsAdmin(t)

CreateUser(h, c, n, r, t, result) ==
    /\ signup[h] = NoSignup
    /\ IF MayCreate(r, t)
       THEN /\ result = "pending"
            /\ signup' = [signup EXCEPT ![h] = [client |-> c, name |-> n, role |-> r]]
       ELSE /\ result = "error"
            /\ UNCHANGED signup
    /\ UNCHANGED <<users, token>>

\* The INSERT was executed and the transaction ends with outcome.  Whatever
\* that is, userRepo.CreateUser returns nil: err is not its named result.
StoreUser(u, outcome) ==
    users' = IF Applied(outcome)
             THEN [users EXCEPT ![u.name] = [role |-> u.role, password |-> u.client]]
             ELSE users

InsertUser_OnConflictDoNothing(h, result) ==                        \* mutant
    /\ signup[h] # NoSignup
    /\ signup' = [signup EXCEPT ![h] = NoSignup]
    /\ LET u == signup[h] IN
       /\ IF users[u.name] = NoUser
          THEN \E o \in Outcomes(Faulty("postgres")) : StoreUser(u, o)
          ELSE UNCHANGED users
       /\ \/ GetToken(u.client, u.role) /\ result = "created"
          \/ u.role = NoRole /\ UNCHANGED token /\ result = "error"

InsertUser(h, result) ==
    /\ signup[h] # NoSignup
    /\ signup' = [signup EXCEPT ![h] = NoSignup]
    /\ LET u == signup[h] IN
       \/ /\ users[u.name] # NoUser
          /\ result = "exists"
          /\ UNCHANGED <<users, token>>
       \/ /\ Faulty("postgres")
          /\ result = "error"
          /\ UNCHANGED <<users, token>>
       \/ /\ users[u.name] = NoUser
          /\ \E o \in Outcomes(Faulty("postgres")) : StoreUser(u, o)
          /\ \/ GetToken(u.client, u.role) /\ result = "created"
             \/ u.role = NoRole /\ UNCHANGED token /\ result = "error"

(***************************************************************************)
(* Login.                                                                  *)
(***************************************************************************)

\* GetUser found the row and bcrypt finds that its hash is of c's password.
Matches(c, n) == users[n] # NoUser /\ users[n].password = c

Login(c, n, result) ==
    /\ \/ /\ Matches(c, n)
          /\ GetToken(c, users[n].role)
          /\ result = "ok"
       \/ /\ ~(Matches(c, n) /\ users[n].role # NoRole) \/ Faulty("postgres")
          /\ UNCHANGED token
          /\ result = "error"
    /\ UNCHANGED <<users, signup>>

(***************************************************************************)
(* The specification.                                                      *)
(***************************************************************************)

\* The handlers are gone; users and the clients' tokens stay.
AuthCrash ==
    /\ Faulty("crash")
    /\ signup' = [h \in Handlers |-> NoSignup]
    /\ UNCHANGED <<users, token>>

AuthNext ==
    \/ \E h \in Handlers, c \in Clients, n \in Names, r \in Roles :
          \E t \in Presentable(c), result \in {"pending", "error"} :
             CreateUser(h, c, n, r, t, result)
    \/ \E h \in Handlers, result \in {"created", "exists", "error"} :
          InsertUser(h, result)
    \/ \E c \in Clients, n \in Names, result \in {"ok", "error"} :
          Login(c, n, result)
    \/ TokensExpire
    \/ AuthCrash

AuthSpec == AuthInit /\ [][AuthNext]_authVars

(***************************************************************************)
(* Properties.                                                             *)
(***************************************************************************)

\* Admins come from admins: however users are created, by whom and in which
\* order, nobody but the operator ever has an admin's password or token.
NoEscalation ==
    /\ \A c \in Clients \ {Operator} : token[c][adminRole] = 0
    /\ \A n \in Names :
          users[n] # NoUser /\ users[n].role = adminRole
              => users[n].password = Operator

\* No handler is about to store an admin for somebody else.
SignupInv ==
    \A h \in Handlers :
        signup[h] # NoSignup /\ signup[h].role = adminRole
            => signup[h].client = Operator

=============================================================================
