---------------------------- MODULE BannerStore ----------------------------
(***************************************************************************)
(* What BannerService promises: a store of banners, without a cache and    *)
(* without processes.  Each write is one step on the table, an answer is   *)
(* what the table holds, or, for users who did not ask for the last        *)
(* revision, an active banner that was in the table less than MaxAge ticks *)
(* ago.  A banner that was stored is reported as created once, or never.   *)
(***************************************************************************)
EXTENDS BannerAnswers

CONSTANTS
    MaxAge,     \* ticks after which a banner is not shown any more
    Inputs      \* the contents admins submit

VARIABLE created    \* ids of banners that are stored and not yet reported

storeVars == <<repoVars, age, created, out>>

Init ==
    /\ RepoInit
    /\ age = [b \in Banners |-> MaxAge]
    /\ created = {}
    /\ out = NoReply

Aged(n) == AgedUpTo(n, MaxAge)

Create(c) ==
    /\ \E id \in BannerIds, o \in Outcomes(Faulty("postgres")) :
          /\ InsertBanner(id, c, o)
          /\ \/ Reported(o) /\ created' = created \cup {id} /\ out' = NoReply
             \/ ~Reported(o) /\ UNCHANGED created /\ out' = Done("error", 0)
    /\ Aged(0)

ReportCreated(id) ==
    /\ id \in created
    /\ created' = created \ {id}
    /\ out' = Done("created", id)
    /\ UNCHANGED <<repoVars, age>>

Update(id, c) ==
    /\ \E o \in Outcomes(Faulty("postgres")) :
          /\ UpdateRow(id, c, o)
          /\ out' = Done(IF Reported(o) THEN "updated" ELSE "error", id)
    /\ Aged(0)
    /\ UNCHANGED created

\* A failed DELETE is reported like one that succeeded.
Delete(id) ==
    /\ \E o \in Outcomes(Faulty("postgres")) :
          DeleteRow(id, o) /\ out' = Done("deleted", id)
    /\ Aged(0)
    /\ UNCHANGED created

\* Nothing is stored under id, which is what the caller is told, unless the
\* table could not be asked.
NotThere(id) ==
    /\ ~Stored(id)
    /\ \/ out' = Done("notFound", id)
       \/ /\ Faulty("postgres")
          /\ out' \in {Done("error", id), Done("deleted", id)}
    /\ UNCHANGED <<repoVars, age, created>>

AnswerFromTable(q) ==
    /\ out' = Found(q, SelectBanners(q.feature, {q.tag}, ~q.admin))
    /\ UNCHANGED <<repoVars, age, created>>

AnswerOfLate(q) ==
    /\ ~q.admin
    /\ ~q.useLast
    /\ \E b \in Banners :
          /\ b.active
          /\ age[b] < MaxAge
          /\ out' = Found(q, {b})
    /\ UNCHANGED <<repoVars, age, created>>

NoAnswer ==
    /\ Faulty("postgres")
    /\ out' = Done("error", 0)
    /\ UNCHANGED <<repoVars, age, created>>

Time ==
    /\ out' = NoReply
    /\ UNCHANGED <<repoVars, created>>
    /\ Aged(1)

\* Nobody is told any more of the banners that were being created.
Restart ==
    /\ Faulty("crash")
    /\ created' = {}
    /\ out' = NoReply
    /\ UNCHANGED <<repoVars, age>>

Quiet ==
    /\ out' = NoReply
    /\ UNCHANGED <<repoVars, age, created>>

Next ==
    \/ Quiet
    \/ NoAnswer
    \/ Restart
    \/ Time
    \/ \E q \in Requests : AnswerFromTable(q) \/ AnswerOfLate(q)
    \/ \E id \in BannerIds : ReportCreated(id) \/ NotThere(id) \/ Delete(id)
    \/ \E id \in BannerIds, c \in Inputs : Update(id, c)
    \/ \E c \in Inputs : Create(c)

Spec == Init /\ [][Next]_storeVars

=============================================================================
