----------------------------- MODULE RepoCalls ------------------------------
(***************************************************************************)
(* What callers of BannersPostgresRepo rely on: between call and return a  *)
(* method takes effect once, in one step on the table, or fails without.   *)
(* BannerService is written on top of this.                                *)
(***************************************************************************)
EXTENDS BannerRepo, RepoMethods

callsVars == <<repoVars, call, answer>>

Init ==
    /\ RepoInit
    /\ call = [h \in Handlers |-> NoCall]
    /\ answer = [h \in Handlers |-> NoAnswer]

Call(h, c) ==
    /\ call[h] = NoCall
    /\ call' = [call EXCEPT ![h] = c]
    /\ UNCHANGED <<repoVars, answer>>

Answer(h, a) ==
    /\ call[h] # NoCall
    /\ answer[h] = NoAnswer
    /\ answer' = [answer EXCEPT ![h] = a]
    /\ UNCHANGED call

Insert(h) ==
    /\ call[h].op = "insert"
    /\ \E id \in BannerIds, o \in Outcomes(Faulty("postgres")) :
          /\ InsertBanner(id, call[h].content, o)
          /\ Answer(h, IF Reported(o) THEN Inserted(id) ELSE Error)

Update(h) ==
    /\ call[h].op = "update"
    /\ \E o \in Outcomes(Faulty("postgres")) :
          /\ UpdateRow(call[h].id, call[h].content, o)
          /\ Answer(h, IF Reported(o) THEN Nil ELSE Error)

Delete(h) ==
    /\ call[h].op = "delete"
    /\ \E o \in Outcomes(Faulty("postgres")) :
          /\ DeleteRow(call[h].id, o)
          /\ Answer(h, IF Reported(o) THEN Nil ELSE Error)

Missed(h) ==
    /\ call[h].op \in {"update", "delete"}
    /\ ~Stored(call[h].id)
    /\ Answer(h, NotFound)
    /\ UNCHANGED repoVars

\* One state of the table, whole.
Select(h) ==
    /\ call[h].op = "select"
    /\ LET q == call[h].query IN
          /\ ~OutOfRange(q)
          /\ Answer(h, Rows(Page(q, SelectBanners(q.feature, q.tags, q.onlyActive))))
    /\ UNCHANGED repoVars

\* An INSERT or UPDATE is also refused at the bounds of the model.
Fail(h) ==
    /\ \/ Faulty("postgres")
       \/ call[h].op = "select" /\ OutOfRange(call[h].query)
       \/ call[h].op \in {"insert", "update"}
    /\ Answer(h, Error)
    /\ UNCHANGED repoVars

\* What has been read is not returned if the transaction does not end well.
FailAfterSelect(h) ==
    /\ Faulty("postgres")
    /\ call[h].op = "select"
    /\ answer[h] # NoAnswer
    /\ answer' = [answer EXCEPT ![h] = Error]
    /\ UNCHANGED <<repoVars, call>>

Return(h) ==
    /\ answer[h] # NoAnswer
    /\ call' = [call EXCEPT ![h] = NoCall]
    /\ answer' = [answer EXCEPT ![h] = NoAnswer]
    /\ UNCHANGED repoVars

\* The ids of INSERTs it cuts off are lost.
Crash ==
    /\ Faulty("crash")
    /\ call' = [h \in Handlers |-> NoCall]
    /\ answer' = [h \in Handlers |-> NoAnswer]
    /\ drawn \subseteq drawn'
    /\ drawn' \subseteq BannerIds
    /\ UNCHANGED table

Next ==
    \/ \E h \in Handlers, c \in Calls : Call(h, c)
    \/ \E h \in Handlers :
          \/ Insert(h) \/ Update(h) \/ Delete(h) \/ Missed(h) \/ Select(h)
          \/ Fail(h) \/ FailAfterSelect(h)
          \/ Return(h)
    \/ Crash

Spec == Init /\ [][Next]_callsVars

=============================================================================
