-------------------------- MODULE RepoTransactions --------------------------
(***************************************************************************)
(* BannersPostgresRepo as it runs: handlers share a pool of connections,   *)
(* each call is a transaction of several commands, transactions of several *)
(* handlers are open at once (READ COMMITTED), and any command may fail.   *)
(***************************************************************************)
EXTENDS RepoMethods

CONSTANT MaxConns   \* bound on the size of the pool

ASSUME RepoTransactionsAssumption ==
    /\ MaxConns \in Nat \ {0}
    /\ IsFiniteSet(Handlers)

VARIABLES
    table,      \* the banners table, as committed
    seq,        \* the last id the SERIAL column gave
    conns,      \* cfg.MaxConns, pool_max_conns
    idle,       \* connections of the pool that are not in use
    step,       \* the next command of the method a handler is in
    broken,     \* the transaction is aborted, or the connection is lost
    given,      \* the id an INSERT was given
    pending,    \* rows of a SELECT that rows.Next has still to deliver
    banners     \* those it has delivered

localVars == <<broken, given, pending, banners>>
vars == <<table, seq, call, answer, conns, idle, step, localVars>>

TypeOK ==
    /\ table \in [BannerIds -> Banners \cup {NoBanner}]
    /\ seq \in 0..MaxId
    /\ call \in [Handlers -> Calls \cup {NoCall}]
    /\ answer \in [Handlers -> Answers]
    /\ conns \in 1..MaxConns
    /\ idle \in 0..conns
    /\ step \in [Handlers -> {"none", "begin", "execute", "rows", "end", "return"}]
    /\ broken \in [Handlers -> BOOLEAN]
    /\ given \in [Handlers -> 0..MaxId]
    /\ pending \in [Handlers -> SUBSET Banners]
    /\ banners \in [Handlers -> SUBSET Banners]

NoLocals ==
    /\ broken = [h \in Handlers |-> FALSE]
    /\ given = [h \in Handlers |-> 0]
    /\ pending = [h \in Handlers |-> {}]
    /\ banners = [h \in Handlers |-> {}]

Init ==
    /\ table = [id \in BannerIds |-> NoBanner]
    /\ seq = 0
    /\ call = [h \in Handlers |-> NoCall]
    /\ answer = [h \in Handlers |-> NoAnswer]
    /\ conns \in 1..MaxConns
    /\ idle = conns
    /\ step = [h \in Handlers |-> "none"]
    /\ NoLocals

GoTo(h, s) == step' = [step EXCEPT ![h] = s]

\* The method's err is nil, and PostgreSQL goes along with it.
Clean(h) == answer[h] = NoAnswer /\ ~broken[h]

\* The ids of INSERTs that have ended.
Ended ==
    (1..seq) \ {given[h] : h \in {g \in Handlers : step[g] = "end" /\ Clean(g)}}

Repo == INSTANCE BannerRepo WITH drawn <- Ended

(***************************************************************************)
(* Calls.                                                                  *)
(***************************************************************************)

Call(h, c) ==
    /\ step[h] = "none"
    /\ call' = [call EXCEPT ![h] = c]
    /\ GoTo(h, "begin")
    /\ UNCHANGED <<conns, table, seq, answer, idle, localVars>>

Begin_TwoConnections(h) ==                                          \* mutant
    /\ step[h] = "begin"
    /\ idle > 1
    /\ idle' = idle - 2
    /\ GoTo(h, "execute")
    /\ UNCHANGED <<conns, table, seq, call, answer, localVars>>

\* db.Begin waits for a connection, and gives it back if BEGIN fails.
Begin(h) ==
    /\ step[h] = "begin"
    /\ idle > 0
    /\ idle' = idle - 1
    /\ GoTo(h, "execute")
    /\ UNCHANGED <<conns, table, seq, call, answer, localVars>>

BeginFails_Releases(h) ==                                           \* mutant
    /\ step[h] = "begin"
    /\ Faulty("postgres")
    /\ answer' = [answer EXCEPT ![h] = Error]
    /\ idle' = idle + 1
    /\ GoTo(h, "return")
    /\ UNCHANGED <<conns, table, seq, call, localVars>>

BeginFails(h) ==
    /\ step[h] = "begin"
    /\ Faulty("postgres")
    /\ answer' = [answer EXCEPT ![h] = Error]
    /\ GoTo(h, "return")
    /\ UNCHANGED <<conns, table, seq, call, idle, localVars>>

(***************************************************************************)
(* Statements.                                                             *)
(***************************************************************************)

\* RETURNING id; nobody else sees the row before the COMMIT.
ExecuteInsert(h) ==
    /\ step[h] = "execute"
    /\ call[h].op = "insert"
    /\ seq < MaxId
    /\ seq' = seq + 1
    /\ given' = [given EXCEPT ![h] = seq + 1]
    /\ GoTo(h, "end")
    /\ UNCHANGED <<conns, table, call, answer, idle, broken, pending, banners>>

\* h has written to row id and not ended, and so holds its lock.
Locks(h, id) ==
    /\ step[h] = "end"
    /\ call[h].op \in {"update", "delete"}
    /\ call[h].id = id
    /\ Clean(h)

Locked(id) == \E h \in Handlers : Locks(h, id)

\* RowsAffected is 0 when the statement finds no row.
WriteRow(h) ==
    /\ IF Repo!Stored(call[h].id)
       THEN /\ call[h].op = "update" => table[call[h].id].rev < MaxRev
            /\ UNCHANGED answer
       ELSE answer' = [answer EXCEPT ![h] = NotFound]
    /\ GoTo(h, "end")
    /\ UNCHANGED <<conns, table, seq, call, idle, localVars>>

\* UPDATE and DELETE wait for the lock and then take the row as it is.
ExecuteWrite(h) ==
    /\ step[h] = "execute"
    /\ call[h].op \in {"update", "delete"}
    /\ ~Locked(call[h].id)
    /\ WriteRow(h)

\* The rows are those of one snapshot, and are delivered one by one.
ExecuteSelect(h) ==
    /\ step[h] = "execute"
    /\ call[h].op = "select"
    /\ LET q == call[h].query IN
          /\ ~OutOfRange(q)
          /\ pending' = [pending EXCEPT ![h] =
                Page(q, Repo!SelectBanners(q.feature, q.tags, q.onlyActive))]
    /\ GoTo(h, "rows")
    /\ UNCHANGED <<conns, table, seq, call, answer, idle, broken, given, banners>>

\* Exec, QueryRow or Query return the error, or, for a SELECT, rows.Next only
\* returns false.  An INSERT may have drawn its id.
StatementFails(h) ==
    /\ broken' = [broken EXCEPT ![h] = TRUE]
    /\ \/ answer' = [answer EXCEPT ![h] = Error]
       \/ call[h].op = "select" /\ UNCHANGED answer
    /\ \/ UNCHANGED seq
       \/ call[h].op = "insert" /\ seq < MaxId /\ seq' = seq + 1
    /\ GoTo(h, "end")
    /\ UNCHANGED <<conns, table, call, idle, given, pending, banners>>

ExecuteFails(h) ==
    /\ step[h] = "execute"
    /\ Faulty("postgres")
    /\ StatementFails(h)

\* PostgreSQL refuses the statement.  Bounds: so it does when there is no id
\* left, or no revision for the row.
Refused(c) ==
    CASE c.op = "select" -> OutOfRange(c.query)
      [] c.op = "insert" -> seq = MaxId
      [] c.op = "update" -> /\ Repo!Stored(c.id)
                            /\ table[c.id].rev = MaxRev
                            /\ ~Locked(c.id)
      [] OTHER           -> FALSE

ExecuteRefused(h) ==
    /\ step[h] = "execute"
    /\ Refused(call[h])
    /\ StatementFails(h)

NextRow_Again(h) ==                                                 \* mutant
    /\ step[h] = "rows"
    /\ \E b \in pending[h] :
          /\ \A c \in pending[h] : b.id <= c.id
          /\ banners' = [banners EXCEPT ![h] = @ \cup {b}]
    /\ UNCHANGED <<conns, table, seq, call, answer, idle, step, broken, given, pending>>

\* rows.Next and rows.Scan, ORDER BY id ASC.
NextRow(h) ==
    /\ step[h] = "rows"
    /\ \E b \in pending[h] :
          /\ \A c \in pending[h] : b.id <= c.id
          /\ banners' = [banners EXCEPT ![h] = @ \cup {b}]
          /\ pending' = [pending EXCEPT ![h] = @ \ {b}]
    /\ UNCHANGED <<conns, table, seq, call, answer, idle, step, broken, given>>

\* rows.Scan or json.Unmarshal returns an error in the middle of the rows.
ScanFails(h) ==
    /\ step[h] = "rows"
    /\ pending[h] # {}
    /\ Faulty("postgres")
    /\ answer' = [answer EXCEPT ![h] = Error]
    /\ pending' = [pending EXCEPT ![h] = {}]
    /\ GoTo(h, "end")
    /\ UNCHANGED <<conns, table, seq, call, idle, broken, given, banners>>

RowsEnd_Unbroken(h) ==                                              \* mutant
    /\ step[h] = "rows"
    /\ pending[h] = {} \/ Faulty("postgres")
    /\ GoTo(h, "end")
    /\ pending' = [pending EXCEPT ![h] = {}]
    /\ UNCHANGED <<conns, table, seq, call, answer, idle, broken, given, banners>>

\* rows.Next returns false after the last row and when the connection fails;
\* which of the two it was, rows.Err, is not looked at.
RowsEnd(h) ==
    /\ step[h] = "rows"
    /\ \/ pending[h] = {} /\ UNCHANGED broken
       \/ Faulty("postgres") /\ broken' = [broken EXCEPT ![h] = TRUE]
    /\ GoTo(h, "end")
    /\ pending' = [pending EXCEPT ![h] = {}]
    /\ UNCHANGED <<conns, table, seq, call, answer, idle, given, banners>>

(***************************************************************************)
(* CommitOrRollback, deferred, and the return of the method.               *)
(***************************************************************************)

Result(h) ==
    CASE call[h].op = "select" -> Rows(banners[h])
      [] call[h].op = "insert" -> Inserted(given[h])
      [] OTHER                 -> Nil

Written(h) ==
    CASE call[h].op = "insert" ->
            [table EXCEPT ![given[h]] = Row(given[h], 1, call[h].content)]
      [] call[h].op = "update" ->
            [table EXCEPT ![call[h].id] = Row(call[h].id, @.rev + 1, call[h].content)]
      [] call[h].op = "delete" -> [table EXCEPT ![call[h].id] = NoBanner]
      [] OTHER                 -> table

\* The method's results are set and its locals gone.
Leave(h) ==
    /\ GoTo(h, "return")
    /\ broken' = [broken EXCEPT ![h] = FALSE]
    /\ given' = [given EXCEPT ![h] = 0]
    /\ banners' = [banners EXCEPT ![h] = {}]
    /\ UNCHANGED <<conns, seq, call, pending>>

\* The connection goes back to the pool, or its place does if it is lost.
Release == idle' = idle + 1

Commit(h) ==
    /\ step[h] = "end"
    /\ Clean(h)
    /\ \E o \in Outcomes(Faulty("postgres")) :
          /\ table' = IF Applied(o) THEN Written(h) ELSE table
          /\ answer' = [answer EXCEPT ![h] = IF Reported(o) THEN Result(h) ELSE Error]
    /\ Release
    /\ Leave(h)

\* COMMIT of an aborted transaction rolls back, which pgx reports.
CommitFails(h) ==
    /\ step[h] = "end"
    /\ answer[h] = NoAnswer
    /\ broken[h]
    /\ answer' = [answer EXCEPT ![h] = Error]
    /\ UNCHANGED table
    /\ Release
    /\ Leave(h)

Rollback_KeepsConnection(h) ==                                      \* mutant
    /\ step[h] = "end"
    /\ answer[h] # NoAnswer
    /\ UNCHANGED <<table, answer, idle>>
    /\ Leave(h)

\* Whether ROLLBACK fails or not, the method's error is the one before.
Rollback(h) ==
    /\ step[h] = "end"
    /\ answer[h] # NoAnswer
    /\ UNCHANGED <<table, answer>>
    /\ Release
    /\ Leave(h)

Return(h) ==
    /\ step[h] = "return"
    /\ GoTo(h, "none")
    /\ call' = [call EXCEPT ![h] = NoCall]
    /\ answer' = [answer EXCEPT ![h] = NoAnswer]
    /\ UNCHANGED <<conns, table, seq, idle, localVars>>

(***************************************************************************)
(* The process dies; PostgreSQL rolls back what is open.                   *)
(***************************************************************************)

Crash ==
    /\ Faulty("crash")
    /\ call' = [h \in Handlers |-> NoCall]
    /\ answer' = [h \in Handlers |-> NoAnswer]
    /\ conns' \in 1..MaxConns
    /\ idle' = conns'
    /\ step' = [h \in Handlers |-> "none"]
    /\ broken' = [h \in Handlers |-> FALSE]
    /\ given' = [h \in Handlers |-> 0]
    /\ pending' = [h \in Handlers |-> {}]
    /\ banners' = [h \in Handlers |-> {}]
    /\ UNCHANGED <<table, seq>>

(***************************************************************************)
(* The specification.                                                      *)
(***************************************************************************)

Execute(h) ==
    ExecuteInsert(h) \/ ExecuteWrite(h) \/ ExecuteSelect(h) \/ ExecuteRefused(h)

Fetch(h) == NextRow(h) \/ RowsEnd(h)

CommitOrRollback(h) == Commit(h) \/ CommitFails(h) \/ Rollback(h)

Command(h) ==
    \/ Begin(h) \/ BeginFails(h)
    \/ Execute(h) \/ ExecuteFails(h)
    \/ Fetch(h) \/ ScanFails(h)
    \/ CommitOrRollback(h)
    \/ Return(h)

Next ==
    \/ \E h \in Handlers, c \in Calls : Call(h, c)
    \/ \E h \in Handlers : Command(h)
    \/ Crash

Spec == Init /\ [][Next]_vars

\* A method that can go on does.  A call that waits gets its turn at the pool
\* or at a lock, though others come after it without end, and gets it without
\* the help of a fault.
Fairness ==
    \A h \in Handlers :
        /\ SF_vars(Begin(h))
        /\ SF_vars(Execute(h))
        /\ WF_vars(Fetch(h) \/ CommitOrRollback(h) \/ Return(h))

FairSpec == Spec /\ Fairness

(***************************************************************************)
(* Properties.                                                             *)
(***************************************************************************)

InTransaction == {h \in Handlers : step[h] \in {"execute", "rows", "end"}}

\* Whatever fails, and however a method returns, each connection is in the
\* pool or with one transaction.
ConnectionsAreKept == idle + Cardinality(InTransaction) = conns

\* Handlers never all wait: those that wait for connections wait for others
\* that hold one and, if these wait for a lock, for one that has it.
NobodyDeadlocks ==
    (\E h \in Handlers : step[h] # "none") =>
        \E h \in Handlers :
            \/ step[h] = "begin" /\ idle > 0
            \/ /\ step[h] = "execute"
               /\ call[h].op \in {"update", "delete"} => ~Locked(call[h].id)
            \/ step[h] \in {"rows", "end", "return"}

\* How many steps a method may still take, waiting aside.
Left(h) ==
    CASE step[h] = "begin"   -> 5 + MaxId
      [] step[h] = "execute" -> 4 + MaxId
      [] step[h] = "rows"    -> 3 + Cardinality(pending[h])
      [] step[h] = "end"     -> 2
      [] step[h] = "return"  -> 1
      [] OTHER               -> 0

\* Each command takes its method closer to the return, and what others do,
\* with the same rows and connections, takes none back.  As they never all
\* wait (NobodyDeadlocks), the calls there are come to an end.
CallsRunOut ==
    [][\A h \in Handlers :
          /\ step[h] # "none" => Left(h)' <= Left(h)
          /\ Command(h) => Left(h)' < Left(h)]_vars

\* Every call returns, in its turn.
CallsReturn ==
    \A h \in Handlers : call[h] # NoCall ~> call[h] = NoCall

\* The answer RepoCalls has given: rows once they are selected, an error once
\* it is certain, the success of a write only when it is committed.
Decided ==
    [h \in Handlers |->
        IF answer[h] # NoAnswer THEN answer[h]
        ELSE IF broken[h] THEN Error
        ELSE IF call[h].op = "select" /\ step[h] \in {"rows", "end"}
             THEN Rows(banners[h] \cup pending[h])
        ELSE NoAnswer]

Atomic == INSTANCE RepoCalls WITH answer <- Decided, drawn <- Ended

\* Transactions of several commands, side by side on few connections, are as
\* good as methods with one step each: no list with rows missing, though
\* rows.Err is never checked, no update of a row that is gone, no write that
\* another one undoes, and no error after a write but of a COMMIT.
IsAtomic == Atomic!Spec

=============================================================================
