------------------------ MODULE RepoTransactionsProofs ------------------------
(***************************************************************************)
(* Proofs about RepoTransactions, for any handlers, calls and size of the  *)
(* pool.  IInv says what the locals of a method can be at each of its      *)
(* commands, whom ids and locks belong to, and where the connections are.  *)
(***************************************************************************)
EXTENDS RepoTransactions, FiniteSetTheorems, TLAPS

USE RepoTransactionsAssumption, RepoMethodsAssumption, BannerAssumption
    DEF BannerIds, Revisions

(***************************************************************************)
(* The invariant.                                                          *)
(***************************************************************************)

\* TypeOK, but for the bound on idle, which ConnectionsAreKept gives.
TypeInv ==
    /\ table \in [BannerIds -> Banners \cup {NoBanner}]
    /\ seq \in 0..MaxId
    /\ call \in [Handlers -> Calls \cup {NoCall}]
    /\ answer \in [Handlers -> Answers]
    /\ conns \in 1..MaxConns
    /\ idle \in Nat
    /\ step \in [Handlers -> {"none", "begin", "execute", "rows", "end", "return"}]
    /\ broken \in [Handlers -> BOOLEAN]
    /\ given \in [Handlers -> 0..MaxId]
    /\ pending \in [Handlers -> SUBSET Banners]
    /\ banners \in [Handlers -> SUBSET Banners]

LocalsOf(h) ==
    /\ step[h] = "none" <=> call[h] = NoCall
    /\ step[h] \in {"none", "begin", "execute", "rows"} => answer[h] = NoAnswer
    /\ step[h] = "return" => answer[h] # NoAnswer
    /\ step[h] # "end" => broken[h] = FALSE
    /\ step[h] = "rows" => call[h].op = "select"
    /\ step[h] # "rows" => pending[h] = {}
    /\ step[h] \notin {"rows", "end"} => banners[h] = {}
    /\ step[h] # "end" \/ call[h].op # "insert" => given[h] = 0
    /\ step[h] = "end" /\ call[h].op = "insert" /\ Clean(h) => given[h] # 0

LocalInv == \A h \in Handlers : LocalsOf(h)

\* The id of an open INSERT is its own and nothing is stored under it.
IdInv ==
    /\ \A h \in Handlers : given[h] <= seq
    /\ \A h \in Handlers : given[h] # 0 => table[given[h]] = NoBanner
    /\ \A g, h \in Handlers : given[g] = given[h] /\ given[g] # 0 => g = h
    /\ \A id \in BannerIds : id > seq => table[id] = NoBanner

\* A lock is held by one transaction, and the row is still there.
LockInv ==
    /\ \A h \in Handlers, id \in BannerIds :
          Locks(h, id) => /\ table[id] # NoBanner
                          /\ call[h].op = "update" => table[id].rev < MaxRev
    /\ \A g, h \in Handlers, id \in BannerIds :
          Locks(g, id) /\ Locks(h, id) => g = h

IInv == TypeInv /\ LocalInv /\ IdInv /\ LockInv /\ ConnectionsAreKept

(***************************************************************************)
(* Types.                                                                  *)
(***************************************************************************)

LEMMA Names ==
    /\ NoAnswer # Error /\ NoAnswer # NotFound /\ NoAnswer # Nil /\ Error # NotFound
    /\ \A id : Inserted(id) # NoAnswer
    /\ \A bs : Rows(bs) # NoAnswer /\ Rows(bs) # Error
    /\ NoCall \notin Calls
    /\ \A c \in Calls : c.op \in {"select", "insert", "update", "delete"}
    /\ NoCall.op = "none"
  BY DEF NoAnswer, Error, NotFound, Nil, Inserted, Rows, NoCall, Calls

LEMMA AnswersTyped ==
    NoAnswer \in Answers /\ Error \in Answers /\ NotFound \in Answers
  BY DEF Answers

LEMMA RowTyped ==
    ASSUME NEW id \in BannerIds, NEW r \in Revisions, NEW c \in Inputs
    PROVE  Row(id, r, c) \in Banners
  BY DEF Row, Banners, Contents

LEMMA PageTyped ==
    ASSUME TypeInv, NEW q
    PROVE  Page(q, Repo!SelectBanners(q.feature, q.tags, q.onlyActive)) \subseteq Banners
  BY DEF TypeInv, Page, Repo!SelectBanners, Repo!BannerIds

\* What a COMMIT writes is a table.
LEMMA WrittenTyped ==
    ASSUME TypeInv, LocalInv, LockInv, NEW h \in Handlers, step[h] = "end", Clean(h)
    PROVE  Written(h) \in [BannerIds -> Banners \cup {NoBanner}]
<1>1. call[h] \in Calls
  BY DEF TypeInv, LocalInv, LocalsOf
<1>2. CASE call[h].op = "insert"
  <2>1. given[h] \in BannerIds /\ call[h].content \in Inputs
    BY <1>1, <1>2 DEF TypeInv, LocalInv, LocalsOf, Calls
  <2>2. Row(given[h], 1, call[h].content) \in Banners
    BY <2>1, RowTyped
  <2> QED
    BY <1>2, <2>1, <2>2 DEF Written, TypeInv
<1>3. CASE call[h].op = "update"
  <2>1. call[h].id \in BannerIds /\ call[h].content \in Inputs
    BY <1>1, <1>3 DEF Calls
  <2>2. table[call[h].id] # NoBanner /\ table[call[h].id].rev < MaxRev
    BY <1>3, <2>1 DEF LockInv, Locks
  <2>3. table[call[h].id] \in Banners
    BY <2>1, <2>2 DEF TypeInv
  <2>4. table[call[h].id].rev + 1 \in Revisions
    BY <2>2, <2>3 DEF Banners
  <2>5. Row(call[h].id, table[call[h].id].rev + 1, call[h].content) \in Banners
    BY <2>1, <2>4, RowTyped
  <2> QED
    BY <1>3, <2>1, <2>5 DEF Written, TypeInv
<1>4. CASE call[h].op = "delete"
  <2>1. call[h].id \in BannerIds
    BY <1>1, <1>4 DEF Calls
  <2> QED
    BY <1>4, <2>1 DEF Written, TypeInv
<1>5. CASE call[h].op = "select"
  BY <1>5 DEF Written, TypeInv
<1> QED
  BY <1>1, <1>2, <1>3, <1>4, <1>5, Names

LEMMA ResultTyped ==
    ASSUME TypeInv, LocalInv, NEW h \in Handlers, step[h] = "end", Clean(h)
    PROVE  Result(h) \in Answers /\ Result(h) # NoAnswer
<1>1. call[h] \in Calls
  BY DEF TypeInv, LocalInv, LocalsOf
<1>2. CASE call[h].op = "insert"
  <2>1. given[h] \in BannerIds
    BY <1>2 DEF TypeInv, LocalInv, LocalsOf
  <2> QED
    BY <1>2, <2>1 DEF Result, Answers, Inserted, NoAnswer
<1>3. CASE call[h].op = "select"
  BY <1>3 DEF Result, Answers, Rows, NoAnswer, TypeInv
<1>4. CASE call[h].op \in {"update", "delete"}
  BY <1>4 DEF Result, Answers, Nil, NoAnswer
<1> QED
  BY <1>1, <1>2, <1>3, <1>4, Names

LEMMA StatementFailsTyped ==
    ASSUME TypeInv, NEW h \in Handlers, StatementFails(h)
    PROVE  TypeInv'
<1>1. seq' \in 0..MaxId
  BY DEF StatementFails, TypeInv
<1>2. UNCHANGED answer \/ answer' = [answer EXCEPT ![h] = Error]
  BY DEF StatementFails
<1>3. answer' \in [Handlers -> Answers]
  BY <1>2, AnswersTyped DEF TypeInv
<1>4. /\ broken' = [broken EXCEPT ![h] = TRUE]
      /\ step' = [step EXCEPT ![h] = "end"]
      /\ UNCHANGED <<conns, table, call, idle, given, pending, banners>>
  BY DEF StatementFails, GoTo
<1>5. /\ broken' \in [Handlers -> BOOLEAN]
      /\ step' \in [Handlers -> {"none", "begin", "execute", "rows", "end", "return"}]
  BY <1>4, Zenon DEF TypeInv
<1> QED
  BY <1>1, <1>3, <1>4, <1>5 DEF TypeInv

LEMMA InitOK == Init => IInv
<1> SUFFICES ASSUME Init PROVE IInv
  OBVIOUS
<1>1. TypeInv
  BY DEF Init, NoLocals, TypeInv, Answers
<1>2. LocalInv
  BY DEF Init, NoLocals, LocalInv, LocalsOf, Clean
<1>3. IdInv
  BY DEF Init, NoLocals, IdInv
<1>4. LockInv
  BY DEF Init, LockInv, Locks
<1>5. ConnectionsAreKept
  <2>1. InTransaction = {}
    BY DEF Init, InTransaction
  <2> QED
    BY <2>1, FS_EmptySet DEF Init, ConnectionsAreKept
<1> QED
  BY <1>1, <1>2, <1>3, <1>4, <1>5 DEF IInv

LEMMA TypeNext ==
    ASSUME IInv, [Next]_vars
    PROVE  TypeInv'
<1>0. TypeInv /\ LocalInv /\ LockInv
  BY DEF IInv
<1>1. ASSUME NEW h \in Handlers, NEW c \in Calls, Call(h, c)
      PROVE  TypeInv'
  BY <1>0, <1>1 DEF Call, GoTo, TypeInv, localVars
<1>2. ASSUME NEW h \in Handlers, Begin(h) PROVE TypeInv'
  BY <1>0, <1>2 DEF Begin, GoTo, TypeInv, localVars
<1>3. ASSUME NEW h \in Handlers, BeginFails(h) PROVE TypeInv'
  BY <1>0, AnswersTyped, <1>3 DEF BeginFails, GoTo, TypeInv, localVars
<1>4. ASSUME NEW h \in Handlers, ExecuteInsert(h) PROVE TypeInv'
  BY <1>0, <1>4 DEF ExecuteInsert, GoTo, TypeInv, localVars
<1>5. ASSUME NEW h \in Handlers, ExecuteWrite(h) PROVE TypeInv'
  BY <1>0, AnswersTyped, <1>5 DEF ExecuteWrite, WriteRow, GoTo, TypeInv, localVars
<1>6. ASSUME NEW h \in Handlers, ExecuteSelect(h) PROVE TypeInv'
  <2> DEFINE q == call[h].query
  <2>1. Page(q, Repo!SelectBanners(q.feature, q.tags, q.onlyActive)) \subseteq Banners
    BY <1>0, PageTyped
  <2> QED
    BY <1>0, <2>1, <1>6 DEF ExecuteSelect, GoTo, TypeInv
<1>7. ASSUME NEW h \in Handlers, ExecuteRefused(h) PROVE TypeInv'
  BY <1>0, StatementFailsTyped, <1>7 DEF ExecuteRefused
<1>8. ASSUME NEW h \in Handlers, ExecuteFails(h) PROVE TypeInv'
  BY <1>0, StatementFailsTyped, <1>8 DEF ExecuteFails
<1>9. ASSUME NEW h \in Handlers, NextRow(h) PROVE TypeInv'
  BY <1>0, <1>9 DEF NextRow, TypeInv, localVars
<1>10. ASSUME NEW h \in Handlers, RowsEnd(h) PROVE TypeInv'
  BY <1>0, <1>10 DEF RowsEnd, GoTo, TypeInv, localVars
<1>11. ASSUME NEW h \in Handlers, Commit(h) PROVE TypeInv'
  <2>1. Written(h) \in [BannerIds -> Banners \cup {NoBanner}] /\ Result(h) \in Answers
    BY <1>0, <1>11, WrittenTyped, ResultTyped DEF Commit
  <2> QED
    BY <1>0, <2>1, AnswersTyped, <1>11 DEF Commit, Release, Leave, GoTo, TypeInv
<1>12. ASSUME NEW h \in Handlers, CommitFails(h) PROVE TypeInv'
  BY <1>0, AnswersTyped, <1>12 DEF CommitFails, Release, Leave, GoTo, TypeInv
<1>13. ASSUME NEW h \in Handlers, Rollback(h) PROVE TypeInv'
  BY <1>0, <1>13 DEF Rollback, Release, Leave, GoTo, TypeInv, localVars
<1>14. ASSUME NEW h \in Handlers, Return(h) PROVE TypeInv'
  BY <1>0, AnswersTyped, <1>14 DEF Return, GoTo, TypeInv, localVars
<1>15. CASE Crash
  BY <1>0, AnswersTyped, <1>15 DEF Crash, TypeInv
<1>16. CASE UNCHANGED vars
  BY <1>0, <1>16 DEF vars, localVars, TypeInv, localVars
<1>17. ASSUME NEW h \in Handlers, ScanFails(h) PROVE TypeInv'
  BY <1>0, AnswersTyped, <1>17 DEF ScanFails, GoTo, TypeInv
<1> QED
  BY <1>1, <1>2, <1>3, <1>4, <1>5, <1>6, <1>7, <1>8, <1>9, <1>10, <1>11, <1>12,
      <1>13, <1>14, <1>15, <1>16, <1>17 DEF Next, Command, Execute, Fetch, CommitOrRollback

(***************************************************************************)
(* The locals of a method.                                                 *)
(***************************************************************************)

LEMMA LocalNext ==
    ASSUME IInv, [Next]_vars
    PROVE  LocalInv'
<1>0. TypeInv /\ LocalInv /\ IdInv
  BY DEF IInv
<1>1. ASSUME NEW h \in Handlers, NEW c \in Calls, Call(h, c)
      PROVE  LocalInv'
  BY <1>0, Names, <1>1 DEF Call, GoTo, TypeInv, LocalInv, LocalsOf, Clean,
      localVars
<1>2. ASSUME NEW h \in Handlers, Begin(h) PROVE LocalInv'
  BY <1>0, Names, <1>2 DEF Begin, GoTo, TypeInv, LocalInv, LocalsOf, Clean,
      localVars
<1>3. ASSUME NEW h \in Handlers, BeginFails(h) PROVE LocalInv'
  BY <1>0, Names, <1>3 DEF BeginFails, GoTo, TypeInv, LocalInv, LocalsOf,
      Clean, localVars
<1>4. ASSUME NEW h \in Handlers, ExecuteInsert(h) PROVE LocalInv'
  BY <1>0, Names, <1>4 DEF ExecuteInsert, GoTo, TypeInv, LocalInv, LocalsOf,
      Clean, localVars
<1>5. ASSUME NEW h \in Handlers, ExecuteWrite(h) PROVE LocalInv'
  BY <1>0, Names, <1>5 DEF ExecuteWrite, WriteRow, GoTo, TypeInv, LocalInv,
      LocalsOf, Clean, localVars
<1>6. ASSUME NEW h \in Handlers, ExecuteSelect(h) PROVE LocalInv'
  BY <1>0, Names, <1>6 DEF ExecuteSelect, GoTo, TypeInv, LocalInv, LocalsOf,
      Clean, localVars
<1>7. ASSUME NEW h \in Handlers, ExecuteRefused(h) PROVE LocalInv'
  BY <1>0, Names, <1>7 DEF ExecuteRefused, StatementFails, GoTo, TypeInv,
      LocalInv, LocalsOf, Clean, localVars
<1>8. ASSUME NEW h \in Handlers, ExecuteFails(h) PROVE LocalInv'
  BY <1>0, Names, <1>8 DEF ExecuteFails, StatementFails, GoTo, TypeInv,
      LocalInv, LocalsOf, Clean, localVars
<1>9. ASSUME NEW h \in Handlers, NextRow(h) PROVE LocalInv'
  BY <1>0, Names, <1>9 DEF NextRow, TypeInv, LocalInv, LocalsOf, Clean,
      localVars
<1>10. ASSUME NEW h \in Handlers, RowsEnd(h) PROVE LocalInv'
  BY <1>0, Names, <1>10 DEF RowsEnd, GoTo, TypeInv, LocalInv, LocalsOf, Clean,
      localVars
<1>11. ASSUME NEW h \in Handlers, Commit(h) PROVE LocalInv'
  <2>1. Result(h) # NoAnswer /\ Error # NoAnswer
    BY <1>0, <1>11, ResultTyped, Names DEF Commit
  <2> QED
    BY <1>0, <2>1, <1>11 DEF Commit, Release, Leave, GoTo, TypeInv, LocalInv, LocalsOf, Clean
<1>12. ASSUME NEW h \in Handlers, CommitFails(h) PROVE LocalInv'
  BY <1>0, Names, <1>12 DEF CommitFails, Release, Leave, GoTo, TypeInv,
      LocalInv, LocalsOf, Clean, localVars
<1>13. ASSUME NEW h \in Handlers, Rollback(h) PROVE LocalInv'
  BY <1>0, Names, <1>13 DEF Rollback, Release, Leave, GoTo, TypeInv, LocalInv,
      LocalsOf, Clean, localVars
<1>14. ASSUME NEW h \in Handlers, Return(h) PROVE LocalInv'
  BY <1>0, Names, <1>14 DEF Return, GoTo, TypeInv, LocalInv, LocalsOf, Clean,
      localVars
<1>15. CASE Crash
  BY <1>0, Names, <1>15 DEF Crash, TypeInv, LocalInv, LocalsOf, Clean,
      localVars
<1>16. CASE UNCHANGED vars
  BY <1>0, Names, <1>16 DEF vars, localVars, TypeInv, LocalInv, LocalsOf,
      Clean, localVars
<1>17. ASSUME NEW h \in Handlers, ScanFails(h) PROVE LocalInv'
  BY <1>0, Names, <1>17 DEF ScanFails, GoTo, TypeInv, LocalInv, LocalsOf, Clean
<1> QED
  BY <1>1, <1>2, <1>3, <1>4, <1>5, <1>6, <1>7, <1>8, <1>9, <1>10, <1>11, <1>12,
      <1>13, <1>14, <1>15, <1>16, <1>17 DEF Next, Command, Execute, Fetch, CommitOrRollback

(***************************************************************************)
(* Ids.                                                                    *)
(***************************************************************************)

\* A COMMIT puts a row where there was none only under the id it was given.
LEMMA WrittenAt ==
    ASSUME IInv, NEW h \in Handlers, step[h] = "end", Clean(h), NEW id \in BannerIds
    PROVE  /\ table[id] = NoBanner /\ Written(h)[id] # NoBanner => id = given[h]
           /\ Written(h)[id] # table[id]
                => \/ call[h].op = "insert" /\ id = given[h]
                   \/ Locks(h, id)
<1> USE DEF IInv
<1>1. call[h] \in Calls
  BY DEF TypeInv, LocalInv, LocalsOf
<1>2. CASE call[h].op = "insert"
  BY <1>2 DEF Written, TypeInv
<1>3. CASE call[h].op \in {"update", "delete"}
  <2>1. Locks(h, call[h].id) /\ call[h].id \in BannerIds
    BY <1>1, <1>3 DEF Locks, Calls
  <2>2. table[call[h].id] # NoBanner
    BY <2>1 DEF LockInv
  <2> QED
    BY <1>3, <2>1, <2>2 DEF Written, TypeInv
<1>4. CASE call[h].op = "select"
  BY <1>4 DEF Written, TypeInv
<1> QED
  BY <1>1, <1>2, <1>3, <1>4, Names

LEMMA IdNext ==
    ASSUME IInv, [Next]_vars
    PROVE  IdInv'
<1>0. TypeInv /\ LocalInv /\ IdInv
  BY DEF IInv
<1>1. ASSUME NEW h \in Handlers, NEW c \in Calls, Call(h, c)
      PROVE  IdInv'
  BY <1>0, <1>1 DEF Call, GoTo, TypeInv, LocalInv, LocalsOf, IdInv, localVars
<1>2. ASSUME NEW h \in Handlers, Begin(h) PROVE IdInv'
  BY <1>0, <1>2 DEF Begin, GoTo, TypeInv, LocalInv, LocalsOf, IdInv, localVars
<1>3. ASSUME NEW h \in Handlers, BeginFails(h) PROVE IdInv'
  BY <1>0, <1>3 DEF BeginFails, GoTo, TypeInv, LocalInv, LocalsOf, IdInv,
      localVars
<1>4. ASSUME NEW h \in Handlers, ExecuteInsert(h) PROVE IdInv'
  <2>1. /\ seq' = seq + 1
        /\ given' = [given EXCEPT ![h] = seq + 1]
        /\ UNCHANGED table
        /\ seq + 1 \in BannerIds
    BY <1>0, <1>4 DEF ExecuteInsert, TypeInv
  <2> QED
    BY <1>0, <2>1 DEF TypeInv, IdInv
<1>5. ASSUME NEW h \in Handlers, ExecuteWrite(h) PROVE IdInv'
  BY <1>0, <1>5 DEF ExecuteWrite, WriteRow, GoTo, TypeInv, LocalInv, LocalsOf,
      IdInv, localVars
<1>6. ASSUME NEW h \in Handlers, ExecuteSelect(h) PROVE IdInv'
  BY <1>0, <1>6 DEF ExecuteSelect, GoTo, TypeInv, LocalInv, LocalsOf, IdInv,
      localVars
<1>7. ASSUME NEW h \in Handlers, ExecuteRefused(h) PROVE IdInv'
  <2>1. UNCHANGED <<table, given>> /\ seq' \in {seq, seq + 1}
    BY <1>7 DEF ExecuteRefused, StatementFails
  <2> QED
    BY <1>0, <2>1 DEF TypeInv, IdInv
<1>8. ASSUME NEW h \in Handlers, ExecuteFails(h) PROVE IdInv'
  <2>1. UNCHANGED <<table, given>> /\ seq' \in {seq, seq + 1}
    BY <1>8 DEF ExecuteFails, StatementFails
  <2> QED
    BY <1>0, <2>1 DEF TypeInv, IdInv
<1>9. ASSUME NEW h \in Handlers, NextRow(h) PROVE IdInv'
  BY <1>0, <1>9 DEF NextRow, TypeInv, LocalInv, LocalsOf, IdInv, localVars
<1>10. ASSUME NEW h \in Handlers, RowsEnd(h) PROVE IdInv'
  BY <1>0, <1>10 DEF RowsEnd, GoTo, TypeInv, LocalInv, LocalsOf, IdInv,
      localVars
<1>11. ASSUME NEW h \in Handlers, Commit(h) PROVE IdInv'
  <2>1. /\ given' = [given EXCEPT ![h] = 0]
        /\ UNCHANGED seq
        /\ table' \in {table, Written(h)}
        /\ step[h] = "end" /\ Clean(h)
    BY <1>11 DEF Commit, Leave
  <2>2. ASSUME NEW id \in BannerIds, table[id] = NoBanner, id # given[h]
        PROVE  table'[id] = NoBanner
    BY <2>1, <2>2, WrittenAt
  <2>3. given[h] # 0 => given[h] <= seq
    BY <1>0 DEF IdInv
  <2> QED
    BY <1>0, <2>1, <2>2, <2>3 DEF TypeInv, IdInv
<1>12. ASSUME NEW h \in Handlers, CommitFails(h) PROVE IdInv'
  BY <1>0, <1>12 DEF CommitFails, Release, Leave, GoTo, TypeInv, LocalInv,
      LocalsOf, IdInv, localVars
<1>13. ASSUME NEW h \in Handlers, Rollback(h) PROVE IdInv'
  BY <1>0, <1>13 DEF Rollback, Release, Leave, GoTo, TypeInv, LocalInv,
      LocalsOf, IdInv, localVars
<1>14. ASSUME NEW h \in Handlers, Return(h) PROVE IdInv'
  BY <1>0, <1>14 DEF Return, GoTo, TypeInv, LocalInv, LocalsOf, IdInv,
      localVars
<1>15. CASE Crash
  BY <1>0, <1>15 DEF Crash, TypeInv, LocalInv, LocalsOf, IdInv, localVars
<1>16. CASE UNCHANGED vars
  BY <1>0, <1>16 DEF vars, localVars, TypeInv, LocalInv, LocalsOf, IdInv,
      localVars
<1>17. ASSUME NEW h \in Handlers, ScanFails(h) PROVE IdInv'
  BY <1>0, <1>17 DEF ScanFails, IdInv
<1> QED
  BY <1>1, <1>2, <1>3, <1>4, <1>5, <1>6, <1>7, <1>8, <1>9, <1>10, <1>11, <1>12,
      <1>13, <1>14, <1>15, <1>16, <1>17 DEF Next, Command, Execute, Fetch, CommitOrRollback

(***************************************************************************)
(* Locks.                                                                  *)
(***************************************************************************)

LEMMA LockNext ==
    ASSUME IInv, [Next]_vars
    PROVE  LockInv'
<1>0. TypeInv /\ LocalInv /\ IdInv /\ LockInv
  BY DEF IInv
<1>1. ASSUME NEW h \in Handlers, NEW c \in Calls, Call(h, c)
      PROVE  LockInv'
  BY <1>0, <1>1 DEF Call, GoTo, TypeInv, LockInv, Locks, Clean, localVars
<1>2. ASSUME NEW h \in Handlers, Begin(h) PROVE LockInv'
  BY <1>0, <1>2 DEF Begin, GoTo, TypeInv, LockInv, Locks, Clean, localVars
<1>3. ASSUME NEW h \in Handlers, BeginFails(h) PROVE LockInv'
  BY <1>0, <1>3 DEF BeginFails, GoTo, TypeInv, LockInv, Locks, Clean, localVars
<1>4. ASSUME NEW h \in Handlers, ExecuteInsert(h) PROVE LockInv'
  BY <1>0, <1>4 DEF ExecuteInsert, GoTo, TypeInv, LockInv, Locks, Clean,
      localVars
<1>5. ASSUME NEW h \in Handlers, ExecuteWrite(h) PROVE LockInv'
  <2>1. ASSUME NEW g \in Handlers, NEW id \in BannerIds, Locks(g, id)'
        PROVE  \/ Locks(g, id)
               \/ /\ g = h /\ id = call[h].id /\ ~Locked(id)
                  /\ table[id] # NoBanner
                  /\ call[h].op = "update" => table[id].rev < MaxRev
    BY <1>0, <2>1, <1>5 DEF ExecuteWrite, WriteRow, GoTo, TypeInv, Locks, Clean, localVars,
                           Repo!Stored, NoAnswer, NotFound
  <2>2. UNCHANGED <<table, call>>
    BY <1>5 DEF ExecuteWrite, WriteRow
  <2> QED
    BY <1>0, <2>1, <2>2 DEF LockInv, Locked
<1>6. ASSUME NEW h \in Handlers, ExecuteSelect(h) PROVE LockInv'
  BY <1>0, <1>6 DEF ExecuteSelect, GoTo, TypeInv, LockInv, Locks, Clean,
      localVars
<1>7. ASSUME NEW h \in Handlers, ExecuteRefused(h) PROVE LockInv'
  BY <1>0, <1>7 DEF ExecuteRefused, StatementFails, GoTo, TypeInv, LockInv,
      Locks, Clean, localVars
<1>8. ASSUME NEW h \in Handlers, ExecuteFails(h) PROVE LockInv'
  BY <1>0, <1>8 DEF ExecuteFails, StatementFails, GoTo, TypeInv, LockInv,
      Locks, Clean, localVars
<1>9. ASSUME NEW h \in Handlers, NextRow(h) PROVE LockInv'
  BY <1>0, <1>9 DEF NextRow, TypeInv, LockInv, Locks, Clean, localVars
<1>10. ASSUME NEW h \in Handlers, RowsEnd(h) PROVE LockInv'
  <2>1. call[h].op = "select" /\ UNCHANGED <<table, call, answer>>
    BY <1>0, <1>10 DEF RowsEnd, LocalInv, LocalsOf
  <2>2. ASSUME NEW g \in Handlers, NEW id \in BannerIds, Locks(g, id)'
        PROVE  Locks(g, id)
    BY <1>0, <2>1, <2>2, <1>10 DEF RowsEnd, GoTo, TypeInv, Locks, Clean
  <2> QED
    BY <1>0, <2>1, <2>2 DEF LockInv
<1>11. ASSUME NEW h \in Handlers, Commit(h) PROVE LockInv'
  <2>1. ASSUME NEW g \in Handlers, NEW id \in BannerIds, Locks(g, id)'
        PROVE  g # h /\ Locks(g, id)
    BY <1>0, <2>1, <1>11 DEF Commit, Release, Leave, GoTo, TypeInv, Locks, Clean
  <2>2. ASSUME NEW g \in Handlers, NEW id \in BannerIds, Locks(g, id)'
        PROVE  table'[id] = table[id]
    <3>1. ~Locks(h, id)
      BY <2>1, <2>2 DEF IInv, LockInv
    <3>2. given[h] # 0 => id # given[h]
      BY <2>1, <2>2 DEF IInv, LockInv, IdInv
    <3>3. step[h] = "end" /\ Clean(h) /\ table' \in {table, Written(h)}
      BY <1>11 DEF Commit
    <3>4. call[h].op = "insert" => given[h] # 0
      BY <1>0, <3>3 DEF LocalInv, LocalsOf
    <3> QED
      BY <3>1, <3>2, <3>3, <3>4, WrittenAt
  <2>3. UNCHANGED call
    BY <1>11 DEF Commit, Leave
  <2> QED
    BY <1>0, <2>1, <2>2, <2>3 DEF LockInv
<1>12. ASSUME NEW h \in Handlers, CommitFails(h) PROVE LockInv'
  BY <1>0, <1>12 DEF CommitFails, Release, Leave, GoTo, TypeInv, LockInv,
      Locks, Clean, localVars
<1>13. ASSUME NEW h \in Handlers, Rollback(h) PROVE LockInv'
  BY <1>0, <1>13 DEF Rollback, Release, Leave, GoTo, TypeInv, LockInv, Locks,
      Clean, localVars
<1>14. ASSUME NEW h \in Handlers, Return(h) PROVE LockInv'
  BY <1>0, <1>14 DEF Return, GoTo, TypeInv, LockInv, Locks, Clean, localVars
<1>15. CASE Crash
  BY <1>0, <1>15 DEF Crash, TypeInv, LockInv, Locks, Clean, localVars
<1>16. CASE UNCHANGED vars
  BY <1>0, <1>16 DEF vars, localVars, TypeInv, LockInv, Locks, Clean, localVars
<1>17. ASSUME NEW h \in Handlers, ScanFails(h) PROVE LockInv'
  <2>1. call[h].op = "select" /\ UNCHANGED <<table, call, broken>>
    BY <1>0, <1>17 DEF ScanFails, LocalInv, LocalsOf
  <2>2. ASSUME NEW g \in Handlers, NEW id \in BannerIds, Locks(g, id)'
        PROVE  Locks(g, id)
    BY <1>0, <2>1, <2>2, <1>17 DEF ScanFails, GoTo, TypeInv, Locks, Clean
  <2> QED
    BY <1>0, <2>1, <2>2 DEF LockInv
<1> QED
  BY <1>1, <1>2, <1>3, <1>4, <1>5, <1>6, <1>7, <1>8, <1>9, <1>10, <1>11, <1>12,
      <1>13, <1>14, <1>15, <1>16, <1>17 DEF Next, Command, Execute, Fetch, CommitOrRollback

(***************************************************************************)
(* Connections.                                                            *)
(***************************************************************************)

LEMMA Finite == IsFiniteSet(InTransaction) /\ Cardinality(InTransaction) \in Nat
<1>1. InTransaction \subseteq Handlers
  BY DEF InTransaction
<1> QED
  BY <1>1, FS_Subset, FS_CardinalityType

LEMMA Enters ==
    ASSUME TypeInv, ConnectionsAreKept, NEW h \in Handlers, Begin(h)
    PROVE  ConnectionsAreKept'
<1>1. InTransaction' = InTransaction \cup {h} /\ h \notin InTransaction
  BY DEF Begin, GoTo, InTransaction, TypeInv
<1>2. Cardinality(InTransaction') = Cardinality(InTransaction) + 1
  BY <1>1, Finite, FS_AddElement
<1> QED
  BY <1>2, Finite DEF Begin, ConnectionsAreKept, TypeInv

LEMMA Leaves ==
    ASSUME TypeInv, ConnectionsAreKept, NEW h \in Handlers, step[h] = "end",
           Release, Leave(h)
    PROVE  ConnectionsAreKept'
<1>1. InTransaction' = InTransaction \ {h} /\ h \in InTransaction
  BY DEF Leave, GoTo, InTransaction, TypeInv
<1>2. Cardinality(InTransaction') = Cardinality(InTransaction) - 1
  BY <1>1, Finite, FS_RemoveElement
<1> QED
  BY <1>2, Finite DEF Release, Leave, ConnectionsAreKept, TypeInv

LEMMA Stays ==
    ASSUME ConnectionsAreKept, UNCHANGED <<conns, idle>>,
           InTransaction' = InTransaction
    PROVE  ConnectionsAreKept'
  BY DEF ConnectionsAreKept

LEMMA ConnectionsNext ==
    ASSUME IInv, [Next]_vars
    PROVE  ConnectionsAreKept'
<1>0. TypeInv /\ ConnectionsAreKept
  BY DEF IInv
<1>1. ASSUME NEW h \in Handlers, NEW c \in Calls, Call(h, c)
      PROVE  ConnectionsAreKept'
  BY <1>0, Stays, <1>1 DEF Call, GoTo, TypeInv, InTransaction
<1>2. ASSUME NEW h \in Handlers, Begin(h) PROVE ConnectionsAreKept'
  BY <1>0, <1>2, Enters
<1>3. ASSUME NEW h \in Handlers, BeginFails(h) PROVE ConnectionsAreKept'
  BY <1>0, Stays, <1>3 DEF BeginFails, GoTo, TypeInv, InTransaction
<1>4. ASSUME NEW h \in Handlers, ExecuteInsert(h) PROVE ConnectionsAreKept'
  BY <1>0, Stays, <1>4 DEF ExecuteInsert, GoTo, TypeInv, InTransaction
<1>5. ASSUME NEW h \in Handlers, ExecuteWrite(h) PROVE ConnectionsAreKept'
  BY <1>0, Stays, <1>5 DEF ExecuteWrite, WriteRow, GoTo, TypeInv, InTransaction
<1>6. ASSUME NEW h \in Handlers, ExecuteSelect(h) PROVE ConnectionsAreKept'
  BY <1>0, Stays, <1>6 DEF ExecuteSelect, GoTo, TypeInv, InTransaction
<1>7. ASSUME NEW h \in Handlers, ExecuteRefused(h) PROVE ConnectionsAreKept'
  BY <1>0, Stays, <1>7 DEF ExecuteRefused, StatementFails, GoTo, TypeInv, InTransaction
<1>8. ASSUME NEW h \in Handlers, ExecuteFails(h) PROVE ConnectionsAreKept'
  BY <1>0, Stays, <1>8 DEF ExecuteFails, StatementFails, GoTo, TypeInv, InTransaction
<1>9. ASSUME NEW h \in Handlers, NextRow(h) PROVE ConnectionsAreKept'
  BY <1>0, Stays, <1>9 DEF NextRow, TypeInv, InTransaction
<1>10. ASSUME NEW h \in Handlers, RowsEnd(h) PROVE ConnectionsAreKept'
  BY <1>0, Stays, <1>10 DEF RowsEnd, GoTo, TypeInv, InTransaction
<1>11. ASSUME NEW h \in Handlers, Commit(h) PROVE ConnectionsAreKept'
  BY <1>0, <1>11, Leaves DEF Commit
<1>12. ASSUME NEW h \in Handlers, CommitFails(h) PROVE ConnectionsAreKept'
  BY <1>0, <1>12, Leaves DEF CommitFails
<1>13. ASSUME NEW h \in Handlers, Rollback(h) PROVE ConnectionsAreKept'
  BY <1>0, <1>13, Leaves DEF Rollback
<1>14. ASSUME NEW h \in Handlers, Return(h) PROVE ConnectionsAreKept'
  BY <1>0, Stays, <1>14 DEF Return, GoTo, TypeInv, InTransaction
<1>15. CASE Crash
  <2>1. InTransaction' = {}
    BY <1>15 DEF Crash, InTransaction
  <2> QED
    BY <1>0, <2>1, <1>15, FS_EmptySet DEF Crash, ConnectionsAreKept
<1>16. CASE UNCHANGED vars
  BY <1>0, Stays, <1>16 DEF vars, localVars, TypeInv, InTransaction
<1>17. ASSUME NEW h \in Handlers, ScanFails(h) PROVE ConnectionsAreKept'
  BY <1>0, Stays, <1>17 DEF ScanFails, GoTo, TypeInv, InTransaction
<1> QED
  BY <1>1, <1>2, <1>3, <1>4, <1>5, <1>6, <1>7, <1>8, <1>9, <1>10, <1>11, <1>12,
      <1>13, <1>14, <1>15, <1>16, <1>17 DEF Next, Command, Execute, Fetch, CommitOrRollback

LEMMA Invariance == Spec => []IInv
<1>1. IInv /\ [Next]_vars => IInv'
  BY TypeNext, LocalNext, IdNext, LockNext, ConnectionsNext DEF IInv
<1> QED
  BY <1>1, InitOK, PTL DEF Spec

(***************************************************************************)
(* What follows.                                                           *)
(***************************************************************************)

\* Every variable keeps its type; the pool never has more connections to give
\* than the configuration says.
THEOREM TransactionsTypeCorrectness == Spec => []TypeOK
<1>1. IInv => TypeOK
  <2> SUFFICES ASSUME IInv PROVE TypeOK
    OBVIOUS
  <2>1. idle \in 0..conns
    <3>1. idle + Cardinality(InTransaction) = conns
      BY DEF IInv, ConnectionsAreKept
    <3>2. idle \in Nat /\ conns \in Nat
      BY DEF IInv, TypeInv
    <3> QED
      BY <3>1, <3>2, Finite
  <2> QED
    BY <2>1, Zenon DEF IInv, TypeInv, TypeOK
<1> QED
  BY <1>1, Invariance, PTL

\* No method loses a connection or gives back one it does not have.
THEOREM EveryConnectionIsKept == Spec => []ConnectionsAreKept
<1>1. IInv => ConnectionsAreKept
  BY DEF IInv
<1> QED
  BY <1>1, Invariance, PTL

\* However few connections there are and however locks are asked for, one of
\* the handlers in a method can go on.
THEOREM NoDeadlock == Spec => []NobodyDeadlocks
<1>1. IInv => NobodyDeadlocks
  <2> SUFFICES ASSUME IInv, NEW h \in Handlers, step[h] # "none",
                      \A g \in Handlers : step[g] \notin {"rows", "end", "return"}
               PROVE  NobodyDeadlocks
    BY DEF NobodyDeadlocks
  <2>1. \A g \in Handlers : step[g] \in {"none", "begin", "execute"}
    BY DEF IInv, TypeInv
  <2>2. CASE \E g \in Handlers : step[g] = "execute"
    BY <2>1, <2>2 DEF NobodyDeadlocks, Locked, Locks
  <2>3. CASE \A g \in Handlers : step[g] # "execute"
    <3>1. InTransaction = {}
      BY <2>1, <2>3 DEF InTransaction
    <3>2. idle = conns
      BY <3>1, FS_EmptySet DEF IInv, TypeInv, ConnectionsAreKept
    <3>3. idle > 0 /\ step[h] = "begin"
      BY <2>1, <2>3, <3>2 DEF IInv, TypeInv
    <3> QED
      BY <3>3 DEF NobodyDeadlocks
  <2> QED
    BY <2>2, <2>3
<1> QED
  BY <1>1, Invariance, PTL

(***************************************************************************)
(* The measure Left.  A list fetches rows of one snapshot of the table, of *)
(* which there are finitely many, no more than ids.                        *)
(***************************************************************************)

PendingInv == \A h \in Handlers : IsFiniteSet(pending[h])

\* What others have at hand is not touched by a command of h.
Apart(h) ==
    \A g \in Handlers \ {h} : step'[g] = step[g] /\ pending'[g] = pending[g]

LEMMA SelectIsFew ==
    ASSUME NEW q
    PROVE  LET found == Page(q, Repo!SelectBanners(q.feature, q.tags, q.onlyActive))
           IN  IsFiniteSet(found) /\ Cardinality(found) <= MaxId
<1> DEFINE found == Page(q, Repo!SelectBanners(q.feature, q.tags, q.onlyActive))
           stored == {table[id] : id \in 1..MaxId}
           rowOf == [id \in 1..MaxId |-> table[id]]
<1>1. IsFiniteSet(1..MaxId) /\ Cardinality(1..MaxId) = MaxId
  BY FS_Interval
<1>2. IsFiniteSet(stored) /\ Cardinality(stored) <= Cardinality(1..MaxId)
  <2>1. rowOf \in Surjection(1..MaxId, stored)
    BY DEF Surjection
  <2> HIDE DEF rowOf, stored
  <2> QED
    BY <1>1, <2>1, FS_Surjection
<1>3. found \in SUBSET stored
  BY DEF Page, Repo!SelectBanners, Repo!BannerIds
<1>4. IsFiniteSet(found) /\ Cardinality(found) <= Cardinality(stored)
  BY <1>2, <1>3, FS_Subset
<1>5. /\ Cardinality(found) \in Nat
      /\ Cardinality(stored) \in Nat
  BY <1>2, <1>4, FS_CardinalityType
<1> HIDE DEF found, stored
<1>6. Cardinality(found) <= MaxId
  BY <1>1, <1>2, <1>4, <1>5
<1> QED
  BY <1>4, <1>6 DEF found

LEMMA CommandsApart ==
    ASSUME TypeInv, NEW h \in Handlers, Command(h)
    PROVE  Apart(h)
<1>1. \E s : step' = [step EXCEPT ![h] = s] \/ UNCHANGED step
  BY DEF Command, Begin, BeginFails, Execute, ExecuteInsert, ExecuteWrite, WriteRow,
         ExecuteSelect, ExecuteRefused, ExecuteFails, StatementFails, Fetch, NextRow,
         ScanFails, RowsEnd, CommitOrRollback, Commit, CommitFails, Rollback, Leave, Return,
         GoTo
<1>2. \E s : pending' = [pending EXCEPT ![h] = s] \/ UNCHANGED pending
  BY DEF Command, Begin, BeginFails, Execute, ExecuteInsert, ExecuteWrite, WriteRow,
         ExecuteSelect, ExecuteRefused, ExecuteFails, StatementFails, Fetch, NextRow,
         ScanFails, RowsEnd, CommitOrRollback, Commit, CommitFails, Rollback, Leave, Return,
         localVars
<1> QED
  BY <1>1, <1>2 DEF Apart, TypeInv

\* What a command does to the rows h has yet to fetch.
LEMMA PendingCommand ==
    ASSUME TypeInv, PendingInv, NEW h \in Handlers, Command(h)
    PROVE  IsFiniteSet(pending'[h])
<1>1. CASE ExecuteSelect(h)
  BY <1>1, SelectIsFew DEF ExecuteSelect, TypeInv
<1>2. CASE NextRow(h)
  <2>1. PICK b : pending'[h] = pending[h] \ {b}
    BY <1>2 DEF NextRow, TypeInv
  <2> QED
    BY <2>1, FS_RemoveElement DEF PendingInv
<1>3. CASE RowsEnd(h) \/ ScanFails(h)
  BY <1>3, FS_EmptySet DEF RowsEnd, ScanFails, TypeInv
<1>4. CASE UNCHANGED pending
  BY <1>4 DEF PendingInv
<1>5. UNCHANGED pending \/ ExecuteSelect(h) \/ NextRow(h) \/ RowsEnd(h) \/ ScanFails(h)
  BY DEF Command, Begin, BeginFails, Execute, ExecuteInsert, ExecuteWrite, WriteRow,
         ExecuteRefused, ExecuteFails, StatementFails, Fetch, CommitOrRollback, Commit,
         CommitFails, Rollback, Leave, Return, localVars
<1> QED
  BY <1>1, <1>2, <1>3, <1>4, <1>5

LEMMA PendingNext == TypeInv /\ PendingInv /\ [Next]_vars => PendingInv'
<1> SUFFICES ASSUME TypeInv, PendingInv, [Next]_vars PROVE PendingInv'
  OBVIOUS
<1>1. ASSUME NEW h \in Handlers, Command(h) PROVE PendingInv'
  BY <1>1, CommandsApart, PendingCommand DEF Apart, PendingInv
<1>2. ASSUME NEW h \in Handlers, NEW c \in Calls, Call(h, c) PROVE PendingInv'
  BY <1>2 DEF Call, localVars, PendingInv
<1>3. CASE Crash
  BY <1>3, FS_EmptySet DEF Crash, PendingInv
<1>4. CASE UNCHANGED vars
  BY <1>4 DEF vars, localVars, PendingInv
<1> QED
  BY <1>1, <1>2, <1>3, <1>4 DEF Next

LEMMA PendingInvariance == Spec => []PendingInv
<1>1. Init => PendingInv
  BY FS_EmptySet DEF Init, NoLocals, PendingInv
<1>2. IInv => TypeInv
  BY DEF IInv
<1> QED
  BY <1>1, <1>2, PendingNext, Invariance, PTL DEF Spec

LEMMA LeftTyped ==
    ASSUME PendingInv, NEW h \in Handlers
    PROVE  Left(h) \in Nat
  BY FS_CardinalityType DEF PendingInv, Left

\* The next command of h that is not about rows.
LEMMA LeftAtCommand ==
    ASSUME TypeInv, NEW h \in Handlers,
           \/ step[h] = "begin" /\ (GoTo(h, "execute") \/ GoTo(h, "return"))
           \/ step[h] = "execute" /\ GoTo(h, "end")
           \/ step[h] = "end" /\ GoTo(h, "return")
           \/ step[h] = "return" /\ GoTo(h, "none")
    PROVE  Left(h)' < Left(h)
  BY DEF GoTo, TypeInv, Left

LEMMA LeftCommand ==
    ASSUME TypeInv, PendingInv, NEW h \in Handlers, Command(h)
    PROVE  Left(h)' < Left(h)
<1>1. CASE ExecuteSelect(h)
  <2>1. IsFiniteSet(pending'[h]) /\ Cardinality(pending'[h]) <= MaxId
    BY <1>1, SelectIsFew DEF ExecuteSelect, TypeInv
  <2>2. Left(h)' = 3 + Cardinality(pending'[h]) /\ Left(h) = 4 + MaxId
    BY <1>1 DEF ExecuteSelect, GoTo, TypeInv, Left
  <2> QED
    BY <2>1, <2>2, FS_CardinalityType
<1>2. CASE NextRow(h)
  <2>1. PICK b \in pending[h] : pending'[h] = pending[h] \ {b}
    BY <1>2 DEF NextRow, TypeInv
  <2>2. /\ Cardinality(pending[h] \ {b}) = Cardinality(pending[h]) - 1
        /\ Cardinality(pending[h]) \in Nat
    BY FS_RemoveElement, FS_CardinalityType DEF PendingInv
  <2>3. /\ Left(h)' = 3 + Cardinality(pending'[h])
        /\ Left(h) = 3 + Cardinality(pending[h])
    BY <1>2 DEF NextRow, Left
  <2> QED
    BY <2>1, <2>2, <2>3
<1>3. CASE RowsEnd(h) \/ ScanFails(h)
  <2>1. Left(h)' = 2 /\ Left(h) = 3 + Cardinality(pending[h])
    BY <1>3 DEF RowsEnd, ScanFails, GoTo, TypeInv, Left
  <2> QED
    BY <2>1, FS_CardinalityType DEF PendingInv
<1>4. CASE Begin(h) \/ BeginFails(h)
  BY <1>4, LeftAtCommand DEF Begin, BeginFails
<1>5. CASE ExecuteInsert(h) \/ ExecuteWrite(h) \/ ExecuteRefused(h) \/ ExecuteFails(h)
  BY <1>5, LeftAtCommand
  DEF ExecuteInsert, ExecuteWrite, WriteRow, ExecuteRefused, ExecuteFails, StatementFails
<1>6. CASE CommitOrRollback(h) \/ Return(h)
  BY <1>6, LeftAtCommand DEF CommitOrRollback, Commit, CommitFails, Rollback, Leave, Return
<1> QED
  BY <1>1, <1>2, <1>3, <1>4, <1>5, <1>6 DEF Command, Execute, Fetch

LEMMA LeftNext ==
    ASSUME TypeInv, PendingInv, PendingInv', [Next]_vars, NEW g \in Handlers,
           step[g] # "none"
    PROVE  Left(g)' <= Left(g)
<1>1. Left(g) \in Nat
  BY LeftTyped
<1>2. Left(g)' \in Nat
  BY FS_CardinalityType DEF PendingInv, Left
<1>3. ASSUME step'[g] = step[g] /\ pending'[g] = pending[g] PROVE Left(g)' <= Left(g)
  BY <1>1, <1>3 DEF Left
<1>4. ASSUME NEW h \in Handlers, Command(h) PROVE Left(g)' <= Left(g)
  <2>1. CASE h = g
    BY <1>1, <1>2, <1>4, <2>1, LeftCommand
  <2>2. CASE h # g
    BY <1>3, <1>4, <2>2, CommandsApart DEF Apart
  <2> QED
    BY <2>1, <2>2
<1>5. ASSUME NEW h \in Handlers, NEW c \in Calls, Call(h, c) PROVE Left(g)' <= Left(g)
  BY <1>3, <1>5 DEF Call, GoTo, localVars, TypeInv
<1>6. CASE Crash
  <2>1. Left(g)' = 0
    BY <1>6 DEF Crash, Left
  <2> QED
    BY <1>1, <2>1
<1>7. CASE UNCHANGED vars
  BY <1>3, <1>7 DEF vars, localVars
<1> QED
  BY <1>4, <1>5, <1>6, <1>7 DEF Next

\* A method takes no more steps than its SELECT has rows and a few more,
\* whatever fails and whoever else is at work, the time it waits aside.
THEOREM CallsComeToAnEnd == Spec => CallsRunOut
<1> DEFINE A == \A h \in Handlers :
                   /\ step[h] # "none" => Left(h)' <= Left(h)
                   /\ Command(h) => Left(h)' < Left(h)
<1>1. IInv /\ PendingInv /\ PendingInv' /\ [Next]_vars => A
  BY LeftNext, LeftCommand DEF IInv
<1>2. IInv /\ PendingInv /\ PendingInv' /\ [Next]_vars => [A]_vars
  BY <1>1
<1>3. Spec => [][A]_vars
  BY <1>2, Invariance, PendingInvariance, PTL DEF Spec
<1> QED
  BY <1>3 DEF CallsRunOut

(***************************************************************************)
(* The refinement of RepoCalls.  The values and queries of both are the    *)
(* same, and so is all that a step of one handler leaves alone.            *)
(***************************************************************************)

LEMMA SameValues ==
    /\ Atomic!NoCall = NoCall /\ Atomic!Calls = Calls
    /\ Atomic!NoAnswer = NoAnswer /\ Atomic!Error = Error
    /\ Atomic!NotFound = NotFound /\ Atomic!Nil = Nil
    /\ \A id : Atomic!Inserted(id) = Inserted(id)
    /\ \A bs : Atomic!Rows(bs) = Rows(bs)
    /\ Atomic!BannerIds = BannerIds
    /\ \A id, r, c : Atomic!Row(id, r, c) = Row(id, r, c)
  BY DEF Atomic!NoCall, NoCall, Atomic!Calls, Calls, Atomic!NoAnswer, NoAnswer,
         Atomic!Error, Error, Atomic!NotFound, NotFound, Atomic!Nil, Nil,
         Atomic!Inserted, Inserted, Atomic!Rows, Rows, Atomic!BannerIds,
         Atomic!Row, Row

LEMMA SameQueries ==
    /\ \A q : Atomic!OutOfRange(q) <=> OutOfRange(q)
    /\ \A q, bs : Atomic!Page(q, bs) = Page(q, bs)
    /\ \A f, ts, active : Atomic!SelectBanners(f, ts, active)
                              = Repo!SelectBanners(f, ts, active)
    /\ \A id : Atomic!Stored(id) <=> id \in BannerIds /\ table[id] # NoBanner
    /\ \A id : Repo!Stored(id) <=> id \in BannerIds /\ table[id] # NoBanner
<1>1. \A q : Atomic!OutOfRange(q) <=> OutOfRange(q)
  BY DEF Atomic!OutOfRange, OutOfRange
<1>2. \A q, bs : Atomic!Page(q, bs) = Page(q, bs)
  <2>1. \A b, bs : Atomic!Before(b, bs) = Before(b, bs)
    BY Zenon DEF Atomic!Before, Before, Atomic!Cardinality, Cardinality,
                 Atomic!IsFiniteSet, IsFiniteSet
  <2> QED
    BY <2>1, Zenon DEF Atomic!Page, Page
<1>3. \A f, ts, active : Atomic!SelectBanners(f, ts, active)
                            = Repo!SelectBanners(f, ts, active)
  BY DEF Atomic!SelectBanners, Repo!SelectBanners, Atomic!BannerIds, Repo!BannerIds,
         Atomic!NoFilter, Repo!NoFilter
<1>4. /\ \A id : Atomic!Stored(id) <=> id \in BannerIds /\ table[id] # NoBanner
      /\ \A id : Repo!Stored(id) <=> id \in BannerIds /\ table[id] # NoBanner
  BY DEF Atomic!Stored, Repo!Stored, Atomic!BannerIds, Repo!BannerIds
<1> QED
  BY <1>1, <1>2, <1>3, <1>4

LEMMA SameOutcomes ==
    /\ Atomic!Faulty("postgres") <=> Faulty("postgres")
    /\ Atomic!Faulty("crash") <=> Faulty("crash")
    /\ Atomic!Outcomes(Atomic!Faulty("postgres")) = Outcomes(Faulty("postgres"))
    /\ \A o : Atomic!Applied(o) <=> Applied(o)
    /\ \A o : Atomic!Reported(o) <=> Reported(o)
  BY DEF Atomic!Faulty, Faulty, Atomic!Outcomes, Outcomes, Atomic!Applied, Applied,
         Atomic!Reported, Reported

\* Locals of all handlers but one.
OthersKeep(h) ==
    \A g \in Handlers \ {h} :
        /\ call'[g] = call[g]
        /\ answer'[g] = answer[g]
        /\ step'[g] = step[g]
        /\ broken'[g] = broken[g]
        /\ given'[g] = given[g]
        /\ pending'[g] = pending[g]
        /\ banners'[g] = banners[g]

LEMMA OneDecides ==
    ASSUME NEW h \in Handlers, OthersKeep(h)
    PROVE  Decided' = [Decided EXCEPT ![h] = Decided'[h]]
  BY ZenonT(40) DEF OthersKeep, Decided

LEMMA NobodyDecides ==
    ASSUME NEW h \in Handlers, OthersKeep(h), Decided'[h] = Decided[h]
    PROVE  Decided' = Decided
<1>1. Decided = [g \in Handlers |-> Decided[g]]
  BY DEF Decided
<1>2. Decided' = [Decided EXCEPT ![h] = Decided[h]]
  BY OneDecides
<1> QED
  BY <1>1, <1>2

\* An INSERT that has its id and may yet be committed.
Open(h) == step[h] = "end" /\ Clean(h) /\ given[h] # 0

LEMMA EndedIs ==
    /\ \A id : id \in Ended <=>
          id \in 1..seq /\ \A g \in Handlers : Open(g) => given[g] # id
    /\ \A id : id \in Ended' <=>
          id \in 1..seq' /\ \A g \in Handlers : Open(g)' => given'[g] # id
<1>1. \A id : id \in Ended <=>
          id \in 1..seq /\ \A g \in Handlers : Open(g) => given[g] # id
  <2> SUFFICES ASSUME NEW id
               PROVE  id \in Ended <=> /\ id \in 1..seq
                                       /\ \A g \in Handlers : Open(g) => given[g] # id
    OBVIOUS
  <2> QED
    BY DEF Ended, Open
<1>2. \A id : id \in Ended' <=>
          id \in 1..seq' /\ \A g \in Handlers : Open(g)' => given'[g] # id
  <2> SUFFICES ASSUME NEW id
               PROVE  id \in Ended' <=> /\ id \in 1..seq'
                                        /\ \A g \in Handlers : Open(g)' => given'[g] # id
    OBVIOUS
  <2> QED
    BY DEF Ended, Open
<1> QED
  BY <1>1, <1>2

\* Nothing ends when a handler that has no open INSERT gets none.
LEMMA EndedKeeps ==
    ASSUME NEW h \in Handlers, OthersKeep(h), UNCHANGED seq,
           Open(h)' <=> Open(h), Open(h) => given'[h] = given[h]
    PROVE  Ended' = Ended
<1>1. ASSUME NEW g \in Handlers, g # h PROVE (Open(g)' <=> Open(g)) /\ given'[g] = given[g]
  BY <1>1 DEF OthersKeep, Open, Clean
<1> QED
  BY <1>1, EndedIs

LEMMA EndedGains ==
    ASSUME IInv, NEW h \in Handlers, OthersKeep(h), UNCHANGED seq, Open(h), ~Open(h)'
    PROVE  /\ given[h] \in BannerIds \ Ended
           /\ Ended' = Ended \cup {given[h]}
<1>1. ASSUME NEW g \in Handlers, g # h
      PROVE  /\ (Open(g)' <=> Open(g)) /\ given'[g] = given[g]
             /\ Open(g) => given[g] # given[h]
  BY <1>1 DEF OthersKeep, Open, Clean, IInv, IdInv
<1>2. given[h] \in 1..seq /\ given[h] \in BannerIds
  BY DEF IInv, IdInv, TypeInv, Open
<1> QED
  BY <1>1, <1>2, EndedIs

\* What a step of RepoCalls must do, in terms of RepoTransactions.
LEMMA AnAnswer ==
    ASSUME NEW h \in Handlers, NEW a, OthersKeep(h), call[h] # NoCall, UNCHANGED call,
           Decided[h] = NoAnswer, Decided'[h] = a
    PROVE  Atomic!Answer(h, a)
  BY OneDecides, SameValues DEF Atomic!Answer

LEMMA AStutter ==
    ASSUME NEW h \in Handlers, OthersKeep(h), UNCHANGED <<table, call>>,
           Ended' = Ended, Decided'[h] = Decided[h]
    PROVE  UNCHANGED Atomic!callsVars
<1>1. Decided' = Decided
  BY NobodyDecides
<1> QED
  BY <1>1 DEF Atomic!callsVars, Atomic!repoVars

LEMMA AFailure ==
    ASSUME NEW h \in Handlers, OthersKeep(h), call[h] # NoCall, UNCHANGED <<table, call>>,
           Ended' = Ended, Decided[h] = NoAnswer, Decided'[h] = Error,
           \/ Faulty("postgres")
           \/ call[h].op = "select" /\ OutOfRange(call[h].query)
           \/ call[h].op \in {"insert", "update"}
    PROVE  Atomic!Fail(h)
  BY AnAnswer, SameValues, SameQueries, SameOutcomes DEF Atomic!Fail, Atomic!repoVars

LEMMA AFailedSelect ==
    ASSUME NEW h \in Handlers, OthersKeep(h), UNCHANGED <<table, call>>, Ended' = Ended,
           call[h].op = "select", Decided[h] # NoAnswer, Decided'[h] = Error,
           Faulty("postgres")
    PROVE  Atomic!FailAfterSelect(h)
  BY OneDecides, SameValues, SameQueries, SameOutcomes DEF Atomic!FailAfterSelect, Atomic!repoVars

(***************************************************************************)
(* Every step of RepoTransactions is one of RepoCalls, or none.            *)
(***************************************************************************)

LEMMA CallSteps ==
    ASSUME IInv, NEW h \in Handlers, NEW c \in Calls, Call(h, c)
    PROVE  Atomic!Call(h, c)
<1>1. call[h] = NoCall /\ call' = [call EXCEPT ![h] = c] /\ UNCHANGED table
  BY DEF Call, IInv, LocalInv, LocalsOf
<1>2. OthersKeep(h)
  BY DEF Call, GoTo, OthersKeep, IInv, TypeInv, localVars
<1>3. Decided[h] = NoAnswer /\ Decided'[h] = NoAnswer
  BY <1>1 DEF Call, GoTo, IInv, TypeInv, LocalInv, LocalsOf, Decided, localVars, NoCall
<1>4. Ended' = Ended
  BY <1>2, EndedKeeps DEF Call, GoTo, IInv, TypeInv, Open, Clean, localVars
<1>5. Decided' = Decided
  BY <1>2, <1>3, NobodyDecides
<1> QED
  BY <1>1, <1>4, <1>5, SameValues DEF Atomic!Call, Atomic!repoVars

LEMMA BeginSteps ==
    ASSUME IInv, NEW h \in Handlers, Begin(h)
    PROVE  UNCHANGED Atomic!callsVars
<1>1. OthersKeep(h)
  BY DEF Begin, GoTo, OthersKeep, IInv, TypeInv, localVars
<1>2. Decided'[h] = Decided[h]
  BY DEF Begin, GoTo, IInv, TypeInv, Decided, localVars
<1>3. Ended' = Ended
  BY <1>1, EndedKeeps DEF Begin, GoTo, IInv, TypeInv, Open, Clean, localVars
<1> QED
  BY <1>1, <1>2, <1>3, AStutter DEF Begin

LEMMA BeginFailsSteps ==
    ASSUME IInv, NEW h \in Handlers, BeginFails(h)
    PROVE  Atomic!Fail(h)
<1>1. OthersKeep(h)
  BY DEF BeginFails, GoTo, OthersKeep, IInv, TypeInv, localVars
<1>2. Decided[h] = NoAnswer /\ Decided'[h] = Error /\ call[h] # NoCall
  BY Names DEF BeginFails, GoTo, IInv, TypeInv, LocalInv, LocalsOf, Decided, localVars
<1>3. Ended' = Ended
  BY <1>1, EndedKeeps DEF BeginFails, GoTo, IInv, TypeInv, Open, Clean, localVars
<1> QED
  BY <1>1, <1>2, <1>3, AFailure DEF BeginFails

\* The id is drawn and not yet used.
LEMMA ExecuteInsertSteps ==
    ASSUME IInv, NEW h \in Handlers, ExecuteInsert(h)
    PROVE  UNCHANGED Atomic!callsVars
<1>1. OthersKeep(h)
  BY DEF ExecuteInsert, GoTo, OthersKeep, IInv, TypeInv
<1>2. Decided'[h] = Decided[h]
  BY DEF ExecuteInsert, GoTo, IInv, TypeInv, LocalInv, LocalsOf, Decided
<1>3. Ended' = Ended
  <2>1. seq' = seq + 1 /\ given'[h] = seq + 1 /\ seq \in Nat
    BY DEF ExecuteInsert, IInv, TypeInv
  <2>2. ~Open(h) /\ Open(h)'
    BY <2>1 DEF ExecuteInsert, GoTo, IInv, TypeInv, LocalInv, LocalsOf, Open, Clean
  <2>3. ASSUME NEW g \in Handlers, g # h
        PROVE  (Open(g)' <=> Open(g)) /\ given'[g] = given[g] /\ given[g] <= seq
    BY <1>1, <2>3 DEF OthersKeep, Open, Clean, IInv, IdInv
  <2>4. ASSUME NEW id PROVE id \in Ended' <=> id \in Ended
    <3>1. id \in 1..(seq + 1) <=> id \in 1..seq \/ id = seq + 1
      BY <2>1
    <3> QED
      BY <2>1, <2>2, <2>3, <3>1, EndedIs
  <2> QED
    BY <2>4
<1> QED
  BY <1>1, <1>2, <1>3, AStutter DEF ExecuteInsert

\* The row is found, and locked; or it is not there.
LEMMA ExecuteWriteSteps ==
    ASSUME IInv, NEW h \in Handlers, ExecuteWrite(h)
    PROVE  Atomic!Missed(h) \/ UNCHANGED Atomic!callsVars
<1>1. OthersKeep(h)
  BY DEF ExecuteWrite, WriteRow, GoTo, OthersKeep, IInv, TypeInv, localVars
<1>2. given[h] = 0 /\ UNCHANGED <<table, call, seq, given>> /\ call[h] # NoCall
  BY Names DEF ExecuteWrite, WriteRow, IInv, LocalInv, LocalsOf, localVars
<1>3. Ended' = Ended
  BY <1>1, <1>2, EndedKeeps DEF Open
<1>4. Decided[h] = NoAnswer
  BY DEF ExecuteWrite, IInv, TypeInv, LocalInv, LocalsOf, Decided
<1>5. CASE Repo!Stored(call[h].id)
  <2>1. Decided'[h] = NoAnswer
    BY <1>5 DEF ExecuteWrite, WriteRow, GoTo, IInv, TypeInv, LocalInv, LocalsOf, Decided,
                localVars
  <2> QED
    BY <1>1, <1>2, <1>3, <1>4, <2>1, AStutter
<1>6. CASE ~Repo!Stored(call[h].id)
  <2>1. Decided'[h] = NotFound
    BY <1>6, Names DEF ExecuteWrite, WriteRow, IInv, TypeInv, Decided
  <2>2. Atomic!Answer(h, NotFound)
    BY <1>1, <1>2, <1>4, <2>1, AnAnswer
  <2> QED
    BY <1>2, <1>3, <1>6, <2>2, SameValues, SameQueries, SameOutcomes DEF ExecuteWrite, Atomic!Missed, Atomic!repoVars
<1> QED
  BY <1>5, <1>6

\* The rows of the answer are those of this moment.
LEMMA ExecuteSelectSteps ==
    ASSUME IInv, NEW h \in Handlers, ExecuteSelect(h)
    PROVE  Atomic!Select(h)
<1> DEFINE q == call[h].query
           page == Page(q, Repo!SelectBanners(q.feature, q.tags, q.onlyActive))
<1>1. OthersKeep(h)
  BY DEF ExecuteSelect, GoTo, OthersKeep, IInv, TypeInv
<1>2. /\ UNCHANGED <<table, call, seq, given>> /\ call[h] # NoCall /\ given[h] = 0
      /\ call[h].op = "select" /\ ~OutOfRange(q)
  BY Names DEF ExecuteSelect, IInv, LocalInv, LocalsOf
<1>3. Ended' = Ended
  BY <1>1, <1>2, EndedKeeps DEF Open
<1>4. Decided[h] = NoAnswer
  BY DEF ExecuteSelect, IInv, TypeInv, LocalInv, LocalsOf, Decided
<1>5. /\ pending'[h] = page /\ banners'[h] = {} /\ step'[h] = "rows"
      /\ answer'[h] = NoAnswer /\ broken'[h] = FALSE
  BY DEF ExecuteSelect, GoTo, IInv, TypeInv, LocalInv, LocalsOf
<1>6. Decided'[h] = Rows(page)
  BY <1>2, <1>5 DEF Decided
<1>7. Atomic!Answer(h, Rows(page))
  BY <1>1, <1>2, <1>4, <1>6, AnAnswer
<1> QED
  BY <1>2, <1>3, <1>7, SameValues, SameQueries, SameOutcomes DEF Atomic!Select, Atomic!repoVars

\* A failed INSERT that has drawn an id is one that was rolled back.
LEMMA StatementFailsSteps ==
    ASSUME IInv, NEW h \in Handlers, step[h] = "execute", StatementFails(h),
           \/ Faulty("postgres")
           \/ UNCHANGED seq /\ call[h].op = "select" /\ OutOfRange(call[h].query)
           \/ UNCHANGED seq /\ call[h].op \in {"insert", "update"}
    PROVE  Atomic!Fail(h) \/ Atomic!Insert(h)
<1>1. OthersKeep(h)
  BY DEF StatementFails, GoTo, OthersKeep, IInv, TypeInv
<1>2. UNCHANGED <<table, call, given>> /\ call[h] # NoCall /\ given[h] = 0
  BY Names DEF StatementFails, IInv, LocalInv, LocalsOf
<1>3. Decided[h] = NoAnswer
  BY DEF IInv, TypeInv, LocalInv, LocalsOf, Decided
<1>4. Decided'[h] = Error
  <2>1. answer[h] = NoAnswer /\ broken'[h] = TRUE
    BY DEF StatementFails, IInv, TypeInv, LocalInv, LocalsOf
  <2>2. answer'[h] \in {NoAnswer, Error}
    BY <2>1 DEF StatementFails, IInv, TypeInv
  <2> QED
    BY <2>1, <2>2 DEF Decided
<1>5. CASE UNCHANGED seq
  <2>1. Ended' = Ended
    BY <1>1, <1>2, <1>5, EndedKeeps DEF Open
  <2> QED
    BY <1>1, <1>2, <1>3, <1>4, <2>1, AFailure
<1>6. CASE seq' = seq + 1 /\ call[h].op = "insert" /\ seq < MaxId /\ Faulty("postgres")
  <2>1. seq \in Nat /\ seq + 1 \in BannerIds
    BY <1>6 DEF IInv, TypeInv
  <2>2. ~Open(h) /\ ~Open(h)'
    BY <1>2 DEF Open
  <2>3. ASSUME NEW g \in Handlers, g # h
        PROVE  (Open(g)' <=> Open(g)) /\ given'[g] = given[g] /\ given[g] <= seq
    BY <1>1, <2>3 DEF OthersKeep, Open, Clean, IInv, IdInv
  <2>4. given[h] # seq + 1
    BY <1>2, <2>1
  <2>5. Ended' = Ended \cup {seq + 1} /\ seq + 1 \notin Ended
    BY <1>6, <2>1, <2>2, <2>3, <2>4, EndedIs
  <2>6. "rolledBack" \in Outcomes(Faulty("postgres"))
    BY <1>6 DEF Outcomes
  <2>7. Atomic!InsertBanner(seq + 1, call[h].content, "rolledBack")
    BY <1>2, <2>1, <2>5, SameValues, SameQueries, SameOutcomes DEF Atomic!InsertBanner, Applied
  <2>8. Atomic!Answer(h, Error)
    BY <1>1, <1>2, <1>3, <1>4, AnAnswer
  <2> QED
    BY <1>6, <2>1, <2>6, <2>7, <2>8, SameValues, SameQueries, SameOutcomes DEF Atomic!Insert, Reported
<1> QED
  BY <1>5, <1>6 DEF StatementFails

LEMMA NextRowSteps ==
    ASSUME IInv, NEW h \in Handlers, NextRow(h)
    PROVE  UNCHANGED Atomic!callsVars
<1>1. OthersKeep(h)
  BY DEF NextRow, OthersKeep, IInv, TypeInv
<1>2. banners'[h] \cup pending'[h] = banners[h] \cup pending[h]
  BY DEF NextRow, IInv, TypeInv
<1>3. Decided'[h] = Decided[h]
  BY <1>2 DEF NextRow, Decided
<1>4. Ended' = Ended
  BY <1>1, EndedKeeps DEF NextRow, Open, Clean
<1> QED
  BY <1>1, <1>3, <1>4, AStutter DEF NextRow

\* Rows that do not arrive turn the answer into an error.
LEMMA RowsEndSteps ==
    ASSUME IInv, NEW h \in Handlers, RowsEnd(h)
    PROVE  Atomic!FailAfterSelect(h) \/ UNCHANGED Atomic!callsVars
<1>1. OthersKeep(h)
  BY DEF RowsEnd, GoTo, OthersKeep, IInv, TypeInv
<1>2. /\ UNCHANGED <<table, call, seq, given, answer, banners>>
      /\ given[h] = 0 /\ call[h].op = "select" /\ answer[h] = NoAnswer
      /\ broken[h] = FALSE /\ step[h] = "rows"
  BY DEF RowsEnd, IInv, LocalInv, LocalsOf
<1>3. Ended' = Ended
  BY <1>1, <1>2, EndedKeeps DEF Open
<1>4. Decided[h] = Rows(banners[h] \cup pending[h])
  BY <1>2 DEF Decided
<1>5. pending'[h] = {} /\ step'[h] = "end"
  BY DEF RowsEnd, GoTo, IInv, TypeInv
<1>6. CASE pending[h] = {} /\ UNCHANGED broken
  <2>1. Decided'[h] = Decided[h]
    BY <1>2, <1>4, <1>5, <1>6 DEF Decided
  <2> QED
    BY <1>1, <1>2, <1>3, <2>1, AStutter
<1>7. CASE Faulty("postgres") /\ broken' = [broken EXCEPT ![h] = TRUE]
  <2>1. Decided'[h] = Error
    BY <1>2, <1>7 DEF Decided, IInv, TypeInv
  <2> QED
    BY <1>1, <1>2, <1>3, <1>4, <1>7, <2>1, AFailedSelect, Names
<1> QED
  BY <1>6, <1>7 DEF RowsEnd

\* So does a row that cannot be read.
LEMMA ScanFailsSteps ==
    ASSUME IInv, NEW h \in Handlers, ScanFails(h)
    PROVE  Atomic!FailAfterSelect(h)
<1>1. OthersKeep(h)
  BY DEF ScanFails, GoTo, OthersKeep, IInv, TypeInv
<1>2. /\ UNCHANGED <<table, call, seq, given>> /\ Faulty("postgres")
      /\ given[h] = 0 /\ call[h].op = "select" /\ answer[h] = NoAnswer
      /\ broken[h] = FALSE /\ step[h] = "rows"
  BY DEF ScanFails, IInv, LocalInv, LocalsOf
<1>3. Ended' = Ended
  BY <1>1, <1>2, EndedKeeps DEF Open
<1>4. Decided[h] = Rows(banners[h] \cup pending[h])
  BY <1>2 DEF Decided
<1>5. Decided'[h] = Error
  <2>1. answer'[h] = Error
    BY DEF ScanFails, IInv, TypeInv
  <2> QED
    BY <2>1, Names DEF Decided
<1> QED
  BY <1>1, <1>2, <1>3, <1>4, <1>5, AFailedSelect, Names

\* COMMIT is where a write takes effect.
LEMMA CommitSteps ==
    ASSUME IInv, NEW h \in Handlers, Commit(h)
    PROVE  \/ Atomic!Insert(h) \/ Atomic!Update(h) \/ Atomic!Delete(h)
           \/ Atomic!FailAfterSelect(h)
           \/ UNCHANGED Atomic!callsVars
<1>1. OthersKeep(h)
  BY DEF Commit, Release, Leave, GoTo, OthersKeep, IInv, TypeInv
<1>2. /\ UNCHANGED <<call, seq>> /\ call[h] \in Calls /\ call[h] # NoCall
      /\ step[h] = "end" /\ Clean(h) /\ answer[h] = NoAnswer /\ broken[h] = FALSE
      /\ step'[h] = "return"
  BY DEF Commit, Leave, GoTo, Clean, IInv, TypeInv, LocalInv, LocalsOf
<1>3. PICK o \in Outcomes(Faulty("postgres")) :
         /\ table' = IF Applied(o) THEN Written(h) ELSE table
         /\ answer'[h] = IF Reported(o) THEN Result(h) ELSE Error
  BY DEF Commit, IInv, TypeInv
<1>4. Result(h) # NoAnswer /\ Error # NoAnswer
  BY <1>2, ResultTyped, Names DEF IInv
<1>5. Decided'[h] = IF Reported(o) THEN Result(h) ELSE Error
  BY <1>3, <1>4 DEF Decided
<1>6. CASE call[h].op = "insert"
  <2>1. Open(h) /\ ~Open(h)'
    BY <1>2, <1>6 DEF Open, IInv, LocalInv, LocalsOf
  <2>2. given[h] \in BannerIds \ Ended /\ Ended' = Ended \cup {given[h]}
    BY <1>1, <1>2, <2>1, EndedGains
  <2>3. Decided[h] = NoAnswer
    BY <1>2, <1>6 DEF Decided
  <2>4. Atomic!InsertBanner(given[h], call[h].content, o)
    BY <1>3, <1>6, <2>2, SameValues, SameQueries, SameOutcomes DEF Atomic!InsertBanner, Written
  <2>5. Atomic!Answer(h, IF Reported(o) THEN Inserted(given[h]) ELSE Error)
    BY <1>1, <1>2, <1>5, <1>6, <2>3, AnAnswer DEF Result
  <2> QED
    BY <1>3, <1>6, <2>2, <2>4, <2>5, SameValues, SameQueries, SameOutcomes DEF Atomic!Insert
<1>7. CASE call[h].op = "update"
  <2>1. given[h] = 0
    BY <1>2, <1>7 DEF IInv, LocalInv, LocalsOf
  <2>2. Ended' = Ended
    BY <1>1, <1>2, <2>1, EndedKeeps DEF Open
  <2>3. Decided[h] = NoAnswer
    BY <1>2, <1>7 DEF Decided
  <2>4. /\ call[h].id \in BannerIds /\ table[call[h].id] # NoBanner
        /\ table[call[h].id].rev < MaxRev
    BY <1>2, <1>7 DEF IInv, LockInv, Locks, Calls
  <2>5. Atomic!UpdateRow(call[h].id, call[h].content, o)
    BY <1>3, <1>7, <2>2, <2>4, SameValues, SameQueries, SameOutcomes DEF Atomic!UpdateRow, Written
  <2>6. Atomic!Answer(h, IF Reported(o) THEN Nil ELSE Error)
    BY <1>1, <1>2, <1>5, <1>7, <2>3, AnAnswer DEF Result
  <2> QED
    BY <1>3, <1>7, <2>5, <2>6, SameValues, SameQueries, SameOutcomes DEF Atomic!Update
<1>8. CASE call[h].op = "delete"
  <2>1. given[h] = 0
    BY <1>2, <1>8 DEF IInv, LocalInv, LocalsOf
  <2>2. Ended' = Ended
    BY <1>1, <1>2, <2>1, EndedKeeps DEF Open
  <2>3. Decided[h] = NoAnswer
    BY <1>2, <1>8 DEF Decided
  <2>4. call[h].id \in BannerIds /\ table[call[h].id] # NoBanner
    BY <1>2, <1>8 DEF IInv, LockInv, Locks, Calls
  <2>5. Atomic!DeleteRow(call[h].id, o)
    BY <1>3, <1>8, <2>2, <2>4, SameValues, SameQueries, SameOutcomes DEF Atomic!DeleteRow, Written
  <2>6. Atomic!Answer(h, IF Reported(o) THEN Nil ELSE Error)
    BY <1>1, <1>2, <1>5, <1>8, <2>3, AnAnswer DEF Result
  <2> QED
    BY <1>3, <1>8, <2>5, <2>6, SameValues, SameQueries, SameOutcomes DEF Atomic!Delete
<1>9. CASE call[h].op = "select"
  <2>1. given[h] = 0 /\ pending[h] = {}
    BY <1>2, <1>9 DEF IInv, LocalInv, LocalsOf
  <2>2. Ended' = Ended
    BY <1>1, <1>2, <2>1, EndedKeeps DEF Open
  <2>3. UNCHANGED table
    BY <1>3, <1>9 DEF Written
  <2>4. Decided[h] = Rows(banners[h])
    BY <1>2, <1>9, <2>1 DEF Decided
  <2>5. CASE Reported(o)
    <3>1. Decided'[h] = Decided[h]
      BY <1>5, <1>9, <2>4, <2>5 DEF Result
    <3> QED
      BY <1>1, <1>2, <2>2, <2>3, <3>1, AStutter
  <2>6. CASE ~Reported(o)
    <3>1. Faulty("postgres")
      BY <1>3, <2>6 DEF Outcomes, Reported
    <3> QED
      BY <1>1, <1>2, <1>5, <1>9, <2>2, <2>3, <2>4, <2>6, <3>1, AFailedSelect, Names
  <2> QED
    BY <2>5, <2>6
<1> QED
  BY <1>2, <1>6, <1>7, <1>8, <1>9, Names

\* What cannot be committed has failed before.
LEMMA EndSteps ==
    ASSUME IInv, NEW h \in Handlers, CommitFails(h) \/ Rollback(h)
    PROVE  UNCHANGED Atomic!callsVars
<1>1. OthersKeep(h)
  BY DEF CommitFails, Rollback, Release, Leave, GoTo, OthersKeep, IInv, TypeInv
<1>2. ~Open(h) /\ ~Open(h)' /\ UNCHANGED <<table, call, seq>>
  BY DEF CommitFails, Rollback, Leave, GoTo, Open, Clean, IInv, TypeInv
<1>3. Ended' = Ended
  BY <1>1, <1>2, EndedKeeps
<1>4. Decided'[h] = Decided[h]
  BY Names DEF CommitFails, Rollback, IInv, TypeInv, Decided
<1> QED
  BY <1>1, <1>2, <1>3, <1>4, AStutter

LEMMA ReturnSteps ==
    ASSUME IInv, NEW h \in Handlers, Return(h)
    PROVE  Atomic!Return(h)
<1>1. OthersKeep(h)
  BY DEF Return, GoTo, OthersKeep, IInv, TypeInv, localVars
<1>2. /\ UNCHANGED <<table, seq, given>> /\ call' = [call EXCEPT ![h] = NoCall]
      /\ given[h] = 0 /\ answer[h] # NoAnswer /\ broken'[h] = FALSE
      /\ answer'[h] = NoAnswer /\ step'[h] = "none" /\ call'[h] = NoCall
  BY DEF Return, GoTo, IInv, TypeInv, LocalInv, LocalsOf, localVars
<1>3. Ended' = Ended
  BY <1>1, <1>2, EndedKeeps DEF Open
<1>4. Decided[h] # NoAnswer /\ Decided'[h] = NoAnswer
  BY <1>2 DEF Decided
<1>5. Decided' = [Decided EXCEPT ![h] = NoAnswer]
  BY <1>1, <1>4, OneDecides
<1> QED
  BY <1>2, <1>3, <1>4, <1>5, SameValues DEF Atomic!Return, Atomic!repoVars

LEMMA CrashSteps ==
    ASSUME IInv, Crash
    PROVE  Atomic!Crash
<1>1. Decided' = [h \in Handlers |-> NoAnswer]
  BY DEF Crash, Decided
<1>2. Ended' = 1..seq
  BY DEF Crash, Ended
<1>3. Ended \subseteq 1..seq
  BY DEF Ended
<1>4. seq \in 0..MaxId /\ MaxId \in Nat
  BY BannerAssumption DEF IInv, TypeInv
<1>5. 1..seq \subseteq BannerIds
  BY <1>4 DEF BannerIds
<1>6. Ended \subseteq Ended' /\ Ended' \subseteq BannerIds
  BY <1>2, <1>3, <1>5
<1> QED
  BY <1>1, <1>6, SameValues, SameQueries, SameOutcomes DEF Crash, Atomic!Crash

\* A method of BannersPostgresRepo, several commands on a connection of the
\* pool beside those of other handlers, is as good as one step on the table.
THEOREM TransactionsAreAtomic == Spec => IsAtomic
<1>1. Init => Atomic!Init
  <2> SUFFICES ASSUME Init PROVE Atomic!Init
    OBVIOUS
  <2>1. Ended = {}
    BY DEF Init, Ended
  <2>2. Decided = [h \in Handlers |-> NoAnswer]
    BY DEF Init, NoLocals, Decided, NoCall
  <2> QED
    BY <2>1, <2>2, SameValues DEF Init, Atomic!Init, Atomic!RepoInit
<1>2. IInv /\ [Next]_vars => [Atomic!Next]_(Atomic!callsVars)
  <2> SUFFICES ASSUME IInv, [Next]_vars
               PROVE  Atomic!Next \/ UNCHANGED Atomic!callsVars
    OBVIOUS
  <2>1. ASSUME NEW h \in Handlers, NEW c \in Calls, Call(h, c)
        PROVE  Atomic!Next
    BY <2>1, CallSteps, SameValues DEF Atomic!Next
  <2>2. ASSUME NEW h \in Handlers, ExecuteRefused(h) \/ ExecuteFails(h)
        PROVE  Atomic!Next
    <3>1. step[h] = "execute" /\ StatementFails(h) /\ call[h] \in Calls
      BY <2>2 DEF ExecuteRefused, ExecuteFails, IInv, TypeInv, LocalInv, LocalsOf
    <3>2. \/ Faulty("postgres")
          \/ UNCHANGED seq /\ call[h].op = "select" /\ OutOfRange(call[h].query)
          \/ UNCHANGED seq /\ call[h].op \in {"insert", "update"}
      BY <2>2, <3>1, Names DEF ExecuteRefused, ExecuteFails, Refused, StatementFails, IInv,
                               TypeInv
    <3> QED
      BY <3>1, <3>2, StatementFailsSteps DEF Atomic!Next
  <2>3. ASSUME NEW h \in Handlers, Command(h)
        PROVE  Atomic!Next \/ UNCHANGED Atomic!callsVars
    BY <2>2, <2>3, BeginSteps, BeginFailsSteps, ExecuteInsertSteps, ExecuteWriteSteps,
       ExecuteSelectSteps, NextRowSteps, ScanFailsSteps, RowsEndSteps, CommitSteps,
       EndSteps, ReturnSteps
    DEF Command, Execute, Fetch, CommitOrRollback, Atomic!Next
  <2>4. CASE Crash
    BY <2>4, CrashSteps DEF Atomic!Next
  <2>5. CASE UNCHANGED vars
    <3>1. Ended' = Ended /\ Decided' = Decided
      BY <2>5 DEF vars, localVars, Ended, Decided, Clean
    <3> QED
      BY <2>5, <3>1 DEF vars, Atomic!callsVars, Atomic!repoVars
  <2> QED
    BY <2>1, <2>2, <2>3, <2>4, <2>5 DEF Next
<1> QED
  BY <1>1, <1>2, Invariance, PTL DEF Spec, IsAtomic, Atomic!Spec

=============================================================================
