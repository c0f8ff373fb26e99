----------------------------- MODULE BannerRepo -----------------------------
(***************************************************************************)
(* The banners table in PostgreSQL and the four operations                 *)
(* BannersPostgresRepo performs on it.  Each operation is one transaction, *)
(* closed by pgtools.CommitOrRollback, and hence one step on the table.    *)
(***************************************************************************)
EXTENDS Banner, Runtime

VARIABLES
    table,      \* the row stored under each id, or NoBanner
    drawn       \* ids the SERIAL column gave to INSERTs that have ended

repoVars == <<table, drawn>>

\* GetBannerRequest.FeatureID = -1 means "do not filter by feature".
NoFilter == -1

RepoTypeOK ==
    /\ table \in [BannerIds -> Banners \cup {NoBanner}]
    /\ drawn \subseteq BannerIds

RepoInit ==
    /\ table = [id \in BannerIds |-> NoBanner]
    /\ drawn = {}

Stored(id) == id \in BannerIds /\ table[id] # NoBanner

\* SELECT ... WHERE feature_id = ? AND tag_ids && ? AND is_active.
SelectBanners(feature, tags, onlyActive) ==
    {b \in {table[id] : id \in {i \in BannerIds : table[i] # NoBanner}} :
        /\ feature # NoFilter => b.feature = feature
        /\ tags # {} => b.tags \cap tags # {}
        /\ onlyActive => b.active}

InsertBanner_ReusesId(id, c, outcome) ==                            \* mutant
    /\ id \in BannerIds
    /\ table[id] = NoBanner
    /\ table' = IF Applied(outcome)
                THEN [table EXCEPT ![id] = Row(id, 1, c)]
                ELSE table
    /\ \/ drawn' = drawn \cup {id}
       \/ ~Applied(outcome) /\ drawn' = drawn

\* INSERT ... RETURNING id.  INSERTs end in any order, whatever the order
\* they drew their ids in.  The id drawn by a transaction that rolls back is
\* lost; one that never reached the server drew none.
InsertBanner(id, c, outcome) ==
    /\ id \in BannerIds \ drawn
    /\ table' = IF Applied(outcome)
                THEN [table EXCEPT ![id] = Row(id, 1, c)]
                ELSE table
    /\ \/ drawn' = drawn \cup {id}
       \/ ~Applied(outcome) /\ drawn' = drawn

\* UPDATE ... WHERE id = ?, every column overwritten.
UpdateRow(id, c, outcome) ==
    /\ Stored(id)
    /\ table[id].rev < MaxRev
    /\ table' = IF Applied(outcome)
                THEN [table EXCEPT ![id] = Row(id, table[id].rev + 1, c)]
                ELSE table
    /\ UNCHANGED drawn

\* DELETE ... WHERE id = ?.
DeleteRow(id, outcome) ==
    /\ Stored(id)
    /\ table' = IF Applied(outcome)
                THEN [table EXCEPT ![id] = NoBanner]
                ELSE table
    /\ UNCHANGED drawn

=============================================================================
