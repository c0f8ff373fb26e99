------------------------- MODULE MCRepoTransactions -------------------------
(***************************************************************************)
(* RepoTransactions for TLC.                                               *)
(***************************************************************************)
EXTENDS RepoTransactions

MCRequest(offset, limit) ==
    [feature |-> Repo!NoFilter, tags |-> {}, onlyActive |-> FALSE,
     offset |-> offset, limit |-> limit]

MCSelects == {MCRequest(0, 0), MCRequest(1, 1), MCRequest(0, -1)}

MCInputs == {[feature |-> 1, tags |-> {}, active |-> TRUE]}

=============================================================================
