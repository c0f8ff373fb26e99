------------------------------ MODULE Runtime ------------------------------
(***************************************************************************)
(* What the services run on: the goroutines net/http starts for requests,  *)
(* the faults of the stores below, and how a transaction ends.             *)
(***************************************************************************)

CONSTANTS
    Handlers,   \* the server's request goroutines
    Faults      \* what may fail: "redis", "postgres", "crash"

Faulty(store) == store \in Faults

(***************************************************************************)
(* How pgtools.CommitOrRollback ends a transaction.                        *)
(*   "committed"   Commit returned nil.                                    *)
(*   "rolledBack"  Begin, the statement or Commit failed, nothing is       *)
(*                 written.                                                *)
(*   "commitLost"  the server committed, but Commit returned an error      *)
(*                 because its answer was lost.                            *)
(***************************************************************************)
Outcomes(faulty) ==
    IF faulty THEN {"committed", "rolledBack", "commitLost"} ELSE {"committed"}

Applied(outcome) == outcome # "rolledBack"

Reported(outcome) == outcome = "committed"

=============================================================================
