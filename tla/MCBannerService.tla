-------------------------- MODULE MCBannerService --------------------------
(* The instances of BannerService that TLC checks. *)
EXTENDS BannerService, TLC

\* Contents admins submit: a banner of each feature, and one switched off.
On(f) == [feature |-> f, tags |-> Tags, active |-> TRUE]
Off(f) == [feature |-> f, tags |-> Tags, active |-> FALSE]

MCInputs == {On(1), Off(1)}
MCInputsTwoFeatures == {On(1), On(2)}

Symmetry == Permutations(Handlers)
=============================================================================
