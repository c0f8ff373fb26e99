------------------------------- MODULE Banner -------------------------------
(***************************************************************************)
(* The data every component shares: models.Banner and the queries' domain. *)
(* A banner is told apart by its id, the feature and tags it is shown for, *)
(* the is_active flag and its revision.  The revision stands for the rest  *)
(* of the row (content, dates): the n-th committed write of an id yields   *)
(* revision n, so two rows of one id are equal iff one write made both.    *)
(***************************************************************************)
EXTENDS Integers, FiniteSets

CONSTANTS
    Features,   \* feature ids that banners are stored under
    Tags,       \* tag ids
    MaxId,      \* bound: banner ids the SERIAL column may hand out
    MaxRev,     \* bound: writes one banner may receive
    NoBanner    \* "no row", redis.Nil, the zero models.Banner

BannerIds == 1..MaxId

Revisions == 1..MaxRev

\* What an admin submits in the body of POST /banner and PATCH /banner/{id}.
Contents == [feature : Features, tags : SUBSET Tags, active : BOOLEAN]

Banners == [id : BannerIds, rev : Revisions,
            feature : Features, tags : SUBSET Tags, active : BOOLEAN]

\* The row that revision r of banner id is once content c is written to it.
Row(id, r, c) == [id |-> id, rev |-> r, feature |-> c.feature,
                  tags |-> c.tags, active |-> c.active]

ASSUME BannerAssumption ==
    /\ Features \subseteq Int
    /\ IsFiniteSet(Tags)
    /\ MaxId \in Nat \ {0}
    /\ MaxRev \in Nat \ {0}
    /\ NoBanner \notin Banners

=============================================================================
