---------------------------- MODULE BannerCache -----------------------------
(***************************************************************************)
(* The Redis cache.  A banner is kept as a JSON string under banner:<id>,  *)
(* which expires ExpTime after it is set; the sets feature:<f>:tag:<t>     *)
(* list the ids to look at for a feature and a tag and have no expiry.     *)
(* Every command is atomic in Redis, so each operator is one command;      *)
(* BannerCache.CreateBanner and GetUserBanner issue several.               *)
(***************************************************************************)
EXTENDS Banner

CONSTANT ExpTime    \* cfg.RedisCache.ExpTime, in ticks of the model's clock

ASSUME ExpTimeAssumption == ExpTime \in Nat \ {0}

VARIABLES
    cached,     \* the value of banner:<id>, or NoBanner
    ttl,        \* ticks banner:<id> has left, 0 when there is no such key
    index       \* the set feature:<f>:tag:<t>

cacheVars == <<cached, ttl, index>>

CacheTypeOK ==
    /\ cached \in [BannerIds -> Banners \cup {NoBanner}]
    /\ ttl \in [BannerIds -> 0..ExpTime]
    /\ index \in [Features -> [Tags -> SUBSET BannerIds]]

CacheInit ==
    /\ cached = [id \in BannerIds |-> NoBanner]
    /\ ttl = [id \in BannerIds |-> 0]
    /\ index = [f \in Features |-> [t \in Tags |-> {}]]

SetBanner_NoExpiry(b) ==                                            \* mutant
    /\ cached' = [cached EXCEPT ![b.id] = b]
    /\ UNCHANGED <<ttl, index>>

\* SET banner:<id> <json> EX <ExpTime>.
SetBanner(b) ==
    /\ cached' = [cached EXCEPT ![b.id] = b]
    /\ ttl' = [ttl EXCEPT ![b.id] = ExpTime]
    /\ UNCHANGED index

AddToIndex_Replaces(b, t) ==                                        \* mutant
    /\ index' = [index EXCEPT ![b.feature][t] = {b.id}]
    /\ UNCHANGED <<cached, ttl>>

\* SADD feature:<f>:tag:<t> <id>.
AddToIndex(b, t) ==
    /\ index' = [index EXCEPT ![b.feature][t] = @ \cup {b.id}]
    /\ UNCHANGED <<cached, ttl>>

\* SMEMBERS feature:<f>:tag:<t>; a feature never written has an empty set.
Members(f, t) == IF f \in Features THEN index[f][t] ELSE {}

\* DEL banner:<id>.
DelBanner(id) ==
    /\ cached' = [cached EXCEPT ![id] = NoBanner]
    /\ ttl' = [ttl EXCEPT ![id] = 0]
    /\ UNCHANGED index

\* One tick of Redis' own clock: keys whose time is up are gone.
ExpireKeys ==
    /\ ttl' = [id \in BannerIds |-> IF ttl[id] = 0 THEN 0 ELSE ttl[id] - 1]
    /\ cached' = [id \in BannerIds |->
                     IF ttl[id] = 1 THEN NoBanner ELSE cached[id]]
    /\ UNCHANGED index

=============================================================================
