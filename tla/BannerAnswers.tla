--------------------------- MODULE BannerAnswers ---------------------------
(***************************************************************************)
(* What callers ask of BannerService and what it answers, and how long ago *)
(* the banners in an answer were rows of the table.                        *)
(***************************************************************************)
EXTENDS BannerRepo

CONSTANT Asked      \* feature ids that GET /user_banner may name

VARIABLES
    age,        \* ticks since a banner was last a row of the table; as many as
                \* are counted if it was not for so long, or never
    out         \* what the last step replied, or NoReply

\* GetBannerRequest of GET /user_banner, which names one tag.
Requests == [feature : Asked, tag : Tags, admin : BOOLEAN, useLast : BOOLEAN]

NoReply == [kind |-> "none"]

\* bannerservice.GetBanner returns the banners found for a request.
Found(q, bs) == [kind |-> "banners", req |-> q, banners |-> bs]

\* The other methods return for an id; errors but ErrNotFound are alike.
Done(kind, id) == [kind |-> kind, id |-> id]

Replies ==
    {NoReply}
        \cup [kind : {"banners"}, req : Requests, banners : SUBSET Banners]
        \cup [kind : {"created", "updated", "deleted", "notFound", "error"},
              id : 0..MaxId]

\* Ages n ticks later, counted up to max: the rows now in the table have none.
AgedUpTo(n, max) ==
    age' = [b \in Banners |->
               IF table'[b.id] = b THEN 0
               ELSE IF age[b] + n > max THEN max
               ELSE age[b] + n]

=============================================================================
