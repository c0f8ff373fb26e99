---------------------------- MODULE RepoMethods -----------------------------
(***************************************************************************)
(* The methods of BannersPostgresRepo: what they are called with, by       *)
(* several handlers at once, and what they return.                         *)
(***************************************************************************)
EXTENDS Banner, Runtime

CONSTANTS
    Selects,    \* the bannerrepo.GetBannerRequests that arrive
    Inputs      \* the contents that are stored

VARIABLES
    call,       \* the method a handler is in and its arguments, or NoCall
    answer      \* what it has decided to return, or NoAnswer

\* Zero is an offset or a limit that is not given.
GetBannerRequests ==
    [feature : Int, tags : SUBSET Tags, onlyActive : BOOLEAN,
     offset : Int, limit : Int]

ASSUME RepoMethodsAssumption ==
    Selects \subseteq GetBannerRequests /\ Inputs \subseteq Contents

NoCall == [op |-> "none"]

Calls ==
    [op : {"select"}, query : Selects]
        \cup [op : {"insert"}, content : Inputs]
        \cup [op : {"update"}, id : BannerIds, content : Inputs]
        \cup [op : {"delete"}, id : BannerIds]

NoAnswer == [kind |-> "none"]
Error == [kind |-> "error"]
NotFound == [kind |-> "notFound"]
Nil == [kind |-> "nil"]
Inserted(id) == [kind |-> "id", id |-> id]
Rows(bs) == [kind |-> "banners", banners |-> bs]

Answers ==
    {NoAnswer, Error, NotFound, Nil}
        \cup [kind : {"id"}, id : BannerIds]
        \cup [kind : {"banners"}, banners : SUBSET Banners]

\* uint64 of a negative number is more than PostgreSQL takes.
OutOfRange(q) == q.offset < 0 \/ q.limit < 0

Before(b, found) == Cardinality({c \in found : c.id < b.id})

\* ... ORDER BY id ASC OFFSET ? LIMIT ?, of the rows found.
Page(q, found) ==
    {b \in found :
        /\ Before(b, found) >= q.offset
        /\ q.limit # 0 => Before(b, found) < q.offset + q.limit}

=============================================================================
