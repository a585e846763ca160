----------------------------- MODULE ContestSearch -----------------------------
(***************************************************************************)
(* How the catalog finds contests for what is typed into the search field: *)
(* Go makes a LIKE pattern of it, PostgreSQL folds the titles and matches. *)
(* A text is a sequence of characters; folding is the same on both sides,  *)
(* as it is for the ids and titles of AtCoder.                             *)
(***************************************************************************)
EXTENDS Integers, SequencesExt

CONSTANTS
    SmallOf,        \* per capital letter its small one (ToLower, lower)
    Blanks,         \* the white space of strings.Fields and of \s
    MaxQuery,       \* maximumContestQueryLength
    MaxFound        \* the LIMIT of the query

ASSUME ContestSearchAssumption == MaxQuery \in Nat /\ MaxFound \in Nat

AnyText == "%"
AnyOne == "_"
Escape == "\\"

Lower(text) ==
    [k \in DOMAIN text |-> IF text[k] \in DOMAIN SmallOf THEN SmallOf[text[k]] ELSE text[k]]
WithoutBlanks(text) == SelectSeq(text, LAMBDA c : c \notin Blanks)

\* NewContestQuery: what it takes, and what it keeps.
QueryValid(raw) == Len(raw) <= MaxQuery
Normalized(raw) == WithoutBlanks(Lower(raw))

LikePattern(raw) ==
    LET escaped == [k \in DOMAIN Normalized(raw) |->
                        IF Normalized(raw)[k] \in {AnyText, AnyOne, Escape}
                        THEN <<Escape, Normalized(raw)[k]>> ELSE <<Normalized(raw)[k]>>]
    IN  <<AnyText>> \o FlattenSeq(escaped) \o <<AnyText>>

\* PostgreSQL's LIKE with its own escape character.
RECURSIVE Like(_, _)
Like(text, pattern) ==
    IF pattern = <<>> THEN text = <<>>
    ELSE \/ /\ Head(pattern) = AnyText
            /\ \E k \in 1 .. Len(text) + 1 : Like(SubSeq(text, k, Len(text)), Tail(pattern))
         \/ /\ Head(pattern) = Escape /\ Len(pattern) > 1 /\ text # <<>>
            /\ Head(text) = pattern[2]
            /\ Like(Tail(text), Tail(Tail(pattern)))
         \/ /\ Head(pattern) \notin {AnyText, Escape} /\ text # <<>>
            /\ Head(pattern) \in {AnyOne, Head(text)}
            /\ Like(Tail(text), Tail(pattern))

\* The blanks of a title are ignored; an id has none.
Matched(contest, pattern) ==
    \/ Like(Lower(contest.id), pattern)
    \/ Like(WithoutBlanks(Lower(contest.title)), pattern)

\* The newest ones; of contests that start together those whose id comes first (rank).
SearchContests(contests, raw) ==
    LET found == {c \in contests : Matched(c, LikePattern(raw))}
        before(c, d) == c.start > d.start \/ (c.start = d.start /\ c.rank < d.rank)
    IN  {c \in found : Cardinality({d \in found : before(d, c)}) < MaxFound}
=============================================================================
