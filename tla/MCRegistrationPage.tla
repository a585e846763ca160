-------------------------- MODULE MCRegistrationPage --------------------------
(* An instance of RegistrationPage for TLC: two contests with a problem in   *)
(* common; a search finds both, another the second one.  The search itself   *)
(* is checked on all short texts over the characters that matter.            *)
EXTENDS RegistrationPage, ContestSearch

MCMatches == [t \in Texts |-> IF t = "" THEN <<"A", "B">> ELSE <<"B">>]
MCProblemsOf == [c \in Contests |-> IF c = "A" THEN <<"p1", "p2">> ELSE <<"p2">>]
MCSmallOf == [c \in {"A"} |-> "a"]

ShortTexts == BoundedSeq({"A", "a", " ", "%", "_", "\\"}, 2) \cup {<<"a", "b", "%">>, <<"b", " ", "_", "A">>}

HasPart(part, text) ==
    \E k \in 0 .. Len(text) - Len(part) : SubSeq(text, k + 1, k + Len(part)) = part

\* The comments of ContestQuery: case and blanks are ignored, and %, _ and \ stand for
\* themselves: a contest is found just when its folded id or title has the query in it.
ASSUME SearchFindsTexts ==
    \A raw, id, title \in ShortTexts :
        Matched([id |-> WithoutBlanks(id), title |-> title], LikePattern(raw)) <=>
            \/ HasPart(Normalized(raw), Lower(WithoutBlanks(id)))
            \/ HasPart(Normalized(raw), Normalized(title))

\* The patterns of TestContestQueryIgnoresSpacesAndCaseAndEscapesWildcards, and the limit.
ASSUME PatternsAsTested ==
    /\ LikePattern(<<" ", "A", "b", " ", "3">>) = <<"%", "a", "b", "3", "%">>
    /\ LikePattern(<<>>) = <<"%", "%">>
    /\ LikePattern(<<"1", "%", "_", "\\">>) = <<"%", "1", "\\", "%", "\\", "_", "\\", "\\", "%">>
    /\ QueryValid([k \in 1 .. MaxQuery |-> "a"]) /\ ~QueryValid([k \in 1 .. MaxQuery + 1 |-> "a"])
ASSUME NewestAreFound ==
    LET contest(n, t) == [id |-> <<"a">>, title |-> <<"b">>, start |-> t, rank |-> n]
    IN  SearchContests({contest(1, 5), contest(2, 7), contest(3, 5)}, <<"A">>)
            = {contest(1, 5), contest(2, 7)}
=============================================================================
