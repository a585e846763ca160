---------------------------- MODULE MCReviewStore -----------------------------
(* Instances of ReviewStore for TLC. *)
EXTENDS ReviewStore, ReviewMessages, TLC

\* Ids of items, requests and sessions are interchangeable.
Symmetry ==
    Permutations(Items) \cup Permutations(Requests) \cup Permutations(Sessions)

\* Scheduler at a resolution of a hundredth.
Fuzzing(MaximumInterval) == INSTANCE Scheduler WITH Parts <- 100, FuzzSteps <- 100

\* fuzz_test.go, from Anki's own tests: an interval in hundredths of a day, its limits,
\* and the days that the factors 0, 0.5 and 0.99 choose.
FuzzTests ==
    {<<100, 1, 1000, 1, 1, 1>>, <<249, 1, 1000, 2, 2, 2>>, <<250, 1, 1000, 2, 3, 4>>,
     <<700, 1, 1000, 5, 7, 9>>, <<1700, 1, 1000, 14, 17, 20>>,
     <<3700, 1, 1000, 33, 37, 41>>, <<200, 2, 1000, 2, 2, 2>>,
     <<200, 3, 1000, 3, 4, 4>>, <<200, 3, 3, 3, 3, 3>>, <<690, 3, 1000, 5, 7, 9>>,
     <<1990, 3, 1000, 17, 20, 23>>, <<2010, 3, 1000, 17, 20, 23>>,
     <<10000, 101, 1000, 101, 105, 108>>, <<10000, 1, 99, 92, 96, 99>>,
     <<10000, 97, 103, 97, 100, 103>>}

ASSUME FuzzAgreesWithAnki ==
    \A test \in FuzzTests, choice \in {<<0, 4>>, <<50, 5>>, <<99, 6>>} :
        Fuzzing(test[3])!Apply([enabled |-> TRUE, factor |-> choice[1]], test[1], test[2])
          = test[choice[2]]

ASSUME MinimumAgreesWithAnki ==
    \A test \in {<<273, 4, 4>>, <<273, 5, 0>>, <<459, 4, 5>>} :
        Fuzzing(36500)!MinimumReviewFuzzInterval(test[1], test[2]) = test[3]

\* Of what a client may send in the open enums, just these pairs are outcomes; a
\* difficulty that is left out counts as good (resultValue, difficultyValue, NewOutcome).
ASSUME OnlyKnownOutcomesAreTaken ==
    LET sent == [result : 0..4, difficulty : 0..4]
    IN  /\ {m \in sent : RequestedOutcome(m) # Invalid}
              = {m \in sent : \/ m.result = 1 /\ m.difficulty \in 0..3
                              \/ m.result \in {2, 3} /\ m.difficulty = 0}
        /\ {RequestedOutcome(m) : m \in sent} = AllOutcomes \cup {Invalid}
        /\ RequestedOutcome([result |-> 1, difficulty |-> 0]) = "independent_good"

\* The CHECK constraints of review_logs look at result and rating one by one; of the
\* pairs they admit, OutcomeFromRating takes just those that are ever written.
ASSUME ColumnsAreRead ==
    LET columns == [result : ResultKeys, rating : {"again", "hard", "good", "easy"}]
        read == {c \in columns : OutcomeFromRating(c.result, c.rating) # Invalid}
    IN  /\ read = {OutcomeColumns(o) : o \in AllOutcomes}
        /\ \A c, d \in read : OutcomeFromRating(c.result, c.rating)
                                  = OutcomeFromRating(d.result, d.rating) => c = d
=============================================================================
