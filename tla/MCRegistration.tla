---------------------------- MODULE MCRegistration ----------------------------
(* Instances of Registration for TLC, and of the tables of CatalogSync. *)
EXTENDS Registration, CatalogSync

\* The rows of client_test.go and of TestSnapshotNormalizedRemovesDuplicatesAndDanglingPairs:
\* malformed, doubled and dangling ones, and rows at the limits.
SampleFiles ==
    [contests |-> <<[id |-> Blank, title |-> "A", duration |-> 1],
                    [id |-> "b", title |-> "B", duration |-> MaxDuration + 1],
                    [id |-> "a", title |-> Blank, duration |-> 1],
                    [id |-> "a", title |-> "A", duration |-> MaxDuration],
                    [id |-> "a", title |-> "B", duration |-> 0]>>,
     problems |-> <<[id |-> "p", contest |-> Blank, index |-> "A", name |-> "A"],
                    [id |-> "p", contest |-> "a", index |-> "A", name |-> Unfilled],
                    [id |-> "p", contest |-> "b", index |-> "B", name |-> "B"]>>,
     pairs |-> <<[contest |-> "a", problem |-> "p", index |-> Blank],
                 [contest |-> "a", problem |-> "p", index |-> "B"],
                 [contest |-> "a", problem |-> "p", index |-> "A"],
                 [contest |-> "b", problem |-> "p", index |-> "A"],
                 [contest |-> "a", problem |-> "q", index |-> "A"]>>]

NoTables == [contests |-> {}, problems |-> {}, pairs |-> {}]
Synced == SyncedCatalog(NoTables, SampleFiles)

ASSUME FirstGoodRowsAreTaken ==
    Synced = [contests |-> {[id |-> "a", title |-> "A", duration |-> MaxDuration]},
              problems |-> {[id |-> "p", contest |-> "a", index |-> "A", name |-> Unfilled]},
              pairs |-> {[contest |-> "a", problem |-> "p", index |-> "B"]}]

ASSUME EmptySnapshotIsNone ==
    SyncedCatalog(Synced, [SampleFiles EXCEPT !.problems = <<>>]) = Synced

\* Whatever a URL or a sync added is there once; a contest page shows each of its pairs.
ASSUME AddedRowsAreFound ==
    \A contest \in Identifiers, problem \in Identifiers :
        LET added == InsertProblemIfNotExists(Synced, [contest |-> contest, problem |-> problem])
        IN  /\ \E row \in added.problems : FindProblemByID(added, problem) = {row}
            /\ KeysHold(added) /\ RowsAreRead(added)
            /\ ListContestProblems(added, "a") = {[id |-> "p", index |-> "B", name |-> Unfilled]}
=============================================================================
