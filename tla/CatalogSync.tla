----------------------------- MODULE CatalogSync -----------------------------
(***************************************************************************)
(* The catalog's tables: what SyncCatalog makes of the three files of      *)
(* AtCoder Problems, and how the rows it saves meet those that users have  *)
(* added by URL.  Operators only: the sync is one transaction, and each    *)
(* insert of EnsureProblem one statement.                                  *)
(*                                                                         *)
(* A file is a sequence of rows, a table a set of rows.  The text of a     *)
(* column is a value: Blank is one with nothing but white space, Unfilled  *)
(* the index and the name that a problem from a URL does not have yet.     *)
(***************************************************************************)
EXTENDS Integers, Sequences

CONSTANTS
    Texts,
    Identifiers,   \* those that identifierPattern matches
    Blank,
    Unfilled,
    MaxDuration    \* seconds that fit a time.Duration

ASSUME CatalogAssumption ==
    /\ Identifiers \subseteq Texts /\ {Blank, Unfilled} \subseteq Texts \ Identifiers
    /\ MaxDuration \in Nat

\* Start and rate change of a contest are carried along and left out here.
ContestRows == [id : Texts, title : Texts, duration : Int]
ProblemRows == [id : Texts, contest : Texts, index : Texts, name : Texts]
PairRows == [contest : Texts, problem : Texts, index : Texts]

Files ==
    [contests : Seq(ContestRows), problems : Seq(ProblemRows), pairs : Seq(PairRows)]
Tables ==
    [contests : SUBSET ContestRows, problems : SUBSET ProblemRows,
     pairs : SUBSET PairRows]
Refs == [contest : Identifiers, problem : Identifiers]

-----------------------------------------------------------------------------
(* convertSnapshot: the rows that are taken.  The others are only counted. *)

ContestTaken(row) ==
    row.id \in Identifiers /\ row.duration \in 0 .. MaxDuration /\ row.title # Blank
ProblemTaken(row) == row.id \in Identifiers /\ row.contest \in Identifiers
PairTaken(row) ==
    row.contest \in Identifiers /\ row.problem \in Identifiers /\ row.index # Blank

\* Normalized: the first of the rows at ks that have the same key.
FirstOf(ks, key) == {k \in ks : \A j \in ks : j < k => key[j] # key[k]}

PairKey(row) == <<row.contest, row.problem>>
IdsOf(rows) == {row.id : row \in rows}

NewContests(file) ==
    {file[k] : k \in FirstOf({k \in DOMAIN file : ContestTaken(file[k])},
                             [k \in DOMAIN file |-> file[k].id])}
NewProblems(file) ==
    {file[k] : k \in FirstOf({k \in DOMAIN file : ProblemTaken(file[k])},
                             [k \in DOMAIN file |-> file[k].id])}
\* ... and of the pairs only those of a contest and a problem of the same snapshot.
NewPairs(files) ==
    {pair \in
        {files.pairs[k] : k \in FirstOf({k \in DOMAIN files.pairs : PairTaken(files.pairs[k])},
                                        [k \in DOMAIN files.pairs |-> PairKey(files.pairs[k])])} :
        /\ pair.contest \in IdsOf(NewContests(files.contests))
        /\ pair.problem \in IdsOf(NewProblems(files.problems))}

-----------------------------------------------------------------------------
(* The tables. *)

\* INSERT ... ON CONFLICT (id) DO UPDATE.
Upserted(table, rows) == {row \in table : row.id \notin IdsOf(rows)} \cup rows
UpsertedPairs(table, rows) ==
    {row \in table : \A new \in rows : PairKey(new) # PairKey(row)} \cup rows

\* One transaction, all or nothing; a snapshot without contests or problems is none.
SyncedCatalog(tables, files) ==
    LET contests == NewContests(files.contests)
        problems == NewProblems(files.problems)
    IN  IF contests = {} \/ problems = {} THEN tables
        ELSE [contests |-> Upserted(tables.contests, contests),
              problems |-> Upserted(tables.problems, problems),
              pairs |-> UpsertedPairs(tables.pairs, NewPairs(files))]

\* INSERT ... ON CONFLICT (id) DO NOTHING, of EnsureProblem.
InsertProblemIfNotExists(tables, ref) ==
    IF ref.problem \in IdsOf(tables.problems) THEN tables
    ELSE [tables EXCEPT !.problems = @ \cup
            {[id |-> ref.problem, contest |-> ref.contest, index |-> Unfilled,
              name |-> Unfilled]}]

FindProblemByID(tables, id) == {row \in tables.problems : row.id = id}

\* The problems of a contest with their index there: the pairs joined with problems.
ListContestProblems(tables, contest) ==
    {[id |-> j[2].id, index |-> j[1].index, name |-> j[2].name] :
        j \in {j \in tables.pairs \X tables.problems :
                    j[1].contest = contest /\ j[1].problem = j[2].id}}

\* The primary and foreign keys, and rows that can be read back (rehydrateContest,
\* rehydrateProblem): one that cannot would fail every search or page it is on.
KeysHold(tables) ==
    /\ \A r, s \in tables.contests : r.id = s.id => r = s
    /\ \A r, s \in tables.problems : r.id = s.id => r = s
    /\ \A r, s \in tables.pairs : PairKey(r) = PairKey(s) => r = s
    /\ \A pair \in tables.pairs :
        pair.contest \in IdsOf(tables.contests) /\ pair.problem \in IdsOf(tables.problems)
RowsAreRead(tables) ==
    /\ \A row \in tables.contests : ContestTaken(row)
    /\ \A row \in tables.problems : ProblemTaken(row)
=============================================================================
