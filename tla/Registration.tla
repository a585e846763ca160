----------------------------- MODULE Registration -----------------------------
(***************************************************************************)
(* Registration of problems for review by one user, at the grain of the    *)
(* rows its INSERT writes: RegisterProblems (a list of problems that the   *)
(* catalog must know) and RegisterProblemByURL (one problem, added to the  *)
(* catalog if need be), both over Repository.CreateReviewItems.            *)
(*                                                                         *)
(* A session is one call.  CreateReviewItems is one INSERT ... SELECT ...  *)
(* ON CONFLICT DO NOTHING in a transaction of its own: it takes the rows   *)
(* in the order of the list, skips a problem that is registered, and waits *)
(* where another open statement has inserted the problem.  PostgreSQL      *)
(* aborts one of the sessions that wait for one another in a circle.       *)
(***************************************************************************)
EXTENDS Naturals, FiniteSets, Functions

CONSTANTS
    Sessions,      \* calls in flight at the same time
    Problems,      \* problems of AtCoder
    MaxProblems    \* maxProblemsPerRegistration

ASSUME RegistrationAssumption == MaxProblems \in Nat \ {0}

VARIABLES
    catalog,       \* problems: the ids in the catalog's table
    registered,    \* review_items: the problems the user has registered
    call           \* per session: the place reached and the local variables

vars == <<catalog, registered, call>>

\* What parseProblemIDs lets through: up to MaxProblems ids, none twice.
ProblemLists == UNION {Injection(1 .. n, Problems) : n \in 1 .. MaxProblems}

\* Where a call stands.  started: the ids are parsed; ensuring: the URL is
\* parsed; inserting: the INSERT is at row next; created: it has committed;
\* answered: the problems it found registered have been read.
Places == {"idle", "started", "ensuring", "inserting", "created", "answered",
           "unknownProblem"}

\* list: the ids in order; next: the row the INSERT takes next; inserted: the
\* rows it returned; existing: the rows the later SELECT returned.
Idle == [pc |-> "idle", list |-> <<>>, next |-> 1, inserted |-> {}, existing |-> {}]

Init ==
    /\ catalog \in SUBSET Problems
    /\ registered = {}
    /\ call = [s \in Sessions |-> Idle]

Wanted(s) == Range(call[s].list)

-----------------------------------------------------------------------------
(* Up to the INSERT. *)

StartRegisterProblems(s, list) ==
    /\ call[s].pc = "idle"
    /\ call' = [call EXCEPT ![s] = [Idle EXCEPT !.pc = "started", !.list = list]]
    /\ UNCHANGED <<catalog, registered>>

StartRegisterProblemByURL(s, p) ==
    /\ call[s].pc = "idle"
    /\ call' = [call EXCEPT ![s] = [Idle EXCEPT !.pc = "ensuring", !.list = <<p>>]]
    /\ UNCHANGED <<catalog, registered>>

TrustTheClient(s) ==  \* mutant: the ids are not looked up
    /\ call[s].pc = "started"
    /\ call' = [call EXCEPT ![s].pc = "inserting"]
    /\ UNCHANGED <<catalog, registered>>
\* RegisterProblems takes only problems the catalog knows, all or none.
FindProblems(s) ==
    /\ call[s].pc = "started"
    /\ call' = [call EXCEPT ![s].pc =
                  IF Wanted(s) \subseteq catalog THEN "inserting" ELSE "unknownProblem"]
    /\ UNCHANGED <<catalog, registered>>

EnsureProblem(s) ==
    /\ call[s].pc = "ensuring"
    /\ catalog' = catalog \cup Wanted(s)
    /\ call' = [call EXCEPT ![s].pc = "inserting"]
    /\ UNCHANGED registered

-----------------------------------------------------------------------------
(* CreateReviewItems and the user's unique index on problem_id. *)

Holds(t, p) == call[t].pc = "inserting" /\ p \in call[t].inserted

\* Mutant: rows that no other call holds are taken first.
FreeRowsFirst(s) ==
    LET left == Wanted(s) \ (registered \cup call[s].inserted)
        free == {p \in left : \A t \in Sessions : ~Holds(t, p)}
    IN  IF free # {} THEN free ELSE left
\* The problem of the row the INSERT is at, if there is one left.
CurrentRow(s) == {call[s].list[k] : k \in {call[s].next} \cap DOMAIN call[s].list}

NoUniqueIndex(s, t) == FALSE  \* mutant: no unique index to wait on
WaitsFor(s, t) ==
    /\ s # t
    /\ call[s].pc = "inserting"
    /\ \E p \in CurrentRow(s) : Holds(t, p) /\ p \notin registered

SkipOpenRow(s) ==  \* mutant: a row of an open statement is skipped as well
    /\ call[s].pc = "inserting"
    /\ CurrentRow(s) \cap (registered \cup UNION {call[t].inserted : t \in Sessions}) # {}
    /\ call' = [call EXCEPT ![s].next = @ + 1]
    /\ UNCHANGED <<catalog, registered>>
SkipRow(s) ==
    /\ call[s].pc = "inserting"
    /\ CurrentRow(s) \cap registered # {}
    /\ call' = [call EXCEPT ![s].next = @ + 1]
    /\ UNCHANGED <<catalog, registered>>

InsertRow(s) ==
    /\ call[s].pc = "inserting"
    /\ \A t \in Sessions : ~WaitsFor(s, t)
    /\ \E p \in CurrentRow(s) \ registered :
        call' = [call EXCEPT ![s].next = @ + 1, ![s].inserted = @ \cup {p}]
    /\ UNCHANGED <<catalog, registered>>

InsertRowAgain(s) == InsertRow(s)  \* mutant: no DO NOTHING, a violation is retried
TakeRow(s) == SkipRow(s) \/ InsertRow(s)

\* The statement ends, its rows become visible, RETURNING gives them.
CommitRows(s) ==
    /\ call[s].pc = "inserting"
    /\ CurrentRow(s) = {}
    /\ registered' = registered \cup call[s].inserted
    /\ call' = [call EXCEPT ![s].pc = "created"]
    /\ UNCHANGED catalog

\* Circles of sessions that wait for one another.
InCircle(s) ==
    \E S \in SUBSET Sessions :
        /\ s \in S
        /\ \A a \in S : /\ \E b \in S : WaitsFor(a, b)
                        /\ \E b \in S : WaitsFor(b, a)

BreakDeadlock(s) ==
    /\ InCircle(s)
    /\ call' = [call EXCEPT ![s] = Idle]
    /\ UNCHANGED <<catalog, registered>>

-----------------------------------------------------------------------------
(* After the INSERT. *)

FindAllWanted(s) == Wanted(s) \cap registered  \* mutant: the new ones as well
\* The problems that are not among the rows returned are read in a statement
\* of its own, which sees what the other calls have committed by now.
FindReviewItems(s) == (Wanted(s) \ call[s].inserted) \cap registered

FindExisting(s) ==
    /\ call[s].pc = "created"
    /\ call' = [call EXCEPT ![s].pc = "answered", ![s].existing = FindReviewItems(s)]
    /\ UNCHANGED <<catalog, registered>>

Reply(s) ==
    /\ call[s].pc \in {"answered", "unknownProblem"}
    /\ call' = [call EXCEPT ![s] = Idle]
    /\ UNCHANGED <<catalog, registered>>

\* A lost connection, a cancelled context or a crash: an INSERT that has not
\* ended is rolled back whole.
Abort(s) ==
    /\ call[s].pc # "idle"
    /\ call' = [call EXCEPT ![s] = Idle]
    /\ UNCHANGED <<catalog, registered>>

\* The synchronisation with AtCoder Problems adds problems, it removes none.
SyncCatalog ==
    /\ \E p \in Problems \ catalog : catalog' = catalog \cup {p}
    /\ UNCHANGED <<registered, call>>

Serve(s) ==
    \/ FindProblems(s) \/ EnsureProblem(s) \/ TakeRow(s) \/ CommitRows(s)
    \/ FindExisting(s) \/ Reply(s)

Next ==
    \/ SyncCatalog
    \/ \E s \in Sessions :
        \/ \E list \in ProblemLists : StartRegisterProblems(s, list)
        \/ \E p \in Problems : StartRegisterProblemByURL(s, p)
        \/ Serve(s)
        \/ BreakDeadlock(s)
        \/ Abort(s)

Spec == Init /\ [][Next]_vars

\* PostgreSQL looks for circles whenever a wait lasts (deadlock_timeout), and
\* serves the waiters of a transaction in turn.
Fairness ==
    \A s \in Sessions :
        WF_vars(Serve(s)) /\ SF_vars(TakeRow(s)) /\ WF_vars(BreakDeadlock(s))

FairSpec == Spec /\ Fairness
-----------------------------------------------------------------------------
(* Properties. *)

\* Every variable has its type, and the rows a call has inserted or read are
\* among those it was asked for, in the order of its list.
TypeOK ==
    /\ catalog \subseteq Problems
    /\ registered \subseteq Problems
    /\ call \in [Sessions ->
            [pc : Places, list : ProblemLists \cup {<<>>}, next : Nat \ {0},
             inserted : SUBSET Problems, existing : SUBSET Problems]]
    /\ \A s \in Sessions :
        /\ 1 .. (call[s].next - 1) \subseteq DOMAIN call[s].list
        /\ call[s].inserted \subseteq {call[s].list[k] : k \in 1 .. (call[s].next - 1)}
        /\ call[s].existing \subseteq Wanted(s)

\* RegisterProblemsResult: the answer accounts for every problem asked for,
\* either as registered by this call or as registered before, never as both,
\* and all of them are registered - also those that other calls registered
\* while this one was under way.
AnswerPartitions ==
    \A s \in Sessions : call[s].pc = "answered" =>
        /\ call[s].inserted \cup call[s].existing = Wanted(s)
        /\ call[s].inserted \cap call[s].existing = {}
        /\ Wanted(s) \subseteq registered

\* Of all the calls that are ever made, one registers a problem: no call is
\* told of a new item that another had registered when its rows committed
\* (review_items_user_problem_unique).
RegisteredOnce ==
    [][\A s \in Sessions :
          call[s].pc = "inserting" /\ call'[s].pc = "created" =>
              call'[s].inserted \cap registered = {}]_vars

\* Every item has its problem in the catalog, so no list of items ever fails
\* with ErrProblemInfoMissing; there is no foreign key to see to it.
ItemsHaveProblems == registered \subseteq catalog

\* The list of a call whose INSERT is under way follows an order of the problems.
Agrees(s, rank) ==
    call[s].pc = "inserting" =>
        \A j, k \in DOMAIN call[s].list :
            j < k => rank[call[s].list[j]] < rank[call[s].list[k]]

\* Calls under way whose lists follow one order of the problems never wait in a
\* circle: it takes lists in different orders to lose a call to a deadlock.
SameOrderNeverDeadlocks ==
    (\E S \in SUBSET Sessions : \E s \in S : InCircle(s)) =>
        ~ \E rank \in [Problems -> 1 .. Cardinality(Problems)] : \A s \in Sessions : Agrees(s, rank)

\* What a client sees of a call: it is on its way until its rows have committed, and
\* then has its answer, the problems it found registered read or not.
CallOf(c) ==
    IF c.pc \in {"idle", "unknownProblem"} THEN [phase |-> "idle"]
    ELSE IF c.pc \in {"created", "answered"} THEN
        [problems |-> Range(c.list), phase |-> "served", new |-> c.inserted,
         existing |-> IF c.pc = "created" THEN Range(c.list) \ c.inserted ELSE c.existing]
    ELSE [problems |-> Range(c.list), phase |-> "sent", new |-> {}, existing |-> {}]

\* To its clients a call looks as if it were served in one step, the commit of its
\* rows: all its problems are registered at once, and the answer, though some of it
\* is read later and other calls register problems all the time, tells what was
\* registered at that moment.  The page is modelled over such a server.
Service ==
    INSTANCE RegistrationService WITH
        Callers <- Sessions, calls <- [s \in Sessions |-> CallOf(call[s])]
ServiceSpec == Service!Spec

\* Every call ends, with an answer or with an error: neither a wait for a row
\* nor a circle of waits lasts.
EveryCallEnds ==
    \A s \in Sessions : call[s].pc # "idle" ~> call[s].pc = "idle"
=============================================================================
