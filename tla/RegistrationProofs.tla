-------------------------- MODULE RegistrationProofs --------------------------
(***************************************************************************)
(* Proofs about Registration, for any number of sessions and problems.     *)
(*                                                                         *)
(* The properties are not inductive.  CallInv adds what a call knows at    *)
(* each place of its way: every row its INSERT has passed is registered or *)
(* its own, and only problems of the catalog reach the INSERT.  OpenRows   *)
(* is what the unique index guarantees: the rows of open INSERTs are no    *)
(* one else's.                                                             *)
(***************************************************************************)
EXTENDS Registration, CatalogSync, WellFoundedInduction, TLAPS

CallRecord ==
    [pc : Places, list : ProblemLists \cup {<<>>}, next : Nat \ {0},
     inserted : SUBSET Problems, existing : SUBSET Problems]

Passed(c) == {c.list[k] : k \in 1 .. (c.next - 1)}

CallInv(c, reg, cat) ==
    /\ 1 .. (c.next - 1) \subseteq DOMAIN c.list
    /\ c.inserted \subseteq Passed(c)
    /\ c.existing \subseteq Range(c.list)
    /\ c.pc \in {"started", "ensuring"} => c.next = 1
    /\ c.pc = "inserting" => Passed(c) \subseteq reg \cup c.inserted
    /\ c.pc \in {"inserting", "created"} => Range(c.list) \subseteq cat
    /\ c.pc \in {"created", "answered"} => Range(c.list) \subseteq reg
    /\ c.pc = "answered" =>
            /\ c.inserted \cup c.existing = Range(c.list)
            /\ c.inserted \cap c.existing = {}

OpenRows ==
    \A s \in Sessions : call[s].pc = "inserting" =>
        /\ call[s].inserted \cap registered = {}
        /\ \A t \in Sessions \ {s} : call[t].pc = "inserting" =>
                call[s].inserted \cap call[t].inserted = {}

RegistrationInv ==
    /\ catalog \subseteq Problems
    /\ registered \subseteq catalog
    /\ call \in [Sessions -> CallRecord]
    /\ \A s \in Sessions : CallInv(call[s], registered, catalog)
    /\ OpenRows

-----------------------------------------------------------------------------
\* A list of problems is a sequence of problems.
LEMMA ListShape ==
    ASSUME NEW list \in ProblemLists \cup {<<>>}
    PROVE  /\ \E n \in Nat : DOMAIN list = 1 .. n
           /\ Range(list) \subseteq Problems
  <1>1. CASE list = <<>>
    BY <1>1 DEF Range
  <1>2. CASE list \in ProblemLists
    BY <1>2, RegistrationAssumption DEF ProblemLists, Injection, Range
  <1> QED
    BY <1>1, <1>2

\* The list with one problem that a URL makes.
LEMMA SingleList ==
    ASSUME NEW p \in Problems PROVE <<p>> \in ProblemLists
  <1>1. <<p>> \in Injection(1 .. 1, Problems)
    BY DEF Injection, IsInjective
  <1>2. \E n \in 1 .. MaxProblems : <<p>> \in Injection(1 .. n, Problems)
    <2>1. 1 \in 1 .. MaxProblems
      BY RegistrationAssumption
    <2> QED
      BY <1>1, <2>1
  <1> QED
    BY <1>2, Zenon DEF ProblemLists

\* Both tables only grow, which no call minds.
LEMMA CallInvMonotone ==
    ASSUME NEW c, NEW reg, NEW cat, NEW reg2, NEW cat2, CallInv(c, reg, cat),
           reg \subseteq reg2, cat \subseteq cat2
    PROVE  CallInv(c, reg2, cat2)
  BY DEF CallInv

\* What a step of one call has to show.
LEMMA OneCall ==
    ASSUME RegistrationInv, NEW s \in Sessions, NEW c \in CallRecord,
           call' = [call EXCEPT ![s] = c],
           registered \subseteq registered', catalog \subseteq catalog',
           registered' \subseteq catalog', catalog' \subseteq Problems,
           CallInv(c, registered', catalog'), OpenRows'
    PROVE  RegistrationInv'
  <1>1. call' \in [Sessions -> CallRecord]
    BY DEF RegistrationInv
  <1>2. ASSUME NEW t \in Sessions PROVE CallInv(call'[t], registered', catalog')
    <2>1. CASE t = s
      BY <2>1 DEF RegistrationInv
    <2>2. CASE t # s
      BY <2>2, CallInvMonotone DEF RegistrationInv
    <2> QED
      BY <2>1, <2>2
  <1> QED
    BY <1>1, <1>2 DEF RegistrationInv

\* A call that is not inserting has no open rows.
LEMMA NoOpenRows ==
    ASSUME RegistrationInv, NEW s \in Sessions, NEW c \in CallRecord,
           call' = [call EXCEPT ![s] = c], UNCHANGED registered,
           c.pc # "inserting" \/ c.inserted = {}
    PROVE  OpenRows'
  BY DEF RegistrationInv, OpenRows

LEMMA IdleRecord == Idle \in CallRecord /\ CallInv(Idle, registered, catalog)
  BY DEF Idle, CallRecord, CallInv, Passed, Range, Places

-----------------------------------------------------------------------------
(* One lemma for each kind of step. *)

LEMMA EndKeeps ==
    ASSUME RegistrationInv, NEW s \in Sessions,
           Reply(s) \/ Abort(s) \/ BreakDeadlock(s)
    PROVE  RegistrationInv'
  <1>1. call' = [call EXCEPT ![s] = Idle] /\ UNCHANGED <<catalog, registered>>
    BY DEF Reply, Abort, BreakDeadlock
  <1>2. OpenRows'
    BY <1>1, IdleRecord, NoOpenRows DEF Idle
  <1> QED
    BY <1>1, <1>2, IdleRecord, OneCall DEF RegistrationInv

LEMMA StartKeeps ==
    ASSUME RegistrationInv, NEW s \in Sessions, NEW list \in ProblemLists,
           NEW pc \in {"started", "ensuring"},
           call' = [call EXCEPT ![s] = [Idle EXCEPT !.pc = pc, !.list = list]],
           UNCHANGED <<catalog, registered>>
    PROVE  RegistrationInv'
  <1> DEFINE c == [Idle EXCEPT !.pc = pc, !.list = list]
  <1>1. c \in CallRecord
    BY IdleRecord DEF CallRecord, Places
  <1>0. /\ c.pc = pc /\ c.list = list /\ c.next = 1
        /\ c.inserted = {} /\ c.existing = {}
    BY IdleRecord DEF CallRecord, Idle
  <1> HIDE DEF c
  <1>2. CallInv(c, registered, catalog)
    BY <1>0 DEF CallInv, Passed
  <1>3. call' = [call EXCEPT ![s] = c]
    BY DEF c
  <1>4. OpenRows'
    BY <1>0, <1>1, <1>3, NoOpenRows
  <1> QED
    BY <1>1, <1>2, <1>3, <1>4, OneCall DEF RegistrationInv

\* Unknown problems stop a call, and the problem of a URL is added, before the
\* INSERT begins with no row.
LEMMA LookUpKeeps ==
    ASSUME RegistrationInv, NEW s \in Sessions, FindProblems(s) \/ EnsureProblem(s)
    PROVE  RegistrationInv'
  <1>1. PICK pc \in {"inserting", "unknownProblem"} :
            /\ call' = [call EXCEPT ![s].pc = pc]
            /\ pc = "inserting" => Range(call[s].list) \subseteq catalog'
    BY DEF FindProblems, EnsureProblem, Wanted
  <1> DEFINE c == [call[s] EXCEPT !.pc = pc]
  <1>2. /\ call[s] \in CallRecord
        /\ CallInv(call[s], registered, catalog)
        /\ call[s].pc \in {"started", "ensuring"}
    BY DEF RegistrationInv, FindProblems, EnsureProblem
  <1>3. c \in CallRecord /\ call' = [call EXCEPT ![s] = c]
    BY <1>1, <1>2 DEF CallRecord, Places
  <1>4. /\ UNCHANGED registered
        /\ catalog \subseteq catalog'
        /\ catalog' \subseteq Problems
    BY <1>2, ListShape DEF RegistrationInv, FindProblems, EnsureProblem, Wanted, CallRecord
  <1>5. c.inserted = {} /\ Passed(c) = {}
    BY <1>2 DEF CallInv, Passed, CallRecord
  <1>6. CallInv(c, registered', catalog')
    BY <1>1, <1>2, <1>4, <1>5 DEF CallInv, CallRecord
  <1>7. OpenRows'
    BY <1>3, <1>4, <1>5, NoOpenRows
  <1> QED
    BY <1>3, <1>4, <1>6, <1>7, OneCall DEF RegistrationInv

LEMMA SkipRowKeeps ==
    ASSUME RegistrationInv, NEW s \in Sessions, SkipRow(s)
    PROVE  RegistrationInv'
  <1> DEFINE c == [call[s] EXCEPT !.next = @ + 1]
  <1>1. call[s] \in CallRecord /\ CallInv(call[s], registered, catalog)
    BY DEF RegistrationInv
  <1>2. /\ call' = [call EXCEPT ![s] = c]
        /\ UNCHANGED <<catalog, registered>>
        /\ call[s].pc = "inserting"
        /\ call[s].next \in DOMAIN call[s].list
        /\ call[s].list[call[s].next] \in registered
    BY DEF SkipRow, CurrentRow
  <1>3. c \in CallRecord
    BY <1>1 DEF CallRecord
  <1>4. /\ 1 .. (c.next - 1) \subseteq DOMAIN c.list
        /\ Passed(c) = Passed(call[s]) \cup {call[s].list[call[s].next]}
    BY <1>1, <1>2 DEF CallRecord, CallInv, Passed
  <1>5. CallInv(c, registered, catalog)
    BY <1>1, <1>2, <1>4 DEF CallInv, CallRecord
  <1>6. OpenRows'
    BY <1>1, <1>2 DEF RegistrationInv, OpenRows, CallRecord
  <1> QED
    BY <1>2, <1>3, <1>5, <1>6, OneCall DEF RegistrationInv

\* The unique index keeps the rows of open INSERTs apart.
LEMMA InsertRowKeeps ==
    ASSUME RegistrationInv, NEW s \in Sessions, InsertRow(s)
    PROVE  RegistrationInv'
  <1>1. call[s] \in CallRecord /\ CallInv(call[s], registered, catalog)
    BY DEF RegistrationInv
  <1>2. /\ UNCHANGED <<catalog, registered>>
        /\ call[s].pc = "inserting"
        /\ call[s].next \in DOMAIN call[s].list
    BY DEF InsertRow, CurrentRow
  <1> DEFINE p == call[s].list[call[s].next]
             c == [call[s] EXCEPT !.next = @ + 1, !.inserted = @ \cup {p}]
  <1>3. p \notin registered /\ call' = [call EXCEPT ![s] = c]
    BY DEF InsertRow, CurrentRow
  <1>4. p \in Problems
    BY <1>1, <1>2, ListShape DEF Range, CallRecord
  <1>5. c \in CallRecord
    <2>1. call[s].inserted \cup {p} \in SUBSET Problems
      BY <1>1, <1>4 DEF CallRecord
    <2>2. call[s].next + 1 \in Nat \ {0}
      BY <1>1 DEF CallRecord
    <2> HIDE DEF p
    <2> QED
      BY <1>1, <2>1, <2>2 DEF CallRecord
  <1>6. /\ 1 .. (c.next - 1) \subseteq DOMAIN c.list
        /\ Passed(c) = Passed(call[s]) \cup {p}
    BY <1>1, <1>2 DEF CallRecord, CallInv, Passed
  <1>7. CallInv(c, registered, catalog)
    BY <1>1, <1>2, <1>6 DEF CallInv, CallRecord
  <1>8. ASSUME NEW t \in Sessions \ {s}, call[t].pc = "inserting"
        PROVE  p \notin call[t].inserted
    BY <1>2, <1>3, <1>8 DEF InsertRow, WaitsFor, Holds, CurrentRow
  <1>9. OpenRows'
    BY <1>1, <1>2, <1>3, <1>8 DEF RegistrationInv, OpenRows, CallRecord
  <1> QED
    BY <1>2, <1>3, <1>5, <1>7, <1>9, OneCall DEF RegistrationInv

\* When the list is used up, all of it is registered.
LEMMA CommitRowsKeeps ==
    ASSUME RegistrationInv, NEW s \in Sessions, CommitRows(s)
    PROVE  RegistrationInv'
  <1> DEFINE c == [call[s] EXCEPT !.pc = "created"]
  <1>1. call[s] \in CallRecord /\ CallInv(call[s], registered, catalog)
    BY DEF RegistrationInv
  <1>2. /\ call' = [call EXCEPT ![s] = c]
        /\ UNCHANGED catalog
        /\ registered' = registered \cup call[s].inserted
        /\ call[s].pc = "inserting"
        /\ call[s].next \notin DOMAIN call[s].list
    BY DEF CommitRows, CurrentRow
  <1>3. c \in CallRecord
    BY <1>1 DEF CallRecord, Places
  <1>4. Passed(call[s]) = Range(call[s].list)
    <2>1. PICK n \in Nat : DOMAIN call[s].list = 1 .. n
      BY <1>1, ListShape DEF CallRecord
    <2>2. call[s].next \in Nat \ {0} /\ 1 .. (call[s].next - 1) \subseteq 1 .. n
      BY <1>1, <2>1 DEF CallInv, CallRecord
    <2>3. call[s].next \notin 1 .. n
      BY <1>2, <2>1
    <2>4. call[s].next = n + 1
      <3>1. call[s].next - 1 \in 1 .. (call[s].next - 1) \/ call[s].next = 1
        BY <2>2
      <3> QED
        BY <2>2, <2>3, <3>1
    <2> QED
      BY <2>1, <2>4 DEF Passed, Range
  <1>5. CallInv(c, registered', catalog)
    BY <1>1, <1>2, <1>4 DEF CallInv, CallRecord, Passed
  <1>6. registered' \subseteq catalog
    BY <1>1, <1>2, <1>4 DEF RegistrationInv, CallInv
  <1>7. OpenRows'
    BY <1>1, <1>2 DEF RegistrationInv, OpenRows, CallRecord
  <1> QED
    BY <1>2, <1>3, <1>5, <1>6, <1>7, OneCall DEF RegistrationInv

\* The later SELECT finds the rest of the list.
LEMMA FindExistingKeeps ==
    ASSUME RegistrationInv, NEW s \in Sessions, FindExisting(s)
    PROVE  RegistrationInv'
  <1> DEFINE existing == (Range(call[s].list) \ call[s].inserted) \cap registered
             c == [call[s] EXCEPT !.pc = "answered", !.existing = existing]
  <1>1. call[s] \in CallRecord /\ CallInv(call[s], registered, catalog)
    BY DEF RegistrationInv
  <1>2. /\ call' = [call EXCEPT ![s] = c]
        /\ UNCHANGED <<catalog, registered>>
        /\ call[s].pc = "created"
    BY DEF FindExisting, FindReviewItems, Wanted
  <1>3. existing \subseteq Problems
    BY <1>1, ListShape DEF CallRecord
  <1>4. c \in CallRecord
    BY <1>1, <1>3 DEF CallRecord, Places
  <1>5. Passed(call[s]) \subseteq Range(call[s].list)
    BY <1>1 DEF CallInv, Passed, Range
  <1>6. Passed(c) = Passed(call[s])
    BY <1>1 DEF Passed, CallRecord
  <1>7. CallInv(c, registered, catalog)
    BY <1>1, <1>2, <1>5, <1>6 DEF CallInv, CallRecord
  <1>8. c.pc = "answered"
    BY <1>1 DEF CallRecord
  <1> HIDE DEF c
  <1>9. OpenRows'
    BY <1>2, <1>4, <1>8, NoOpenRows
  <1> QED
    BY <1>2, <1>4, <1>7, <1>9, OneCall DEF RegistrationInv

LEMMA SyncCatalogKeeps ==
    ASSUME RegistrationInv, SyncCatalog
    PROVE  RegistrationInv'
  <1>1. /\ catalog \subseteq catalog' /\ catalog' \subseteq Problems
        /\ UNCHANGED <<registered, call>>
    BY DEF SyncCatalog, RegistrationInv
  <1>2. \A s \in Sessions : CallInv(call[s], registered, catalog')
    BY <1>1, CallInvMonotone DEF RegistrationInv
  <1> QED
    BY <1>1, <1>2 DEF RegistrationInv, OpenRows

LEMMA InitEstablishes == Init => RegistrationInv
  BY IdleRecord DEF Init, RegistrationInv, OpenRows, Idle, CallInv

\* RegistrationInv is inductive.
LEMMA NextKeeps == RegistrationInv /\ [Next]_vars => RegistrationInv'
  <1> SUFFICES ASSUME RegistrationInv, [Next]_vars PROVE RegistrationInv'
    OBVIOUS
  <1>1. CASE UNCHANGED vars
    BY <1>1 DEF vars, RegistrationInv, OpenRows
  <1>2. CASE SyncCatalog
    BY <1>2, SyncCatalogKeeps
  <1>3. ASSUME NEW s \in Sessions, NEW list \in ProblemLists,
               StartRegisterProblems(s, list)
        PROVE  RegistrationInv'
    BY <1>3, StartKeeps DEF StartRegisterProblems
  <1>4. ASSUME NEW s \in Sessions, NEW p \in Problems,
               StartRegisterProblemByURL(s, p)
        PROVE  RegistrationInv'
    BY <1>4, StartKeeps, SingleList DEF StartRegisterProblemByURL
  <1>5. ASSUME NEW s \in Sessions, Serve(s) \/ BreakDeadlock(s) \/ Abort(s)
        PROVE  RegistrationInv'
    <2>1. CASE FindProblems(s) \/ EnsureProblem(s)
      BY <2>1, LookUpKeeps
    <2>2. CASE SkipRow(s)
      BY <2>2, SkipRowKeeps
    <2>3. CASE InsertRow(s)
      BY <2>3, InsertRowKeeps
    <2>4. CASE CommitRows(s)
      BY <2>4, CommitRowsKeeps
    <2>5. CASE FindExisting(s)
      BY <2>5, FindExistingKeeps
    <2>6. CASE Reply(s) \/ Abort(s) \/ BreakDeadlock(s)
      BY <2>6, EndKeeps
    <2> QED
      BY <1>5, <2>1, <2>2, <2>3, <2>4, <2>5, <2>6 DEF Serve, TakeRow
  <1> QED
    BY <1>1, <1>2, <1>3, <1>4, <1>5 DEF Next

LEMMA RegistrationInvariance == Spec => []RegistrationInv
  BY InitEstablishes, NextKeeps, PTL DEF Spec

-----------------------------------------------------------------------------
\* In every reachable state the variables have their types, and what a call has
\* inserted or read is among the problems it was asked for.
THEOREM TypeCorrect == Spec => []TypeOK
  <1>1. RegistrationInv => TypeOK
    BY DEF RegistrationInv, CallInv, CallRecord, Passed, TypeOK, Wanted
  <1> QED
    BY <1>1, RegistrationInvariance, PTL

\* Whatever other calls register meanwhile, the answer of RegisterProblems
\* splits the list into new and existing items and leaves no problem out.
THEOREM AnswersPartition == Spec => []AnswerPartitions
  <1>1. RegistrationInv => AnswerPartitions
    BY DEF RegistrationInv, CallInv, AnswerPartitions, Wanted
  <1> QED
    BY <1>1, RegistrationInvariance, PTL

\* No list of items fails for want of a problem in the catalog.
THEOREM ItemsAlwaysHaveProblems == Spec => []ItemsHaveProblems
  <1>1. RegistrationInv => ItemsHaveProblems
    BY DEF RegistrationInv, ItemsHaveProblems
  <1> QED
    BY <1>1, RegistrationInvariance, PTL

\* The unique index lets one call register a problem, ever.
THEOREM ProblemsRegisteredOnce == Spec => RegisteredOnce
  <1>1. ASSUME RegistrationInv, [Next]_vars, NEW s \in Sessions,
               call[s].pc = "inserting", call'[s].pc = "created"
        PROVE  call'[s].inserted \cap registered = {}
    <2>1. call'[s].inserted = call[s].inserted
      <3>1. PICK t \in Sessions :
              \/ \E list \in ProblemLists : StartRegisterProblems(t, list)
              \/ \E p \in Problems : StartRegisterProblemByURL(t, p)
              \/ Serve(t) \/ BreakDeadlock(t) \/ Abort(t)
        BY <1>1 DEF Next, vars, SyncCatalog
      <3>2. CASE t # s
        BY <1>1, <3>1, <3>2 DEF RegistrationInv, CallRecord, StartRegisterProblems,
           StartRegisterProblemByURL, Serve, BreakDeadlock, Abort, FindProblems,
           EnsureProblem, TakeRow, SkipRow, InsertRow, CommitRows, FindExisting, Reply
      <3>3. CASE t = s
        <4>1. CASE CommitRows(s)
          BY <1>1, <4>1 DEF RegistrationInv, CallRecord, CommitRows
        <4>2. CASE SkipRow(s) \/ InsertRow(s)
          BY <1>1, <4>2 DEF RegistrationInv, CallRecord, SkipRow, InsertRow
        <4>3. CASE BreakDeadlock(s) \/ Abort(s)
          BY <1>1, <4>3 DEF RegistrationInv, CallRecord, BreakDeadlock, Abort, Idle
        <4> QED
          BY <1>1, <3>1, <3>3, <4>1, <4>2, <4>3 DEF StartRegisterProblems,
             StartRegisterProblemByURL, Serve, FindProblems, EnsureProblem, TakeRow,
             FindExisting, Reply
      <3> QED
        BY <3>2, <3>3
    <2> QED
      BY <1>1, <2>1 DEF RegistrationInv, OpenRows
  <1>2. RegistrationInv /\ [Next]_vars =>
            [\A s \in Sessions :
                call[s].pc = "inserting" /\ call'[s].pc = "created" =>
                    call'[s].inserted \cap registered = {}]_vars
    BY <1>1
  <1> QED
    BY <1>2, RegistrationInvariance, PTL DEF Spec, RegisteredOnce

-----------------------------------------------------------------------------
(* Lists in one order never deadlock. *)

\* Nat has the least elements its order promises.
LEMMA LeastNat ==
    ASSUME NEW T, T \subseteq Nat, T # {}
    PROVE  \E x \in T : \A y \in T : x <= y
  <1>1. PICK x \in T : \A y \in T : ~(<<y, x>> \in OpToRel(<, Nat))
    BY NatLessThanWellFounded, WFMin
  <1>2. ASSUME NEW y \in T PROVE x <= y
    <2>1. ~(y < x)
      BY <1>1 DEF OpToRel
    <2> QED
      BY <2>1
  <1> QED
    BY <1>2

\* The row a call waits for comes later in every order its list follows than
\* the rows it holds.
LEMMA WaitsUpwards ==
    ASSUME RegistrationInv, NEW rank \in [Problems -> Nat],
           NEW a \in Sessions, NEW b \in Sessions, NEW d \in Sessions,
           WaitsFor(a, b), WaitsFor(b, d), Agrees(b, rank)
    PROVE  /\ call[a].list[call[a].next] \in Problems
           /\ call[b].list[call[b].next] \in Problems
           /\ rank[call[a].list[call[a].next]] < rank[call[b].list[call[b].next]]
  <1> DEFINE p == call[a].list[call[a].next]
             q == call[b].list[call[b].next]
  <1>1. /\ call[a].next \in DOMAIN call[a].list
        /\ call[b].next \in DOMAIN call[b].list
        /\ call[b].pc = "inserting"
        /\ p \in call[b].inserted
    BY DEF WaitsFor, CurrentRow, Holds
  <1>2. /\ call[a] \in CallRecord /\ call[b] \in CallRecord
        /\ CallInv(call[b], registered, catalog)
    BY DEF RegistrationInv
  <1>3. p \in Problems /\ q \in Problems
    BY <1>1, <1>2, ListShape DEF CallRecord, Range
  <1>4. PICK j \in 1 .. (call[b].next - 1) : p = call[b].list[j]
    BY <1>1, <1>2 DEF CallInv, Passed
  <1>5. j \in DOMAIN call[b].list /\ j < call[b].next
    BY <1>2, <1>4 DEF CallInv, CallRecord
  <1>6. rank[p] < rank[q]
    BY <1>1, <1>4, <1>5 DEF Agrees
  <1> QED
    BY <1>3, <1>6

\* Calls whose lists follow one order of the problems never wait in a circle:
\* the call in the circle that waits for the least problem is itself waited
\* for, by a call that waits for a lesser one.
THEOREM OrderedListsNeverDeadlock == Spec => []SameOrderNeverDeadlocks
  <1>1. ASSUME RegistrationInv,
               NEW rank \in [Problems -> Nat], \A s \in Sessions : Agrees(s, rank),
               NEW S \in SUBSET Sessions, S # {},
               \A a \in S : /\ \E b \in S : WaitsFor(a, b)
                           /\ \E b \in S : WaitsFor(b, a)
        PROVE  FALSE
    <2> DEFINE height(a) == rank[call[a].list[call[a].next]]
               T == {height(a) : a \in S}
    <2>1. ASSUME NEW a \in S, NEW b \in S, WaitsFor(a, b)
          PROVE  height(a) \in Nat /\ height(a) < height(b)
      <3>1. PICK d \in S : WaitsFor(b, d)
        BY <1>1
      <3> QED
        BY <1>1, <2>1, <3>1, WaitsUpwards
    <2> HIDE DEF height
    <2>2. T \subseteq Nat /\ T # {}
      BY <1>1, <2>1
    <2>3. PICK a \in S : \A b \in S : height(a) <= height(b)
      <3>1. \E x \in T : \A y \in T : x <= y
        <4> HIDE DEF T
        <4> QED
          BY <2>2, LeastNat
      <3> QED
        BY <3>1
    <2>4. PICK b \in S : WaitsFor(b, a)
      BY <1>1
    <2> QED
      BY <1>1, <2>1, <2>3, <2>4
  <1>2. RegistrationInv => SameOrderNeverDeadlocks
    <2> SUFFICES ASSUME RegistrationInv,
                        NEW rank \in [Problems -> 1 .. Cardinality(Problems)],
                        \A s \in Sessions : Agrees(s, rank),
                        NEW S \in SUBSET Sessions, NEW s \in S, InCircle(s)
                 PROVE  FALSE
      BY DEF SameOrderNeverDeadlocks
    <2>1. rank \in [Problems -> Nat]
      OBVIOUS
    <2>2. PICK C \in SUBSET Sessions :
            /\ s \in C
            /\ \A a \in C : /\ \E b \in C : WaitsFor(a, b)
                           /\ \E b \in C : WaitsFor(b, a)
      BY DEF InCircle
    <2> QED
      BY <1>1, <2>1, <2>2
  <1> QED
    BY <1>2, RegistrationInvariance, PTL

-----------------------------------------------------------------------------
(* Refinement: the calls implement RegistrationService, the commit of the    *)
(* rows being the step that serves a call.                                   *)

ServiceCalls == [s \in Sessions |-> CallOf(call[s])]

SentCall(problems) ==
    [problems |-> problems, phase |-> "sent", new |-> {}, existing |-> {}]
ServedCall(problems, new, existing) ==
    [problems |-> problems, phase |-> "served", new |-> new, existing |-> existing]
Served(c, new, existing) ==
    [c EXCEPT !.phase = "served", !.new = new, !.existing = existing]

LEMMA ServedAfterSent ==
    ASSUME NEW problems, NEW new, NEW existing
    PROVE  Served(SentCall(problems), new, existing)
              = ServedCall(problems, new, existing)
  <1>1. [SentCall(problems) EXCEPT !.phase = "served"] = ServedCall(problems, {}, {})
    BY DEF SentCall, ServedCall
  <1>2. [ServedCall(problems, {}, {}) EXCEPT !.new = new] = ServedCall(problems, new, {})
    BY DEF ServedCall
  <1>3. [ServedCall(problems, new, {}) EXCEPT !.existing = existing]
            = ServedCall(problems, new, existing)
    BY DEF ServedCall
  <1> QED
    BY <1>1, <1>2, <1>3 DEF Served

\* What a session's place makes of its call.
LEMMA CallOfPlaces ==
    ASSUME NEW c
    PROVE  /\ c.pc \in {"idle", "unknownProblem"} => CallOf(c) = Service!NoCall
           /\ c.pc \in {"started", "ensuring", "inserting"} =>
                    CallOf(c) = SentCall(Range(c.list))
           /\ c.pc = "created" =>
                    CallOf(c) = ServedCall(Range(c.list), c.inserted,
                                           Range(c.list) \ c.inserted)
           /\ c.pc = "answered" =>
                    CallOf(c) = ServedCall(Range(c.list), c.inserted, c.existing)
  BY DEF CallOf, Service!NoCall, SentCall, ServedCall

LEMMA CallsAfter ==
    ASSUME RegistrationInv, NEW s \in Sessions, NEW c, call' = [call EXCEPT ![s] = c]
    PROVE  ServiceCalls' = [ServiceCalls EXCEPT ![s] = CallOf(c)]
  <1>1. \A t \in Sessions : call'[t] = IF t = s THEN c ELSE call[t]
    BY DEF RegistrationInv
  <1>2. \A t \in Sessions :
            CallOf(call'[t]) = IF t = s THEN CallOf(c) ELSE CallOf(call[t])
    BY <1>1
  <1> QED
    BY <1>2 DEF ServiceCalls

\* A call whose view does not change is not seen to move.
LEMMA ServiceStutters ==
    ASSUME RegistrationInv, NEW s \in Sessions, NEW c,
           call' = [call EXCEPT ![s] = c], CallOf(c) = CallOf(call[s]),
           UNCHANGED registered
    PROVE  UNCHANGED Service!vars
  <1>1. ServiceCalls' = ServiceCalls
    BY CallsAfter DEF ServiceCalls
  <1> QED
    BY <1>1 DEF Service!vars, ServiceCalls

\* An answer arrives or is lost, a call fails: it ends, unless its failure to find
\* a problem in the catalog has ended it before.
LEMMA ServiceEnds ==
    ASSUME RegistrationInv, NEW s \in Sessions, NEW c,
           call' = [call EXCEPT ![s] = c], c.pc \in {"idle", "unknownProblem"},
           UNCHANGED registered
    PROVE  [Service!Next]_(Service!vars)
  <1>1. CallOf(c) = Service!NoCall
    BY CallOfPlaces
  <1>2. CASE CallOf(call[s]) = Service!NoCall
    BY <1>1, <1>2, ServiceStutters
  <1>3. CASE CallOf(call[s]) # Service!NoCall
    <2>1. ServiceCalls[s] # Service!NoCall
      BY <1>3 DEF ServiceCalls
    <2>2. ServiceCalls' = [ServiceCalls EXCEPT ![s] = Service!NoCall]
      BY <1>1, CallsAfter
    <2>3. Service!End(s)
      BY <2>1, <2>2 DEF Service!End, ServiceCalls
    <2> QED
      BY <2>3 DEF Service!Next
  <1> QED
    BY <1>2, <1>3

LEMMA ListAsksForSome ==
    ASSUME NEW list \in ProblemLists
    PROVE  Range(list) \in (SUBSET Problems) \ {{}}
  <1>1. Range(list) \subseteq Problems
    BY ListShape
  <1>2. PICK n \in 1 .. MaxProblems : list \in Injection(1 .. n, Problems)
    BY RegistrationAssumption DEF ProblemLists
  <1>3. list[1] \in Range(list)
    BY <1>2, RegistrationAssumption DEF Injection, Range
  <1> QED
    BY <1>1, <1>3

LEMMA ServiceSends ==
    ASSUME RegistrationInv, NEW s \in Sessions, NEW list \in ProblemLists,
           NEW pc \in {"started", "ensuring"}, call[s].pc = "idle",
           call' = [call EXCEPT ![s] = [Idle EXCEPT !.pc = pc, !.list = list]],
           UNCHANGED registered
    PROVE  Service!Next
  <1> DEFINE c == [Idle EXCEPT !.pc = pc, !.list = list]
  <1>1. c.pc = pc /\ c.list = list
    BY DEF Idle
  <1>2. Range(list) \in (SUBSET Problems) \ {{}}
    BY ListAsksForSome
  <1>3. CallOf(c) = SentCall(Range(list))
    <2> HIDE DEF c
    <2> QED
      BY <1>1, CallOfPlaces
  <1>4. ServiceCalls' = [ServiceCalls EXCEPT ![s] = Service!Call(Range(list))]
    <2>1. ServiceCalls' = [ServiceCalls EXCEPT ![s] = CallOf(c)]
      BY CallsAfter
    <2> QED
      BY <1>3, <2>1 DEF SentCall, Service!Call
  <1>5. ServiceCalls[s] = Service!NoCall
    BY CallOfPlaces DEF ServiceCalls
  <1>6. Service!Send(s)
    BY <1>2, <1>4, <1>5 DEF Service!Send, ServiceCalls
  <1> QED
    BY <1>6 DEF Service!Next

\* The rows that a commit adds are those that nobody had registered, and with those
\* that somebody had they are all that was asked for.
LEMMA CommitIsServe ==
    ASSUME RegistrationInv, RegistrationInv', NEW s \in Sessions, CommitRows(s)
    PROVE  Service!Next
  <1> DEFINE c == [call[s] EXCEPT !.pc = "created"]
             P == Range(call[s].list)
             new == P \ registered
  <1>1. call[s] \in CallRecord /\ CallInv(call[s], registered, catalog)
    BY DEF RegistrationInv
  <1>2. /\ call[s].pc = "inserting" /\ call' = [call EXCEPT ![s] = c]
        /\ registered' = registered \cup call[s].inserted
    BY <1>1 DEF CommitRows, CallRecord
  <1>3. /\ c.pc = "created" /\ c.list = call[s].list /\ c.inserted = call[s].inserted
    BY <1>1 DEF CallRecord
  <1>4. call[s].inserted = new
    <2>1. call[s].inserted \cap registered = {}
      BY <1>2 DEF RegistrationInv, OpenRows
    <2>2. call[s].inserted \subseteq P
      BY <1>1 DEF CallInv, Passed, Range
    <2>3. P \subseteq registered'
      <3>1. CallInv(c, registered', catalog')
        BY <1>2 DEF RegistrationInv
      <3> HIDE DEF c
      <3> QED
        BY <1>3, <3>1 DEF CallInv
    <2> QED
      BY <1>2, <2>1, <2>2, <2>3
  <1>5. registered' = Service!RegisteredAfter(registered, P)
    BY <1>2, <1>4 DEF Service!RegisteredAfter
  <1>6. ServiceCalls[s] = SentCall(P)
    BY <1>2, CallOfPlaces DEF ServiceCalls
  <1>7. ServiceCalls' = [ServiceCalls EXCEPT ![s] =
                            Served(ServiceCalls[s], new, P \cap registered)]
    <2>1. CallOf(c) = ServedCall(P, new, P \ new)
      <3> HIDE DEF c
      <3> QED
        BY <1>3, <1>4, CallOfPlaces
    <2>2. P \ new = P \cap registered
      OBVIOUS
    <2>3. Served(ServiceCalls[s], new, P \cap registered)
            = ServedCall(P, new, P \cap registered)
      BY <1>6, ServedAfterSent
    <2>4. ServiceCalls' = [ServiceCalls EXCEPT ![s] = CallOf(c)]
      BY <1>2, CallsAfter
    <2> QED
      BY <2>1, <2>2, <2>3, <2>4
  <1>8. /\ ServiceCalls[s].phase = "sent" /\ ServiceCalls[s].problems = P
        /\ new = Service!NewlyRegistered(registered, P)
    BY <1>6 DEF SentCall, Service!NewlyRegistered
  <1>9. Service!Serve(s)
    <2> HIDE DEF P, new
    <2> QED
      BY <1>5, <1>7, <1>8 DEF Service!Serve, Served, ServiceCalls
  <1> QED
    BY <1>9 DEF Service!Next

\* What is read afterwards is what the answer says already.
LEMMA FindExistingStutters ==
    ASSUME RegistrationInv, NEW s \in Sessions, FindExisting(s)
    PROVE  UNCHANGED Service!vars
  <1> DEFINE existing == FindReviewItems(s)
             c == [call[s] EXCEPT !.pc = "answered", !.existing = existing]
  <1>1. call[s] \in CallRecord /\ CallInv(call[s], registered, catalog)
    BY DEF RegistrationInv
  <1>2. /\ call[s].pc = "created" /\ UNCHANGED registered
        /\ call' = [call EXCEPT ![s] = c]
    BY <1>1 DEF FindExisting, CallRecord
  <1>3. /\ c.pc = "answered" /\ c.list = call[s].list /\ c.inserted = call[s].inserted
        /\ c.existing = existing
    BY <1>1 DEF CallRecord
  <1>4. existing = Range(call[s].list) \ call[s].inserted
    BY <1>1, <1>2 DEF CallInv, FindReviewItems, Wanted
  <1>5. CallOf(c) = CallOf(call[s])
    <2> HIDE DEF c, existing
    <2> QED
      BY <1>2, <1>3, <1>4, CallOfPlaces
  <1> QED
    BY <1>2, <1>5, ServiceStutters

\* Before the commit a statement shows nothing, except that one which finds a
\* problem missing ends the call.
LEMMA StatementsBeforeCommit ==
    ASSUME RegistrationInv, NEW s \in Sessions,
           FindProblems(s) \/ EnsureProblem(s) \/ TakeRow(s)
    PROVE  [Service!Next]_(Service!vars)
  <1>1. call[s] \in CallRecord /\ UNCHANGED registered
    BY DEF RegistrationInv, FindProblems, EnsureProblem, TakeRow, SkipRow, InsertRow
  <1>2. call[s].pc \in {"started", "ensuring", "inserting"}
    BY DEF FindProblems, EnsureProblem, TakeRow, SkipRow, InsertRow
  <1>3. ASSUME NEW c, call' = [call EXCEPT ![s] = c], c.list = call[s].list,
               c.pc = "inserting"
        PROVE  UNCHANGED Service!vars
    <2>1. CallOf(c) = CallOf(call[s])
      BY <1>2, <1>3, CallOfPlaces
    <2> QED
      BY <1>1, <1>3, <2>1, ServiceStutters
  <1>4. CASE FindProblems(s) \/ EnsureProblem(s)
    <2>1. PICK pc \in {"inserting", "unknownProblem"} : call' = [call EXCEPT ![s].pc = pc]
      BY <1>4 DEF FindProblems, EnsureProblem
    <2> DEFINE c == [call[s] EXCEPT !.pc = pc]
    <2>2. call' = [call EXCEPT ![s] = c] /\ c.list = call[s].list /\ c.pc = pc
      BY <1>1, <2>1 DEF CallRecord
    <2> HIDE DEF c
    <2>3. CASE pc = "inserting"
      BY <1>3, <2>2, <2>3
    <2>4. CASE pc = "unknownProblem"
      BY <1>1, <2>2, <2>4, ServiceEnds
    <2> QED
      BY <2>3, <2>4
  <1>5. CASE SkipRow(s)
    <2> DEFINE c == [call[s] EXCEPT !.next = @ + 1]
    <2>1. call' = [call EXCEPT ![s] = c] /\ c.list = call[s].list /\ c.pc = "inserting"
      BY <1>1, <1>5 DEF SkipRow, CallRecord
    <2> HIDE DEF c
    <2> QED
      BY <1>3, <2>1
  <1>6. CASE InsertRow(s)
    <2>1. PICK p : call' = [call EXCEPT ![s].next = @ + 1, ![s].inserted = @ \cup {p}]
      BY <1>6 DEF InsertRow
    <2> DEFINE c == [call[s] EXCEPT !.next = @ + 1, !.inserted = @ \cup {p}]
    <2>2. call' = [call EXCEPT ![s] = c] /\ c.list = call[s].list /\ c.pc = "inserting"
      BY <1>1, <1>6, <2>1 DEF InsertRow, CallRecord
    <2> HIDE DEF c
    <2> QED
      BY <1>3, <2>2
  <1> QED
    BY <1>4, <1>5, <1>6 DEF TakeRow

LEMMA ServiceStep ==
    RegistrationInv /\ RegistrationInv' /\ [Next]_vars => [Service!Next]_(Service!vars)
  <1> SUFFICES ASSUME RegistrationInv, RegistrationInv', [Next]_vars
               PROVE  [Service!Next]_(Service!vars)
    OBVIOUS
  <1>1. CASE UNCHANGED vars \/ SyncCatalog
    BY <1>1 DEF vars, SyncCatalog, Service!vars
  <1>2. ASSUME NEW s \in Sessions, NEW list \in ProblemLists,
               StartRegisterProblems(s, list)
        PROVE  Service!Next
    BY <1>2, ServiceSends DEF StartRegisterProblems
  <1>3. ASSUME NEW s \in Sessions, NEW p \in Problems,
               StartRegisterProblemByURL(s, p)
        PROVE  Service!Next
    BY <1>3, ServiceSends, SingleList DEF StartRegisterProblemByURL
  <1>4. ASSUME NEW s \in Sessions, Reply(s) \/ Abort(s) \/ BreakDeadlock(s)
        PROVE  [Service!Next]_(Service!vars)
    <2>1. call' = [call EXCEPT ![s] = Idle] /\ UNCHANGED registered
      BY <1>4 DEF Reply, Abort, BreakDeadlock
    <2>2. Idle.pc = "idle"
      BY DEF Idle
    <2> QED
      BY <2>1, <2>2, ServiceEnds
  <1> QED
    BY <1>1, <1>2, <1>3, <1>4, CommitIsServe, FindExistingStutters,
       StatementsBeforeCommit
    DEF Next, Serve

\* The calls look to their clients as if each were served in one step: whatever
\* they overlap with, all problems of a call are registered at once, and its answer
\* tells which of them were registered before.
THEOREM RegistrationImplementsService == Spec => ServiceSpec
  <1>1. Init => Service!Init
    <2>1. CallOf(Idle) = Service!NoCall
      BY CallOfPlaces DEF Idle
    <2> QED
      BY <2>1 DEF Init, Service!Init
  <1> QED
    BY <1>1, ServiceStep, RegistrationInvariance, PTL
    DEF Spec, ServiceSpec, Service!Spec

-----------------------------------------------------------------------------
(* The catalog's tables (CatalogSync). *)

LEMMA FirstsDiffer ==
    ASSUME NEW ks, ks \subseteq Nat, NEW key,
           NEW j \in FirstOf(ks, key), NEW k \in FirstOf(ks, key), key[j] = key[k]
    PROVE  j = k
BY DEF FirstOf

LEMMA FilesRead ==
    ASSUME NEW files \in Files
    PROVE  /\ DOMAIN files.contests \subseteq Nat
           /\ DOMAIN files.problems \subseteq Nat
           /\ DOMAIN files.pairs \subseteq Nat
           /\ \A k \in DOMAIN files.contests : files.contests[k] \in ContestRows
           /\ \A k \in DOMAIN files.problems : files.problems[k] \in ProblemRows
           /\ \A k \in DOMAIN files.pairs : files.pairs[k] \in PairRows
<1>1. /\ files.contests \in Seq(ContestRows) /\ files.problems \in Seq(ProblemRows)
      /\ files.pairs \in Seq(PairRows)
  BY DEF Files
<1> QED  BY <1>1

\* What a snapshot brings: rows that are taken, none with the key of another one.
LEMMA NewRows ==
    ASSUME NEW files \in Files
    PROVE  /\ NewContests(files.contests) \subseteq ContestRows
           /\ NewProblems(files.problems) \subseteq ProblemRows
           /\ NewPairs(files) \subseteq PairRows
           /\ \A r \in NewContests(files.contests) : ContestTaken(r)
           /\ \A r \in NewProblems(files.problems) : ProblemTaken(r)
           /\ \A r, s \in NewContests(files.contests) : r.id = s.id => r = s
           /\ \A r, s \in NewProblems(files.problems) : r.id = s.id => r = s
           /\ \A r, s \in NewPairs(files) : PairKey(r) = PairKey(s) => r = s
           /\ \A r \in NewPairs(files) :
                /\ r.contest \in IdsOf(NewContests(files.contests))
                /\ r.problem \in IdsOf(NewProblems(files.problems))
<1>1. /\ NewContests(files.contests) \subseteq ContestRows
      /\ NewProblems(files.problems) \subseteq ProblemRows
      /\ NewPairs(files) \subseteq PairRows
  BY FilesRead DEF NewContests, NewProblems, NewPairs, FirstOf
<1>2. \A r \in NewContests(files.contests) : ContestTaken(r)
  BY DEF NewContests, FirstOf
<1>3. \A r \in NewProblems(files.problems) : ProblemTaken(r)
  BY DEF NewProblems, FirstOf
<1>4. \A r, s \in NewContests(files.contests) : r.id = s.id => r = s
  <2> DEFINE ks == {k \in DOMAIN files.contests : ContestTaken(files.contests[k])}
             key == [k \in DOMAIN files.contests |-> files.contests[k].id]
  <2> TAKE r, s \in NewContests(files.contests)
  <2> HAVE r.id = s.id
  <2>1. PICK j \in FirstOf(ks, key) : r = files.contests[j]
    BY DEF NewContests
  <2>2. PICK k \in FirstOf(ks, key) : s = files.contests[k]
    BY DEF NewContests
  <2>3. ks \subseteq Nat /\ j \in ks /\ k \in ks
    BY FilesRead DEF FirstOf
  <2>4. key[j] = key[k]
    BY <2>1, <2>2, <2>3
  <2> QED  BY <2>1, <2>2, <2>3, <2>4, FirstsDiffer
<1>5. \A r, s \in NewProblems(files.problems) : r.id = s.id => r = s
  <2> DEFINE ks == {k \in DOMAIN files.problems : ProblemTaken(files.problems[k])}
             key == [k \in DOMAIN files.problems |-> files.problems[k].id]
  <2> TAKE r, s \in NewProblems(files.problems)
  <2> HAVE r.id = s.id
  <2>1. PICK j \in FirstOf(ks, key) : r = files.problems[j]
    BY DEF NewProblems
  <2>2. PICK k \in FirstOf(ks, key) : s = files.problems[k]
    BY DEF NewProblems
  <2>3. ks \subseteq Nat /\ j \in ks /\ k \in ks
    BY FilesRead DEF FirstOf
  <2>4. key[j] = key[k]
    BY <2>1, <2>2, <2>3
  <2> QED  BY <2>1, <2>2, <2>3, <2>4, FirstsDiffer
<1>6. \A r, s \in NewPairs(files) : PairKey(r) = PairKey(s) => r = s
  <2> DEFINE ks == {k \in DOMAIN files.pairs : PairTaken(files.pairs[k])}
             key == [k \in DOMAIN files.pairs |-> PairKey(files.pairs[k])]
  <2> TAKE r, s \in NewPairs(files)
  <2> HAVE PairKey(r) = PairKey(s)
  <2>1. PICK j \in FirstOf(ks, key) : r = files.pairs[j]
    BY DEF NewPairs
  <2>2. PICK k \in FirstOf(ks, key) : s = files.pairs[k]
    BY DEF NewPairs
  <2>3. ks \subseteq Nat /\ j \in ks /\ k \in ks
    BY FilesRead DEF FirstOf
  <2>4. key[j] = key[k]
    BY <2>1, <2>2, <2>3
  <2> QED  BY <2>1, <2>2, <2>3, <2>4, FirstsDiffer
<1>7. \A r \in NewPairs(files) :
        /\ r.contest \in IdsOf(NewContests(files.contests))
        /\ r.problem \in IdsOf(NewProblems(files.problems))
  BY DEF NewPairs
<1> QED  BY <1>1, <1>2, <1>3, <1>4, <1>5, <1>6, <1>7

LEMMA SyncedTables ==
    ASSUME NEW tables \in Tables, NEW files \in Files
    PROVE  LET contests == NewContests(files.contests)
               problems == NewProblems(files.problems)
               next == SyncedCatalog(tables, files)
           IN  /\ next \in Tables
               /\ contests = {} \/ problems = {} => next = tables
               /\ contests # {} /\ problems # {} =>
                    /\ next.contests = Upserted(tables.contests, contests)
                    /\ next.problems = Upserted(tables.problems, problems)
                    /\ next.pairs = UpsertedPairs(tables.pairs, NewPairs(files))
<1>1. /\ NewContests(files.contests) \subseteq ContestRows
      /\ NewProblems(files.problems) \subseteq ProblemRows
      /\ NewPairs(files) \subseteq PairRows
  BY NewRows
<1>2. /\ tables.contests \subseteq ContestRows /\ tables.problems \subseteq ProblemRows
      /\ tables.pairs \subseteq PairRows
  BY DEF Tables
<1>3. /\ Upserted(tables.contests, NewContests(files.contests)) \subseteq ContestRows
      /\ Upserted(tables.problems, NewProblems(files.problems)) \subseteq ProblemRows
      /\ UpsertedPairs(tables.pairs, NewPairs(files)) \subseteq PairRows
  BY <1>1, <1>2 DEF Upserted, UpsertedPairs
<1> QED  BY <1>3 DEF SyncedCatalog, Tables

\* No statement of a sync or of EnsureProblem can fail on a key - also the upserts never
\* meet one row twice - and none leaves a row behind that would not be read back, however
\* malformed, doubled or dangling the rows of the files are.
THEOREM CatalogStaysSound ==
    ASSUME NEW tables \in Tables, NEW files \in Files, NEW ref \in Refs,
           KeysHold(tables), RowsAreRead(tables)
    PROVE  /\ KeysHold(SyncedCatalog(tables, files))
           /\ RowsAreRead(SyncedCatalog(tables, files))
           /\ KeysHold(InsertProblemIfNotExists(tables, ref))
           /\ RowsAreRead(InsertProblemIfNotExists(tables, ref))
<1>1. KeysHold(SyncedCatalog(tables, files)) /\ RowsAreRead(SyncedCatalog(tables, files))
  <2>1. CASE NewContests(files.contests) = {} \/ NewProblems(files.problems) = {}
    BY <2>1, SyncedTables
  <2>2. CASE ~(NewContests(files.contests) = {} \/ NewProblems(files.problems) = {})
    <3> DEFINE next == SyncedCatalog(tables, files)
    <3>1. /\ next.contests = Upserted(tables.contests, NewContests(files.contests))
          /\ next.problems = Upserted(tables.problems, NewProblems(files.problems))
          /\ next.pairs = UpsertedPairs(tables.pairs, NewPairs(files))
      BY <2>2, SyncedTables
    <3> HIDE DEF next
    <3>2. \A r, s \in next.contests : r.id = s.id => r = s
      BY <3>1, NewRows DEF KeysHold, Upserted, IdsOf
    <3>3. \A r, s \in next.problems : r.id = s.id => r = s
      BY <3>1, NewRows DEF KeysHold, Upserted, IdsOf
    <3>4. \A r, s \in next.pairs : PairKey(r) = PairKey(s) => r = s
      BY <3>1, NewRows DEF KeysHold, UpsertedPairs
    <3>5. /\ IdsOf(tables.contests) \cup IdsOf(NewContests(files.contests))
                \subseteq IdsOf(next.contests)
          /\ IdsOf(tables.problems) \cup IdsOf(NewProblems(files.problems))
                \subseteq IdsOf(next.problems)
      BY <3>1 DEF Upserted, IdsOf
    <3>6. \A pair \in next.pairs :
            pair.contest \in IdsOf(next.contests) /\ pair.problem \in IdsOf(next.problems)
      <4> TAKE pair \in next.pairs
      <4>1. CASE pair \in tables.pairs
        BY <3>5, <4>1 DEF KeysHold
      <4>2. CASE pair \in NewPairs(files)
        BY <3>5, <4>2, NewRows
      <4> QED  BY <3>1, <4>1, <4>2 DEF UpsertedPairs
    <3>7. RowsAreRead(next)
      BY <3>1, NewRows DEF RowsAreRead, Upserted
    <3> QED  BY <3>2, <3>3, <3>4, <3>6, <3>7 DEF KeysHold, next
  <2> QED  BY <2>1, <2>2
<1>2. /\ KeysHold(InsertProblemIfNotExists(tables, ref))
      /\ RowsAreRead(InsertProblemIfNotExists(tables, ref))
  <2>1. CASE ref.problem \in IdsOf(tables.problems)
    BY <2>1 DEF InsertProblemIfNotExists
  <2>2. CASE ref.problem \notin IdsOf(tables.problems)
    <3> DEFINE next == InsertProblemIfNotExists(tables, ref)
               new == [id |-> ref.problem, contest |-> ref.contest, index |-> Unfilled,
                       name |-> Unfilled]
    <3>1. /\ next.problems = tables.problems \cup {new}
          /\ next.contests = tables.contests /\ next.pairs = tables.pairs
      BY <2>2 DEF InsertProblemIfNotExists, Tables
    <3>2. new.id = ref.problem /\ ProblemTaken(new)
      BY DEF ProblemTaken, Refs
    <3> HIDE DEF next, new
    <3>3. \A r, s \in next.problems : r.id = s.id => r = s
      BY <2>2, <3>1, <3>2 DEF KeysHold, IdsOf
    <3>4. IdsOf(tables.problems) \subseteq IdsOf(next.problems)
      BY <3>1 DEF IdsOf
    <3>5. KeysHold(next)
      BY <3>1, <3>3, <3>4 DEF KeysHold
    <3>6. RowsAreRead(next)
      BY <3>1, <3>2 DEF RowsAreRead
    <3> QED  BY <3>5, <3>6 DEF next
  <2> QED  BY <2>1, <2>2
<1> QED  BY <1>1, <1>2

\* The comment of SyncCatalog: rows are added and updated, and none is removed, whether
\* it was in the files before or came from a URL; no foreign key would keep the problem
\* of a review item.  A second sync of the same files changes nothing more.
THEOREM SyncRemovesNothing ==
    ASSUME NEW tables \in Tables, NEW files \in Files
    PROVE  LET next == SyncedCatalog(tables, files)
           IN  /\ IdsOf(tables.contests) \subseteq IdsOf(next.contests)
               /\ IdsOf(tables.problems) \subseteq IdsOf(next.problems)
               /\ {PairKey(r) : r \in tables.pairs} \subseteq {PairKey(r) : r \in next.pairs}
               /\ SyncedCatalog(next, files) = next
<1> DEFINE next == SyncedCatalog(tables, files)
<1>1. CASE NewContests(files.contests) = {} \/ NewProblems(files.problems) = {}
  BY <1>1, SyncedTables
<1>2. CASE ~(NewContests(files.contests) = {} \/ NewProblems(files.problems) = {})
  <2>1. /\ next.contests = Upserted(tables.contests, NewContests(files.contests))
        /\ next.problems = Upserted(tables.problems, NewProblems(files.problems))
        /\ next.pairs = UpsertedPairs(tables.pairs, NewPairs(files))
    BY <1>2, SyncedTables
  <2>2. next = [contests |-> next.contests, problems |-> next.problems,
                pairs |-> next.pairs]
    BY SyncedTables DEF Tables
  <2>3. SyncedCatalog(next, files) =
            [contests |-> Upserted(next.contests, NewContests(files.contests)),
             problems |-> Upserted(next.problems, NewProblems(files.problems)),
             pairs |-> UpsertedPairs(next.pairs, NewPairs(files))]
    BY <1>2 DEF SyncedCatalog
  <2> HIDE DEF next
  <2>4. /\ IdsOf(tables.contests) \subseteq IdsOf(next.contests)
        /\ IdsOf(tables.problems) \subseteq IdsOf(next.problems)
    BY <2>1 DEF Upserted, IdsOf
  <2>5. {PairKey(r) : r \in tables.pairs} \subseteq {PairKey(r) : r \in next.pairs}
    BY <2>1 DEF UpsertedPairs
  <2>6. /\ Upserted(next.contests, NewContests(files.contests)) = next.contests
        /\ Upserted(next.problems, NewProblems(files.problems)) = next.problems
    BY <2>1 DEF Upserted
  <2>7. UpsertedPairs(next.pairs, NewPairs(files)) = next.pairs
    BY <2>1 DEF UpsertedPairs
  <2>8. SyncedCatalog(next, files) = next
    BY <2>2, <2>3, <2>6, <2>7
  <2> QED  BY <2>4, <2>5, <2>8 DEF next
<1> QED  BY <1>1, <1>2

\* A URL that is registered while a sync runs: whichever commits first, the tables come
\* out the same; a problem of the files has its index and name in the end, any other one
\* stays as the URL has it.
THEOREM SyncAndEnsureCommute ==
    ASSUME NEW tables \in Tables, NEW files \in Files, NEW ref \in Refs
    PROVE  InsertProblemIfNotExists(SyncedCatalog(tables, files), ref)
             = SyncedCatalog(InsertProblemIfNotExists(tables, ref), files)
<1> DEFINE rows == NewProblems(files.problems)
           new == [id |-> ref.problem, contest |-> ref.contest, index |-> Unfilled,
                   name |-> Unfilled]
           first == InsertProblemIfNotExists(tables, ref)
           next == SyncedCatalog(tables, files)
<1>1. CASE NewContests(files.contests) = {} \/ rows = {}
  BY <1>1 DEF SyncedCatalog
<1>2. CASE ~(NewContests(files.contests) = {} \/ rows = {})
  <2>1. /\ next.contests = Upserted(tables.contests, NewContests(files.contests))
        /\ next.problems = Upserted(tables.problems, rows)
        /\ next.pairs = UpsertedPairs(tables.pairs, NewPairs(files))
        /\ next = [contests |-> next.contests, problems |-> next.problems,
                   pairs |-> next.pairs]
    BY <1>2, SyncedTables DEF Tables
  <2>2. SyncedCatalog(first, files) =
            [contests |-> Upserted(first.contests, NewContests(files.contests)),
             problems |-> Upserted(first.problems, rows),
             pairs |-> UpsertedPairs(first.pairs, NewPairs(files))]
    BY <1>2 DEF SyncedCatalog
  <2>3. CASE ref.problem \in IdsOf(tables.problems)
    <3>1. first = tables
      BY <2>3 DEF InsertProblemIfNotExists
    <3>2. ref.problem \in IdsOf(next.problems)
      BY <2>1, <2>3 DEF Upserted, IdsOf
    <3> QED  BY <3>1, <3>2 DEF InsertProblemIfNotExists
  <2>4. CASE ref.problem \notin IdsOf(tables.problems)
    <3>1. /\ first.problems = tables.problems \cup {new}
          /\ first.contests = tables.contests /\ first.pairs = tables.pairs
      BY <2>4 DEF InsertProblemIfNotExists, Tables
    <3>2. new.id = ref.problem
      OBVIOUS
    <3>3. CASE ref.problem \in IdsOf(rows)
      <4>1. ref.problem \in IdsOf(next.problems)
        BY <2>1, <3>3 DEF Upserted, IdsOf
      <4>2. InsertProblemIfNotExists(next, ref) = next
        BY <4>1 DEF InsertProblemIfNotExists
      <4>3. Upserted(first.problems, rows) = Upserted(tables.problems, rows)
        BY <3>1, <3>2, <3>3 DEF Upserted
      <4> QED  BY <2>1, <2>2, <3>1, <4>2, <4>3
    <3>4. CASE ref.problem \notin IdsOf(rows)
      <4>1. ref.problem \notin IdsOf(next.problems)
        BY <2>1, <2>4, <3>4 DEF Upserted, IdsOf
      <4>2. InsertProblemIfNotExists(next, ref) = [next EXCEPT !.problems = @ \cup {new}]
        BY <4>1 DEF InsertProblemIfNotExists
      <4>3. Upserted(first.problems, rows) = Upserted(tables.problems, rows) \cup {new}
        BY <3>1, <3>2, <3>4 DEF Upserted
      <4>4. [next EXCEPT !.problems = @ \cup {new}] =
                [contests |-> next.contests, problems |-> next.problems \cup {new},
                 pairs |-> next.pairs]
        BY <2>1
      <4> QED  BY <2>1, <2>2, <3>1, <4>2, <4>3, <4>4
    <3> QED  BY <3>3, <3>4
  <2> QED  BY <2>3, <2>4
<1> QED  BY <1>1, <1>2
=============================================================================
