------------------------------ MODULE ReviewStore ------------------------------
(***************************************************************************)
(* The write side of the review module, at the grain of its SQL            *)
(* statements: RecordReview (usecase/record_review.go over Repository.     *)
(* RecordReview), PauseReviewItem and ResumeReviewItem                     *)
(* (usecase/change_review_item_pause.go), for the items of one user.       *)
(*                                                                         *)
(* A session is one RPC being served.  PostgreSQL runs at READ COMMITTED:  *)
(* items and logs are the committed rows, the uncommitted writes of a      *)
(* session are in tx[s], a row lock is held from SELECT ... FOR UPDATE to  *)
(* the end of the transaction, and an INSERT of a key that another open    *)
(* transaction has inserted waits for that transaction to end.             *)
(***************************************************************************)
EXTENDS ReviewItem

CONSTANTS
    Sessions,      \* RPCs in flight at the same time
    StartTime,     \* when the items are registered
    MaxTime        \* bound: the clock stops here

ASSUME ReviewStoreAssumption ==
    StartTime \in Nat /\ MaxTime \in Nat /\ StartTime <= MaxTime

VARIABLES
    items,         \* review_items: [Items -> Row]
    logs,          \* review_logs: a set of Log
    zone,          \* time zone of the account
    clock,         \* wall clock of the servers
    tx             \* per session: the handler's place and its local variables

vars == <<items, logs, zone, clock, tx>>

Times == 0 .. (MaxTime + ClockSkew + 1)

\* Where a handler stands.  located: the account's zone has been read; begun:
\* now has been read and the transaction begun; locked: holds the row lock;
\* updated, inserted: those statements have run; answered, refused, conflict:
\* the transaction is over and the answer is being made; pausing: the row has
\* been read and paused_at is about to be written.
Places == {"idle", "located", "begun", "locked", "updated", "inserted",
           "answered", "refused", "conflict", "pausing"}

Idle ==
    [pc |-> "idle", item |-> None, request |-> None, outcome |-> None,
     performedAt |-> None, zone |-> None, now |-> None, sched |-> None,
     log |-> None, pausedAt |-> None]

Init ==
    /\ clock = StartTime
    /\ zone \in Zones
    /\ items = [i \in Items |-> RegisterReviewItem(StartTime, zone)]
    /\ logs = {}
    /\ tx = [s \in Sessions |-> Idle]

-----------------------------------------------------------------------------
(* Row locks and the unique index on (user_id, request_id). *)

Holds(s, i) == tx[s].item = i /\ tx[s].pc \in {"locked", "updated", "inserted"}

PlainSelect(i) == TRUE  \* mutant: SELECT without FOR UPDATE
RowLockFree(i) == \A s \in Sessions : ~Holds(s, i)

UpdateIgnoresLock(i) == TRUE  \* mutant: the UPDATE slips past the lock
UpdateNotBlocked(i) == RowLockFree(i)

RequestCommitted(r) == \E l \in logs : l.request = r

NoUniqueIndex(s, r) == FALSE  \* mutant: no unique index to wait on
RequestPending(s, r) ==
    \E p \in Sessions \ {s} : tx[p].pc = "inserted" /\ tx[p].request = r

-----------------------------------------------------------------------------
(* RecordReview. *)

\* The handler parses its input and reads the account's time zone.
StartRecord(s, i, r, o, performedAt) ==
    /\ tx[s].pc = "idle"
    /\ tx' = [tx EXCEPT ![s] = [Idle EXCEPT
                !.pc = "located", !.item = i, !.request = r, !.outcome = o,
                !.performedAt = performedAt, !.zone = zone]]
    /\ UNCHANGED <<items, logs, zone, clock>>

\* It reads the clock and begins the transaction, whose start is the
\* created_at of the log.
BeginRecord(s) ==
    /\ tx[s].pc = "located"
    /\ tx' = [tx EXCEPT ![s].pc = "begun", ![s].now = clock]
    /\ UNCHANGED <<items, logs, zone, clock>>

LockReviewItem(s) ==
    /\ tx[s].pc = "begun"
    /\ RowLockFree(tx[s].item)
    /\ tx' = [tx EXCEPT ![s].pc = "locked"]
    /\ UNCHANGED <<items, logs, zone, clock>>

\* Mutant: the log found is not compared with the item asked for.
ReplayAnyItem(s) ==
    /\ tx[s].pc = "locked"
    /\ \E l \in logs :
        /\ l.request = tx[s].request
        /\ tx' = [tx EXCEPT ![s].pc = "answered", ![s].log = l]
    /\ UNCHANGED <<items, logs, zone, clock>>

\* The request was recorded before: answer with its log, whatever the state of
\* the item.  The transaction rolls back, having written nothing.
ReplayRequest(s) ==
    /\ tx[s].pc = "locked"
    /\ \E l \in logs :
        /\ l.request = tx[s].request
        /\ l.item = tx[s].item
        /\ tx' = [tx EXCEPT ![s].pc = "answered", ![s].log = l]
    /\ UNCHANGED <<items, logs, zone, clock>>

\* The request was recorded for another item: ErrRequestIDConflict.
RejectReusedRequest(s) ==
    /\ tx[s].pc = "locked"
    /\ \E l \in logs : l.request = tx[s].request /\ l.item # tx[s].item
    /\ tx' = [tx EXCEPT ![s].pc = "conflict"]
    /\ UNCHANGED <<items, logs, zone, clock>>

RefusedNow(s) ==
    Refused(items[tx[s].item], tx[s].performedAt, tx[s].now, tx[s].zone)

RefusedBeforeLookup(s) == RefusedNow(s)  \* mutant: the checks swapped
RefusesRequest(s) == RefusedNow(s) /\ ~RequestCommitted(tx[s].request)

\* The domain refuses the attempt: ErrReviewItemPaused, ErrInvalidPerformedAt.
RefuseRecord(s) ==
    /\ tx[s].pc = "locked"
    /\ RefusesRequest(s)
    /\ tx' = [tx EXCEPT ![s].pc = "refused"]
    /\ UNCHANGED <<items, logs, zone, clock>>

\* item.Record computes the next row and the log, and the row is updated; both
\* stay private to the transaction.
UpdateReviewItemSchedule(s) ==
    /\ tx[s].pc = "locked"
    /\ ~RequestCommitted(tx[s].request)
    /\ ~RefusedNow(s)
    /\ \E interval \in Intervals :
        LET c == tx[s]
            before == items[c.item].sched
        IN  tx' = [tx EXCEPT ![s].pc = "updated",
                ![s].sched = ScheduleAfter(before, c.outcome, c.performedAt,
                                           c.zone, interval),
                ![s].log = LogOf(c.item, c.request, c.outcome, c.performedAt,
                                 c.now, c.zone, before, interval)]
    /\ UNCHANGED <<items, logs, zone, clock>>

CreateReviewLog(s) ==
    /\ tx[s].pc = "updated"
    /\ ~RequestPending(s, tx[s].request)
    /\ ~RequestCommitted(tx[s].request)
    /\ tx' = [tx EXCEPT ![s].pc = "inserted"]
    /\ UNCHANGED <<items, logs, zone, clock>>

\* review_logs_request_unique is violated: another item took the request in
\* the meantime.  The transaction rolls back.
CreateReviewLogConflict(s) ==
    /\ tx[s].pc = "updated"
    /\ ~RequestPending(s, tx[s].request)
    /\ RequestCommitted(tx[s].request)
    /\ tx' = [tx EXCEPT ![s].pc = "conflict", ![s].sched = None, ![s].log = None]
    /\ UNCHANGED <<items, logs, zone, clock>>

\* What the UPDATE leaves in review_items when the transaction commits.
UpdateOutsideTransaction(s) == items  \* mutant: the UPDATE is not part of it
ItemsAfterCommit(s) == [items EXCEPT ![tx[s].item].sched = tx[s].sched]

CommitRecord(s) ==
    /\ tx[s].pc = "inserted"
    /\ items' = ItemsAfterCommit(s)
    /\ logs' = logs \cup {tx[s].log}
    /\ tx' = [tx EXCEPT ![s].pc = "answered"]
    /\ UNCHANGED <<zone, clock>>

\* A lost connection, a cancelled context or a crash of the server before the
\* commit: PostgreSQL rolls back, the client gets an error or no answer.
AbortRecord(s) ==
    /\ tx[s].pc \in {"located", "begun", "locked", "updated", "inserted"}
    /\ tx' = [tx EXCEPT ![s] = Idle]
    /\ UNCHANGED <<items, logs, zone, clock>>

\* The answer goes out, or is lost, or a query made after the commit fails and
\* the client is told of an error although the attempt is recorded.
Reply(s) ==
    /\ tx[s].pc \in {"answered", "refused", "conflict"}
    /\ tx' = [tx EXCEPT ![s] = Idle]
    /\ UNCHANGED <<items, logs, zone, clock>>

-----------------------------------------------------------------------------
(* PauseReviewItem and ResumeReviewItem: a read and a later write of the    *)
(* column paused_at, with no transaction around them.                       *)

StartPause(s, i) ==
    /\ tx[s].pc = "idle"
    /\ tx' = [tx EXCEPT ![s] = [Idle EXCEPT !.pc = "pausing", !.item = i,
                !.pausedAt = PausedAtAfterPause(items[i], clock)]]
    /\ UNCHANGED <<items, logs, zone, clock>>

StartResume(s, i) ==
    /\ tx[s].pc = "idle"
    /\ tx' = [tx EXCEPT ![s] = [Idle EXCEPT !.pc = "pausing", !.item = i]]
    /\ UNCHANGED <<items, logs, zone, clock>>

UpdateReviewItemPausedAt(s) ==
    /\ tx[s].pc = "pausing"
    /\ UpdateNotBlocked(tx[s].item)
    /\ items' = [items EXCEPT ![tx[s].item].pausedAt = tx[s].pausedAt]
    /\ tx' = [tx EXCEPT ![s] = Idle]
    /\ UNCHANGED <<logs, zone, clock>>

AbortPause(s) ==
    /\ tx[s].pc = "pausing"
    /\ tx' = [tx EXCEPT ![s] = Idle]
    /\ UNCHANGED <<items, logs, zone, clock>>

-----------------------------------------------------------------------------
(* The environment: the account's owner changes its zone, time passes. *)

UpdateTimeZone ==
    /\ zone' \in Zones \ {zone}
    /\ UNCHANGED <<items, logs, clock, tx>>

Tick ==
    /\ clock < MaxTime
    /\ clock' = clock + 1
    /\ UNCHANGED <<items, logs, zone, tx>>

InsertAgain(s) == CreateReviewLog(s)  \* mutant: after a violation, the INSERT is retried
Insert(s) == CreateReviewLog(s) \/ CreateReviewLogConflict(s)

Decide(s) ==
    \/ ReplayRequest(s) \/ RejectReusedRequest(s) \/ RefuseRecord(s)
    \/ UpdateReviewItemSchedule(s)

Start(s) ==
    \E i \in Items :
        \/ StartPause(s, i)
        \/ StartResume(s, i)
        \/ \E r \in Requests, o \in Outcomes, performedAt \in Times :
              StartRecord(s, i, r, o, performedAt)

\* What the server does of its own accord once a call has started.
Serve(s) ==
    \/ BeginRecord(s) \/ LockReviewItem(s) \/ Decide(s) \/ Insert(s)
    \/ CommitRecord(s) \/ Reply(s) \/ UpdateReviewItemPausedAt(s)

Next ==
    \/ Tick
    \/ UpdateTimeZone
    \/ \E s \in Sessions :
        Start(s) \/ Serve(s) \/ AbortRecord(s) \/ AbortPause(s)

Spec == Init /\ [][Next]_vars

\* PostgreSQL serves the waiters of a row lock and of a transaction in turn,
\* hence the strong fairness of the steps that wait.
Fairness ==
    \A s \in Sessions :
        /\ WF_vars(Serve(s))
        /\ SF_vars(LockReviewItem(s))
        /\ SF_vars(Insert(s))
        /\ SF_vars(UpdateReviewItemPausedAt(s))

FairSpec == Spec /\ Fairness
-----------------------------------------------------------------------------
(* Properties. *)

LogsOf(i) == {l \in logs : l.item = i}

\* Every variable has its type, and every row satisfies the CHECK constraint of
\* its table and what RehydrateReviewItem demands, so no later call fails on it.
TypeOK ==
    /\ items \in [Items -> Row]
    /\ \A i \in Items : StateValid(items[i].sched)
    /\ logs \subseteq Log
    /\ zone \in Zones
    /\ clock \in StartTime .. MaxTime
    /\ tx \in [Sessions ->
            [pc : Places, item : Items \cup {None}, request : Requests \cup {None},
             outcome : Outcomes \cup {None}, performedAt : Times \cup {None},
             zone : Zones \cup {None}, now : Nat \cup {None},
             sched : Schedule \cup {None}, log : Log \cup {None},
             pausedAt : Nat \cup {None}]]

\* A request id yields at most one log, however often and for whichever items
\* it is sent, and whichever of the calls are interrupted: the comment of
\* Repository.RecordReview, and the integration test of double submission.
RequestRecordedOnce ==
    \A l, m \in logs : l.request = m.request => l = m

\* The row of an item is what its logs, in commit order, amount to: reps counts
\* them, due_on and interval_days are those of the last, lapses counts the
\* failures among them that are not the first, last_reviewed_at is the latest
\* performed_at.  A lost update between two RecordReview calls breaks it.
RowFollowsLogs ==
    \A i \in Items :
        LET sched == items[i].sched
            own == LogsOf(i)
        IN  /\ {l.rep : l \in own} = 1 .. sched.reps
            /\ sched.reps = Cardinality(own)
            /\ sched.lapses = Cardinality({l \in own :
                    l.rep > 1 /\ Rating(l.outcome) = "again"})
            /\ \A l \in own : l.rep = sched.reps =>
                    /\ l.nextDueOn = sched.dueOn
                    /\ l.intervalDays = sched.intervalDays
            /\ own # {} =>
                    /\ \A l \in own : l.performedAt <= sched.lastReviewedAt
                    /\ \E l \in own : l.performedAt = sched.lastReviewedAt

\* No two logs of an item start from the same schedule, and each started from
\* where the previous one ended, as an FSRS optimiser that replays the table
\* will assume (the migration's comment on the scheduler's input and output).
LogsFormChain ==
    \A l, m \in logs :
        /\ l.item = m.item /\ l.rep = m.rep => l = m
        /\ l.rep = 1 => l.stateBefore = "new" /\ l.lastIntervalDays = 0
        /\ (l.item = m.item /\ m.rep = l.rep + 1) =>
                m.stateBefore = "review" /\ m.lastIntervalDays = l.intervalDays

\* An attempt a client is told of is in the table, under the request and the
\* item the client sent; with RequestRecordedOnce, every answer to a request
\* that succeeds reports the same attempt.
AnsweredIsRecorded ==
    \A s \in Sessions : tx[s].pc = "answered" =>
        /\ tx[s].log \in logs
        /\ tx[s].log.request = tx[s].request
        /\ tx[s].log.item = tx[s].item

\* Changing zones cannot take the attempts of an item out of order by a day or
\* more: whatever zones they were recorded in, an attempt recorded later was
\* performed less than a day before any recorded earlier, less than a day
\* before the registration, and not in the future by more than the skew.
OutOfOrderByLessThanADay ==
    \A l, m \in logs :
        /\ l.item = m.item /\ l.rep < m.rep =>
                l.performedAt < m.performedAt + TicksPerDay
        /\ items[l.item].registeredAt < l.performedAt + TicksPerDay
        /\ l.performedAt <= clock + ClockSkew

\* The log shown as the last one of an item was performed at the instant the
\* domain compares a new attempt with, so the lower bound the result sheet
\* computes from lastLog is the one schedule() applies.
LatestLogIsLastReviewed ==
    \A i \in Items : \A l \in LatestLogs(LogsOf(i)) :
        l.performedAt = items[i].sched.lastReviewedAt

\* No attempt is recorded on an item that is paused when the record commits: a
\* pause that has been written cannot be overtaken by a record that looked at
\* the item before (ErrReviewItemPaused).
RecordOnlyWhileActive ==
    [][\A l \in logs' \ logs :
          ~Paused(items[l.item]) /\ ~Paused(items'[l.item])]_vars

\* A retry of an attempt that has been recorded never fails for what the item
\* has become: a call is told of a refusal or of a reused request id only if no
\* log of its item carries its request by then, whatever was committed between
\* its lookup and its INSERT.
RetryNeverFails ==
    [][\A s \in Sessions :
          tx'[s].pc \in {"refused", "conflict"} /\ tx'[s].pc # tx[s].pc =>
              \A l \in LogsOf(tx[s].item) : l.request # tx[s].request]_vars

\* The statements of concurrent sessions amount to the atomic steps of the
\* ledger: record once on the current row, or set paused_at, and nothing else.
Ledger == INSTANCE ReviewLedger
LedgerSpec == Ledger!Spec

\* What a client sees of a session: a call that is on its way until the session has
\* its answer, whatever statements have run for it.
AttemptOf(l) == [request |-> l.request, item |-> l.item, outcome |-> l.outcome]
PhaseOf(place) ==
    IF place = "answered" THEN "served"
    ELSE IF place \in {"refused", "conflict"} THEN "refused" ELSE "sent"
CallOf(c) ==
    IF c.pc = "idle" THEN [phase |-> "idle"]
    ELSE IF c.pc = "pausing" THEN
        [kind |-> "pause", item |-> c.item, request |-> None,
         value |-> IF c.pausedAt = None THEN "resume" ELSE "pause",
         phase |-> "sent", log |-> None]
    ELSE
        [kind |-> "record", item |-> c.item, request |-> c.request, value |-> c.outcome,
         phase |-> PhaseOf(c.pc),
         log |-> IF c.pc = "answered" THEN AttemptOf(c.log) ELSE None]

\* The calls look to their clients as if each were served in one step between its
\* start and its answer, about the rows of that moment: recorded once, replayed,
\* or refused because no attempt is recorded under the request.  The pages are
\* modelled over such a server.
Service ==
    INSTANCE ReviewService WITH
        Callers <- Sessions, NoRequest <- None, NoLog <- None,
        rows <- [logs |-> {AttemptOf(l) : l \in logs},
                 paused |-> {i \in Items : Paused(items[i])}],
        calls <- [s \in Sessions |-> CallOf(tx[s])]
ServiceSpec == Service!Spec

\* Every call that is started is answered or fails: row locks and the wait on
\* the unique index never leave sessions waiting for one another.
EveryCallEnds ==
    \A s \in Sessions : tx[s].pc # "idle" ~> tx[s].pc = "idle"

\* review_item.go:239 on Pause: if the item is already paused, the instant of
\* the pause is not changed.
PausedAtKept ==
    [][\A i \in Items :
          Paused(items[i]) /\ Paused(items'[i]) =>
              items'[i].pausedAt = items[i].pausedAt]_vars
=============================================================================
