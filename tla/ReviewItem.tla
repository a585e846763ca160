------------------------------ MODULE ReviewItem ------------------------------
(***************************************************************************)
(* The ReviewItem aggregate of the review module (review_item.go): what a  *)
(* registration, a recorded attempt, a pause and a resume make of one      *)
(* item.  No state lives here; ReviewLedger and ReviewStore share these    *)
(* operators.                                                              *)
(*                                                                         *)
(* Instants are natural numbers (ticks), a time zone is its offset from    *)
(* UTC in ticks, and a Day is a calendar day counted from the epoch.  Only *)
(* fixed offsets are modelled.  FSRS is abstracted: an interval is any     *)
(* member of Intervals, the memory state and the notes are left out.       *)
(***************************************************************************)
EXTENDS Integers, FiniteSets

CONSTANTS
    Items,         \* ids of the review items of one user
    Requests,      \* request ids the clients generate (crypto.randomUUID)
    Outcomes,      \* the outcomes offered to the model, some of AllOutcomes
    Intervals,     \* the intervals, in days, the scheduler may answer
    Zones,         \* offsets of the time zones an account may choose
    TicksPerDay,   \* length of a calendar day
    ClockSkew,     \* maxClockSkew: how far in the future an attempt may lie
    None           \* SQL NULL, Go nil

AllOutcomes ==
    {"unsolved", "assisted",
     "independent_hard", "independent_good", "independent_easy"}

ASSUME ReviewItemAssumption ==
    /\ Outcomes \subseteq AllOutcomes
    /\ Intervals \subseteq Nat \ {0}
    /\ Zones \subseteq Int
    /\ TicksPerDay \in Nat \ {0}
    /\ ClockSkew \in Nat
    /\ None \notin Int
    /\ None \notin Items
    /\ None \notin Requests

-----------------------------------------------------------------------------
(* Calendar days and outcomes. *)

DayOf(t, z) == (t + z) \div TicksPerDay

\* An attempt that was not solved alone counts as forgotten.
Rating(o) ==
    CASE o = "independent_hard" -> "hard"
      [] o = "independent_good" -> "good"
      [] o = "independent_easy" -> "easy"
      [] OTHER -> "again"

-----------------------------------------------------------------------------
(* A row of review_items.  The columns that UpdateReviewItemSchedule writes *)
(* are grouped in the field sched; UpdateReviewItemPausedAt writes pausedAt.*)

Schedule ==
    [state : {"new", "review"}, dueOn : Int, intervalDays : Nat,
     reps : Nat, lapses : Nat, lastReviewedAt : Nat \cup {None}]

Row == [registeredAt : Nat, pausedAt : Nat \cup {None}, sched : Schedule]

\* A row of review_logs.  The field rep is a history field: the position of
\* the log among the logs of its item, in the order they were committed.
Log ==
    [item : Items, request : Requests, outcome : Outcomes, performedAt : Nat,
     createdAt : Nat, stateBefore : {"new", "review"}, elapsedDays : Nat,
     lastIntervalDays : Nat, intervalDays : Nat \ {0}, nextDueOn : Int,
     rep : Nat \ {0}]

\* The CHECK constraint review_items_state_valid and what RehydrateReviewItem
\* demands of a row before the domain sees it.
StateValid(sched) ==
    /\ (sched.state = "new") <=> (sched.reps = 0)
    /\ (sched.state = "new") <=> (sched.lastReviewedAt = None)

RegisterReviewItem(registeredAt, z) ==
    [registeredAt |-> registeredAt,
     pausedAt |-> None,
     sched |-> [state |-> "new", dueOn |-> DayOf(registeredAt, z) + 1,
                intervalDays |-> 0, reps |-> 0, lapses |-> 0,
                lastReviewedAt |-> None]]

Paused(row) == row.pausedAt # None

\* The value Pause gives to paused_at: an item already paused keeps its own.
PausedAtAfterPause(row, now) == IF Paused(row) THEN row.pausedAt ELSE now

BeforeLastIgnored(row, performedAt, z) == FALSE  \* mutant: no such guard
BeforeLastReview(row, performedAt, z) ==
    /\ row.sched.lastReviewedAt # None
    /\ DayOf(performedAt, z) < DayOf(row.sched.lastReviewedAt, z)

BeforeRegistration(row, performedAt, z) ==
    DayOf(performedAt, z) < DayOf(row.registeredAt, z)

\* schedule() refuses a paused item, an attempt in the future, and one on a
\* day before the registration or before the last recorded attempt.
Refused(row, performedAt, now, z) ==
    \/ Paused(row)
    \/ performedAt > now + ClockSkew
    \/ BeforeRegistration(row, performedAt, z)
    \/ BeforeLastReview(row, performedAt, z)

ElapsedDays(sched, performedAt, z) ==
    IF sched.state = "new" THEN 0
    ELSE LET days == DayOf(performedAt, z) - DayOf(sched.lastReviewedAt, z)
         IN  IF days < 0 THEN 0 ELSE days

\* Mutants of LaterOf: the time of the newest record, whatever it is; and no
\* time at all for the first record.
NewestRecord(last, performedAt) == performedAt
OnlyIfReviewed(last, performedAt) ==
    IF last # None /\ performedAt > last THEN performedAt ELSE last
\* last_reviewed_at moves forward only.
LaterOf(last, performedAt) ==
    IF last = None \/ performedAt > last THEN performedAt ELSE last

\* Mutant: a first attempt that fails counts as a lapse too.
LapsesFromTheStart(sched, o) ==
    IF Rating(o) = "again" THEN sched.lapses + 1 ELSE sched.lapses
LapsesAfter(sched, o) ==
    IF sched.state = "review" /\ Rating(o) = "again"
    THEN sched.lapses + 1 ELSE sched.lapses

\* The schedule columns after an attempt for which FSRS chose interval.
ScheduleAfter(sched, o, performedAt, z, interval) ==
    [state |-> "review",
     dueOn |-> DayOf(performedAt, z) + interval,
     intervalDays |-> interval,
     reps |-> sched.reps + 1,
     lapses |-> LapsesAfter(sched, o),
     lastReviewedAt |-> LaterOf(sched.lastReviewedAt, performedAt)]

\* The log of that attempt.
LogOf(i, r, o, performedAt, createdAt, z, sched, interval) ==
    [item |-> i, request |-> r, outcome |-> o,
     performedAt |-> performedAt, createdAt |-> createdAt,
     stateBefore |-> sched.state,
     elapsedDays |-> ElapsedDays(sched, performedAt, z),
     lastIntervalDays |-> sched.intervalDays,
     intervalDays |-> interval,
     nextDueOn |-> DayOf(performedAt, z) + interval,
     rep |-> sched.reps + 1]

\* FindLatestReviewLogs: DISTINCT ON (review_item_id) ordered by performed_at
\* and then created_at, both descending; an exact tie leaves the choice open.
LatestLogs(ls) ==
    {l \in ls : \A m \in ls \ {l} :
        \/ l.performedAt > m.performedAt
        \/ l.performedAt = m.performedAt /\ l.createdAt >= m.createdAt}
=============================================================================
