----------------------------- MODULE ReviewLedger -----------------------------
(***************************************************************************)
(* What the review module promises its callers, with no sessions, locks or *)
(* transactions: attempts are recorded one at a time on the current row, a *)
(* request id is used up by the first attempt recorded under it, an item   *)
(* that is paused takes no attempt, and nothing else touches the tables.   *)
(***************************************************************************)
EXTENDS ReviewItem

CONSTANTS StartTime, MaxTime

VARIABLES items, logs, clock

vars == <<items, logs, clock>>

Init ==
    /\ clock = StartTime
    /\ logs = {}
    /\ \E z \in Zones : items = [i \in Items |-> RegisterReviewItem(StartTime, z)]

\* Record an attempt under a fresh request id on an item that accepts it.  The
\* zone is one the account has, or had when the request came in.
Record(i, r, o, performedAt, createdAt, z, interval) ==
    /\ \A l \in logs : l.request # r
    /\ createdAt <= clock
    /\ ~Refused(items[i], performedAt, clock, z)
    /\ items' = [items EXCEPT ![i].sched =
                    ScheduleAfter(@, o, performedAt, z, interval)]
    /\ logs' = logs \cup {LogOf(i, r, o, performedAt, createdAt, z,
                                items[i].sched, interval)}
    /\ UNCHANGED clock

\* A pause stores an instant that has been reached, a resume stores None.
SetPausedAt(i, p) ==
    /\ p = None \/ (p \in Nat /\ StartTime <= p /\ p <= clock)
    /\ items' = [items EXCEPT ![i].pausedAt = p]
    /\ UNCHANGED <<logs, clock>>

Tick ==
    /\ clock < MaxTime
    /\ clock' = clock + 1
    /\ UNCHANGED <<items, logs>>

Next ==
    \/ Tick
    \/ \E i \in Items :
        \/ \E p \in (StartTime .. MaxTime) \cup {None} : SetPausedAt(i, p)
        \/ \E r \in Requests, o \in Outcomes, z \in Zones, interval \in Intervals,
              performedAt \in 0 .. (MaxTime + ClockSkew), createdAt \in 0 .. MaxTime :
              Record(i, r, o, performedAt, createdAt, z, interval)

Spec == Init /\ [][Next]_vars
=============================================================================
