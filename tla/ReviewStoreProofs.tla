--------------------------- MODULE ReviewStoreProofs ---------------------------
(***************************************************************************)
(* Proofs about ReviewStore, for any items, requests, sessions, zones and  *)
(* bounds: the invariants the runs check on small instances, and that the  *)
(* statements of concurrent sessions implement ReviewLedger.               *)
(***************************************************************************)
EXTENDS ReviewStore, ReviewMessages, FiniteSetTheorems, TLAPS

-----------------------------------------------------------------------------
(* The operators of ReviewItem. *)

\* A calendar day is a whole number, before or after the epoch.
LEMMA DayOfType ==
    ASSUME NEW t \in Int, NEW z \in Zones
    PROVE  DayOf(t, z) \in Int
  BY ReviewItemAssumption DEF DayOf

\* A registration yields a row the database accepts and the domain can read.
LEMMA RegisterType ==
    ASSUME NEW t \in Nat, NEW z \in Zones
    PROVE  /\ RegisterReviewItem(t, z) \in Row
           /\ StateValid(RegisterReviewItem(t, z).sched)
  <1>1. DayOf(t, z) \in Int
    BY DayOfType
  <1> QED
    BY <1>1 DEF RegisterReviewItem, Row, Schedule, StateValid

\* The schedule columns after an attempt keep the row readable, whatever the
\* interval: RehydrateReviewItem cannot fail on a row that Record wrote.
LEMMA ScheduleAfterType ==
    ASSUME NEW sched \in Schedule, NEW o, NEW performedAt \in Nat,
           NEW z \in Zones, NEW interval \in Intervals
    PROVE  /\ ScheduleAfter(sched, o, performedAt, z, interval) \in Schedule
           /\ StateValid(ScheduleAfter(sched, o, performedAt, z, interval))
  <1>1. DayOf(performedAt, z) + interval \in Int /\ interval \in Nat
    BY DayOfType, ReviewItemAssumption
  <1>2. LapsesAfter(sched, o) \in Nat
    BY DEF LapsesAfter, Schedule
  <1>3. LaterOf(sched.lastReviewedAt, performedAt) \in Nat
    BY ReviewItemAssumption DEF LaterOf, Schedule
  <1>4. sched.reps + 1 \in Nat /\ sched.reps + 1 # 0
    BY DEF Schedule
  <1> QED
    BY <1>1, <1>2, <1>3, <1>4, ReviewItemAssumption
    DEF ScheduleAfter, Schedule, StateValid

\* The log of an attempt is a row of review_logs.
LEMMA LogOfType ==
    ASSUME NEW sched \in Schedule, StateValid(sched),
           NEW i \in Items, NEW r \in Requests, NEW o \in Outcomes,
           NEW performedAt \in Nat, NEW createdAt \in Nat,
           NEW z \in Zones, NEW interval \in Intervals
    PROVE  LogOf(i, r, o, performedAt, createdAt, z, sched, interval) \in Log
  <1>1. DayOf(performedAt, z) \in Int /\ interval \in Nat \ {0}
    BY DayOfType, ReviewItemAssumption
  <1>2. ElapsedDays(sched, performedAt, z) \in Nat
    <2>1. CASE sched.state = "new"
      BY <2>1 DEF ElapsedDays
    <2>2. CASE sched.state # "new"
      <3>1. sched.lastReviewedAt \in Nat
        BY <2>2 DEF StateValid, Schedule
      <3>2. DayOf(sched.lastReviewedAt, z) \in Int
        BY <3>1, DayOfType
      <3> QED
        BY <2>2, <3>2, <1>1 DEF ElapsedDays
    <2> QED
      BY <2>1, <2>2
  <1>3. sched.reps + 1 \in Nat \ {0} /\ sched.intervalDays \in Nat
        /\ sched.state \in {"new", "review"}
    BY DEF Schedule
  <1> QED
    BY <1>1, <1>2, <1>3 DEF LogOf, Log

-----------------------------------------------------------------------------
(* What a session holds at each place of the handler. *)

InTransaction == {"begun", "locked", "updated", "inserted"}

\* The local variables a place relies on have been set.
SessionTyped(s) ==
    /\ tx[s].pc # "idle" => tx[s].item \in Items
    /\ tx[s].pc \notin {"idle", "pausing"} =>
            /\ tx[s].request \in Requests
            /\ tx[s].outcome \in Outcomes
            /\ tx[s].performedAt \in Times
            /\ tx[s].zone \in Zones
    /\ tx[s].pc \in InTransaction => tx[s].now \in StartTime .. clock
    /\ tx[s].pc = "pausing" =>
            tx[s].pausedAt = None \/ tx[s].pausedAt \in StartTime .. clock

\* Between the UPDATE and the commit a session has a valid row and log to write.
DraftTyped(s) ==
    tx[s].pc \in {"updated", "inserted"} =>
        /\ tx[s].sched \in Schedule
        /\ StateValid(tx[s].sched)
        /\ tx[s].log \in Log
        /\ tx[s].log.item = tx[s].item
        /\ tx[s].log.request = tx[s].request

\* A pause never lies in the future.
PausesReached ==
    \A i \in Items :
        items[i].pausedAt = None \/ items[i].pausedAt \in StartTime .. clock

TypeInv ==
    /\ TypeOK
    /\ \A s \in Sessions : SessionTyped(s) /\ DraftTyped(s)
    /\ PausesReached

LEMMA TypeInvInit == Init => TypeInv
  <1> SUFFICES ASSUME Init PROVE TypeInv
    OBVIOUS
  <1>1. \A i \in Items : items[i] \in Row /\ StateValid(items[i].sched)
                        /\ items[i].pausedAt = None
    <2> SUFFICES ASSUME NEW i \in Items
                 PROVE  items[i] \in Row /\ StateValid(items[i].sched)
                        /\ items[i].pausedAt = None
      OBVIOUS
    <2>1. items[i] = RegisterReviewItem(StartTime, zone) /\ zone \in Zones
      BY DEF Init
    <2>2. RegisterReviewItem(StartTime, zone).pausedAt = None
      BY DEF RegisterReviewItem
    <2> QED
      BY <2>1, <2>2, RegisterType, ReviewStoreAssumption
  <1>2. TypeOK
    BY <1>1, ReviewStoreAssumption DEF Init, TypeOK, Idle, Places
  <1>3. \A s \in Sessions : SessionTyped(s) /\ DraftTyped(s)
    BY DEF Init, Idle, SessionTyped, DraftTyped, InTransaction
  <1> QED
    BY <1>1, <1>2, <1>3 DEF TypeInv, PausesReached

\* The record stored in tx[s], field by field.
TxRecord ==
    [pc : Places, item : Items \cup {None}, request : Requests \cup {None},
     outcome : Outcomes \cup {None}, performedAt : Times \cup {None},
     zone : Zones \cup {None}, now : Nat \cup {None},
     sched : Schedule \cup {None}, log : Log \cup {None},
     pausedAt : Nat \cup {None}]

LEMMA IdleTyped == Idle \in TxRecord
  BY DEF Idle, TxRecord, Places

\* A step that replaces the local variables of one session and nothing else
\* keeps TypeInv if the new ones are typed.
LEMMA TypeInvLocal ==
    ASSUME TypeInv, NEW s \in Sessions, NEW c \in TxRecord,
           tx' = [tx EXCEPT ![s] = c],
           UNCHANGED <<items, logs, zone, clock>>,
           SessionTyped(s)', DraftTyped(s)'
    PROVE  TypeInv'
  <1>1. TypeOK'
    BY DEF TypeInv, TypeOK, TxRecord
  <1>2. \A p \in Sessions : SessionTyped(p)' /\ DraftTyped(p)'
    <2> SUFFICES ASSUME NEW p \in Sessions, p # s
                 PROVE  SessionTyped(p)' /\ DraftTyped(p)'
      OBVIOUS
    <2>1. tx'[p] = tx[p]
      BY DEF TypeInv, TypeOK
    <2> QED
      BY <2>1 DEF TypeInv, SessionTyped, DraftTyped
  <1>3. PausesReached'
    BY DEF TypeInv, PausesReached
  <1> QED
    BY <1>1, <1>2, <1>3 DEF TypeInv

\* The same for a step that only moves the session to another place, and for
\* one that ends the call.
LEMMA TypeInvMove ==
    ASSUME TypeInv, NEW s \in Sessions, NEW place \in Places,
           tx' = [tx EXCEPT ![s].pc = place],
           UNCHANGED <<items, logs, zone, clock>>,
           SessionTyped(s)', DraftTyped(s)'
    PROVE  TypeInv'
  <1>1. tx \in [Sessions -> TxRecord]
    BY DEF TypeInv, TypeOK, TxRecord
  <1>2. [tx[s] EXCEPT !.pc = place] \in TxRecord
    BY <1>1 DEF TxRecord
  <1>3. tx' = [tx EXCEPT ![s] = [tx[s] EXCEPT !.pc = place]]
    BY <1>1 DEF TxRecord
  <1> QED
    BY <1>2, <1>3, TypeInvLocal

LEMMA TypeInvEnd ==
    ASSUME TypeInv, NEW s \in Sessions, tx' = [tx EXCEPT ![s] = Idle],
           UNCHANGED <<items, logs, zone, clock>>
    PROVE  TypeInv'
  <1>1. tx'[s] = Idle
    BY DEF TypeInv, TypeOK
  <1>2. SessionTyped(s)' /\ DraftTyped(s)'
    BY <1>1 DEF SessionTyped, DraftTyped, Idle, InTransaction
  <1> QED
    BY <1>2, IdleTyped, TypeInvLocal

LEMMA TypeInvStep == TypeInv /\ [Next]_vars => TypeInv'
  <1> SUFFICES ASSUME TypeInv, [Next]_vars
               PROVE  TypeInv'
    OBVIOUS
  <1>0. /\ items \in [Items -> Row]
        /\ tx \in [Sessions -> TxRecord]
        /\ clock \in StartTime .. MaxTime /\ zone \in Zones
        /\ \A i \in Items : StateValid(items[i].sched)
    BY DEF TypeInv, TypeOK, TxRecord
  <1>00. clock \in Nat
    BY <1>0, ReviewStoreAssumption
  <1>1. CASE Tick
    BY <1>1, ReviewStoreAssumption
    DEF Tick, TypeInv, TypeOK, SessionTyped, DraftTyped, PausesReached
  <1>2. CASE UpdateTimeZone
    BY <1>2 DEF UpdateTimeZone, TypeInv, TypeOK, SessionTyped, DraftTyped, PausesReached
  <1>3. ASSUME NEW s \in Sessions, NEW i \in Items, StartPause(s, i)
        PROVE  TypeInv'
    <2> DEFINE c == [Idle EXCEPT !.pc = "pausing", !.item = i,
                !.pausedAt = PausedAtAfterPause(items[i], clock)]
    <2>1. /\ PausedAtAfterPause(items[i], clock) \in StartTime .. clock
          /\ PausedAtAfterPause(items[i], clock) \in Nat
      BY <1>0, ReviewStoreAssumption
      DEF TypeInv, PausesReached, PausedAtAfterPause, Paused
    <2>2. c \in TxRecord
      BY <2>1, IdleTyped DEF TxRecord, Places
    <2>3. /\ tx' = [tx EXCEPT ![s] = c]
          /\ UNCHANGED <<items, logs, zone, clock>>
      BY <1>3 DEF StartPause
    <2>4. SessionTyped(s)' /\ DraftTyped(s)'
      BY <2>1, <2>3, <1>0 DEF SessionTyped, DraftTyped, Idle, InTransaction
    <2> QED
      BY <2>2, <2>3, <2>4, TypeInvLocal
  <1>4. ASSUME NEW s \in Sessions, NEW i \in Items, StartResume(s, i)
        PROVE  TypeInv'
    <2> DEFINE c == [Idle EXCEPT !.pc = "pausing", !.item = i]
    <2>1. c \in TxRecord
      BY IdleTyped DEF TxRecord, Places
    <2>2. /\ tx' = [tx EXCEPT ![s] = c]
          /\ UNCHANGED <<items, logs, zone, clock>>
      BY <1>4 DEF StartResume
    <2>3. SessionTyped(s)' /\ DraftTyped(s)'
      BY <2>2, <1>0 DEF SessionTyped, DraftTyped, Idle, InTransaction
    <2> QED
      BY <2>1, <2>2, <2>3, TypeInvLocal
  <1>5. ASSUME NEW s \in Sessions, NEW i \in Items, NEW r \in Requests,
               NEW o \in Outcomes, NEW performedAt \in Times,
               StartRecord(s, i, r, o, performedAt)
        PROVE  TypeInv'
    <2> DEFINE c == [Idle EXCEPT !.pc = "located", !.item = i, !.request = r,
                !.outcome = o, !.performedAt = performedAt, !.zone = zone]
    <2>1. c \in TxRecord
      BY <1>0, IdleTyped DEF TxRecord, Places
    <2>2. /\ tx' = [tx EXCEPT ![s] = c]
          /\ UNCHANGED <<items, logs, zone, clock>>
      BY <1>5 DEF StartRecord
    <2>3. SessionTyped(s)' /\ DraftTyped(s)'
      BY <2>2, <1>0 DEF SessionTyped, DraftTyped, Idle, InTransaction
    <2> QED
      BY <2>1, <2>2, <2>3, TypeInvLocal
  <1>6. ASSUME NEW s \in Sessions, BeginRecord(s)
        PROVE  TypeInv'
    <2> DEFINE c == [tx[s] EXCEPT !.pc = "begun", !.now = clock]
    <2>1. c \in TxRecord
      BY <1>0, <1>00 DEF TxRecord, Places
    <2>2. /\ tx' = [tx EXCEPT ![s] = c] /\ tx[s].pc = "located"
          /\ UNCHANGED <<items, logs, zone, clock>>
      BY <1>6, <1>0 DEF BeginRecord, TxRecord
    <2>3. SessionTyped(s)' /\ DraftTyped(s)'
      BY <2>2, <1>0 DEF TypeInv, SessionTyped, DraftTyped, TxRecord, InTransaction
    <2> QED
      BY <2>1, <2>2, <2>3, TypeInvLocal
  <1>7. ASSUME NEW s \in Sessions, LockReviewItem(s)
        PROVE  TypeInv'
    <2>1. /\ tx' = [tx EXCEPT ![s].pc = "locked"]
          /\ UNCHANGED <<items, logs, zone, clock>>
      BY <1>7 DEF LockReviewItem
    <2>2. SessionTyped(s)' /\ DraftTyped(s)'
      BY <2>1, <1>0, <1>7 DEF LockReviewItem, TypeInv, SessionTyped, DraftTyped, TxRecord, InTransaction
    <2> QED
      BY <2>1, <2>2, TypeInvMove DEF Places
  <1>8. ASSUME NEW s \in Sessions, ReplayRequest(s)
        PROVE  TypeInv'
    <2>1. PICK l \in logs : tx' = [tx EXCEPT ![s].pc = "answered", ![s].log = l]
      BY <1>8 DEF ReplayRequest
    <2> DEFINE c == [tx[s] EXCEPT !.pc = "answered", !.log = l]
    <2>2. l \in Log
      BY <2>1 DEF TypeInv, TypeOK
    <2>3. c \in TxRecord
      BY <1>0, <2>2 DEF TxRecord, Places
    <2>4. /\ tx' = [tx EXCEPT ![s] = c] /\ tx[s].pc = "locked"
          /\ UNCHANGED <<items, logs, zone, clock>>
      BY <1>8, <1>0, <2>1 DEF ReplayRequest, TxRecord
    <2>5. SessionTyped(s)' /\ DraftTyped(s)'
      BY <2>4, <1>0 DEF TypeInv, SessionTyped, DraftTyped, TxRecord, InTransaction
    <2> QED
      BY <2>3, <2>4, <2>5, TypeInvLocal
  <1>9. ASSUME NEW s \in Sessions, RejectReusedRequest(s)
        PROVE  TypeInv'
    <2>1. /\ tx' = [tx EXCEPT ![s].pc = "conflict"]
          /\ UNCHANGED <<items, logs, zone, clock>>
      BY <1>9 DEF RejectReusedRequest
    <2>2. SessionTyped(s)' /\ DraftTyped(s)'
      BY <2>1, <1>0, <1>9 DEF RejectReusedRequest, TypeInv, SessionTyped, DraftTyped, TxRecord, InTransaction
    <2> QED
      BY <2>1, <2>2, TypeInvMove DEF Places
  <1>10. ASSUME NEW s \in Sessions, RefuseRecord(s)
        PROVE  TypeInv'
    <2>1. /\ tx' = [tx EXCEPT ![s].pc = "refused"]
          /\ UNCHANGED <<items, logs, zone, clock>>
      BY <1>10 DEF RefuseRecord
    <2>2. SessionTyped(s)' /\ DraftTyped(s)'
      BY <2>1, <1>0, <1>10 DEF RefuseRecord, TypeInv, SessionTyped, DraftTyped, TxRecord, InTransaction
    <2> QED
      BY <2>1, <2>2, TypeInvMove DEF Places
  <1>11. ASSUME NEW s \in Sessions, UpdateReviewItemSchedule(s)
         PROVE  TypeInv'
    <2> DEFINE i == tx[s].item
               before == items[i].sched
    <2>1. PICK interval \in Intervals :
            tx' = [tx EXCEPT ![s].pc = "updated",
                ![s].sched = ScheduleAfter(before, tx[s].outcome,
                                 tx[s].performedAt, tx[s].zone, interval),
                ![s].log = LogOf(i, tx[s].request, tx[s].outcome,
                                 tx[s].performedAt, tx[s].now, tx[s].zone,
                                 before, interval)]
      BY <1>11 DEF UpdateReviewItemSchedule
    <2> DEFINE next == ScheduleAfter(before, tx[s].outcome, tx[s].performedAt,
                                     tx[s].zone, interval)
               log == LogOf(i, tx[s].request, tx[s].outcome, tx[s].performedAt,
                            tx[s].now, tx[s].zone, before, interval)
               c == [tx[s] EXCEPT !.pc = "updated", !.sched = next, !.log = log]
    <2>2. tx[s].pc = "locked" /\ UNCHANGED <<items, logs, zone, clock>>
      BY <1>11 DEF UpdateReviewItemSchedule
    <2>3. /\ i \in Items /\ tx[s].request \in Requests
          /\ tx[s].outcome \in Outcomes /\ tx[s].performedAt \in Times
          /\ tx[s].zone \in Zones /\ tx[s].now \in StartTime .. clock
      BY <2>2 DEF TypeInv, SessionTyped, InTransaction
    <2>4. /\ before \in Schedule /\ StateValid(before)
          /\ tx[s].performedAt \in Nat /\ tx[s].now \in Nat
      BY <1>0, <1>00, <2>3, ReviewItemAssumption, ReviewStoreAssumption
      DEF Row, Times
    <2>5. next \in Schedule /\ StateValid(next)
      BY <2>3, <2>4, ScheduleAfterType
    <2>6. log \in Log
      BY <2>3, <2>4, LogOfType
    <2>7. log.item = i /\ log.request = tx[s].request
      BY DEF LogOf
    <2> HIDE DEF next, log
    <2>8. c \in TxRecord
      BY <1>0, <2>5, <2>6 DEF TxRecord, Places
    <2>9. tx' = [tx EXCEPT ![s] = c]
      BY <1>0, <2>1 DEF TxRecord, next, log
    <2>10. SessionTyped(s)' /\ DraftTyped(s)'
      BY <2>2, <2>5, <2>6, <2>7, <2>9, <1>0
      DEF TypeInv, SessionTyped, DraftTyped, TxRecord, InTransaction
    <2> QED
      BY <2>2, <2>8, <2>9, <2>10, TypeInvLocal
  <1>12. ASSUME NEW s \in Sessions, CreateReviewLog(s)
        PROVE  TypeInv'
    <2>1. /\ tx' = [tx EXCEPT ![s].pc = "inserted"]
          /\ UNCHANGED <<items, logs, zone, clock>>
      BY <1>12 DEF CreateReviewLog
    <2>2. SessionTyped(s)' /\ DraftTyped(s)'
      BY <2>1, <1>0, <1>12 DEF CreateReviewLog, TypeInv, SessionTyped, DraftTyped, TxRecord, InTransaction
    <2> QED
      BY <2>1, <2>2, TypeInvMove DEF Places
  <1>13. ASSUME NEW s \in Sessions, CreateReviewLogConflict(s)
         PROVE  TypeInv'
    <2> DEFINE c == [tx[s] EXCEPT !.pc = "conflict", !.sched = None, !.log = None]
    <2>1. c \in TxRecord
      BY <1>0 DEF TxRecord, Places
    <2>2. /\ tx' = [tx EXCEPT ![s] = c] /\ tx[s].pc = "updated"
          /\ UNCHANGED <<items, logs, zone, clock>>
      BY <1>13, <1>0 DEF CreateReviewLogConflict, TxRecord
    <2>3. SessionTyped(s)' /\ DraftTyped(s)'
      BY <2>2, <1>0 DEF TypeInv, SessionTyped, DraftTyped, TxRecord, InTransaction
    <2> QED
      BY <2>1, <2>2, <2>3, TypeInvLocal
  <1>14. ASSUME NEW s \in Sessions, CommitRecord(s)
         PROVE  TypeInv'
    <2> DEFINE i == tx[s].item
    <2>1. /\ tx[s].pc = "inserted"
          /\ items' = [items EXCEPT ![i].sched = tx[s].sched]
          /\ logs' = logs \cup {tx[s].log}
          /\ tx' = [tx EXCEPT ![s].pc = "answered"]
          /\ UNCHANGED <<zone, clock>>
      BY <1>14 DEF CommitRecord, ItemsAfterCommit
    <2>2. /\ i \in Items
          /\ tx[s].sched \in Schedule /\ StateValid(tx[s].sched)
          /\ tx[s].log \in Log
      BY <2>1 DEF TypeInv, SessionTyped, DraftTyped
    <2>3. /\ items' \in [Items -> Row]
          /\ \A j \in Items : /\ StateValid(items'[j].sched)
                              /\ items'[j].pausedAt = items[j].pausedAt
      BY <1>0, <2>1, <2>2 DEF Row
    <2>4. tx' \in [Sessions -> TxRecord]
      BY <1>0, <2>1 DEF TxRecord, Places
    <2>5. TypeOK'
      BY <1>0, <2>1, <2>2, <2>3, <2>4 DEF TypeInv, TypeOK, TxRecord
    <2>6. \A p \in Sessions : SessionTyped(p)' /\ DraftTyped(p)'
      BY <1>0, <2>1 DEF TypeInv, SessionTyped, DraftTyped, TxRecord, InTransaction
    <2>7. PausesReached'
      BY <2>1, <2>3 DEF TypeInv, PausesReached
    <2> QED
      BY <2>5, <2>6, <2>7 DEF TypeInv
  <1>15. ASSUME NEW s \in Sessions, AbortRecord(s)
        PROVE  TypeInv'
    BY <1>15, TypeInvEnd DEF AbortRecord
  <1>16. ASSUME NEW s \in Sessions, AbortPause(s)
        PROVE  TypeInv'
    BY <1>16, TypeInvEnd DEF AbortPause
  <1>17. ASSUME NEW s \in Sessions, Reply(s)
        PROVE  TypeInv'
    BY <1>17, TypeInvEnd DEF Reply
  <1>18. ASSUME NEW s \in Sessions, UpdateReviewItemPausedAt(s)
         PROVE  TypeInv'
    <2> DEFINE i == tx[s].item
               p == tx[s].pausedAt
    <2>1. /\ tx[s].pc = "pausing"
          /\ items' = [items EXCEPT ![i].pausedAt = p]
          /\ tx' = [tx EXCEPT ![s] = Idle]
          /\ UNCHANGED <<logs, zone, clock>>
      BY <1>18 DEF UpdateReviewItemPausedAt
    <2>2. i \in Items /\ (p = None \/ p \in StartTime .. clock)
      BY <2>1 DEF TypeInv, SessionTyped
    <2>3. p \in Nat \cup {None}
      BY <1>0 DEF TxRecord
    <2>4. /\ items' \in [Items -> Row]
          /\ \A j \in Items : StateValid(items'[j].sched)
      BY <1>0, <2>1, <2>2, <2>3 DEF Row
    <2>5. tx' \in [Sessions -> TxRecord]
      BY <1>0, <2>1, IdleTyped
    <2>6. TypeOK'
      BY <1>0, <2>1, <2>4, <2>5 DEF TypeInv, TypeOK, TxRecord
    <2>7. \A q \in Sessions : SessionTyped(q)' /\ DraftTyped(q)'
      BY <1>0, <2>1 DEF TypeInv, SessionTyped, DraftTyped, InTransaction, Idle
    <2>8. PausesReached'
      BY <1>0, <2>1, <2>2 DEF TypeInv, PausesReached, Row
    <2> QED
      BY <2>6, <2>7, <2>8 DEF TypeInv
  <1>19. CASE UNCHANGED vars
    BY <1>19 DEF vars, TypeInv, TypeOK, SessionTyped, DraftTyped, PausesReached
  <1> QED
    BY <1>1, <1>2, <1>3, <1>4, <1>5, <1>6, <1>7, <1>8, <1>9, <1>10, <1>11,
       <1>12, <1>13, <1>14, <1>15, <1>16, <1>17, <1>18, <1>19
    DEF Next, Start, Serve, Decide, Insert

\* Every variable always has its type, and every row is one the database
\* accepts and RehydrateReviewItem reads back.
THEOREM TypeCorrect == Spec => []TypeOK
  <1>1. Spec => []TypeInv
    BY TypeInvInit, TypeInvStep, PTL DEF Spec
  <1>2. TypeInv => TypeOK
    BY DEF TypeInv
  <1> QED
    BY <1>1, <1>2, PTL

-----------------------------------------------------------------------------
(* Row locks, and what a session that holds one knows of the row. *)

InLock == {"locked", "updated", "inserted"}

\* A row is locked by at most one session.
LocksExclusive ==
    \A s, p \in Sessions : \A i \in Items : Holds(s, i) /\ Holds(p, i) => s = p

DraftOf(s, interval) ==
    LET c == tx[s]
        before == items[c.item].sched
    IN  /\ c.sched = ScheduleAfter(before, c.outcome, c.performedAt, c.zone, interval)
        /\ c.log = LogOf(c.item, c.request, c.outcome, c.performedAt, c.now,
                         c.zone, before, interval)

\* The row and the log a session is about to commit were computed from the row
\* as it still is, and the row still accepts the attempt.
DraftsCurrent ==
    \A s \in Sessions : tx[s].pc \in {"updated", "inserted"} =>
        /\ ~RefusedNow(s)
        /\ \E interval \in Intervals : DraftOf(s, interval)

\* The request of a log, committed or about to be, is that of no other.
RequestsDistinct ==
    /\ RequestRecordedOnce
    /\ \A s \in Sessions : tx[s].pc = "inserted" => ~RequestCommitted(tx[s].request)
    /\ \A s, p \in Sessions :
            /\ tx[s].pc = "inserted" /\ tx[p].pc = "inserted"
            /\ tx[s].request = tx[p].request
            => s = p

StoreInv == TypeInv /\ LocksExclusive /\ DraftsCurrent /\ RequestsDistinct

\* Steps that neither touch the tables nor bring a session into, or further
\* along, the part of a transaction that holds a lock.
Quiet ==
    /\ UNCHANGED <<items, logs>>
    /\ \A p \in Sessions : tx'[p] = tx[p] \/ tx'[p].pc \notin InLock

LEMMA StepKinds ==
    ASSUME TypeInv, [Next]_vars
    PROVE  \/ Quiet
           \/ \E s \in Sessions :
                \/ LockReviewItem(s) \/ UpdateReviewItemSchedule(s)
                \/ CreateReviewLog(s) \/ CommitRecord(s)
                \/ UpdateReviewItemPausedAt(s)
  <1>0. tx \in [Sessions -> TxRecord]
    BY DEF TypeInv, TypeOK, TxRecord
  <1>1. CASE UNCHANGED vars \/ Tick \/ UpdateTimeZone
    BY <1>1 DEF vars, Tick, UpdateTimeZone, Quiet
  <1>2. ASSUME NEW s \in Sessions, Start(s)
        PROVE  Quiet
    <2>1. /\ tx'[s].pc \in {"pausing", "located"}
          /\ \A p \in Sessions \ {s} : tx'[p] = tx[p]
      <3>1. ASSUME NEW i \in Items, StartPause(s, i)
            PROVE  tx'[s].pc = "pausing" /\ \A p \in Sessions \ {s} : tx'[p] = tx[p]
        BY <1>0, <3>1 DEF StartPause, Idle
      <3>2. ASSUME NEW i \in Items, StartResume(s, i)
            PROVE  tx'[s].pc = "pausing" /\ \A p \in Sessions \ {s} : tx'[p] = tx[p]
        BY <1>0, <3>2 DEF StartResume, Idle
      <3>3. ASSUME NEW i \in Items, NEW r \in Requests, NEW o \in Outcomes,
                   NEW performedAt \in Times, StartRecord(s, i, r, o, performedAt)
            PROVE  tx'[s].pc = "located" /\ \A p \in Sessions \ {s} : tx'[p] = tx[p]
        BY <1>0, <3>3 DEF StartRecord, Idle
      <3> QED
        BY <1>2, <3>1, <3>2, <3>3 DEF Start
    <2>2. UNCHANGED <<items, logs>>
      BY <1>2 DEF Start, StartPause, StartResume, StartRecord
    <2> QED
      BY <2>1, <2>2 DEF Quiet, InLock
  <1>3. ASSUME NEW s \in Sessions,
               \/ BeginRecord(s) \/ RejectReusedRequest(s)
               \/ RefuseRecord(s) \/ CreateReviewLogConflict(s)
        PROVE  Quiet
    BY <1>0, <1>3
    DEF BeginRecord, RejectReusedRequest, RefuseRecord,
        CreateReviewLogConflict, Quiet, InLock, TxRecord
  <1>4. ASSUME NEW s \in Sessions, ReplayRequest(s)
        PROVE  Quiet
    BY <1>0, <1>4 DEF ReplayRequest, Quiet, InLock, TxRecord
  <1>5. ASSUME NEW s \in Sessions, AbortRecord(s) \/ AbortPause(s) \/ Reply(s)
        PROVE  Quiet
    BY <1>0, <1>5 DEF AbortRecord, AbortPause, Reply, Quiet, InLock, Idle
  <1> QED
    BY <1>1, <1>2, <1>3, <1>4, <1>5 DEF Next, Serve, Decide, Insert

LEMMA StoreInvInit == Init => StoreInv
  <1> SUFFICES ASSUME Init PROVE StoreInv
    OBVIOUS
  <1>1. \A s \in Sessions : tx[s].pc = "idle"
    BY DEF Init, Idle
  <1> QED
    BY <1>1, TypeInvInit
    DEF StoreInv, LocksExclusive, DraftsCurrent, RequestsDistinct, Holds,
        RequestRecordedOnce, Init

LEMMA StoreInvStep == StoreInv /\ [Next]_vars => StoreInv'
  <1> SUFFICES ASSUME StoreInv, [Next]_vars
               PROVE  StoreInv'
    OBVIOUS
  <1>0. /\ tx \in [Sessions -> TxRecord] /\ items \in [Items -> Row]
        /\ TypeInv /\ TypeInv'
    BY TypeInvStep DEF StoreInv, TypeInv, TypeOK, TxRecord
  <1>1. CASE Quiet
    <2>1. LocksExclusive'
      BY <1>1 DEF StoreInv, LocksExclusive, Holds, Quiet, InLock
    <2>2. DraftsCurrent'
      <3> SUFFICES ASSUME NEW s \in Sessions, tx'[s].pc \in {"updated", "inserted"}
                   PROVE  /\ ~RefusedNow(s)'
                          /\ \E interval \in Intervals : DraftOf(s, interval)'
        BY DEF DraftsCurrent
      <3>1. tx'[s] = tx[s] /\ items' = items
        BY <1>1 DEF Quiet, InLock
      <3> QED
        BY <3>1 DEF StoreInv, DraftsCurrent, RefusedNow, DraftOf
    <2>3. RequestsDistinct'
      BY <1>1 DEF StoreInv, RequestsDistinct, RequestRecordedOnce, RequestCommitted,
                  Quiet, InLock
    <2> QED
      BY <1>0, <2>1, <2>2, <2>3 DEF StoreInv
  <1>2. ASSUME NEW s \in Sessions, LockReviewItem(s)
        PROVE  StoreInv'
    <2>1. /\ tx[s].pc = "begun" /\ RowLockFree(tx[s].item)
          /\ tx' = [tx EXCEPT ![s].pc = "locked"]
          /\ UNCHANGED <<items, logs>>
      BY <1>2 DEF LockReviewItem
    <2>2. /\ tx'[s].pc = "locked" /\ tx'[s].item = tx[s].item
          /\ \A p \in Sessions \ {s} : tx'[p] = tx[p]
      BY <1>0, <2>1 DEF TxRecord
    <2>3. LocksExclusive'
      BY <2>1, <2>2 DEF StoreInv, LocksExclusive, Holds, RowLockFree
    <2>4. DraftsCurrent'
      <3> SUFFICES ASSUME NEW p \in Sessions, tx'[p].pc \in {"updated", "inserted"}
                   PROVE  /\ ~RefusedNow(p)'
                          /\ \E interval \in Intervals : DraftOf(p, interval)'
        BY DEF DraftsCurrent
      <3>1. tx'[p] = tx[p] /\ items' = items
        BY <2>1, <2>2
      <3> QED
        BY <3>1 DEF StoreInv, DraftsCurrent, RefusedNow, DraftOf
    <2>5. RequestsDistinct'
      BY <2>1, <2>2 DEF StoreInv, RequestsDistinct, RequestRecordedOnce, RequestCommitted
    <2> QED
      BY <1>0, <2>3, <2>4, <2>5 DEF StoreInv
  <1>3. ASSUME NEW s \in Sessions, UpdateReviewItemSchedule(s)
        PROVE  StoreInv'
    <2>1. PICK interval \in Intervals :
            tx' = [tx EXCEPT ![s].pc = "updated",
                ![s].sched = ScheduleAfter(items[tx[s].item].sched, tx[s].outcome,
                                 tx[s].performedAt, tx[s].zone, interval),
                ![s].log = LogOf(tx[s].item, tx[s].request, tx[s].outcome,
                                 tx[s].performedAt, tx[s].now, tx[s].zone,
                                 items[tx[s].item].sched, interval)]
      BY <1>3 DEF UpdateReviewItemSchedule
    <2>2. /\ tx[s].pc = "locked" /\ ~RefusedNow(s)
          /\ UNCHANGED <<items, logs>>
      BY <1>3 DEF UpdateReviewItemSchedule
    <2>3. /\ tx'[s].pc = "updated"
          /\ tx'[s].sched = ScheduleAfter(items[tx[s].item].sched, tx[s].outcome,
                                 tx[s].performedAt, tx[s].zone, interval)
          /\ tx'[s].log = LogOf(tx[s].item, tx[s].request, tx[s].outcome,
                                 tx[s].performedAt, tx[s].now, tx[s].zone,
                                 items[tx[s].item].sched, interval)
          /\ tx'[s].item = tx[s].item /\ tx'[s].request = tx[s].request
          /\ tx'[s].outcome = tx[s].outcome /\ tx'[s].zone = tx[s].zone
          /\ tx'[s].performedAt = tx[s].performedAt /\ tx'[s].now = tx[s].now
          /\ \A p \in Sessions \ {s} : tx'[p] = tx[p]
      BY <1>0, <2>1 DEF TxRecord
    <2>4. LocksExclusive'
      BY <2>2, <2>3 DEF StoreInv, LocksExclusive, Holds
    <2>5. DraftsCurrent'
      <3> SUFFICES ASSUME NEW p \in Sessions, tx'[p].pc \in {"updated", "inserted"}
                   PROVE  /\ ~RefusedNow(p)'
                          /\ \E d \in Intervals : DraftOf(p, d)'
        BY DEF DraftsCurrent
      <3>1. CASE p = s
        <4>1. DraftOf(p, interval)'
          BY <2>2, <2>3, <3>1 DEF DraftOf
        <4>2. ~RefusedNow(p)'
          BY <2>2, <2>3, <3>1 DEF RefusedNow
        <4> QED
          BY <4>1, <4>2
      <3>2. CASE p # s
        <4>1. tx'[p] = tx[p] /\ items' = items
          BY <2>2, <2>3, <3>2
        <4> QED
          BY <4>1 DEF StoreInv, DraftsCurrent, RefusedNow, DraftOf
      <3> QED
        BY <3>1, <3>2
    <2>6. RequestsDistinct'
      BY <2>2, <2>3 DEF StoreInv, RequestsDistinct, RequestRecordedOnce, RequestCommitted
    <2> QED
      BY <1>0, <2>4, <2>5, <2>6 DEF StoreInv
  <1>4. ASSUME NEW s \in Sessions, CreateReviewLog(s)
        PROVE  StoreInv'
    <2>1. /\ tx[s].pc = "updated" /\ tx' = [tx EXCEPT ![s].pc = "inserted"]
          /\ ~RequestPending(s, tx[s].request) /\ ~RequestCommitted(tx[s].request)
          /\ UNCHANGED <<items, logs>>
      BY <1>4 DEF CreateReviewLog
    <2>2. /\ tx'[s] = [tx[s] EXCEPT !.pc = "inserted"]
          /\ tx'[s].pc = "inserted"
          /\ tx'[s].sched = tx[s].sched /\ tx'[s].log = tx[s].log
          /\ tx'[s].item = tx[s].item /\ tx'[s].request = tx[s].request
          /\ tx'[s].outcome = tx[s].outcome /\ tx'[s].zone = tx[s].zone
          /\ tx'[s].performedAt = tx[s].performedAt /\ tx'[s].now = tx[s].now
          /\ \A p \in Sessions \ {s} : tx'[p] = tx[p]
      BY <1>0, <2>1 DEF TxRecord
    <2>3. LocksExclusive'
      BY <2>1, <2>2 DEF StoreInv, LocksExclusive, Holds
    <2>4. DraftsCurrent'
      <3> SUFFICES ASSUME NEW p \in Sessions, tx'[p].pc \in {"updated", "inserted"}
                   PROVE  /\ ~RefusedNow(p)'
                          /\ \E d \in Intervals : DraftOf(p, d)'
        BY DEF DraftsCurrent
      <3>1. tx[p].pc \in {"updated", "inserted"}
        BY <2>1, <2>2
      <3>2. RefusedNow(p)' <=> RefusedNow(p)
        BY <2>1, <2>2 DEF RefusedNow
      <3>3. \A d : DraftOf(p, d)' <=> DraftOf(p, d)
        BY <2>1, <2>2 DEF DraftOf
      <3> QED
        BY <3>1, <3>2, <3>3 DEF StoreInv, DraftsCurrent
    <2>5. RequestsDistinct'
      BY <2>1, <2>2
      DEF StoreInv, RequestsDistinct, RequestRecordedOnce, RequestCommitted, RequestPending
    <2> QED
      BY <1>0, <2>3, <2>4, <2>5 DEF StoreInv
  <1>5. ASSUME NEW s \in Sessions, CommitRecord(s)
        PROVE  StoreInv'
    <2>1. /\ tx[s].pc = "inserted"
          /\ items' = [items EXCEPT ![tx[s].item].sched = tx[s].sched]
          /\ logs' = logs \cup {tx[s].log}
          /\ tx' = [tx EXCEPT ![s].pc = "answered"]
      BY <1>5 DEF CommitRecord, ItemsAfterCommit
    <2>2. /\ tx'[s].pc = "answered"
          /\ \A p \in Sessions \ {s} : tx'[p] = tx[p]
          /\ tx[s].log.request = tx[s].request
      BY <1>0, <2>1 DEF TxRecord, TypeInv, DraftTyped
    <2>3. LocksExclusive'
      BY <2>2 DEF StoreInv, LocksExclusive, Holds
    <2>4. DraftsCurrent'
      <3> SUFFICES ASSUME NEW p \in Sessions, tx'[p].pc \in {"updated", "inserted"}
                   PROVE  /\ ~RefusedNow(p)'
                          /\ \E d \in Intervals : DraftOf(p, d)'
        BY DEF DraftsCurrent
      <3>1. p # s /\ tx'[p] = tx[p]
        BY <2>2
      <3>2. tx[p].item \in Items /\ tx[p].item # tx[s].item
        BY <1>0, <2>1, <3>1
        DEF TypeInv, SessionTyped, StoreInv, LocksExclusive, Holds
      <3>3. items'[tx[p].item] = items[tx[p].item]
        BY <1>0, <2>1, <3>2
      <3>4. RefusedNow(p)' <=> RefusedNow(p)
        BY <3>1, <3>3 DEF RefusedNow
      <3>5. \A d : DraftOf(p, d)' <=> DraftOf(p, d)
        BY <3>1, <3>3 DEF DraftOf
      <3> QED
        BY <3>1, <3>4, <3>5 DEF StoreInv, DraftsCurrent
    <2>5. RequestsDistinct'
      BY <2>1, <2>2
      DEF StoreInv, RequestsDistinct, RequestRecordedOnce, RequestCommitted
    <2> QED
      BY <1>0, <2>3, <2>4, <2>5 DEF StoreInv
  <1>6. ASSUME NEW s \in Sessions, UpdateReviewItemPausedAt(s)
        PROVE  StoreInv'
    <2>1. /\ tx[s].pc = "pausing" /\ RowLockFree(tx[s].item)
          /\ items' = [items EXCEPT ![tx[s].item].pausedAt = tx[s].pausedAt]
          /\ tx' = [tx EXCEPT ![s] = Idle]
          /\ logs' = logs
      BY <1>6 DEF UpdateReviewItemPausedAt, UpdateNotBlocked
    <2>2. /\ tx'[s].pc = "idle"
          /\ \A p \in Sessions \ {s} : tx'[p] = tx[p]
      BY <1>0, <2>1 DEF Idle
    <2>3. LocksExclusive'
      BY <2>2 DEF StoreInv, LocksExclusive, Holds
    <2>4. DraftsCurrent'
      <3> SUFFICES ASSUME NEW p \in Sessions, tx'[p].pc \in {"updated", "inserted"}
                   PROVE  /\ ~RefusedNow(p)'
                          /\ \E d \in Intervals : DraftOf(p, d)'
        BY DEF DraftsCurrent
      <3>1. p # s /\ tx'[p] = tx[p]
        BY <2>2
      <3>2. tx[p].item \in Items /\ tx[p].item # tx[s].item
        BY <1>0, <2>1, <3>1 DEF TypeInv, SessionTyped, RowLockFree, Holds
      <3>3. items'[tx[p].item] = items[tx[p].item]
        BY <1>0, <2>1, <3>2
      <3>4. RefusedNow(p)' <=> RefusedNow(p)
        BY <3>1, <3>3 DEF RefusedNow
      <3>5. \A d : DraftOf(p, d)' <=> DraftOf(p, d)
        BY <3>1, <3>3 DEF DraftOf
      <3> QED
        BY <3>1, <3>4, <3>5 DEF StoreInv, DraftsCurrent
    <2>5. RequestsDistinct'
      BY <2>1, <2>2
      DEF StoreInv, RequestsDistinct, RequestRecordedOnce, RequestCommitted
    <2> QED
      BY <1>0, <2>3, <2>4, <2>5 DEF StoreInv
  <1> QED
    BY <1>0, <1>1, <1>2, <1>3, <1>4, <1>5, <1>6, StepKinds

LEMMA StoreInvariant == Spec => []StoreInv
  BY StoreInvInit, StoreInvStep, PTL DEF Spec

\* A request id yields at most one log, for any number of calls, items and
\* retries and whatever is interrupted.
THEOREM RequestsRecordedOnce == Spec => []RequestRecordedOnce
  <1>1. StoreInv => RequestRecordedOnce
    BY DEF StoreInv, RequestsDistinct
  <1> QED
    BY <1>1, StoreInvariant, PTL

-----------------------------------------------------------------------------
(* Answers and refusals. *)

\* Logs are never changed or removed, and an answer stems from a replay or from
\* a commit.
LEMMA AnswerSteps ==
    ASSUME StoreInv, [Next]_vars, NEW s \in Sessions, tx'[s].pc = "answered"
    PROVE  /\ logs \subseteq logs'
           /\ tx'[s] = tx[s] \/ ReplayRequest(s) \/ CommitRecord(s)
  <1>0. tx \in [Sessions -> TxRecord]
    BY DEF StoreInv, TypeInv, TypeOK, TxRecord
  <1>1. CASE UNCHANGED vars \/ Tick \/ UpdateTimeZone
    BY <1>1 DEF vars, Tick, UpdateTimeZone
  <1>2. ASSUME NEW p \in Sessions, Start(p)
        PROVE  logs' = logs /\ tx'[s] = tx[s]
    <2>1. ASSUME NEW i \in Items, StartPause(p, i) \/ StartResume(p, i)
          PROVE  tx'[s] = tx[s]
      BY <1>0, <2>1 DEF StartPause, StartResume, Idle
    <2>2. ASSUME NEW i \in Items, NEW r \in Requests, NEW o \in Outcomes,
                 NEW performedAt \in Times, StartRecord(p, i, r, o, performedAt)
          PROVE  tx'[s] = tx[s]
      BY <1>0, <2>2 DEF StartRecord, Idle
    <2>3. logs' = logs
      BY <1>2 DEF Start, StartPause, StartResume, StartRecord
    <2> QED
      BY <1>2, <2>1, <2>2, <2>3 DEF Start
  <1>3. ASSUME NEW p \in Sessions,
               \/ BeginRecord(p) \/ LockReviewItem(p) \/ RejectReusedRequest(p)
               \/ RefuseRecord(p) \/ CreateReviewLog(p)
        PROVE  logs' = logs /\ tx'[s] = tx[s]
    BY <1>0, <1>3
    DEF BeginRecord, LockReviewItem, RejectReusedRequest, RefuseRecord,
        CreateReviewLog, TxRecord
  <1>4. ASSUME NEW p \in Sessions,
               UpdateReviewItemSchedule(p) \/ CreateReviewLogConflict(p)
        PROVE  logs' = logs /\ tx'[s] = tx[s]
    <2>1. CASE CreateReviewLogConflict(p)
      BY <1>0, <2>1 DEF CreateReviewLogConflict, TxRecord
    <2>2. CASE UpdateReviewItemSchedule(p)
      <3>1. PICK next, log :
              tx' = [tx EXCEPT ![p].pc = "updated", ![p].sched = next, ![p].log = log]
        BY <2>2 DEF UpdateReviewItemSchedule
      <3>2. p # s
        BY <1>0, <3>1 DEF TxRecord
      <3> QED
        BY <1>0, <2>2, <3>1, <3>2 DEF UpdateReviewItemSchedule
    <2> QED
      BY <1>4, <2>1, <2>2
  <1>5. ASSUME NEW p \in Sessions,
               \/ AbortRecord(p) \/ AbortPause(p) \/ Reply(p)
               \/ UpdateReviewItemPausedAt(p)
        PROVE  logs' = logs /\ tx'[s] = tx[s]
    BY <1>0, <1>5 DEF AbortRecord, AbortPause, Reply, UpdateReviewItemPausedAt, Idle
  <1>6. ASSUME NEW p \in Sessions, ReplayRequest(p) \/ CommitRecord(p)
        PROVE  logs \subseteq logs' /\ (p = s \/ tx'[s] = tx[s])
    BY <1>0, <1>6 DEF ReplayRequest, CommitRecord, TxRecord
  <1> QED
    BY <1>1, <1>2, <1>3, <1>4, <1>5, <1>6 DEF Next, Serve, Decide, Insert

LEMMA AnsweredStep ==
    StoreInv /\ AnsweredIsRecorded /\ [Next]_vars => AnsweredIsRecorded'
  <1> SUFFICES ASSUME StoreInv, AnsweredIsRecorded, [Next]_vars,
                      NEW s \in Sessions, tx'[s].pc = "answered"
               PROVE  /\ tx'[s].log \in logs'
                      /\ tx'[s].log.request = tx'[s].request
                      /\ tx'[s].log.item = tx'[s].item
    BY DEF AnsweredIsRecorded
  <1>0. tx \in [Sessions -> TxRecord]
    BY DEF StoreInv, TypeInv, TypeOK, TxRecord
  <1>1. CASE tx'[s] = tx[s]
    BY <1>1, AnswerSteps DEF AnsweredIsRecorded
  <1>2. CASE ReplayRequest(s)
    BY <1>0, <1>2 DEF ReplayRequest, TxRecord
  <1>3. CASE CommitRecord(s)
    BY <1>0, <1>3 DEF CommitRecord, TxRecord, StoreInv, TypeInv, DraftTyped
  <1> QED
    BY <1>1, <1>2, <1>3, AnswerSteps

\* Whatever a client is told of is in the table, under its request and item.
THEOREM AnswersAreRecorded == Spec => []AnsweredIsRecorded
  <1>1. Init => AnsweredIsRecorded
    BY DEF Init, Idle, AnsweredIsRecorded
  <1> QED
    BY <1>1, AnsweredStep, StoreInvariant, PTL DEF Spec

\* Only a commit adds a log, and it adds that of a row which accepts it.
LEMMA CommitOnActiveRow ==
    ASSUME StoreInv, [Next]_vars, NEW l \in logs' \ logs
    PROVE  \E s \in Sessions :
             CommitRecord(s) /\ l = tx[s].log /\ ~RefusedNow(s)
  <1>1. PICK s \in Sessions : CommitRecord(s)
    <2>1. ASSUME NEW s \in Sessions,
                 \/ LockReviewItem(s) \/ UpdateReviewItemSchedule(s)
                 \/ CreateReviewLog(s) \/ UpdateReviewItemPausedAt(s)
          PROVE  FALSE
      BY <2>1 DEF LockReviewItem, UpdateReviewItemSchedule, CreateReviewLog,
                  UpdateReviewItemPausedAt
    <2>2. ~Quiet
      BY DEF Quiet
    <2> QED
      BY <2>1, <2>2, StepKinds DEF StoreInv
  <1>2. l = tx[s].log /\ tx[s].pc = "inserted"
    BY <1>1 DEF CommitRecord
  <1> QED
    BY <1>1, <1>2 DEF StoreInv, DraftsCurrent

\* No attempt is recorded on a paused item, however pauses and records overlap.
THEOREM RecordsOnlyWhileActive == Spec => RecordOnlyWhileActive
  <1>1. ASSUME StoreInv, [Next]_vars, NEW l \in logs' \ logs
        PROVE  ~Paused(items[l.item]) /\ ~Paused(items'[l.item])
    <2>1. PICK s \in Sessions : CommitRecord(s) /\ l = tx[s].log /\ ~RefusedNow(s)
      BY <1>1, CommitOnActiveRow
    <2>2. /\ l.item = tx[s].item /\ tx[s].item \in Items
          /\ items \in [Items -> Row]
          /\ items' = [items EXCEPT ![tx[s].item].sched = tx[s].sched]
      BY <1>1, <2>1
      DEF StoreInv, TypeInv, TypeOK, SessionTyped, DraftTyped, CommitRecord,
          ItemsAfterCommit
    <2>3. items'[l.item].pausedAt = items[l.item].pausedAt
      BY <2>2 DEF Row
    <2> QED
      BY <2>1, <2>2, <2>3 DEF RefusedNow, Refused, Paused
  <1>2. StoreInv /\ [Next]_vars =>
            [\A l \in logs' \ logs :
                ~Paused(items[l.item]) /\ ~Paused(items'[l.item])]_vars
    BY <1>1
  <1> QED
    BY <1>2, StoreInvariant, PTL DEF Spec, RecordOnlyWhileActive


\* Between its lookup and its commit a session's request is not recorded for
\* its item by anyone else: the row lock keeps them out.
RetryInv ==
    \A s \in Sessions : tx[s].pc \in {"updated", "inserted"} =>
        \A l \in LogsOf(tx[s].item) : l.request # tx[s].request

\* Entering a place after the lookup, or an answer that reports an error.
LEMMA PlaceSteps ==
    ASSUME StoreInv, [Next]_vars, NEW s \in Sessions,
           tx'[s].pc \in {"updated", "inserted", "refused", "conflict"}
    PROVE  /\ \/ tx'[s] = tx[s]
              \/ RefuseRecord(s) /\ tx'[s].pc = "refused"
              \/ RejectReusedRequest(s) /\ tx'[s].pc = "conflict"
              \/ UpdateReviewItemSchedule(s) /\ tx'[s].pc = "updated"
              \/ CreateReviewLog(s) /\ tx'[s].pc = "inserted"
              \/ CreateReviewLogConflict(s) /\ tx'[s].pc = "conflict"
           /\ tx'[s].item = tx[s].item /\ tx'[s].request = tx[s].request
  <1>0. tx \in [Sessions -> TxRecord]
    BY DEF StoreInv, TypeInv, TypeOK, TxRecord
  <1>1. CASE UNCHANGED vars \/ Tick \/ UpdateTimeZone
    BY <1>1 DEF vars, Tick, UpdateTimeZone
  <1>2. ASSUME NEW p \in Sessions, Start(p)
        PROVE  tx'[s] = tx[s]
    <2>1. ASSUME NEW i \in Items, StartPause(p, i) \/ StartResume(p, i)
          PROVE  tx'[s] = tx[s]
      BY <1>0, <2>1 DEF StartPause, StartResume, Idle
    <2>2. ASSUME NEW i \in Items, NEW r \in Requests, NEW o \in Outcomes,
                 NEW performedAt \in Times, StartRecord(p, i, r, o, performedAt)
          PROVE  tx'[s] = tx[s]
      BY <1>0, <2>2 DEF StartRecord, Idle
    <2> QED
      BY <1>2, <2>1, <2>2 DEF Start
  <1>3. ASSUME NEW p \in Sessions,
               BeginRecord(p) \/ LockReviewItem(p) \/ CommitRecord(p)
        PROVE  tx'[s] = tx[s]
    BY <1>0, <1>3 DEF BeginRecord, LockReviewItem, CommitRecord, TxRecord
  <1>4. ASSUME NEW p \in Sessions, ReplayRequest(p)
        PROVE  tx'[s] = tx[s]
    BY <1>0, <1>4 DEF ReplayRequest, TxRecord
  <1>5. ASSUME NEW p \in Sessions,
               \/ AbortRecord(p) \/ AbortPause(p) \/ Reply(p)
               \/ UpdateReviewItemPausedAt(p)
        PROVE  tx'[s] = tx[s]
    BY <1>0, <1>5 DEF AbortRecord, AbortPause, Reply, UpdateReviewItemPausedAt, Idle
  <1>6. ASSUME NEW p \in Sessions, RefuseRecord(p)
        PROVE  /\ tx'[s] = tx[s] \/ (p = s /\ tx'[s].pc = "refused")
               /\ tx'[s].item = tx[s].item /\ tx'[s].request = tx[s].request
    BY <1>0, <1>6 DEF RefuseRecord, TxRecord
  <1>7. ASSUME NEW p \in Sessions, RejectReusedRequest(p)
        PROVE  /\ tx'[s] = tx[s] \/ (p = s /\ tx'[s].pc = "conflict")
               /\ tx'[s].item = tx[s].item /\ tx'[s].request = tx[s].request
    BY <1>0, <1>7 DEF RejectReusedRequest, TxRecord
  <1>8. ASSUME NEW p \in Sessions, CreateReviewLog(p)
        PROVE  /\ tx'[s] = tx[s] \/ (p = s /\ tx'[s].pc = "inserted")
               /\ tx'[s].item = tx[s].item /\ tx'[s].request = tx[s].request
    BY <1>0, <1>8 DEF CreateReviewLog, TxRecord
  <1>9. ASSUME NEW p \in Sessions, CreateReviewLogConflict(p)
        PROVE  /\ tx'[s] = tx[s] \/ (p = s /\ tx'[s].pc = "conflict")
               /\ tx'[s].item = tx[s].item /\ tx'[s].request = tx[s].request
    BY <1>0, <1>9 DEF CreateReviewLogConflict, TxRecord
  <1>10. ASSUME NEW p \in Sessions, UpdateReviewItemSchedule(p)
         PROVE  /\ tx'[s] = tx[s] \/ (p = s /\ tx'[s].pc = "updated")
                /\ tx'[s].item = tx[s].item /\ tx'[s].request = tx[s].request
    <2>1. PICK next, log :
            tx' = [tx EXCEPT ![p].pc = "updated", ![p].sched = next, ![p].log = log]
      BY <1>10 DEF UpdateReviewItemSchedule
    <2> QED
      BY <1>0, <2>1 DEF TxRecord
  <1> QED
    BY <1>1, <1>2, <1>3, <1>4, <1>5, <1>6, <1>7, <1>8, <1>9, <1>10
    DEF Next, Serve, Decide, Insert

LEMMA RetryStep == StoreInv /\ RetryInv /\ [Next]_vars => RetryInv'
  <1> SUFFICES ASSUME StoreInv, RetryInv, [Next]_vars, NEW s \in Sessions,
                      tx'[s].pc \in {"updated", "inserted"},
                      NEW l \in logs', l.item = tx'[s].item
               PROVE  l.request # tx'[s].request
    BY DEF RetryInv, LogsOf
  <1>0. tx'[s].item = tx[s].item /\ tx'[s].request = tx[s].request
    BY PlaceSteps
  <1>1. tx[s].pc \in {"locked", "updated", "inserted"}
    BY PlaceSteps
    DEF RefuseRecord, RejectReusedRequest, UpdateReviewItemSchedule,
        CreateReviewLog, CreateReviewLogConflict
  <1>2. CASE l \in logs
    <2>1. CASE tx[s].pc = "locked"
      <3>1. UpdateReviewItemSchedule(s)
        BY <2>1, PlaceSteps DEF CreateReviewLog
      <3> QED
        BY <1>0, <1>2, <3>1 DEF UpdateReviewItemSchedule, RequestCommitted
    <2>2. CASE tx[s].pc # "locked"
      BY <1>0, <1>1, <1>2, <2>2 DEF RetryInv, LogsOf
    <2> QED
      BY <2>1, <2>2
  <1>3. CASE l \notin logs
    <2>1. PICK p \in Sessions : CommitRecord(p) /\ l = tx[p].log
      BY <1>3, CommitOnActiveRow
    <2>2. /\ tx[p].pc = "inserted" /\ tx'[p].pc = "answered"
          /\ l.item = tx[p].item /\ tx[p].item \in Items
      BY <2>1 DEF CommitRecord, StoreInv, TypeInv, TypeOK, SessionTyped, DraftTyped
    <2>3. Holds(p, l.item) /\ Holds(s, l.item) /\ p # s
      BY <1>0, <1>1, <2>2 DEF Holds
    <2> QED
      BY <2>2, <2>3 DEF StoreInv, LocksExclusive
  <1> QED
    BY <1>2, <1>3

\* Retrying an attempt that has been recorded is never answered with an error
\* about the item or about its request id.
THEOREM RetriesNeverFail == Spec => RetryNeverFails
  <1>1. Init => RetryInv
    BY DEF Init, Idle, RetryInv
  <1>2. ASSUME StoreInv, RetryInv, [Next]_vars, NEW s \in Sessions,
               tx'[s].pc \in {"refused", "conflict"}, tx'[s].pc # tx[s].pc
        PROVE  \A l \in LogsOf(tx[s].item) : l.request # tx[s].request
    <2>1. \/ RefuseRecord(s) \/ RejectReusedRequest(s) \/ CreateReviewLogConflict(s)
      BY <1>2, PlaceSteps
    <2>2. CASE RefuseRecord(s)
      BY <2>2 DEF RefuseRecord, RefusesRequest, RequestCommitted, LogsOf
    <2>3. CASE RejectReusedRequest(s)
      <3>1. PICK l \in logs : l.request = tx[s].request /\ l.item # tx[s].item
        BY <2>3 DEF RejectReusedRequest
      <3>2. \A m \in logs : m.request = l.request => m = l
        BY <1>2 DEF StoreInv, RequestsDistinct, RequestRecordedOnce
      <3> QED
        BY <3>1, <3>2 DEF LogsOf
    <2>4. CASE CreateReviewLogConflict(s)
      BY <1>2, <2>4 DEF CreateReviewLogConflict, RetryInv
    <2> QED
      BY <2>1, <2>2, <2>3, <2>4
  <1>3. StoreInv /\ RetryInv /\ [Next]_vars =>
            [\A s \in Sessions :
                tx'[s].pc \in {"refused", "conflict"} /\ tx'[s].pc # tx[s].pc =>
                    \A l \in LogsOf(tx[s].item) : l.request # tx[s].request]_vars
    BY <1>2
  <1> QED
    BY <1>1, <1>3, RetryStep, StoreInvariant, PTL DEF Spec, RetryNeverFails

-----------------------------------------------------------------------------
(* Refinement: the statements of concurrent sessions implement the ledger. *)

\* The instance's operators on items are those of this module.
LEMMA SameDayOf ==
    ASSUME NEW t, NEW z PROVE Ledger!DayOf(t, z) = DayOf(t, z)
  BY DEF Ledger!DayOf, DayOf

LEMMA SameRegistration ==
    ASSUME NEW t, NEW z
    PROVE  Ledger!RegisterReviewItem(t, z) = RegisterReviewItem(t, z)
  BY SameDayOf DEF Ledger!RegisterReviewItem, RegisterReviewItem

LEMMA SameRefused ==
    ASSUME NEW row, NEW t, NEW now, NEW z
    PROVE  Ledger!Refused(row, t, now, z) <=> Refused(row, t, now, z)
  BY SameDayOf
  DEF Ledger!Refused, Refused, Ledger!Paused, Paused,
      Ledger!BeforeRegistration, BeforeRegistration,
      Ledger!BeforeLastReview, BeforeLastReview

LEMMA SameScheduleAfter ==
    ASSUME NEW sched, NEW o, NEW t, NEW z, NEW d
    PROVE  Ledger!ScheduleAfter(sched, o, t, z, d) = ScheduleAfter(sched, o, t, z, d)
  <1>1. Ledger!Rating(o) = Rating(o)
    BY DEF Ledger!Rating, Rating
  <1>2. Ledger!LapsesAfter(sched, o) = LapsesAfter(sched, o)
    BY <1>1 DEF Ledger!LapsesAfter, LapsesAfter
  <1>3. Ledger!LaterOf(sched.lastReviewedAt, t) = LaterOf(sched.lastReviewedAt, t)
    BY DEF Ledger!LaterOf, LaterOf
  <1> QED
    BY <1>2, <1>3, SameDayOf DEF Ledger!ScheduleAfter, ScheduleAfter

LEMMA SameLogOf ==
    ASSUME NEW i, NEW r, NEW o, NEW t, NEW at, NEW z, NEW sched, NEW d
    PROVE  Ledger!LogOf(i, r, o, t, at, z, sched, d) = LogOf(i, r, o, t, at, z, sched, d)
  <1>1. Ledger!ElapsedDays(sched, t, z) = ElapsedDays(sched, t, z)
    BY SameDayOf DEF Ledger!ElapsedDays, ElapsedDays
  <1> QED
    BY <1>1, SameDayOf DEF Ledger!LogOf, LogOf

LEMMA LedgerInit == Init => Ledger!Init
  BY SameRegistration DEF Init, Ledger!Init

LEMMA CommitIsRecord ==
    ASSUME StoreInv, NEW s \in Sessions, CommitRecord(s)
    PROVE  Ledger!Next
  <1> DEFINE c == tx[s]
  <1>1. /\ c.pc = "inserted"
        /\ items' = [items EXCEPT ![c.item].sched = c.sched]
        /\ logs' = logs \cup {c.log}
        /\ UNCHANGED clock
    BY DEF CommitRecord, ItemsAfterCommit
  <1>2. PICK interval \in Intervals : DraftOf(s, interval)
    BY <1>1 DEF StoreInv, DraftsCurrent
  <1>3. /\ c.item \in Items /\ c.request \in Requests /\ c.outcome \in Outcomes
        /\ c.performedAt \in Times /\ c.zone \in Zones
        /\ c.now \in StartTime .. clock /\ clock \in StartTime .. MaxTime
        /\ items \in [Items -> Row]
    BY <1>1 DEF StoreInv, TypeInv, TypeOK, SessionTyped, InTransaction
  <1>4. ~RefusedNow(s) /\ ~RequestCommitted(c.request)
    BY <1>1 DEF StoreInv, DraftsCurrent, RequestsDistinct
  <1>5. /\ c.performedAt \in 0 .. (MaxTime + ClockSkew)
        /\ c.now \in 0 .. MaxTime /\ c.now <= clock
        /\ ~(c.performedAt > clock + ClockSkew)
    <2>1. ~(c.performedAt > c.now + ClockSkew)
      BY <1>4 DEF RefusedNow, Refused
    <2> QED
      BY <2>1, <1>3, ReviewItemAssumption, ReviewStoreAssumption DEF Times
  <1>6. ~Refused(items[c.item], c.performedAt, clock, c.zone)
    BY <1>4, <1>5 DEF RefusedNow, Refused
  <1>7. Ledger!Record(c.item, c.request, c.outcome, c.performedAt, c.now,
                      c.zone, interval)
    <2>1. ~Ledger!Refused(items[c.item], c.performedAt, clock, c.zone)
      BY <1>6, SameRefused
    <2>2. c.sched = Ledger!ScheduleAfter(items[c.item].sched, c.outcome,
                                         c.performedAt, c.zone, interval)
      BY <1>2, SameScheduleAfter DEF DraftOf
    <2>3. c.log = Ledger!LogOf(c.item, c.request, c.outcome, c.performedAt, c.now,
                               c.zone, items[c.item].sched, interval)
      BY <1>2, SameLogOf DEF DraftOf
    <2> QED
      BY <1>1, <1>3, <1>4, <1>5, <2>1, <2>2, <2>3
      DEF Ledger!Record, RequestCommitted
  <1> QED
    BY <1>3, <1>5, <1>7 DEF Ledger!Next

LEMMA UpdateIsSetPausedAt ==
    ASSUME StoreInv, NEW s \in Sessions, UpdateReviewItemPausedAt(s)
    PROVE  Ledger!Next
  <1>1. /\ tx[s].pc = "pausing"
        /\ items' = [items EXCEPT ![tx[s].item].pausedAt = tx[s].pausedAt]
        /\ UNCHANGED <<logs, clock>>
    BY DEF UpdateReviewItemPausedAt
  <1>2. /\ tx[s].item \in Items
        /\ tx[s].pausedAt = None \/ tx[s].pausedAt \in StartTime .. clock
        /\ clock \in StartTime .. MaxTime
    BY <1>1 DEF StoreInv, TypeInv, TypeOK, SessionTyped
  <1>3. tx[s].pausedAt \in (StartTime .. MaxTime) \cup {None}
    BY <1>2, ReviewStoreAssumption
  <1>4. Ledger!SetPausedAt(tx[s].item, tx[s].pausedAt)
    BY <1>1, <1>2, ReviewStoreAssumption DEF Ledger!SetPausedAt
  <1> QED
    BY <1>2, <1>3, <1>4 DEF Ledger!Next

LEMMA OtherStepsStutter ==
    ASSUME StoreInv, [Next]_vars,
           \A s \in Sessions : ~CommitRecord(s) /\ ~UpdateReviewItemPausedAt(s)
    PROVE  [Ledger!Next]_(Ledger!vars)
  <1>1. CASE Tick
    BY <1>1 DEF Tick, Ledger!Next, Ledger!Tick
  <1>2. CASE UNCHANGED vars \/ UpdateTimeZone
    BY <1>2 DEF vars, UpdateTimeZone, Ledger!vars
  <1>3. ASSUME NEW s \in Sessions,
               Start(s) \/ Serve(s) \/ AbortRecord(s) \/ AbortPause(s)
        PROVE  UNCHANGED Ledger!vars
    BY <1>3
    DEF Start, StartPause, StartResume, StartRecord, Serve, Decide, Insert,
        BeginRecord, LockReviewItem, ReplayRequest, RejectReusedRequest,
        RefuseRecord, UpdateReviewItemSchedule, CreateReviewLog,
        CreateReviewLogConflict, AbortRecord, AbortPause, Reply, Ledger!vars
  <1> QED
    BY <1>1, <1>2, <1>3 DEF Next

\* Every behaviour of the store is one of the ledger: attempts are recorded one
\* at a time on the current row, once per request, and pauses are single writes.
THEOREM StoreImplementsLedger == Spec => LedgerSpec
  <1>1. StoreInv /\ [Next]_vars => [Ledger!Next]_(Ledger!vars)
    BY CommitIsRecord, UpdateIsSetPausedAt, OtherStepsStutter
  <1> QED
    BY <1>1, LedgerInit, StoreInvariant, PTL DEF Spec, LedgerSpec, Ledger!Spec

-----------------------------------------------------------------------------
(* Refinement: to their clients the calls look as if each were served in one *)
(* step, the review service.                                                 *)

ServiceRows ==
    [logs |-> {AttemptOf(l) : l \in logs},
     paused |-> {i \in Items : Paused(items[i])}]
ServiceCalls == [s \in Sessions |-> CallOf(tx[s])]

RecordCall(c, phase, log) ==
    [kind |-> "record", item |-> c.item, request |-> c.request, value |-> c.outcome,
     phase |-> phase, log |-> log]

\* The call of a session that records, and what an answer makes of it.
LEMMA CallOfRecord ==
    ASSUME NEW c, NEW d, c.pc \notin {"idle", "pausing"},
           c.item = d.item, c.request = d.request, c.outcome = d.outcome
    PROVE  CallOf(c) = RecordCall(d, PhaseOf(c.pc),
                           IF c.pc = "answered" THEN AttemptOf(c.log) ELSE None)
  BY DEF CallOf, RecordCall

Answered(call, phase, log) == [call EXCEPT !.phase = phase, !.log = log]

LEMMA AnsweredCall ==
    ASSUME NEW c, NEW phase, NEW log
    PROVE  Answered(RecordCall(c, "sent", None), phase, log) = RecordCall(c, phase, log)
  <1>1. [RecordCall(c, "sent", None) EXCEPT !.phase = phase] = RecordCall(c, phase, None)
    BY DEF RecordCall
  <1>2. [RecordCall(c, phase, None) EXCEPT !.log = log] = RecordCall(c, phase, log)
    BY DEF RecordCall
  <1> QED
    BY <1>1, <1>2 DEF Answered

\* The rows after an attempt or a pause, field by field.
LEMMA RowsRecorded ==
    ASSUME NEW ls, NEW ps, NEW l
    PROVE  Service!Recorded([logs |-> ls, paused |-> ps], l)
              = [logs |-> ls \cup {l}, paused |-> ps]
  BY DEF Service!Recorded

LEMMA RowsToggled ==
    ASSUME NEW ls, NEW ps, NEW i, NEW to
    PROVE  Service!Toggled([logs |-> ls, paused |-> ps], i, to)
              = [logs |-> ls, paused |-> IF to = "pause" THEN ps \cup {i} ELSE ps \ {i}]
  BY DEF Service!Toggled

LEMMA ServiceInit == Init => Service!Init
  <1> SUFFICES ASSUME Init PROVE Service!Init
    OBVIOUS
  <1>1. \A i \in Items : ~Paused(items[i])
    BY DEF Init, RegisterReviewItem, Paused
  <1>2. ServiceRows = [logs |-> {}, paused |-> {}]
    BY <1>1 DEF Init, ServiceRows
  <1>3. ServiceCalls = [s \in Sessions |-> Service!NoCall]
    BY DEF Init, Idle, ServiceCalls, CallOf, Service!NoCall
  <1> QED
    BY <1>2, <1>3 DEF Service!Init, ServiceRows, ServiceCalls

\* A step of one session changes the call of that session only.
LEMMA CallsAfter ==
    ASSUME tx \in [Sessions -> TxRecord], NEW s \in Sessions, NEW c,
           tx' = [tx EXCEPT ![s] = c]
    PROVE  ServiceCalls' = [ServiceCalls EXCEPT ![s] = CallOf(c)]
  <1>1. \A p \in Sessions : tx'[p] = IF p = s THEN c ELSE tx[p]
    OBVIOUS
  <1>2. \A p \in Sessions :
            CallOf(tx'[p]) = IF p = s THEN CallOf(c) ELSE CallOf(tx[p])
    BY <1>1
  <1> QED
    BY <1>2 DEF ServiceCalls

\* Statements that leave the tables and the call as they are.
LEMMA ServiceStutters ==
    ASSUME tx \in [Sessions -> TxRecord], NEW s \in Sessions, NEW c,
           tx' = [tx EXCEPT ![s] = c], CallOf(c) = CallOf(tx[s]),
           UNCHANGED <<items, logs>>
    PROVE  UNCHANGED Service!vars
  <1>1. ServiceCalls' = ServiceCalls
    BY CallsAfter DEF ServiceCalls
  <1>2. ServiceRows' = ServiceRows
    BY DEF ServiceRows, Paused
  <1> QED
    BY <1>1, <1>2 DEF Service!vars, ServiceRows, ServiceCalls

\* What is on its way ends with an answer that arrives, or without one.
LEMMA ServiceEnds ==
    ASSUME tx \in [Sessions -> TxRecord], NEW s \in Sessions,
           tx[s].pc # "idle", tx' = [tx EXCEPT ![s] = Idle],
           UNCHANGED <<items, logs>>
    PROVE  Service!End(s)
  <1>1. CallOf(Idle) = Service!NoCall
    BY DEF CallOf, Idle, Service!NoCall
  <1>2. ServiceCalls' = [ServiceCalls EXCEPT ![s] = Service!NoCall]
    BY <1>1, CallsAfter
  <1>3. ServiceCalls[s].phase # "idle"
    BY DEF ServiceCalls, CallOf, PhaseOf
  <1>4. ServiceCalls[s] # Service!NoCall
    BY <1>3 DEF Service!NoCall
  <1>5. ServiceRows' = ServiceRows
    BY DEF ServiceRows, Paused
  <1> QED
    BY <1>2, <1>4, <1>5 DEF Service!End, ServiceRows, ServiceCalls

\* A call that starts is sent.
LEMMA ServiceSends ==
    ASSUME StoreInv, NEW s \in Sessions, Start(s)
    PROVE  Service!Send(s)
  <1>0. /\ tx \in [Sessions -> TxRecord] /\ items \in [Items -> Row]
        /\ clock \in Int
    BY ReviewStoreAssumption DEF StoreInv, TypeInv, TypeOK, TxRecord
  <1>1. tx[s].pc = "idle" /\ UNCHANGED <<items, logs>>
    <2>1. ASSUME NEW i \in Items, StartPause(s, i) \/ StartResume(s, i)
          PROVE  tx[s].pc = "idle" /\ UNCHANGED <<items, logs>>
      BY <2>1, Zenon DEF StartPause, StartResume
    <2>2. ASSUME NEW i \in Items, NEW r \in Requests, NEW o \in Outcomes,
                 NEW performedAt \in Times, StartRecord(s, i, r, o, performedAt)
          PROVE  tx[s].pc = "idle" /\ UNCHANGED <<items, logs>>
      BY <2>2, Zenon DEF StartRecord
    <2> QED
      BY <2>1, <2>2 DEF Start
  <1>2. ServiceCalls[s] = Service!NoCall /\ ServiceRows' = ServiceRows
    BY <1>1 DEF ServiceCalls, CallOf, Service!NoCall, ServiceRows, Paused
  <1>3. ASSUME NEW i \in Items, NEW c, NEW to \in {"pause", "resume"},
               tx' = [tx EXCEPT ![s] = c], CallOf(c) = Service!Call("pause", i, None, to)
        PROVE  Service!Send(s)
    <2>1. ServiceCalls' =
            [ServiceCalls EXCEPT ![s] = Service!Call("pause", i, None, to)]
      BY <1>0, <1>3, CallsAfter
    <2> QED
      BY <1>2, <2>1 DEF Service!Send, ServiceRows, ServiceCalls
  <1>4. ASSUME NEW i \in Items, StartPause(s, i)
        PROVE  Service!Send(s)
    <2> DEFINE at == PausedAtAfterPause(items[i], clock)
               c == [Idle EXCEPT !.pc = "pausing", !.item = i, !.pausedAt = at]
    <2>1. at # None
      BY <1>0, ReviewItemAssumption DEF PausedAtAfterPause, Paused
    <2>2. CallOf(c) = Service!Call("pause", i, None, "pause")
      BY <2>1 DEF Idle, CallOf, Service!Call
    <2> QED
      BY <1>3, <1>4, <2>2 DEF StartPause
  <1>5. ASSUME NEW i \in Items, StartResume(s, i)
        PROVE  Service!Send(s)
    <2> DEFINE c == [Idle EXCEPT !.pc = "pausing", !.item = i]
    <2>1. CallOf(c) = Service!Call("pause", i, None, "resume")
      BY DEF Idle, CallOf, Service!Call
    <2> QED
      BY <1>3, <1>5, <2>1 DEF StartResume
  <1>6. ASSUME NEW i \in Items, NEW r \in Requests, NEW o \in Outcomes,
               NEW performedAt \in Times, StartRecord(s, i, r, o, performedAt)
        PROVE  Service!Send(s)
    <2> DEFINE c == [Idle EXCEPT !.pc = "located", !.item = i, !.request = r,
                        !.outcome = o, !.performedAt = performedAt, !.zone = zone]
    <2>1. CallOf(c) = Service!Call("record", i, r, o)
      BY DEF Idle, CallOf, PhaseOf, Service!Call
    <2>2. ServiceCalls' =
            [ServiceCalls EXCEPT ![s] = Service!Call("record", i, r, o)]
      BY <1>0, <1>6, <2>1, CallsAfter DEF StartRecord
    <2> QED
      BY <1>2, <2>2 DEF Service!Send, ServiceRows, ServiceCalls
  <1> QED
    BY <1>4, <1>5, <1>6 DEF Start

\* The decisions on a call whose statements see the rows of the moment: the
\* attempt found under the request is answered, ...
LEMMA ServiceReplays ==
    ASSUME StoreInv, NEW s \in Sessions, ReplayRequest(s)
    PROVE  Service!ServeRecord(s)
  <1>0. tx \in [Sessions -> TxRecord]
    BY DEF StoreInv, TypeInv, TypeOK, TxRecord
  <1>1. PICK l \in logs :
            /\ l.request = tx[s].request /\ l.item = tx[s].item
            /\ tx' = [tx EXCEPT ![s].pc = "answered", ![s].log = l]
    BY DEF ReplayRequest
  <1>2. tx[s].pc = "locked" /\ UNCHANGED <<items, logs>>
    BY DEF ReplayRequest
  <1> DEFINE c == [tx[s] EXCEPT !.pc = "answered", !.log = l]
             a == AttemptOf(l)
  <1>3. ServiceCalls[s] = RecordCall(tx[s], "sent", None)
    BY <1>2 DEF ServiceCalls, CallOf, PhaseOf, RecordCall
  <1>4. CallOf(c) = RecordCall(tx[s], "served", a)
    <2>1. /\ c.pc = "answered" /\ c.log = l /\ c.item = tx[s].item
          /\ c.request = tx[s].request /\ c.outcome = tx[s].outcome
      BY <1>0 DEF TxRecord
    <2> HIDE DEF c
    <2>2. CallOf(c) = RecordCall(tx[s], PhaseOf(c.pc), AttemptOf(c.log))
      BY <2>1, CallOfRecord
    <2> QED
      BY <2>1, <2>2 DEF PhaseOf
  <1>5. ServiceCalls' = [ServiceCalls EXCEPT ![s] = CallOf(c)]
    <2>1. tx' = [tx EXCEPT ![s] = c]
      BY <1>0, <1>1 DEF TxRecord
    <2> QED
      BY <1>0, <2>1, CallsAfter
  <1>6. Service!Answer(s, "served", a)
    <2>1. Answered(ServiceCalls[s], "served", a) = RecordCall(tx[s], "served", a)
      BY <1>3, AnsweredCall
    <2>2. ServiceCalls' =
              [ServiceCalls EXCEPT ![s] = Answered(ServiceCalls[s], "served", a)]
      BY <1>4, <1>5, <2>1, Zenon
    <2> QED
      BY <2>2 DEF Service!Answer, Answered, ServiceCalls
  <1>7. Service!Replays(ServiceRows, ServiceCalls[s], a) /\ a \in ServiceRows.logs
    BY <1>1, <1>3 DEF Service!Replays, ServiceRows, AttemptOf, RecordCall
  <1>8. ServiceRows' = ServiceRows
    BY <1>2 DEF ServiceRows, Paused
  <1>9. ServiceCalls[s].phase = "sent" /\ ServiceCalls[s].kind = "record"
    BY <1>3 DEF RecordCall
  <1> QED
    BY <1>6, <1>7, <1>8, <1>9 DEF Service!ServeRecord, ServiceRows, ServiceCalls

\* ... an error is answered if no attempt of the item is under the request, ...
LEMMA ServiceRefuses ==
    ASSUME tx \in [Sessions -> TxRecord], NEW s \in Sessions,
           tx[s].pc \in {"locked", "updated"},
           \A l \in LogsOf(tx[s].item) : l.request # tx[s].request,
           NEW c, tx' = [tx EXCEPT ![s] = c],
           c.pc \in {"refused", "conflict"}, c.item = tx[s].item,
           c.request = tx[s].request, c.outcome = tx[s].outcome,
           UNCHANGED <<items, logs>>
    PROVE  Service!ServeRecord(s)
  <1>1. ServiceCalls[s] = RecordCall(tx[s], "sent", None)
    BY DEF ServiceCalls, CallOf, PhaseOf, RecordCall
  <1>2. CallOf(c) = RecordCall(tx[s], "refused", None)
    BY CallOfRecord DEF PhaseOf
  <1>3. Service!Answer(s, "refused", None)
    <2>1. Answered(ServiceCalls[s], "refused", None) = RecordCall(tx[s], "refused", None)
      BY <1>1, AnsweredCall
    <2>2. ServiceCalls' = [ServiceCalls EXCEPT ![s] = CallOf(c)]
      BY CallsAfter
    <2>3. ServiceCalls' =
              [ServiceCalls EXCEPT ![s] = Answered(ServiceCalls[s], "refused", None)]
      BY <1>2, <2>1, <2>2, Zenon
    <2> QED
      BY <2>3 DEF Service!Answer, Answered, ServiceCalls
  <1>4. Service!Refuses(ServiceRows, ServiceCalls[s])
    BY <1>1 DEF Service!Refuses, ServiceRows, AttemptOf, RecordCall, LogsOf
  <1>5. ServiceRows' = ServiceRows
    BY DEF ServiceRows, Paused
  <1>6. ServiceCalls[s].phase = "sent" /\ ServiceCalls[s].kind = "record"
    BY <1>1 DEF RecordCall
  <1> QED
    BY <1>3, <1>4, <1>5, <1>6 DEF Service!ServeRecord, ServiceRows, ServiceCalls

\* ... and what commits is the attempt that was asked for, on an item that takes
\* it, under a request that has none.
LEMMA ServiceRecords ==
    ASSUME StoreInv, NEW s \in Sessions, CommitRecord(s)
    PROVE  Service!ServeRecord(s)
  <1> DEFINE c == [tx[s] EXCEPT !.pc = "answered"]
             a == AttemptOf(tx[s].log)
  <1>0. tx \in [Sessions -> TxRecord] /\ items \in [Items -> Row]
    BY DEF StoreInv, TypeInv, TypeOK, TxRecord
  <1>1. /\ tx[s].pc = "inserted" /\ logs' = logs \cup {tx[s].log}
        /\ items' = [items EXCEPT ![tx[s].item].sched = tx[s].sched]
        /\ tx' = [tx EXCEPT ![s] = c]
    BY <1>0 DEF CommitRecord, ItemsAfterCommit, TxRecord
  <1>2. tx[s].item \in Items /\ ~RefusedNow(s) /\ ~RequestCommitted(tx[s].request)
    BY <1>1 DEF StoreInv, DraftsCurrent, RequestsDistinct, TypeInv, SessionTyped
  <1>3. ServiceCalls[s] = RecordCall(tx[s], "sent", None)
    BY <1>1 DEF ServiceCalls, CallOf, PhaseOf, RecordCall
  <1>4. a = Service!Attempt(ServiceCalls[s])
    <2>1. PICK interval \in Intervals : DraftOf(s, interval)
      BY <1>1 DEF StoreInv, DraftsCurrent
    <2>2. /\ tx[s].log.item = tx[s].item /\ tx[s].log.request = tx[s].request
          /\ tx[s].log.outcome = tx[s].outcome
      BY <2>1 DEF DraftOf, LogOf
    <2> QED
      BY <1>3, <2>2 DEF AttemptOf, Service!Attempt, RecordCall
  <1>5. CallOf(c) = RecordCall(tx[s], "served", a)
    <2>1. /\ c.pc = "answered" /\ c.log = tx[s].log /\ c.item = tx[s].item
          /\ c.request = tx[s].request /\ c.outcome = tx[s].outcome
      BY <1>0 DEF TxRecord
    <2> HIDE DEF c
    <2>2. CallOf(c) = RecordCall(tx[s], PhaseOf(c.pc), AttemptOf(c.log))
      BY <2>1, CallOfRecord
    <2> QED
      BY <2>1, <2>2 DEF PhaseOf
  <1>6. Service!Answer(s, "served", Service!Attempt(ServiceCalls[s]))
    <2>1. ServiceCalls' = [ServiceCalls EXCEPT ![s] = CallOf(c)]
      BY <1>0, <1>1, CallsAfter
    <2>2. Answered(ServiceCalls[s], "served", a) = RecordCall(tx[s], "served", a)
      BY <1>3, AnsweredCall
    <2>3. ServiceCalls' =
              [ServiceCalls EXCEPT ![s] = Answered(ServiceCalls[s], "served", a)]
      BY <1>5, <2>1, <2>2, Zenon
    <2> QED
      BY <1>4, <2>3 DEF Service!Answer, Answered, ServiceCalls
  <1>7. Service!Accepts(ServiceRows, ServiceCalls[s])
    <2>1. tx[s].item \notin ServiceRows.paused
      BY <1>2 DEF RefusedNow, Refused, ServiceRows
    <2>2. \A l \in ServiceRows.logs : l.request # tx[s].request
      BY <1>2 DEF RequestCommitted, ServiceRows, AttemptOf
    <2> QED
      BY <1>3, <2>1, <2>2 DEF Service!Accepts, RecordCall
  <1>8. ServiceRows' = Service!Recorded(ServiceRows, Service!Attempt(ServiceCalls[s]))
    <2>1. \A i \in Items : items'[i].pausedAt = items[i].pausedAt
      BY <1>0, <1>1, <1>2 DEF Row
    <2>2. {i \in Items : Paused(items'[i])} = {i \in Items : Paused(items[i])}
      BY <2>1 DEF Paused
    <2>3. {AttemptOf(l) : l \in logs'} = {AttemptOf(l) : l \in logs} \cup {a}
      BY <1>1
    <2>4. Service!Recorded(ServiceRows, a) =
            [logs |-> {AttemptOf(l) : l \in logs} \cup {a},
             paused |-> {i \in Items : Paused(items[i])}]
      BY RowsRecorded DEF ServiceRows
    <2> QED
      BY <1>4, <2>2, <2>3, <2>4 DEF ServiceRows
  <1>9. ServiceCalls[s].phase = "sent" /\ ServiceCalls[s].kind = "record"
    BY <1>3 DEF RecordCall
  <1> QED
    BY <1>6, <1>7, <1>8, <1>9 DEF Service!ServeRecord, ServiceRows, ServiceCalls

LEMMA ServicePauses ==
    ASSUME StoreInv, NEW s \in Sessions, UpdateReviewItemPausedAt(s)
    PROVE  Service!ServePause(s)
  <1> DEFINE i == tx[s].item
             to == IF tx[s].pausedAt = None THEN "resume" ELSE "pause"
  <1>0. tx \in [Sessions -> TxRecord] /\ items \in [Items -> Row]
    BY DEF StoreInv, TypeInv, TypeOK, TxRecord
  <1>1. /\ tx[s].pc = "pausing" /\ tx' = [tx EXCEPT ![s] = Idle]
        /\ items' = [items EXCEPT ![i].pausedAt = tx[s].pausedAt]
        /\ UNCHANGED logs
    BY DEF UpdateReviewItemPausedAt
  <1>2. i \in Items
    BY <1>1 DEF StoreInv, TypeInv, SessionTyped
  <1>3. /\ ServiceCalls[s].phase = "sent" /\ ServiceCalls[s].kind = "pause"
        /\ ServiceCalls[s].item = i /\ ServiceCalls[s].value = to
    BY <1>1 DEF ServiceCalls, CallOf
  <1>4. ServiceCalls' = [ServiceCalls EXCEPT ![s] = Service!NoCall]
    <2>1. CallOf(Idle) = Service!NoCall
      BY DEF CallOf, Idle, Service!NoCall
    <2> QED
      BY <1>0, <1>1, <2>1, CallsAfter
  <1>5. ServiceRows' = Service!Toggled(ServiceRows, i, to)
    <2>1. \A j \in Items :
            items'[j].pausedAt = IF j = i THEN tx[s].pausedAt ELSE items[j].pausedAt
      BY <1>0, <1>1, <1>2 DEF Row
    <2>2. {j \in Items : Paused(items'[j])} =
            IF to = "pause" THEN {j \in Items : Paused(items[j])} \cup {i}
            ELSE {j \in Items : Paused(items[j])} \ {i}
      BY <1>2, <2>1 DEF Paused
    <2>3. Service!Toggled(ServiceRows, i, to) =
            [logs |-> {AttemptOf(l) : l \in logs},
             paused |-> IF to = "pause" THEN {j \in Items : Paused(items[j])} \cup {i}
                        ELSE {j \in Items : Paused(items[j])} \ {i}]
      BY RowsToggled DEF ServiceRows
    <2> QED
      BY <1>1, <2>2, <2>3, Zenon DEF ServiceRows
  <1> QED
    BY <1>3, <1>4, <1>5 DEF Service!ServePause, ServiceRows, ServiceCalls

\* Every step of a session that is not its start: a statement nobody sees, a
\* decision, the commit, the write of a pause, or the end of the call.
LEMMA ServiceServes ==
    ASSUME StoreInv, RetryInv, NEW s \in Sessions,
           Serve(s) \/ AbortRecord(s) \/ AbortPause(s)
    PROVE  [Service!Next]_(Service!vars)
  <1>0. tx \in [Sessions -> TxRecord]
    BY DEF StoreInv, TypeInv, TypeOK, TxRecord
  <1>1. ASSUME BeginRecord(s) \/ LockReviewItem(s) \/ CreateReviewLog(s)
        PROVE  UNCHANGED Service!vars
    <2>1. PICK c :
            /\ tx' = [tx EXCEPT ![s] = c] /\ c.pc \in {"begun", "locked", "inserted"}
            /\ c.item = tx[s].item /\ c.request = tx[s].request
            /\ c.outcome = tx[s].outcome
      <3>1. CASE BeginRecord(s)
        <4> DEFINE c == [tx[s] EXCEPT !.pc = "begun", !.now = clock]
        <4>1. tx' = [tx EXCEPT ![s] = c]
          BY <1>0, <3>1 DEF BeginRecord, TxRecord
        <4>2. c.pc = "begun" /\ c.item = tx[s].item
              /\ c.request = tx[s].request /\ c.outcome = tx[s].outcome
          BY <1>0 DEF TxRecord
        <4> QED
          BY <4>1, <4>2
      <3>2. CASE LockReviewItem(s)
        <4> DEFINE c == [tx[s] EXCEPT !.pc = "locked"]
        <4>1. tx' = [tx EXCEPT ![s] = c]
          BY <1>0, <3>2 DEF LockReviewItem, TxRecord
        <4>2. c.pc = "locked" /\ c.item = tx[s].item
              /\ c.request = tx[s].request /\ c.outcome = tx[s].outcome
          BY <1>0 DEF TxRecord
        <4> QED
          BY <4>1, <4>2
      <3>3. CASE CreateReviewLog(s)
        <4> DEFINE c == [tx[s] EXCEPT !.pc = "inserted"]
        <4>1. tx' = [tx EXCEPT ![s] = c]
          BY <1>0, <3>3 DEF CreateReviewLog, TxRecord
        <4>2. c.pc = "inserted" /\ c.item = tx[s].item
              /\ c.request = tx[s].request /\ c.outcome = tx[s].outcome
          BY <1>0 DEF TxRecord
        <4> QED
          BY <4>1, <4>2
      <3> QED
        BY <1>1, <3>1, <3>2, <3>3
    <2>2. tx[s].pc \in {"located", "begun", "updated"} /\ UNCHANGED <<items, logs>>
      BY <1>1 DEF BeginRecord, LockReviewItem, CreateReviewLog
    <2>3. CallOf(c) = RecordCall(tx[s], "sent", None)
      BY <2>1, CallOfRecord DEF PhaseOf
    <2>4. CallOf(tx[s]) = RecordCall(tx[s], "sent", None)
      BY <2>2, CallOfRecord DEF PhaseOf
    <2> QED
      BY <1>0, <2>1, <2>2, <2>3, <2>4, ServiceStutters
  <1>2. ASSUME UpdateReviewItemSchedule(s)
        PROVE  UNCHANGED Service!vars
    <2>1. PICK next, log :
            tx' = [tx EXCEPT ![s].pc = "updated", ![s].sched = next, ![s].log = log]
      BY <1>2 DEF UpdateReviewItemSchedule
    <2> DEFINE c == [tx[s] EXCEPT !.pc = "updated", !.sched = next, !.log = log]
    <2>2. /\ tx' = [tx EXCEPT ![s] = c]
          /\ c.pc = "updated" /\ c.item = tx[s].item
          /\ c.request = tx[s].request /\ c.outcome = tx[s].outcome
      BY <1>0, <2>1 DEF TxRecord
    <2>3. tx[s].pc = "locked" /\ UNCHANGED <<items, logs>>
      BY <1>2 DEF UpdateReviewItemSchedule
    <2> HIDE DEF c
    <2>4. CallOf(c) = RecordCall(tx[s], "sent", None)
      BY <2>2, CallOfRecord DEF PhaseOf
    <2>5. CallOf(tx[s]) = RecordCall(tx[s], "sent", None)
      BY <2>3, CallOfRecord DEF PhaseOf
    <2> QED
      BY <1>0, <2>2, <2>3, <2>4, <2>5, ServiceStutters
  <1>3. ASSUME RejectReusedRequest(s) \/ RefuseRecord(s) \/ CreateReviewLogConflict(s)
        PROVE  Service!ServeRecord(s)
    <2>1. \A l \in LogsOf(tx[s].item) : l.request # tx[s].request
      <3>1. CASE RefuseRecord(s)
        BY <3>1 DEF RefuseRecord, RefusesRequest, RequestCommitted, LogsOf
      <3>2. CASE RejectReusedRequest(s)
        BY <3>2
        DEF RejectReusedRequest, LogsOf, StoreInv, RequestsDistinct, RequestRecordedOnce
      <3>3. CASE CreateReviewLogConflict(s)
        BY <3>3 DEF CreateReviewLogConflict, RetryInv
      <3> QED
        BY <1>3, <3>1, <3>2, <3>3
    <2>2. PICK c :
            /\ tx' = [tx EXCEPT ![s] = c] /\ c.pc \in {"refused", "conflict"}
            /\ c.item = tx[s].item /\ c.request = tx[s].request
            /\ c.outcome = tx[s].outcome
      <3>1. CASE RefuseRecord(s)
        <4> DEFINE c == [tx[s] EXCEPT !.pc = "refused"]
        <4>1. /\ tx' = [tx EXCEPT ![s] = c] /\ c.pc = "refused"
              /\ c.item = tx[s].item /\ c.request = tx[s].request
              /\ c.outcome = tx[s].outcome
          BY <1>0, <3>1 DEF RefuseRecord, TxRecord
        <4> QED
          BY <4>1
      <3>2. CASE RejectReusedRequest(s)
        <4> DEFINE c == [tx[s] EXCEPT !.pc = "conflict"]
        <4>1. /\ tx' = [tx EXCEPT ![s] = c] /\ c.pc = "conflict"
              /\ c.item = tx[s].item /\ c.request = tx[s].request
              /\ c.outcome = tx[s].outcome
          BY <1>0, <3>2 DEF RejectReusedRequest, TxRecord
        <4> QED
          BY <4>1
      <3>3. CASE CreateReviewLogConflict(s)
        <4> DEFINE c == [tx[s] EXCEPT !.pc = "conflict", !.sched = None, !.log = None]
        <4>1. /\ tx' = [tx EXCEPT ![s] = c] /\ c.pc = "conflict"
              /\ c.item = tx[s].item /\ c.request = tx[s].request
              /\ c.outcome = tx[s].outcome
          BY <1>0, <3>3 DEF CreateReviewLogConflict, TxRecord
        <4> QED
          BY <4>1
      <3> QED
        BY <1>3, <3>1, <3>2, <3>3
    <2>3. tx[s].pc \in {"locked", "updated"} /\ UNCHANGED <<items, logs>>
      BY <1>3 DEF RefuseRecord, RejectReusedRequest, CreateReviewLogConflict
    <2> QED
      BY <1>0, <2>1, <2>2, <2>3, ServiceRefuses
  <1>4. ASSUME AbortRecord(s) \/ AbortPause(s) \/ Reply(s)
        PROVE  Service!End(s)
    <2>1. /\ tx[s].pc # "idle" /\ tx' = [tx EXCEPT ![s] = Idle]
          /\ UNCHANGED <<items, logs>>
      BY <1>4 DEF AbortRecord, AbortPause, Reply
    <2> QED
      BY <1>0, <2>1, ServiceEnds
  <1> QED
    BY <1>1, <1>2, <1>3, <1>4, ServiceReplays, ServiceRecords, ServicePauses
    DEF Serve, Decide, Insert, Service!Next

\* Every behaviour of the store is one of the service the pages are modelled
\* over, whatever is interleaved, aborted or answered late.
THEOREM StoreImplementsService == Spec => ServiceSpec
  <1>1. Init => RetryInv
    BY DEF Init, Idle, RetryInv
  <1>2. StoreInv /\ RetryInv /\ [Next]_vars => [Service!Next]_(Service!vars)
    <2> SUFFICES ASSUME StoreInv, RetryInv, [Next]_vars
                 PROVE  [Service!Next]_(Service!vars)
      OBVIOUS
    <2>1. CASE UNCHANGED vars \/ Tick \/ UpdateTimeZone
      <3>1. UNCHANGED <<items, logs, tx>>
        BY <2>1 DEF vars, Tick, UpdateTimeZone
      <3> QED
        BY <3>1 DEF Service!vars, Paused
    <2>2. ASSUME NEW s \in Sessions, Start(s)
          PROVE  Service!Next
      BY <2>2, ServiceSends DEF Service!Next
    <2>3. ASSUME NEW s \in Sessions, Serve(s) \/ AbortRecord(s) \/ AbortPause(s)
          PROVE  [Service!Next]_(Service!vars)
      BY <2>3, ServiceServes
    <2> QED
      BY <2>1, <2>2, <2>3 DEF Next
  <1> QED
    BY <1>1, <1>2, RetryStep, ServiceInit, StoreInvariant, PTL
    DEF Spec, ServiceSpec, Service!Spec

-----------------------------------------------------------------------------
(* The logs of an item and its row tell the same history. *)

LapsesOf(i) == {l \in LogsOf(i) : l.rep > 1 /\ Rating(l.outcome) = "again"}

\* RowFollowsLogs for one item, with what makes it inductive: the logs are
\* finitely many, and a row without logs has no interval.
HistoryOf(i) ==
    LET sched == items[i].sched
        own == LogsOf(i)
    IN  /\ IsFiniteSet(own)
        /\ {l.rep : l \in own} = 1 .. sched.reps
        /\ sched.reps = Cardinality(own)
        /\ sched.lapses = Cardinality(LapsesOf(i))
        /\ \A l \in own : l.rep = sched.reps =>
                /\ l.nextDueOn = sched.dueOn
                /\ l.intervalDays = sched.intervalDays
        /\ own # {} =>
                /\ \A l \in own : l.performedAt <= sched.lastReviewedAt
                /\ \E l \in own : l.performedAt = sched.lastReviewedAt
        /\ sched.reps = 0 => sched.intervalDays = 0

HistoryInv == (\A i \in Items : HistoryOf(i)) /\ LogsFormChain

LEMMA HistoryInit == Init => HistoryInv
  <1> SUFFICES ASSUME Init PROVE HistoryInv
    OBVIOUS
  <1>1. ASSUME NEW i \in Items PROVE HistoryOf(i)
    <2>1. LogsOf(i) = {} /\ LapsesOf(i) = {}
      BY DEF Init, LogsOf, LapsesOf
    <2>2. /\ items[i].sched.reps = 0 /\ items[i].sched.lapses = 0
          /\ items[i].sched.intervalDays = 0
      BY DEF Init, RegisterReviewItem
    <2>3. IsFiniteSet({}) /\ Cardinality({}) = 0
      BY FS_EmptySet
    <2>4. {l.rep : l \in LogsOf(i)} = 1 .. items[i].sched.reps
      BY <2>1, <2>2
    <2> QED
      BY <2>1, <2>2, <2>3, <2>4 DEF HistoryOf
  <1>2. LogsFormChain
    BY DEF Init, LogsFormChain
  <1> QED
    BY <1>1, <1>2 DEF HistoryInv

\* What a commit does to the row and the logs of its item, and that it leaves
\* the rows and logs of the others alone.
LEMMA CommitEffect ==
    ASSUME StoreInv, NEW s \in Sessions, CommitRecord(s),
           NEW k \in Items, k = tx[s].item
    PROVE  \E interval \in Intervals :
             LET c == tx[s]
                 before == items[k].sched
             IN  /\ c.performedAt \in Nat
                 /\ before \in Schedule /\ StateValid(before)
                 /\ c.log = LogOf(k, c.request, c.outcome, c.performedAt,
                                  c.now, c.zone, before, interval)
                 /\ items'[k].sched =
                        ScheduleAfter(before, c.outcome, c.performedAt, c.zone, interval)
                 /\ logs' = logs \cup {c.log}
                 /\ LogsOf(k)' = LogsOf(k) \cup {c.log}
                 /\ \A i \in Items \ {k} :
                        items'[i] = items[i] /\ LogsOf(i)' = LogsOf(i)
  <1> DEFINE c == tx[s]
  <1>1. /\ c.pc = "inserted"
        /\ items' = [items EXCEPT ![k].sched = c.sched]
        /\ logs' = logs \cup {c.log}
    BY DEF CommitRecord, ItemsAfterCommit
  <1>2. PICK interval \in Intervals : DraftOf(s, interval)
    BY <1>1 DEF StoreInv, DraftsCurrent
  <1>3. /\ c.performedAt \in Times /\ items \in [Items -> Row]
        /\ StateValid(items[k].sched)
    BY <1>1 DEF StoreInv, TypeInv, TypeOK, SessionTyped
  <1>4. c.performedAt \in Nat
    BY <1>3, ReviewItemAssumption, ReviewStoreAssumption DEF Times
  <1>5. /\ items'[k].sched = c.sched
        /\ \A i \in Items \ {k} : items'[i] = items[i]
    BY <1>1, <1>3 DEF Row
  <1>6. c.log.item = k
    BY <1>2 DEF DraftOf, LogOf
  <1>7. /\ LogsOf(k)' = LogsOf(k) \cup {c.log}
        /\ \A i \in Items \ {k} : LogsOf(i)' = LogsOf(i)
    BY <1>1, <1>6 DEF LogsOf
  <1>8. items[k].sched \in Schedule
    BY <1>3 DEF Row
  <1> QED
    BY <1>1, <1>2, <1>3, <1>4, <1>5, <1>7, <1>8 DEF DraftOf

\* Steps that commit nothing leave the logs and the schedules alone.
LEMMA NoCommitEffect ==
    ASSUME StoreInv, [Next]_vars, \A s \in Sessions : ~CommitRecord(s)
    PROVE  /\ logs' = logs
           /\ \A i \in Items : items'[i].sched = items[i].sched
  <1>0. items \in [Items -> Row] /\ TypeInv
    BY DEF StoreInv, TypeInv, TypeOK
  <1>1. CASE Quiet
    BY <1>1 DEF Quiet
  <1>2. ASSUME NEW s \in Sessions,
               \/ LockReviewItem(s) \/ UpdateReviewItemSchedule(s) \/ CreateReviewLog(s)
        PROVE  UNCHANGED <<items, logs>>
    BY <1>2 DEF LockReviewItem, UpdateReviewItemSchedule, CreateReviewLog
  <1>3. ASSUME NEW s \in Sessions, UpdateReviewItemPausedAt(s)
        PROVE  /\ logs' = logs
               /\ \A i \in Items : items'[i].sched = items[i].sched
    BY <1>0, <1>3 DEF UpdateReviewItemPausedAt, Row
  <1> QED
    BY <1>0, <1>1, <1>2, <1>3, StepKinds

\* A commit continues the history of its item by one log.
LEMMA HistoryCommit ==
    ASSUME StoreInv, HistoryInv, NEW s \in Sessions, CommitRecord(s),
           NEW k \in Items, k = tx[s].item
    PROVE  HistoryInv'
  <1> DEFINE c == tx[s]
             before == items[k].sched
             own == LogsOf(k)
             new == c.log
  <1>1. PICK interval \in Intervals :
          /\ c.performedAt \in Nat
          /\ before \in Schedule /\ StateValid(before)
          /\ new = LogOf(k, c.request, c.outcome, c.performedAt,
                         c.now, c.zone, before, interval)
          /\ items'[k].sched =
                 ScheduleAfter(before, c.outcome, c.performedAt, c.zone, interval)
          /\ logs' = logs \cup {new}
          /\ LogsOf(k)' = own \cup {new}
          /\ \A i \in Items \ {k} : items'[i] = items[i] /\ LogsOf(i)' = LogsOf(i)
    BY CommitEffect
  <1>2. /\ before.reps \in Nat /\ before.lapses \in Nat
        /\ before.lastReviewedAt \in Nat \cup {None}
        /\ before.state \in {"new", "review"}
    BY <1>1 DEF Schedule
  <1>3. /\ new.rep = before.reps + 1 /\ new.item = k
        /\ new.outcome = c.outcome /\ new.performedAt = c.performedAt
        /\ new.stateBefore = before.state
        /\ new.lastIntervalDays = before.intervalDays
        /\ new.intervalDays = interval
        /\ new.nextDueOn = DayOf(c.performedAt, c.zone) + interval
    BY <1>1 DEF LogOf
  <1>4. /\ items'[k].sched.reps = before.reps + 1
        /\ items'[k].sched.lapses = LapsesAfter(before, c.outcome)
        /\ items'[k].sched.dueOn = DayOf(c.performedAt, c.zone) + interval
        /\ items'[k].sched.intervalDays = interval
        /\ items'[k].sched.lastReviewedAt = LaterOf(before.lastReviewedAt, c.performedAt)
    BY <1>1 DEF ScheduleAfter
  <1>5. /\ IsFiniteSet(own)
        /\ {l.rep : l \in own} = 1 .. before.reps
        /\ before.reps = Cardinality(own)
        /\ before.lapses = Cardinality(LapsesOf(k))
        /\ \A l \in own : l.rep = before.reps => l.intervalDays = before.intervalDays
        /\ own # {} =>
                /\ \A l \in own : l.performedAt <= before.lastReviewedAt
                /\ \E l \in own : l.performedAt = before.lastReviewedAt
        /\ before.reps = 0 => before.intervalDays = 0
    BY DEF HistoryInv, HistoryOf
  <1>11. own = {l \in logs : l.item = k} /\ own \subseteq Log
    BY DEF LogsOf, StoreInv, TypeInv, TypeOK
  <1>12. LapsesOf(k) = {l \in own : l.rep > 1 /\ Rating(l.outcome) = "again"}
    BY DEF LapsesOf
  <1>13. LapsesOf(k)' = {l \in own \cup {new} : l.rep > 1 /\ Rating(l.outcome) = "again"}
    BY <1>1 DEF LapsesOf
  <1> HIDE DEF c, before, own, new
  <1>6. \A l \in own : l.rep \in 1 .. before.reps
    BY <1>5
  <1>7. new \notin own
    BY <1>2, <1>3, <1>6
  <1>8. HistoryOf(k)'
    <2>1. IsFiniteSet(own \cup {new}) /\ Cardinality(own \cup {new}) = before.reps + 1
      BY <1>5, <1>7, FS_AddElement
    <2>2. {l.rep : l \in own \cup {new}} = 1 .. (before.reps + 1)
      <3>1. {l.rep : l \in own \cup {new}} = {l.rep : l \in own} \cup {new.rep}
        OBVIOUS
      <3>2. {l.rep : l \in own} = 1 .. before.reps
        BY <1>5
      <3> QED
        BY <3>1, <3>2, <1>2, <1>3
    <2>3. LapsesAfter(before, c.outcome) = Cardinality(LapsesOf(k)')
      <3>1. IsFiniteSet(LapsesOf(k)) /\ Cardinality(LapsesOf(k)) = before.lapses
        <4>1. LapsesOf(k) \in SUBSET own
          BY <1>12
        <4> QED
          BY <1>5, <4>1, FS_Subset
      <3>2. LapsesOf(k)' = LapsesOf(k) \cup
              (IF new.rep > 1 /\ Rating(new.outcome) = "again" THEN {new} ELSE {})
        BY <1>12, <1>13
      <3>3. new.rep > 1 <=> before.state = "review"
        BY <1>1, <1>2, <1>3 DEF StateValid
      <3>4. new \notin LapsesOf(k)
        BY <1>7, <1>12
      <3>5. CASE new.rep > 1 /\ Rating(new.outcome) = "again"
        <4>1. LapsesOf(k)' = LapsesOf(k) \cup {new}
          BY <3>2, <3>5
        <4>2. Cardinality(LapsesOf(k) \cup {new}) = before.lapses + 1
          BY <3>1, <3>4, FS_AddElement
        <4>3. LapsesAfter(before, c.outcome) = before.lapses + 1
          BY <1>3, <3>3, <3>5 DEF LapsesAfter
        <4> QED
          BY <4>1, <4>2, <4>3
      <3>6. CASE ~(new.rep > 1 /\ Rating(new.outcome) = "again")
        <4>1. LapsesOf(k)' = LapsesOf(k)
          BY <3>2, <3>6
        <4>2. LapsesAfter(before, c.outcome) = before.lapses
          BY <1>3, <3>3, <3>6 DEF LapsesAfter
        <4> QED
          BY <3>1, <4>1, <4>2
      <3> QED
        BY <3>5, <3>6
    <2>4. \A l \in own \cup {new} : l.rep = before.reps + 1 =>
            /\ l.nextDueOn = DayOf(c.performedAt, c.zone) + interval
            /\ l.intervalDays = interval
      BY <1>2, <1>3, <1>6
    <2>5. /\ \A l \in own \cup {new} :
                l.performedAt <= LaterOf(before.lastReviewedAt, c.performedAt)
          /\ \E l \in own \cup {new} :
                l.performedAt = LaterOf(before.lastReviewedAt, c.performedAt)
      <3>2. \A l \in own : l.performedAt \in Nat
        BY <1>11 DEF Log
      <3>3. CASE own = {}
        <4>1. before.reps = 0
          BY <1>5, <3>3, FS_EmptySet
        <4>2. before.lastReviewedAt = None
          BY <1>1, <4>1 DEF StateValid
        <4> QED
          BY <1>1, <1>3, <3>3, <4>2 DEF LaterOf
      <3>4. CASE own # {}
        <4>1. /\ before.lastReviewedAt # None
              /\ before.lastReviewedAt \in Nat
              /\ \A l \in own : l.performedAt <= before.lastReviewedAt
              /\ \E l \in own : l.performedAt = before.lastReviewedAt
          BY <1>2, <1>5, <3>2, <3>4, ReviewItemAssumption
        <4>2. CASE c.performedAt > before.lastReviewedAt
          BY <1>1, <1>3, <3>2, <4>1, <4>2 DEF LaterOf
        <4>3. CASE ~(c.performedAt > before.lastReviewedAt)
          BY <1>1, <1>3, <3>2, <4>1, <4>3 DEF LaterOf
        <4> QED
          BY <4>2, <4>3
      <3> QED
        BY <3>3, <3>4
    <2>6. before.reps + 1 # 0
      BY <1>2
    <2> QED
      BY <1>1, <1>4, <2>1, <2>2, <2>3, <2>4, <2>5, <2>6 DEF HistoryOf
  <1>9. ASSUME NEW i \in Items, i # k
        PROVE  HistoryOf(i)'
    <2>1. items'[i] = items[i] /\ LogsOf(i)' = LogsOf(i)
      BY <1>1, <1>9
    <2>2. LapsesOf(i)' = LapsesOf(i)
      BY <2>1 DEF LapsesOf
    <2>3. HistoryOf(i)
      BY DEF HistoryInv
    <2> QED
      BY <2>1, <2>2, <2>3 DEF HistoryOf
  <1>10. LogsFormChain'
    <2> SUFFICES ASSUME NEW l \in logs \cup {new}, NEW m \in logs \cup {new}
                 PROVE  /\ l.item = m.item /\ l.rep = m.rep => l = m
                        /\ l.rep = 1 => l.stateBefore = "new" /\ l.lastIntervalDays = 0
                        /\ (l.item = m.item /\ m.rep = l.rep + 1) =>
                              /\ m.stateBefore = "review"
                              /\ m.lastIntervalDays = l.intervalDays
      BY <1>1 DEF LogsFormChain
    <2>0. ASSUME NEW x \in logs, x.item = k
          PROVE  x.rep # new.rep
      <3>1. x.rep \in 1 .. before.reps
        BY <1>6, <1>11, <2>0
      <3> QED
        BY <1>2, <1>3, <3>1
    <2>1. CASE l \in logs /\ m \in logs
      BY <2>1 DEF HistoryInv, LogsFormChain
    <2>2. l = new /\ l.rep = 1 => l.stateBefore = "new" /\ l.lastIntervalDays = 0
      BY <1>1, <1>2, <1>3, <1>5 DEF StateValid
    <2>3. CASE l \in logs /\ m = new
      <3>1. l.rep = 1 => l.stateBefore = "new" /\ l.lastIntervalDays = 0
        BY <2>3 DEF HistoryInv, LogsFormChain
      <3>2. ASSUME l.item = m.item, m.rep = l.rep + 1
            PROVE  m.stateBefore = "review" /\ m.lastIntervalDays = l.intervalDays
        <4>1. l \in own
          BY <1>3, <1>11, <2>3, <3>2
        <4>2. l.rep \in 1 .. before.reps /\ l.rep = before.reps
          BY <1>2, <1>3, <1>6, <2>3, <3>2, <4>1
        <4>3. l.intervalDays = before.intervalDays
          BY <1>5, <4>1, <4>2
        <4>4. before.state = "review"
          BY <1>1, <1>2, <4>2 DEF StateValid
        <4> QED
          BY <1>3, <2>3, <4>3, <4>4
      <3> QED
        BY <1>3, <2>0, <2>3, <3>1, <3>2
    <2>4. CASE l = new /\ m \in logs
      <3>1. ASSUME l.item = m.item, m.rep = l.rep + 1 PROVE FALSE
        <4>1. m \in own
          BY <1>3, <1>11, <2>4, <3>1
        <4>2. m.rep \in 1 .. before.reps
          BY <1>6, <4>1
        <4> QED
          BY <1>2, <1>3, <2>4, <3>1, <4>2
      <3> QED
        BY <1>3, <2>0, <2>2, <2>4, <3>1
    <2>5. CASE l = new /\ m = new
      <3>1. m.rep # l.rep + 1
        BY <1>2, <1>3, <2>5
      <3> QED
        BY <2>2, <2>5, <3>1
    <2> QED
      BY <2>1, <2>3, <2>4, <2>5
  <1> QED
    BY <1>8, <1>9, <1>10 DEF HistoryInv

LEMMA HistoryStep == StoreInv /\ HistoryInv /\ [Next]_vars => HistoryInv'
  <1> SUFFICES ASSUME StoreInv, HistoryInv, [Next]_vars
               PROVE  HistoryInv'
    OBVIOUS
  <1>1. ASSUME NEW s \in Sessions, CommitRecord(s)
        PROVE  HistoryInv'
    <2>1. tx[s].item \in Items
      BY <1>1 DEF StoreInv, TypeInv, SessionTyped, CommitRecord
    <2> QED
      BY <1>1, <2>1, HistoryCommit
  <1>2. CASE \A s \in Sessions : ~CommitRecord(s)
    <2>1. /\ logs' = logs
          /\ \A i \in Items : items'[i].sched = items[i].sched
      BY <1>2, NoCommitEffect
    <2>2. ASSUME NEW i \in Items PROVE HistoryOf(i)'
      <3>1. LogsOf(i)' = LogsOf(i) /\ LapsesOf(i)' = LapsesOf(i)
        BY <2>1 DEF LogsOf, LapsesOf
      <3>2. HistoryOf(i)
        BY DEF HistoryInv
      <3> QED
        BY <2>1, <3>1, <3>2 DEF HistoryOf
    <2>3. LogsFormChain'
      BY <2>1 DEF HistoryInv, LogsFormChain
    <2> QED
      BY <2>2, <2>3 DEF HistoryInv
  <1> QED
    BY <1>1, <1>2

LEMMA HistoryInvariant == Spec => []HistoryInv
  BY HistoryInit, HistoryStep, StoreInvariant, PTL DEF Spec

\* No update is lost: the row of an item is what its logs amount to.
THEOREM RowsFollowLogs == Spec => []RowFollowsLogs
  <1>1. HistoryInv => RowFollowsLogs
    BY DEF HistoryInv, HistoryOf, RowFollowsLogs, LapsesOf
  <1> QED
    BY <1>1, HistoryInvariant, PTL

\* The logs of an item form a chain of schedules, each starting from the last.
THEOREM LogsAreChained == Spec => []LogsFormChain
  <1>1. HistoryInv => LogsFormChain
    BY DEF HistoryInv
  <1> QED
    BY <1>1, HistoryInvariant, PTL

-----------------------------------------------------------------------------
(* Calendar: whatever zones the attempts were recorded in. *)

LEMMA DivBounds ==
    ASSUME NEW x \in Int, NEW d \in Nat \ {0}
    PROVE  (x \div d) * d <= x /\ x < (x \div d) * d + d
  OBVIOUS

LEMMA TimesMonotonic ==
    ASSUME NEW p \in Int, NEW q \in Int, NEW d \in Nat, p <= q
    PROVE  p * d <= q * d
  OBVIOUS

\* An instant on the same day as another, or on an earlier one, is less than a
\* day after it, in any zone.
LEMMA SameDayOrEarlier ==
    ASSUME NEW a \in Int, NEW b \in Int, NEW z \in Zones, DayOf(a, z) <= DayOf(b, z)
    PROVE  a < b + TicksPerDay
  <1> DEFINE T == TicksPerDay
             x == a + z
             y == b + z
  <1>1. T \in Nat \ {0} /\ x \in Int /\ y \in Int /\ z \in Int
    BY ReviewItemAssumption
  <1>2. x \div T <= y \div T
    BY DEF DayOf
  <1>3. x \div T \in Int /\ y \div T \in Int
    BY <1>1
  <1> HIDE DEF T, x, y
  <1>4. (y \div T) * T <= y /\ x < (x \div T) * T + T
    BY <1>1, DivBounds
  <1>5. (x \div T) * T <= (y \div T) * T
    BY <1>1, <1>2, <1>3, TimesMonotonic
  <1>6. (x \div T) * T \in Int /\ (y \div T) * T \in Int
    BY <1>1, <1>3
  <1>7. x < y + T
    BY <1>1, <1>4, <1>5, <1>6
  <1> QED
    BY <1>1, <1>7 DEF x, y, T

\* What the domain checked of the attempt that a commit records.
LEMMA CommitInOrder ==
    ASSUME StoreInv, NEW s \in Sessions, CommitRecord(s),
           NEW k \in Items, k = tx[s].item
    PROVE  /\ items[k].registeredAt < tx[s].performedAt + TicksPerDay
           /\ items[k].sched.lastReviewedAt # None =>
                  items[k].sched.lastReviewedAt < tx[s].performedAt + TicksPerDay
           /\ tx[s].performedAt <= clock + ClockSkew
           /\ items'[k].registeredAt = items[k].registeredAt
           /\ clock' = clock
  <1> DEFINE t == tx[s].performedAt
             z == tx[s].zone
             row == items[k]
  <1>1. tx[s].pc = "inserted" /\ clock' = clock
    BY DEF CommitRecord
  <1>2. /\ t \in Times /\ z \in Zones /\ tx[s].now \in StartTime .. clock
        /\ clock \in StartTime .. MaxTime /\ items \in [Items -> Row]
    BY <1>1 DEF StoreInv, TypeInv, TypeOK, SessionTyped, InTransaction
  <1>3. ~Refused(row, t, tx[s].now, z)
    BY <1>1 DEF StoreInv, DraftsCurrent, RefusedNow
  <1>4. /\ t \in Int /\ row.registeredAt \in Int
        /\ row.sched.lastReviewedAt \in Int \cup {None}
    BY <1>2, ReviewItemAssumption, ReviewStoreAssumption DEF Times, Row, Schedule
  <1>5. DayOf(t, z) \in Int /\ DayOf(row.registeredAt, z) \in Int
    BY <1>2, <1>4, DayOfType
  <1>6. row.registeredAt < t + TicksPerDay
    <2>1. DayOf(row.registeredAt, z) <= DayOf(t, z)
      BY <1>3, <1>5 DEF Refused, BeforeRegistration
    <2> QED
      BY <1>2, <1>4, <2>1, SameDayOrEarlier
  <1>7. row.sched.lastReviewedAt # None => row.sched.lastReviewedAt < t + TicksPerDay
    <2> SUFFICES ASSUME row.sched.lastReviewedAt # None
                 PROVE  row.sched.lastReviewedAt < t + TicksPerDay
      OBVIOUS
    <2>1. row.sched.lastReviewedAt \in Int
      BY <1>4
    <2>2. DayOf(row.sched.lastReviewedAt, z) \in Int
      BY <1>2, <2>1, DayOfType
    <2>3. DayOf(row.sched.lastReviewedAt, z) <= DayOf(t, z)
      BY <1>3, <1>5, <2>2 DEF Refused, BeforeLastReview
    <2> QED
      BY <1>2, <1>4, <2>1, <2>3, SameDayOrEarlier
  <1>8. t <= clock + ClockSkew
    <2>1. ~(t > tx[s].now + ClockSkew)
      BY <1>3 DEF Refused
    <2> QED
      BY <1>2, <1>4, <2>1, ReviewItemAssumption, ReviewStoreAssumption
  <1>9. items'[k].registeredAt = row.registeredAt
    BY <1>2 DEF CommitRecord, ItemsAfterCommit, Row
  <1> QED
    BY <1>1, <1>6, <1>7, <1>8, <1>9

\* The registration date never changes and the clock never goes back.
LEMMA NoCommitKeeps ==
    ASSUME StoreInv, [Next]_vars, \A s \in Sessions : ~CommitRecord(s)
    PROVE  /\ \A i \in Items : items'[i].registeredAt = items[i].registeredAt
           /\ clock' \in Nat /\ clock \in Nat /\ clock <= clock'
  <1>0. items \in [Items -> Row] /\ TypeInv /\ TypeInv'
    BY TypeInvStep DEF StoreInv, TypeInv, TypeOK
  <1>1. clock \in Nat /\ clock' \in Nat
    BY <1>0, ReviewStoreAssumption DEF TypeInv, TypeOK
  <1>2. \A i \in Items : items'[i].registeredAt = items[i].registeredAt
    <2>1. CASE Quiet
      BY <2>1 DEF Quiet
    <2>2. ASSUME NEW s \in Sessions,
                 LockReviewItem(s) \/ UpdateReviewItemSchedule(s) \/ CreateReviewLog(s)
          PROVE  UNCHANGED items
      BY <2>2 DEF LockReviewItem, UpdateReviewItemSchedule, CreateReviewLog
    <2>3. ASSUME NEW s \in Sessions, UpdateReviewItemPausedAt(s)
          PROVE  \A i \in Items : items'[i].registeredAt = items[i].registeredAt
      BY <1>0, <2>3 DEF UpdateReviewItemPausedAt, Row
    <2> QED
      BY <1>0, <2>1, <2>2, <2>3, StepKinds
  <1>3. clock <= clock'
    <2>1. [Ledger!Next]_(Ledger!vars)
      BY UpdateIsSetPausedAt, OtherStepsStutter
    <2>2. clock' = clock \/ clock' = clock + 1
      BY <2>1 DEF Ledger!Next, Ledger!vars, Ledger!Tick, Ledger!SetPausedAt, Ledger!Record
    <2> QED
      BY <1>1, <2>2
  <1> QED
    BY <1>1, <1>2, <1>3

LEMMA CalendarStep ==
    StoreInv /\ HistoryInv /\ OutOfOrderByLessThanADay /\ [Next]_vars
        => OutOfOrderByLessThanADay'
  <1> SUFFICES ASSUME StoreInv, HistoryInv, OutOfOrderByLessThanADay, [Next]_vars
               PROVE  OutOfOrderByLessThanADay'
    OBVIOUS
  <1>0. logs \subseteq Log /\ items \in [Items -> Row] /\ clock \in Nat
    BY ReviewStoreAssumption DEF StoreInv, TypeInv, TypeOK
  <1>1. ASSUME NEW s \in Sessions, CommitRecord(s)
        PROVE  OutOfOrderByLessThanADay'
    <2>0. PICK k \in Items : k = tx[s].item
      BY <1>1 DEF StoreInv, TypeInv, SessionTyped, CommitRecord
    <2> DEFINE new == tx[s].log
               t == tx[s].performedAt
    <2>1. /\ t \in Nat /\ logs' = logs \cup {new}
          /\ new.item = k /\ new.performedAt = t
          /\ new.rep = items[k].sched.reps + 1
          /\ items[k].sched \in Schedule
          /\ \A i \in Items \ {k} : items'[i] = items[i]
      <3>1. PICK interval \in Intervals :
              /\ t \in Nat /\ items[k].sched \in Schedule
              /\ new = LogOf(k, tx[s].request, tx[s].outcome, t, tx[s].now,
                             tx[s].zone, items[k].sched, interval)
              /\ logs' = logs \cup {new}
              /\ \A i \in Items \ {k} : items'[i] = items[i]
        BY <1>1, <2>0, CommitEffect
      <3> QED
        BY <3>1 DEF LogOf
    <2>2. /\ items[k].registeredAt < t + TicksPerDay
          /\ items[k].sched.lastReviewedAt # None =>
                 items[k].sched.lastReviewedAt < t + TicksPerDay
          /\ t <= clock + ClockSkew
          /\ items'[k].registeredAt = items[k].registeredAt
          /\ clock' = clock
      BY <1>1, <2>0, CommitInOrder
    <2>3. ASSUME NEW l \in logs, l.item = k
          PROVE  l.performedAt < t + TicksPerDay /\ l.rep < new.rep
      <3>1. /\ l.rep \in 1 .. items[k].sched.reps
            /\ l.performedAt <= items[k].sched.lastReviewedAt
            /\ items[k].sched.reps \in Nat /\ l.performedAt \in Nat
            /\ items[k].sched.lastReviewedAt \in Nat \cup {None}
        <4>1. l \in LogsOf(k) /\ HistoryOf(k)
          BY <2>3 DEF HistoryInv, LogsOf
        <4>2. /\ l.rep \in {m.rep : m \in LogsOf(k)}
              /\ {m.rep : m \in LogsOf(k)} = 1 .. items[k].sched.reps
              /\ l.performedAt <= items[k].sched.lastReviewedAt
          BY <4>1 DEF HistoryOf
        <4>3. l.performedAt \in Nat
          BY <1>0, <2>3 DEF Log
        <4> QED
          BY <2>1, <4>2, <4>3 DEF Schedule
      <3>2. items[k].sched.lastReviewedAt # None
        <4>1. items[k].sched.reps # 0 /\ StateValid(items[k].sched)
          BY <3>1 DEF StoreInv, TypeInv, TypeOK
        <4> QED
          BY <4>1 DEF StateValid
      <3> QED
        BY <2>1, <2>2, <3>1, <3>2, ReviewItemAssumption
    <2> HIDE DEF new, t
    <2> SUFFICES ASSUME NEW l \in logs \cup {new}, NEW m \in logs \cup {new}
                 PROVE  /\ l.item = m.item /\ l.rep < m.rep =>
                              l.performedAt < m.performedAt + TicksPerDay
                        /\ items'[l.item].registeredAt < l.performedAt + TicksPerDay
                        /\ l.performedAt <= clock + ClockSkew
      BY <2>1, <2>2 DEF OutOfOrderByLessThanADay
    <2>4. l.item = m.item /\ l.rep < m.rep => l.performedAt < m.performedAt + TicksPerDay
      <3>1. CASE l \in logs /\ m \in logs
        BY <3>1 DEF OutOfOrderByLessThanADay
      <3>2. CASE l \in logs /\ m = new
        BY <2>1, <2>3, <3>2
      <3>3. CASE l = new /\ m \in logs
        <4>1. m.item = k => m.rep < new.rep
          BY <2>3, <3>3
        <4>2. m.rep \in Nat /\ new.rep \in Int
          BY <1>0, <2>1, <3>3 DEF Log, Schedule
        <4> QED
          BY <2>1, <3>3, <4>1, <4>2
      <3>4. CASE l = new /\ m = new
        <4>1. new.rep \in Int
          BY <2>1 DEF Schedule
        <4> QED
          BY <3>4, <4>1
      <3> QED
        BY <3>1, <3>2, <3>3, <3>4
    <2>5. /\ items'[l.item].registeredAt < l.performedAt + TicksPerDay
          /\ l.performedAt <= clock + ClockSkew
      <3>1. CASE l \in logs
        <4>1. l.item \in Items
          BY <1>0, <3>1 DEF Log
        <4>2. items'[l.item].registeredAt = items[l.item].registeredAt
          BY <2>1, <2>2, <4>1
        <4> QED
          BY <3>1, <4>2 DEF OutOfOrderByLessThanADay
      <3>2. CASE l = new
        BY <2>1, <2>2, <3>2
      <3> QED
        BY <3>1, <3>2
    <2> QED
      BY <2>4, <2>5
  <1>2. CASE \A s \in Sessions : ~CommitRecord(s)
    <2>1. logs' = logs
      BY <1>2, NoCommitEffect
    <2>2. /\ \A i \in Items : items'[i].registeredAt = items[i].registeredAt
          /\ clock' \in Nat /\ clock <= clock'
      BY <1>2, NoCommitKeeps
    <2> SUFFICES ASSUME NEW l \in logs, NEW m \in logs
                 PROVE  /\ l.item = m.item /\ l.rep < m.rep =>
                              l.performedAt < m.performedAt + TicksPerDay
                        /\ items'[l.item].registeredAt < l.performedAt + TicksPerDay
                        /\ l.performedAt <= clock' + ClockSkew
      BY <2>1 DEF OutOfOrderByLessThanADay
    <2>3. l.item \in Items /\ l.performedAt \in Nat
      BY <1>0 DEF Log
    <2>4. l.performedAt <= clock' + ClockSkew
      <3>1. l.performedAt <= clock + ClockSkew
        BY DEF OutOfOrderByLessThanADay
      <3> QED
        BY <1>0, <2>2, <2>3, <3>1, ReviewItemAssumption
    <2> QED
      BY <2>2, <2>3, <2>4 DEF OutOfOrderByLessThanADay
  <1> QED
    BY <1>1, <1>2

\* Attempts are never out of order by a day or more, whatever zones they were
\* recorded in and however the zone changed while a call was being served.
THEOREM OutOfOrderBounded == Spec => []OutOfOrderByLessThanADay
  <1>1. Init => OutOfOrderByLessThanADay
    BY DEF Init, OutOfOrderByLessThanADay
  <1> QED
    BY <1>1, CalendarStep, StoreInvariant, HistoryInvariant, PTL DEF Spec

\* The log shown as the last one of an item carries the instant that the domain
\* compares the next attempt with.
THEOREM LatestLogAgrees == Spec => []LatestLogIsLastReviewed
  <1>1. StoreInv /\ HistoryInv => LatestLogIsLastReviewed
    <2> SUFFICES ASSUME StoreInv, HistoryInv, NEW i \in Items,
                        NEW l \in LatestLogs(LogsOf(i))
                 PROVE  l.performedAt = items[i].sched.lastReviewedAt
      BY DEF LatestLogIsLastReviewed
    <2>1. l \in LogsOf(i) /\ LogsOf(i) \subseteq Log
      BY DEF LatestLogs, LogsOf, StoreInv, TypeInv, TypeOK
    <2>2. PICK m \in LogsOf(i) : m.performedAt = items[i].sched.lastReviewedAt
      BY <2>1 DEF HistoryInv, HistoryOf
    <2>3. l.performedAt <= m.performedAt
      BY <2>1, <2>2 DEF HistoryInv, HistoryOf
    <2>4. m = l \/ l.performedAt > m.performedAt \/ l.performedAt = m.performedAt
      BY <2>2 DEF LatestLogs
    <2>5. l.performedAt \in Nat /\ m.performedAt \in Nat
      BY <2>1, <2>2 DEF Log
    <2> QED
      BY <2>2, <2>3, <2>4, <2>5
  <1> QED
    BY <1>1, StoreInvariant, HistoryInvariant, PTL

-----------------------------------------------------------------------------
(* What passes between the result sheet and the store (ReviewMessages). *)

\* keyOf inverts the two tables of api.ts, and knows no key for UNSPECIFIED.
LEMMA KeysRecovered ==
    /\ \A k \in ResultKeys : keyOf(reviewResults, reviewResults[k]) = k
    /\ \A k \in DifficultyKeys : keyOf(difficulties, difficulties[k]) = k
    /\ keyOf(difficulties, 0) = Undefined
  <1>1. /\ DOMAIN reviewResults = ResultKeys
        /\ \A j, k \in ResultKeys : reviewResults[j] = reviewResults[k] => j = k
    BY DEF reviewResults, ResultKeys
  <1>2. /\ DOMAIN difficulties = DifficultyKeys
        /\ \A j, k \in DifficultyKeys : difficulties[j] = difficulties[k] => j = k
        /\ \A k \in DifficultyKeys : difficulties[k] # 0
    BY DEF difficulties, DifficultyKeys
  <1> QED
    BY <1>1, <1>2 DEF keyOf

\* The two columns determine the outcome.
LEMMA OutcomesRestored ==
    \A o \in AllOutcomes : OutcomeFromRating(ResultOf(o), Rating(o)) = o
  BY DEF AllOutcomes, OutcomeFromRating, ResultOf, Rating, NewOutcome, DifficultyKeys

\* The outcome a request stands for, by the fields of the sheet.
LEMMA OutcomeOfFields ==
    ASSUME NEW result \in ResultKeys, NEW difficulty \in DifficultyKeys,
           NEW o, o = RequestedOutcome(RequestFields(result, difficulty))
    PROVE  /\ result # "independent" => o = result /\ o \in {"assisted", "unsolved"}
           /\ result = "independent" =>
                /\ difficulty = "hard" => o = "independent_hard"
                /\ difficulty = "good" => o = "independent_good"
                /\ difficulty = "easy" => o = "independent_easy"
  <1> DEFINE request == RequestFields(result, difficulty)
  <1>1. o = NewOutcome(resultValue(request.result), difficultyValue(request.difficulty))
    BY DEF RequestedOutcome
  <1>2. resultValue(request.result) = result
    <2>1. /\ reviewResults["independent"] = 1 /\ reviewResults["assisted"] = 2
          /\ reviewResults["unsolved"] = 3
      BY DEF reviewResults
    <2>2. /\ resultValue(1) = "independent" /\ resultValue(2) = "assisted"
          /\ resultValue(3) = "unsolved"
      BY DEF resultValue
    <2>3. request.result = reviewResults[result]
      BY DEF RequestFields
    <2> QED
      BY <2>1, <2>2, <2>3 DEF ResultKeys
  <1>3. difficultyValue(request.difficulty)
          = IF result = "independent" THEN difficulty ELSE ""
    <2>1. /\ difficulties["hard"] = 1 /\ difficulties["good"] = 2
          /\ difficulties["easy"] = 3
      BY DEF difficulties
    <2>2. /\ difficultyValue(0) = "" /\ difficultyValue(1) = "hard"
          /\ difficultyValue(2) = "good" /\ difficultyValue(3) = "easy"
      BY DEF difficultyValue
    <2>3. request.difficulty = IF result = "independent" THEN difficulties[difficulty] ELSE 0
      BY DEF RequestFields
    <2> QED
      BY <2>1, <2>2, <2>3 DEF DifficultyKeys
  <1> HIDE DEF request
  <1>4. CASE result = "independent"
    BY <1>1, <1>2, <1>3, <1>4 DEF NewOutcome
  <1>5. CASE result # "independent"
    BY <1>1, <1>2, <1>3, <1>5 DEF NewOutcome, ResultKeys
  <1> QED
    BY <1>4, <1>5

\* The message of each outcome.
LEMMA OutcomeMessages ==
    /\ OutcomeMessage("unsolved") = [result |-> 3, difficulty |-> 0]
    /\ OutcomeMessage("assisted") = [result |-> 2, difficulty |-> 0]
    /\ OutcomeMessage("independent_hard") = [result |-> 1, difficulty |-> 1]
    /\ OutcomeMessage("independent_good") = [result |-> 1, difficulty |-> 2]
    /\ OutcomeMessage("independent_easy") = [result |-> 1, difficulty |-> 3]
  BY DEF OutcomeMessage, resultMessage, difficultyMessage, DifficultyOf, ResultOf,
         Rating, ResultKeys, reviewResults

\* The sheet sends what the message of the outcome says.
LEMMA RequestIsMessage ==
    ASSUME NEW result \in ResultKeys, NEW difficulty \in DifficultyKeys
    PROVE  OutcomeMessage(RequestedOutcome(RequestFields(result, difficulty)))
             = RequestFields(result, difficulty)
  <1>1. PICK o : o = RequestedOutcome(RequestFields(result, difficulty))
    OBVIOUS
  <1>2. OutcomeMessage(o) = RequestFields(result, difficulty)
    BY <1>1, OutcomeOfFields, OutcomeMessages
    DEF RequestFields, ResultKeys, DifficultyKeys, reviewResults, difficulties
  <1> QED
    BY <1>1, <1>2

\* What the user picks in the sheet is an outcome to the domain, the columns of the
\* table give the same outcome back, and the label of the answer says what was picked:
\* the request's conversions, OutcomeFromRating and logLabel.
THEOREM OutcomeReachesLabel ==
    ASSUME NEW result \in ResultKeys, NEW difficulty \in DifficultyKeys
    PROVE  LET o == RequestedOutcome(RequestFields(result, difficulty))
           IN  /\ o \in AllOutcomes
               /\ OutcomeFromRating(OutcomeColumns(o).result, OutcomeColumns(o).rating) = o
               /\ logLabel(OutcomeMessage(o)) = outcomeLabel(result, difficulty)
  <1>1. PICK o : o = RequestedOutcome(RequestFields(result, difficulty))
    OBVIOUS
  <1>2. o \in AllOutcomes
    BY <1>1, OutcomeOfFields DEF AllOutcomes, ResultKeys, DifficultyKeys
  <1>3. OutcomeFromRating(ResultOf(o), Rating(o)) = o
    BY <1>2, OutcomesRestored
  <1>4. logLabel(RequestFields(result, difficulty)) = outcomeLabel(result, difficulty)
    <2>1. keyOf(reviewResults, RequestFields(result, difficulty).result) = result
      BY KeysRecovered DEF RequestFields
    <2>2. result = "independent" =>
            keyOf(difficulties, RequestFields(result, difficulty).difficulty) = difficulty
      BY KeysRecovered DEF RequestFields
    <2>3. result # Undefined
      BY DEF ResultKeys, Undefined
    <2> QED
      BY <2>1, <2>2, <2>3 DEF logLabel, outcomeLabel
  <1> QED
    BY <1>1, <1>2, <1>3, <1>4, RequestIsMessage DEF OutcomeColumns

\* An outcome is one of the five previewed, and told from the others by its message.
LEMMA PreviewedOnce ==
    /\ \A o \in AllOutcomes :
          \E k \in DOMAIN PreviewedOutcomes : PreviewedOutcomes[k] = o
    /\ \A j, k \in DOMAIN PreviewedOutcomes :
          OutcomeMessage(PreviewedOutcomes[j]) = OutcomeMessage(PreviewedOutcomes[k]) => j = k
  <1>1. /\ DOMAIN PreviewedOutcomes = 1 .. 5
        /\ PreviewedOutcomes[1] = "unsolved" /\ PreviewedOutcomes[2] = "assisted"
        /\ PreviewedOutcomes[3] = "independent_hard"
        /\ PreviewedOutcomes[4] = "independent_good"
        /\ PreviewedOutcomes[5] = "independent_easy"
    BY DEF PreviewedOutcomes
  <1>2. \A o \in AllOutcomes :
          \E k \in DOMAIN PreviewedOutcomes : PreviewedOutcomes[k] = o
    BY <1>1 DEF AllOutcomes
  <1>3. \A m, n \in AllOutcomes : OutcomeMessage(m) = OutcomeMessage(n) => m = n
    BY OutcomeMessages DEF AllOutcomes
  <1>4. \A j, k \in DOMAIN PreviewedOutcomes :
          PreviewedOutcomes[j] = PreviewedOutcomes[k] => j = k
    BY <1>1
  <1>5. \A k \in DOMAIN PreviewedOutcomes : PreviewedOutcomes[k] \in AllOutcomes
    BY <1>1 DEF AllOutcomes
  <1> QED
    BY <1>2, <1>3, <1>4, <1>5

\* The one preview the sheet shows is that of the outcome it will send, and a record of
\* the same row, instant and zone gives its date (the comment of PreviewSchedule,
\* review_item.go:215, whose part on the seed is that intervals is one function).
THEOREM PreviewMatchesRecord ==
    ASSUME NEW row, NEW performedAt, NEW now, NEW z, NEW intervals,
           NEW i, NEW r, NEW createdAt,
           ~Refused(row, performedAt, now, z),
           NEW result \in ResultKeys, NEW difficulty \in DifficultyKeys
    PROVE  LET o == RequestedOutcome(RequestFields(result, difficulty))
               found == PreviewsFor(
                   PreviewMessages(PreviewSchedule(row, performedAt, now, z, intervals)),
                   result, difficulty)
               log == LogOf(i, r, o, performedAt, createdAt, z, row.sched, intervals[o])
           IN  \E preview : found = {preview} /\ preview.nextDueOn = log.nextDueOn
  <1> DEFINE o == RequestedOutcome(RequestFields(result, difficulty))
             previews == PreviewSchedule(row, performedAt, now, z, intervals)
             messages == PreviewMessages(previews)
             due(p) == ScheduleAfter(row.sched, p, performedAt, z, intervals[p]).dueOn
             message(k) == [result |-> OutcomeMessage(PreviewedOutcomes[k]).result,
                            difficulty |-> OutcomeMessage(PreviewedOutcomes[k]).difficulty,
                            nextDueOn |-> due(PreviewedOutcomes[k]),
                            daysAfterPerformed |-> due(PreviewedOutcomes[k])
                                                     - DayOf(performedAt, z)]
  <1>1. /\ DOMAIN messages = DOMAIN PreviewedOutcomes
        /\ \A k \in DOMAIN PreviewedOutcomes : messages[k] = message(k)
    <2>1. previews = [k \in DOMAIN PreviewedOutcomes |->
                        [outcome |-> PreviewedOutcomes[k],
                         nextDueOn |-> due(PreviewedOutcomes[k]),
                         daysAfterPerformed |-> due(PreviewedOutcomes[k])
                                                  - DayOf(performedAt, z)]]
      BY DEF PreviewSchedule
    <2> HIDE DEF previews
    <2> QED
      BY <2>1 DEF PreviewMessages
  <1>2. PICK n \in DOMAIN PreviewedOutcomes : PreviewedOutcomes[n] = o
    BY PreviewedOnce, OutcomeReachesLabel
  <1>3. OutcomeMessage(o) = RequestFields(result, difficulty)
    BY RequestIsMessage
  <1> HIDE DEF o, messages
  <1>4. \A k \in DOMAIN messages :
            /\ messages[k].result = RequestFields(result, difficulty).result
            /\ messages[k].difficulty = RequestFields(result, difficulty).difficulty
          <=> k = n
    <2>1. \A p : OutcomeMessage(p) = [result |-> OutcomeMessage(p).result,
                                      difficulty |-> OutcomeMessage(p).difficulty]
      BY DEF OutcomeMessage
    <2>2. \A k \in DOMAIN messages :
              /\ messages[k].result = OutcomeMessage(PreviewedOutcomes[k]).result
              /\ messages[k].difficulty = OutcomeMessage(PreviewedOutcomes[k]).difficulty
      BY <1>1
    <2> QED
      BY <1>1, <1>2, <1>3, <2>1, <2>2, PreviewedOnce
  <1>5. PreviewsFor(messages, result, difficulty) = {messages[n]}
    BY <1>1, <1>2, <1>4 DEF PreviewsFor
  <1>6. messages[n].nextDueOn = due(o)
    BY <1>1, <1>2
  <1>7. due(o) = LogOf(i, r, o, performedAt, createdAt, z, row.sched, intervals[o]).nextDueOn
    BY DEF ScheduleAfter, LogOf
  <1> QED
    BY <1>5, <1>6, <1>7 DEF o, messages

\* The logs in the table are those RehydrateReviewLog reads back, so that neither a
\* replay nor a list of logs fails on one.
THEOREM StoredLogsReadBack == Spec => [](\A l \in logs : LogValid(l))
  <1>1. TypeOK => \A l \in logs : LogValid(l)
    <2> SUFFICES ASSUME TypeOK, NEW l \in logs PROVE LogValid(l)
      OBVIOUS
    <2>1. l \in Log
      BY DEF TypeOK
    <2>2. l.outcome \in AllOutcomes
      BY <2>1, ReviewItemAssumption DEF Log
    <2>3. /\ l.stateBefore \in {"new", "review"} /\ l.elapsedDays \in Nat
          /\ l.lastIntervalDays \in Nat /\ l.intervalDays \in Nat \ {0}
      BY <2>1 DEF Log
    <2> QED
      BY <2>2, <2>3, OutcomesRestored DEF LogValid, OutcomeColumns
  <1> QED
    BY <1>1, TypeCorrect, PTL

\* The sheet's own checks leave the server one reason to refuse an attempt, that its
\* item is paused: with the view the server would answer now, a form that shows no error
\* carries an outcome, a note and an instant the domain takes.  The bound of the last
\* attempt agrees because the log shown as the last is the one schedule() compares with.
THEOREM SheetSendsWhatIsTaken ==
    Spec => [](\A i \in Items : \A view \in Views(items[i], logs, i, zone) :
                 \A form \in SheetForms :
                   FieldErrors(form, view, clock, zone) = {} =>
                     /\ RequestedOutcome(RequestFields(form.result, form.difficulty))
                          \in AllOutcomes
                     /\ NoteValid(form.note)
                     /\ Refused(items[i], form.performedAt, clock, zone) => Paused(items[i]))
  <1> DEFINE Taken ==
               \A i \in Items : \A view \in Views(items[i], logs, i, zone) :
                 \A form \in SheetForms :
                   FieldErrors(form, view, clock, zone) = {} =>
                     /\ RequestedOutcome(RequestFields(form.result, form.difficulty))
                          \in AllOutcomes
                     /\ NoteValid(form.note)
                     /\ Refused(items[i], form.performedAt, clock, zone) => Paused(items[i])
  <1>1. StoreInv /\ HistoryInv /\ LatestLogIsLastReviewed => Taken
    <2> SUFFICES ASSUME StoreInv, HistoryInv, LatestLogIsLastReviewed, NEW i \in Items,
                        NEW view \in Views(items[i], logs, i, zone),
                        NEW form \in SheetForms, FieldErrors(form, view, clock, zone) = {}
                 PROVE  /\ RequestedOutcome(RequestFields(form.result, form.difficulty))
                             \in AllOutcomes
                        /\ NoteValid(form.note)
                        /\ Refused(items[i], form.performedAt, clock, zone)
                             => Paused(items[i])
      OBVIOUS
    <2>1. /\ form.result # Undefined
          /\ PerformedAtValid(view, form.performedAt, clock, zone)
          /\ ~(2 * form.note.wide + form.note.narrow + form.note.blank > MaxNote)
      BY DEF FieldErrors
    <2>2. form.result \in ResultKeys /\ form.difficulty \in DifficultyKeys
      BY <2>1 DEF SheetForms
    <2>3. NoteValid(form.note)
      BY <2>1 DEF NoteValid, SheetForms, Notes, MaxNote
    <2>4. ~BeforeRegistration(items[i], form.performedAt, zone)
          /\ ~(form.performedAt > clock + ClockSkew)
      <3>1. view.registeredOn = DayOf(items[i].registeredAt, zone)
        BY DEF Views
      <3>2. form.performedAt \in Nat /\ form.performedAt <= clock
        BY <2>1 DEF PerformedAtValid, SheetForms
      <3>3. items[i].registeredAt \in Nat /\ zone \in Zones /\ clock \in Nat
        BY ReviewStoreAssumption DEF StoreInv, TypeInv, TypeOK, Row
      <3>4. DayOf(form.performedAt, zone) \in Int
            /\ DayOf(items[i].registeredAt, zone) \in Int
        BY <3>2, <3>3, DayOfType
      <3>5. DayOf(form.performedAt, zone) >= DayOf(items[i].registeredAt, zone)
        BY <2>1, <3>1 DEF PerformedAtValid
      <3>6. ~(form.performedAt > clock + ClockSkew)
        BY <3>2, <3>3, ReviewItemAssumption
      <3> QED
        BY <3>4, <3>5, <3>6 DEF BeforeRegistration
    <2>5. ~BeforeLastReview(items[i], form.performedAt, zone)
      <3>1. CASE LogsOf(i) = {}
        <4>1. items[i].sched.reps = 0
          BY <3>1, FS_EmptySet DEF HistoryInv, HistoryOf
        <4>2. items[i].sched.lastReviewedAt = None
          BY <4>1 DEF StoreInv, TypeInv, TypeOK, StateValid
        <4> QED
          BY <4>2 DEF BeforeLastReview
      <3>2. CASE LogsOf(i) # {}
        <4>1. PICK l \in LatestLogs(LogsOf(i)) : view.lastLog = {l}
          BY <3>2 DEF Views, LogsOf
        <4>2. l.performedAt = items[i].sched.lastReviewedAt
          BY <4>1 DEF LatestLogIsLastReviewed
        <4>3. DayOf(form.performedAt, zone) >= DayOf(l.performedAt, zone)
          BY <2>1, <4>1 DEF PerformedAtValid
        <4>4. l.performedAt \in Nat
          BY <4>1 DEF LatestLogs, LogsOf, StoreInv, TypeInv, TypeOK, Log
        <4>5. DayOf(form.performedAt, zone) \in Int /\ DayOf(l.performedAt, zone) \in Int
          <5>1. form.performedAt \in Nat
            BY <2>1 DEF PerformedAtValid, SheetForms
          <5>2. zone \in Zones
            BY DEF StoreInv, TypeInv, TypeOK
          <5> QED
            BY <4>4, <5>1, <5>2, DayOfType
        <4> QED
          BY <4>2, <4>3, <4>5 DEF BeforeLastReview
      <3> QED
        BY <3>1, <3>2
    <2> QED
      BY <2>2, <2>3, <2>4, <2>5, OutcomeReachesLabel DEF Refused
  <1> QED
    BY <1>1, StoreInvariant, HistoryInvariant, LatestLogAgrees, PTL
=============================================================================
