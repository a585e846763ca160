---------------------------- MODULE ReviewMessages ----------------------------
(***************************************************************************)
(* What passes between the result sheet and the server: the item as the    *)
(* sheet gets it and the checks it makes with it; how an attempt went, from *)
(* the fields of the sheet through the request, the domain, the columns of *)
(* review_logs and the answer to the label on display; and the previews of *)
(* a schedule, of which the sheet picks one.  Operators only.              *)
(*                                                                         *)
(* The domain's Outcome is a member of AllOutcomes.  On the wire a result  *)
(* and a difficulty are numbers of open protobuf enums: a client may send  *)
(* any.  Of a note only the lengths count: wide, the characters of two     *)
(* UTF-16 units; narrow, those of one; blank, the white space around it.   *)
(***************************************************************************)
EXTENDS ReviewItem, Sequences

ResultKeys == {"independent", "assisted", "unsolved"}
DifficultyKeys == {"hard", "good", "easy"}

Undefined == "undefined"

\* The enums of the messages, by the keys of the form; 0 is UNSPECIFIED.
reviewResults == [independent |-> 1, assisted |-> 2, unsolved |-> 3]
difficulties == [hard |-> 1, good |-> 2, easy |-> 3]

MaxNote == 1000        \* runes on the server, UTF-16 units in the sheet
Notes == [wide : Nat, narrow : Nat, blank : Nat]

-----------------------------------------------------------------------------
(* The item on the page and what the sheet checks with it. *)

\* The views of item i that the server may answer.  lastLog has the last log, if there
\* is one; a tie leaves it open.
Views(row, ls, i, z) ==
    LET own == {l \in ls : l.item = i}
    IN  {[item |-> i,
          registeredOn |-> DayOf(row.registeredAt, z),
          dueOn |-> row.sched.dueOn,
          paused |-> Paused(row),
          reviewCount |-> row.sched.reps,
          lastLog |-> last] :
            last \in IF own = {} THEN {{}} ELSE {{l} : l \in LatestLogs(own)}}

\* The sheet's check of its date and time, in whole minutes of the account's zone.
PerformedAtValid(view, performedAt, now, z) ==
    /\ performedAt # None
    /\ performedAt <= now
    /\ DayOf(performedAt, z) >= view.registeredOn
    /\ \A l \in view.lastLog : DayOf(performedAt, z) >= DayOf(l.performedAt, z)

SheetForms ==
    [result : ResultKeys \cup {Undefined}, difficulty : DifficultyKeys,
     performedAt : Nat \cup {None}, note : Notes]

\* The fields that show an error once the form is submitted; with one, nothing is sent.
FieldErrors(form, view, now, z) ==
    {field \in {"result", "performedAt", "note"} :
        CASE field = "result" -> form.result = Undefined
          [] field = "performedAt" -> ~PerformedAtValid(view, form.performedAt, now, z)
          [] field = "note" ->
                2 * form.note.wide + form.note.narrow + form.note.blank > MaxNote}

\* normalizeNote: what is left after trimming must fit the column.
NoteValid(note) == note.wide + note.narrow <= MaxNote

-----------------------------------------------------------------------------
(* The request: from the form to the domain. *)

RequestFields(result, difficulty) ==
    [result |-> reviewResults[result],
     difficulty |-> IF result = "independent" THEN difficulties[difficulty] ELSE 0]

resultValue(message) ==
    CASE message = 1 -> "independent"
      [] message = 2 -> "assisted"
      [] message = 3 -> "unsolved"
      [] OTHER -> ""

difficultyValue(message) ==
    CASE message = 0 -> ""
      [] message = 1 -> "hard"
      [] message = 2 -> "good"
      [] message = 3 -> "easy"
      [] OTHER -> "unknown"

Invalid == "ErrInvalidOutcome"

NewOutcome(result, difficulty) ==
    CASE result = "independent" /\ difficulty \in {"", "good"} -> "independent_good"
      [] result = "independent" /\ difficulty = "hard" -> "independent_hard"
      [] result = "independent" /\ difficulty = "easy" -> "independent_easy"
      [] result \in {"assisted", "unsolved"} /\ difficulty = "" -> result
      [] OTHER -> Invalid

RequestedOutcome(request) ==
    NewOutcome(resultValue(request.result), difficultyValue(request.difficulty))

-----------------------------------------------------------------------------
(* The table and the answer. *)

ResultOf(o) == IF o \in {"assisted", "unsolved"} THEN o ELSE "independent"
DifficultyOf(o) == IF ResultOf(o) = "independent" THEN Rating(o) ELSE ""

\* The columns result and rating are all that is stored of an outcome.
OutcomeColumns(o) == [result |-> ResultOf(o), rating |-> Rating(o)]

OutcomeFromRating(result, rating) ==
    IF result # "independent"
    THEN IF rating = "again" THEN NewOutcome(result, "") ELSE Invalid
    ELSE IF rating \in DifficultyKeys THEN NewOutcome(result, rating) ELSE Invalid

\* RehydrateReviewLog reads the row of a log back.
LogValid(log) ==
    LET columns == OutcomeColumns(log.outcome)
    IN  /\ OutcomeFromRating(columns.result, columns.rating) = log.outcome
        /\ log.stateBefore \in {"new", "review"}
        /\ log.elapsedDays >= 0 /\ log.lastIntervalDays >= 0 /\ log.intervalDays >= 1

resultMessage(result) == IF result \in ResultKeys THEN reviewResults[result] ELSE 0

difficultyMessage(o) ==
    CASE DifficultyOf(o) = "" -> 0
      [] DifficultyOf(o) = "hard" -> 1
      [] DifficultyOf(o) = "easy" -> 3
      [] OTHER -> 2

OutcomeMessage(o) ==
    [result |-> resultMessage(ResultOf(o)), difficulty |-> difficultyMessage(o)]

-----------------------------------------------------------------------------
(* The label, as the texts it is made of; <<>> if the result is unknown. *)

outcomeLabel(result, difficulty) ==
    IF result # "independent" \/ difficulty = Undefined THEN <<result>>
    ELSE <<result, difficulty>>

keyOf(keys, number) ==
    IF \E k \in DOMAIN keys : keys[k] = number
    THEN CHOOSE k \in DOMAIN keys : keys[k] = number ELSE Undefined

logLabel(message) ==
    LET result == keyOf(reviewResults, message.result)
    IN  IF result = Undefined THEN <<>>
        ELSE outcomeLabel(result, keyOf(difficulties, message.difficulty))

-----------------------------------------------------------------------------
(* The preview of a schedule.  intervals has the interval that the scheduler *)
(* chooses for each outcome: a function of the row and of the fuzz, whose   *)
(* seed is the item and its count in a preview as in a record.              *)

PreviewedOutcomes ==
    <<"unsolved", "assisted",
      "independent_hard", "independent_good", "independent_easy">>

\* None if schedule() refuses the attempt.
PreviewSchedule(row, performedAt, now, z, intervals) ==
    IF Refused(row, performedAt, now, z) THEN None
    ELSE LET NextDueOn(o) ==
                 ScheduleAfter(row.sched, o, performedAt, z, intervals[o]).dueOn
         IN  [k \in DOMAIN PreviewedOutcomes |->
                 LET o == PreviewedOutcomes[k]
                 IN  [outcome |-> o, nextDueOn |-> NextDueOn(o),
                      daysAfterPerformed |-> NextDueOn(o) - DayOf(performedAt, z)]]

PreviewMessages(previews) ==
    [k \in DOMAIN previews |->
        [result |-> OutcomeMessage(previews[k].outcome).result,
         difficulty |-> OutcomeMessage(previews[k].outcome).difficulty,
         nextDueOn |-> previews[k].nextDueOn,
         daysAfterPerformed |-> previews[k].daysAfterPerformed]]

\* The previews the sheet finds for its fields, of which it shows the first.
PreviewsFor(messages, result, difficulty) ==
    LET wanted == RequestFields(result, difficulty)
    IN  {messages[k] : k \in {n \in DOMAIN messages :
            messages[n].result = wanted.result
            /\ messages[n].difficulty = wanted.difficulty}}

\* What stands in the place of the preview.
PreviewLine(form, found, loading, failed) ==
    CASE form.result = Undefined -> "choose a result"
      [] form.result # Undefined /\ found # {} -> "preview"
      [] form.result # Undefined /\ found = {} /\ loading -> "computing"
      [] form.result # Undefined /\ found = {} /\ ~loading /\ failed -> "failed"
      [] OTHER -> "check the date"
=============================================================================
