------------------------------ MODULE ResultForm ------------------------------
(***************************************************************************)
(* The date and time field of the result sheet while the clock is changed: *)
(* its default, what the user types, the check of the form, the instant    *)
(* that is sent and what the server makes of it.                           *)
(***************************************************************************)
EXTENDS LocalTime

CONSTANTS
    Offsets,       \* offsets from UTC
    ClockSkew,     \* maxClockSkew
    Start,         \* the instant at which the model starts
    MaxTime        \* bound: the last instant

\* What the theorems assume of the constants.
FormConstants ==
    Offsets \subseteq Int /\ ClockSkew \in Nat /\ Start \in Int /\ MaxTime \in Int

VARIABLES
    now,           \* the clock, of the browser and of the server
    timeZone,      \* the account's time zone
    performedAt,   \* the field of the open sheet
    typed,         \* the user has changed it
    sent,          \* the instant of the request on its way
    phase          \* "closed", "open", "sending", "accepted" or "refused"

vars == <<now, timeZone, performedAt, typed, sent, phase>>

Instants == Start .. MaxTime
Values == {t + o : t \in Instants, o \in Offsets}

Init ==
    /\ now = Start
    /\ timeZone \in ZonesOf(Instants, Offsets)
    /\ performedAt = Start /\ sent = Start
    /\ typed = FALSE
    /\ phase = "closed"

Tick ==
    /\ now < MaxTime
    /\ now' = now + 1
    /\ UNCHANGED <<timeZone, performedAt, typed, sent, phase>>

\* defaultValues of useForm; localDateTime has the time of day of the moment.
Open ==
    /\ phase = "closed"
    /\ phase' = "open"
    /\ performedAt' = localDateTime(timeZone, now)
    /\ UNCHANGED <<now, timeZone, typed, sent>>

Edit(value) ==
    /\ phase \in {"open", "refused"}
    /\ performedAt' = value
    /\ typed' = TRUE
    /\ phase' = "open"
    /\ UNCHANGED <<now, timeZone, sent>>

\* validatePerformedAt compares what the two clocks show, not the instants.
Valid(value) == value <= localDateTime(timeZone, now)

Submit ==
    /\ phase \in {"open", "refused"}
    /\ Valid(performedAt)
    /\ sent' = zonedDateTimeToDate(performedAt, timeZone)
    /\ phase' = "sending"
    /\ UNCHANGED <<now, timeZone, performedAt, typed>>

\* schedule of the domain refuses what lies further ahead than the clock skew.
Answer ==
    /\ phase = "sending"
    /\ phase' = IF sent > now + ClockSkew THEN "refused" ELSE "accepted"
    /\ UNCHANGED <<now, timeZone, performedAt, typed, sent>>

Close ==
    /\ phase \in {"open", "accepted", "refused"}
    /\ phase' = "closed"
    /\ typed' = FALSE
    /\ UNCHANGED <<now, timeZone, performedAt, sent>>

Next == Tick \/ Open \/ (\E value \in Values : Edit(value)) \/ Submit \/ Answer \/ Close

Spec == Init /\ [][Next]_vars
-----------------------------------------------------------------------------
(* Properties. *)

ResultFormTypeOK ==
    /\ now \in Int /\ performedAt \in Int /\ sent \in Int
    /\ timeZone \in ZonesOf(Int, Int)
    /\ typed \in BOOLEAN
    /\ phase \in {"closed", "open", "sending", "accepted", "refused"}

\* The instant sent is one at which the account's clock shows what the field
\* showed, if there is one: no hour is gained or lost around a switch.
SentAsShown ==
    phase \in {"sending", "accepted", "refused"} /\ Exists(performedAt, timeZone) =>
        localDateTime(timeZone, sent) = performedAt

\* model.ts:85: the right offset is used around a switch too.  So the server
\* does not take the time that the sheet itself put into the field for one that
\* has yet to come.
DefaultIsNotInTheFuture == phase = "refused" => typed
=============================================================================
