----------------------------- MODULE AttemptPanels -----------------------------
(***************************************************************************)
(* What the result sheet promises whoever opens it: one sheet yields one   *)
(* attempt at most, however often it is sent, with or without an answer,   *)
(* and what the sheet confirms is that attempt as it was recorded.         *)
(***************************************************************************)
EXTENDS FiniteSets, Naturals

CONSTANTS
    Logs,      \* attempts that may be recorded
    Requests,  \* request ids, one per sheet
    NoSheet, NoLog

VARIABLES
    logs,    \* attempts recorded, each under the request of a sheet
    sheet,   \* the request of the sheet that is open
    shown    \* the attempt it confirms

vars == <<logs, sheet, shown>>

Init == logs = {} /\ sheet = NoSheet /\ shown = NoLog

\* An attempt is recorded, by a sheet that is open, by one that was closed while
\* its request was on the way, or elsewhere.
Record(l) ==
    /\ \A m \in logs : m.request # l.request
    /\ logs' = logs \cup {l}
    /\ UNCHANGED <<sheet, shown>>

Confirm(l) ==
    /\ l \in logs /\ l.request = sheet
    /\ shown = NoLog
    /\ shown' = l
    /\ UNCHANGED <<logs, sheet>>

\* A sheet opens or closes; none comes back with an old request.
Open(r) ==
    /\ sheet' = r /\ r # sheet
    /\ r # NoSheet => \A m \in logs : m.request # r
    /\ shown' = NoLog
    /\ UNCHANGED logs

Next ==
    \/ \E l \in Logs : Record(l) \/ Confirm(l)
    \/ \E r \in Requests \cup {NoSheet} : Open(r)

Spec == Init /\ [][Next]_vars
=============================================================================
