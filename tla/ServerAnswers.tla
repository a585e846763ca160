---------------------------- MODULE ServerAnswers -----------------------------
(***************************************************************************)
(* What the server makes of one call, as if it were one step: the answer   *)
(* it may give and the rows it leaves.  The pages are modelled over these  *)
(* operators; ReviewService and RegistrationService put them into          *)
(* specifications, and the statements of ReviewStore and Registration      *)
(* implement those.                                                        *)
(*                                                                         *)
(* rows is a record whose field logs holds the attempts recorded, each with *)
(* its request, item and outcome, and whose field paused the paused items.  *)
(* A call c has the fields item, request and value.                        *)
(***************************************************************************)

Attempt(c) == [request |-> c.request, item |-> c.item, outcome |-> c.value]

\* The attempt l was recorded under this request before, for this item.
Replays(rows, c, l) == l \in rows.logs /\ l.request = c.request /\ l.item = c.item

\* A refusal: the request was used up for another item, or no attempt is recorded
\* under it and the item does not take this one - it is paused, or the instant is
\* out of range.  A request that has its attempt is never refused.
Refuses(rows, c) == \A l \in rows.logs : l.request = c.request => l.item # c.item

AcceptsNewOutcome(rows, c) ==  \* mutant: a resend is known by its content
    /\ \A l \in rows.logs : l.request # c.request \/ l.outcome # c.value
    /\ c.item \notin rows.paused
Accepts(rows, c) ==
    /\ \A l \in rows.logs : l.request # c.request
    /\ c.item \notin rows.paused

Recorded(rows, l) == [rows EXCEPT !.logs = @ \cup {l}]

Toggled(rows, i, to) ==
    [rows EXCEPT !.paused = IF to = "pause" THEN @ \cup {i} ELSE @ \ {i}]

\* A registration adds every problem it is asked for, and its answer tells apart
\* those that it has registered and those that were registered.
NewlyRegistered(registered, problems) == problems \ registered
RegisteredAfter(registered, problems) == registered \cup problems
=============================================================================
