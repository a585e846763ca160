----------------------------- MODULE ReviewService -----------------------------
(***************************************************************************)
(* The review service as its clients may take it to be: every call is      *)
(* served in one step some time after it was sent, if at all, and the      *)
(* answer is about the rows of that moment (ServerAnswers).                *)
(***************************************************************************)
EXTENDS ServerAnswers

CONSTANTS
    Callers,     \* calls in flight at the same time
    Items, Requests, Outcomes,
    NoRequest, NoLog

VARIABLES
    rows,        \* attempts recorded and items paused
    calls        \* per caller: its call, and the answer if there is one

vars == <<rows, calls>>

Call(kind, i, r, value) ==
    [kind |-> kind, item |-> i, request |-> r, value |-> value,
     phase |-> "sent", log |-> NoLog]

NoCall == [phase |-> "idle"]

Init ==
    /\ rows = [logs |-> {}, paused |-> {}]
    /\ calls = [s \in Callers |-> NoCall]

Send(s) ==
    /\ calls[s] = NoCall
    /\ \E i \in Items :
        \/ \E to \in {"pause", "resume"} :
            calls' = [calls EXCEPT ![s] = Call("pause", i, NoRequest, to)]
        \/ \E r \in Requests, o \in Outcomes :
            calls' = [calls EXCEPT ![s] = Call("record", i, r, o)]
    /\ UNCHANGED rows

Answer(s, phase, log) ==
    calls' = [calls EXCEPT ![s].phase = phase, ![s].log = log]

ServeRecord(s) ==
    /\ calls[s].phase = "sent" /\ calls[s].kind = "record"
    /\ \/ /\ \E l \in rows.logs : Replays(rows, calls[s], l) /\ Answer(s, "served", l)
          /\ UNCHANGED rows
       \/ /\ Refuses(rows, calls[s])
          /\ Answer(s, "refused", NoLog)
          /\ UNCHANGED rows
       \/ /\ Accepts(rows, calls[s])
          /\ rows' = Recorded(rows, Attempt(calls[s]))
          /\ Answer(s, "served", Attempt(calls[s]))

\* All that the answer of a pause or a resume says is that it was served.
ServePause(s) ==
    /\ calls[s].phase = "sent" /\ calls[s].kind = "pause"
    /\ rows' = Toggled(rows, calls[s].item, calls[s].value)
    /\ calls' = [calls EXCEPT ![s] = NoCall]

\* The answer arrives or is lost; a call may fail before it is served.
End(s) ==
    /\ calls[s] # NoCall
    /\ calls' = [calls EXCEPT ![s] = NoCall]
    /\ UNCHANGED rows

Next == \E s \in Callers : Send(s) \/ ServeRecord(s) \/ ServePause(s) \/ End(s)

Spec == Init /\ [][Next]_vars
=============================================================================
