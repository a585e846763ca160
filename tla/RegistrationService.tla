-------------------------- MODULE RegistrationService --------------------------
(***************************************************************************)
(* The registration of problems as its clients may take it to be: a call   *)
(* is served in one step some time after it was sent, if at all.  All its  *)
(* problems are registered then, and the answer says of each whether it    *)
(* was before (ServerAnswers).                                             *)
(***************************************************************************)
EXTENDS ServerAnswers

CONSTANTS
    Callers,     \* calls in flight at the same time
    Problems

VARIABLES
    registered,  \* the problems the user has registered
    calls        \* per caller: its call, and the answer if there is one

vars == <<registered, calls>>

Call(problems) ==
    [problems |-> problems, phase |-> "sent", new |-> {}, existing |-> {}]

NoCall == [phase |-> "idle"]

Init == registered = {} /\ calls = [s \in Callers |-> NoCall]

Send(s) ==
    /\ calls[s] = NoCall
    /\ \E problems \in (SUBSET Problems) \ {{}} :
        calls' = [calls EXCEPT ![s] = Call(problems)]
    /\ UNCHANGED registered

Serve(s) ==
    /\ calls[s].phase = "sent"
    /\ registered' = RegisteredAfter(registered, calls[s].problems)
    /\ calls' = [calls EXCEPT
            ![s].phase = "served",
            ![s].new = NewlyRegistered(registered, calls[s].problems),
            ![s].existing = calls[s].problems \cap registered]

\* The answer arrives or is lost; a call may fail before it is served: the catalog
\* lacks a problem, the statement is aborted.
End(s) ==
    /\ calls[s] # NoCall
    /\ calls' = [calls EXCEPT ![s] = NoCall]
    /\ UNCHANGED registered

Next == \E s \in Callers : Send(s) \/ Serve(s) \/ End(s)

Spec == Init /\ [][Next]_vars
=============================================================================
