------------------------------ MODULE QueryCache ------------------------------
(***************************************************************************)
(* One entry of the browser's TanStack Query cache, as the pages use it.   *)
(* The library is external; its retry rule and its options are the         *)
(* program's (lib/connect/errors.ts, lib/query/client.ts).                 *)
(*                                                                         *)
(* An entry keeps the last answer (data), the error that the last fetch    *)
(* ended with, whether it was invalidated since, whether a fetch is in     *)
(* flight, and how many attempts of that fetch have failed.  What the      *)
(* request in flight carries belongs to the module that sends it.          *)
(***************************************************************************)
EXTENDS Naturals

CONSTANTS
    NoData,        \* an entry without an answer
    MaxRetries     \* 2 in the code: attempts after the first

ASSUME RetriesAssumption == MaxRetries \in Nat

Errors == {"none", "authentication", "transient", "rejected"}

EntryOf(Data) ==
    [data : Data \cup {NoData}, error : Errors, invalidated : BOOLEAN,
     fetching : BOOLEAN, failures : 0 .. MaxRetries]

EmptyEntry ==
    [data |-> NoData, error |-> "none", invalidated |-> FALSE,
     fetching |-> FALSE, failures |-> 0]

IsPending(e) == e.data = NoData /\ e.error = "none"
IsError(e) == e.error # "none"

\* A failed entry without data is pending again while it is fetched anew.
StartFetch(e) ==
    [data |-> e.data, error |-> IF e.data = NoData THEN "none" ELSE e.error,
     invalidated |-> e.invalidated, fetching |-> TRUE, failures |-> 0]

Answer(e, data) ==
    [data |-> data, error |-> "none", invalidated |-> FALSE,
     fetching |-> FALSE, failures |-> 0]

\* invalidateQueries marks an entry.  If it is on display it is fetched again: a
\* refetch in flight is cancelled for that, a first fetch is waited for instead.
Invalidate(e) == [e EXCEPT !.invalidated = (e # EmptyEntry)]
KeepsFetchInFlight(e) == e.fetching /\ e.data = NoData

\* shouldRetryConnectQuery: a transient failure is tried again, twice at most.
ShouldRetry(e, error) == error = "transient" /\ e.failures < MaxRetries

RetryFetch(e) == [e EXCEPT !.failures = @ + 1]
FailFetch(e, error) ==
    [data |-> e.data, error |-> error, invalidated |-> e.invalidated,
     fetching |-> FALSE, failures |-> 0]

NeverCancelled(e) == e  \* mutant: the fetch goes on without an observer
\* The last observer is gone: the fetch is cancelled and the entry as before it.
CancelFetch(e) == FailFetch(e, e.error)
=============================================================================
