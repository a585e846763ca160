--------------------------- MODULE QueryCacheProofs ---------------------------
(***************************************************************************)
(* What the operations of the query cache leave of an entry.               *)
(***************************************************************************)
EXTENDS QueryCache, TLAPS

IsEntry(e) ==
    /\ e = [data |-> e.data, error |-> e.error, invalidated |-> e.invalidated,
            fetching |-> e.fetching, failures |-> e.failures]
    /\ e.error \in Errors /\ e.invalidated \in BOOLEAN /\ e.fetching \in BOOLEAN

LEMMA StartFetchEntry ==
    ASSUME NEW e, IsEntry(e)
    PROVE  /\ IsEntry(StartFetch(e)) /\ StartFetch(e).data = e.data
           /\ StartFetch(e).invalidated = e.invalidated /\ StartFetch(e).fetching
BY DEF IsEntry, StartFetch, Errors

LEMMA FailFetchEntry ==
    ASSUME NEW e, IsEntry(e), NEW error \in Errors
    PROVE  /\ IsEntry(FailFetch(e, error)) /\ FailFetch(e, error).data = e.data
           /\ FailFetch(e, error).invalidated = e.invalidated
           /\ ~FailFetch(e, error).fetching
BY DEF IsEntry, FailFetch

LEMMA AnswerEntry ==
    ASSUME NEW e, NEW data
    PROVE  /\ IsEntry(Answer(e, data)) /\ Answer(e, data).data = data
           /\ ~Answer(e, data).fetching
BY DEF IsEntry, Answer, Errors

\* An entry that has data is marked.
LEMMA InvalidateEntry ==
    ASSUME NEW e, IsEntry(e)
    PROVE  /\ IsEntry(Invalidate(e)) /\ Invalidate(e).data = e.data
           /\ Invalidate(e).fetching = e.fetching
           /\ e.data # NoData => Invalidate(e).invalidated
<1>1. PICK b \in BOOLEAN : b = (e # EmptyEntry)
  OBVIOUS
<1>2. Invalidate(e) = [data |-> e.data, error |-> e.error, invalidated |-> b,
                       fetching |-> e.fetching, failures |-> e.failures]
  BY <1>1 DEF Invalidate, IsEntry
<1>3. e.data # NoData => b
  <2>1. EmptyEntry.data = NoData
    BY DEF EmptyEntry
  <2>2. e.data # NoData => e # EmptyEntry
    BY <2>1
  <2> QED  BY <1>1, <2>2, Zenon
<1>4. PICK f : f = Invalidate(e)
  OBVIOUS
<1>5. /\ f.data = e.data /\ f.error = e.error /\ f.invalidated = b
      /\ f.fetching = e.fetching /\ f.failures = e.failures
      /\ f = [data |-> f.data, error |-> f.error, invalidated |-> f.invalidated,
              fetching |-> f.fetching, failures |-> f.failures]
  BY <1>2, <1>4
<1>6. IsEntry(f)
  BY <1>1, <1>5 DEF IsEntry
<1> QED  BY <1>3, <1>4, <1>5, <1>6
=============================================================================
