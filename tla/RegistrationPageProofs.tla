------------------------ MODULE RegistrationPageProofs ------------------------
(***************************************************************************)
(* What holds of the registration page for any catalog, any texts, and any *)
(* number of registrations and changes elsewhere.  A step that ends in a   *)
(* rendering is split: the entries e that the step leaves, and what the    *)
(* rendering makes of them (RenderStep).                                   *)
(***************************************************************************)
EXTENDS RegistrationPage, QueryCacheProofs, SequenceTheorems, TLAPS

Forms ==
    [mode : {"contest", "url"}, query : Texts, debounced : Texts,
     previous : Texts \cup {NoText}, contestId : Contests \cup {NoContest},
     selected : SUBSET Problems]

Bounded ==
    /\ sent \in 0 .. MaxCalls /\ incidents \in 0 .. MaxIncidents
    /\ typed \in 0 .. MaxTyped

\* What was told is true, for no registration is ever undone.
TableOK ==
    /\ registered \subseteq Problems /\ mounted \in BOOLEAN
    /\ told \in [Contests -> SUBSET registered] /\ joined \subseteq Contests

CallOK(c) ==
    /\ c = [kind |-> c.kind, problems |-> c.problems, new |-> c.new, phase |-> c.phase,
            caller |-> c.caller, waiting |-> c.waiting]
    /\ c.problems \subseteq Problems /\ c.problems # {} /\ c.new \subseteq c.problems
    /\ c.phase = "served" => c.problems \subseteq registered
CallsOK == \A c \in calls : CallOK(c)

\* The catalog's answers are kept as they are.
EntriesOK(e) ==
    /\ e = [k \in Keys |-> e[k]] /\ \A k \in Keys : IsEntry(e[k])
    /\ \A t \in Texts : e[ContestsKey(t)].data \in {NoData, Matches[t]}
    /\ \A c \in Contests : e[ProblemsKey(c)].data \in {NoData, ProblemsOf[c]}

\* keepPreviousData holds an answer.
FormOK(f, e) ==
    /\ f \in Forms
    /\ f.previous # NoText => e[ContestsKey(f.previous)].data # NoData

\* The entry s and the read q of a contest's status have what this tab was told.
Knows(c, s, q) ==
    /\ s.data # NoData /\ ~s.invalidated => told[c] \cap AskedFor(c) \subseteq s.data
    /\ q # NoData => told[c] \cap AskedFor(c) \subseteq q

\* On display, a status that is marked is being fetched, or has failed.
StatusOK(c, s, q) ==
    /\ StatusKey(c) \in OnDisplay /\ s.invalidated => s.fetching \/ IsError(s)
    /\ q # NoData => s.fetching /\ q \subseteq registered
    /\ c \notin joined => Knows(c, s, q)

RequestsOK(e, r) ==
    /\ r = [c \in Contests |-> r[c]]
    /\ \A k \in Keys : e[k].fetching => k \in OnDisplay
    /\ \A c \in Contests : StatusOK(c, e[StatusKey(c)], r[c])

\* The search on display has an answer, an error or a request.
Started(s) == s.fetching \/ s.data # NoData \/ IsError(s)
SearchOK == mounted => Started(cache[ContestsKey(form.debounced)])

PageInv ==
    /\ Bounded /\ TableOK /\ CallsOK
    /\ EntriesOK(cache) /\ FormOK(form, cache) /\ RequestsOK(cache, reads) /\ SearchOK

-----------------------------------------------------------------------------
(* The keys, and what the page derives. *)

LEMMA KeysApart ==
    /\ \A t \in Texts : ContestsKey(t) \in Keys \ StatusKeys
    /\ \A c \in Contests : ProblemsKey(c) \in Keys \ StatusKeys
    /\ \A c \in Contests : StatusKey(c) \in Keys \cap StatusKeys
    /\ \A c, d \in Contests : StatusKey(c) = StatusKey(d) => c = d
    /\ \A t \in Texts, c \in Contests : ContestsKey(t) # ProblemsKey(c)
    /\ StatusKeys \subseteq Keys
BY DEF Keys, StatusKeys, ContestsKey, ProblemsKey, StatusKey

LEMMA ActiveIsContest ==
    ASSUME NEW f, NEW e, EntriesOK(e), FormOK(f, e)
    PROVE  /\ ContestsShown(f, e) \in Seq(Contests)
           /\ ActiveContest(f, e) \in Contests \cup {NoContest}
<1>1. ContestsShown(f, e) \in Seq(Contests)
  <2>1. \A t \in Texts : Matches[t] \in Seq(Contests)
    BY RegistrationPageAssumption
  <2>2. <<>> \in Seq(Contests)
    OBVIOUS
  <2>3. f.debounced \in Texts /\ f.previous \in Texts \cup {NoText}
    BY DEF FormOK, Forms
  <2>4. f.previous # NoText => e[ContestsKey(f.previous)].data \in Seq(Contests)
    BY <2>1, <2>3 DEF FormOK, EntriesOK
  <2>5. e[ContestsKey(f.debounced)].data # NoData
          => e[ContestsKey(f.debounced)].data \in Seq(Contests)
    BY <2>1, <2>3 DEF EntriesOK
  <2> QED  BY <2>2, <2>4, <2>5 DEF ContestsShown, IsPlaceholder
<1>2. f.contestId \in Contests \cup {NoContest}
  BY DEF FormOK, Forms
<1>3. PICK s \in Seq(Contests) : s = ContestsShown(f, e)
  BY <1>1
<1>4. s # <<>> => s[1] \in Contests
  BY EmptySeq
<1> QED  BY <1>1, <1>2, <1>3, <1>4 DEF ActiveContest

LEMMA AvailableAreProblems ==
    ASSUME NEW f, NEW e, EntriesOK(e), FormOK(f, e)
    PROVE  Available(f, e) \subseteq Problems
<1>1. PICK c \in Contests \cup {NoContest} : c = ActiveContest(f, e)
  BY ActiveIsContest
<1>2. ProblemsShown(c, e) \in Seq(Problems)
  <2>1. <<>> \in Seq(Problems)
    OBVIOUS
  <2>2. c # NoContest /\ e[ProblemsKey(c)].data # NoData
          => e[ProblemsKey(c)].data \in Seq(Problems)
    BY RegistrationPageAssumption DEF EntriesOK
  <2> QED  BY <2>1, <2>2 DEF ProblemsShown
<1>3. Range(ProblemsShown(c, e)) \subseteq Problems
  BY <1>2 DEF Range
<1> QED  BY <1>1, <1>3 DEF Available

\* What is derived depends on the data of the catalog's entries alone, and on
\* whether the search is pending.
LEMMA SameContests ==
    ASSUME NEW f, NEW e, NEW g, NEW h, FormOK(f, e),
           g.debounced = f.debounced, g.contestId = f.contestId,
           \A k \in Keys \ StatusKeys : h[k].data = e[k].data,
           IsPending(h[ContestsKey(f.debounced)]) <=> IsPending(e[ContestsKey(f.debounced)]),
           e[ContestsKey(f.debounced)].data = NoData => g.previous = f.previous
    PROVE  ContestsShown(g, h) = ContestsShown(f, e) /\ ActiveContest(g, h) = ActiveContest(f, e)
<1>1. f.debounced \in Texts /\ f.previous \in Texts \cup {NoText}
  BY DEF FormOK, Forms
<1>2. h[ContestsKey(f.debounced)].data = e[ContestsKey(f.debounced)].data
  BY <1>1, KeysApart
<1>3. f.previous # NoText
        => h[ContestsKey(f.previous)].data = e[ContestsKey(f.previous)].data
  BY <1>1, KeysApart
<1>4. ContestsShown(g, h) = ContestsShown(f, e)
  <2>1. CASE e[ContestsKey(f.debounced)].data = NoData
    BY <1>2, <1>3, <2>1 DEF ContestsShown, IsPlaceholder
  <2>2. CASE e[ContestsKey(f.debounced)].data # NoData
    BY <1>2, <2>2 DEF ContestsShown, IsPlaceholder, IsPending
  <2> QED  BY <2>1, <2>2
<1> QED  BY <1>4 DEF ActiveContest

LEMMA SameDisplay ==
    ASSUME NEW f, NEW e, NEW g, NEW h, NEW m, EntriesOK(e), FormOK(f, e),
           g.debounced = f.debounced, g.contestId = f.contestId,
           \A k \in Keys \ StatusKeys : h[k].data = e[k].data,
           m => (IsPending(h[ContestsKey(f.debounced)])
                   <=> IsPending(e[ContestsKey(f.debounced)])),
           e[ContestsKey(f.debounced)].data = NoData => g.previous = f.previous
    PROVE  Observed(m, g, h) = Observed(m, f, e)
<1>1. CASE ~m
  BY <1>1 DEF Observed
<1>2. CASE m
  <2>1. PICK c \in Contests \cup {NoContest} : c = ActiveContest(f, e)
    BY ActiveIsContest
  <2>2. ActiveContest(g, h) = c
    BY <1>2, <2>1, SameContests
  <2>3. ProblemsShown(c, h) = ProblemsShown(c, e)
    BY KeysApart DEF ProblemsShown
  <2> QED  BY <2>1, <2>2, <2>3 DEF Observed
<1> QED  BY <1>1, <1>2

-----------------------------------------------------------------------------
(* Steps that leave what is on display. *)

LEMMA StatusStep ==
    ASSUME PageInv, UNCHANGED mounted, form' \in Forms,
           form'.debounced = form.debounced, form'.previous = form.previous,
           form'.contestId = form.contestId,
           cache' = [k \in Keys |-> cache'[k]], reads' = [c \in Contests |-> reads'[c]],
           \A k \in Keys \ StatusKeys : cache'[k] = cache[k],
           \A k \in StatusKeys : /\ IsEntry(cache'[k])
                                 /\ cache'[k].fetching => k \in OnDisplay,
           OnDisplay' = OnDisplay => \A c \in Contests :
               StatusOK(c, cache[StatusKey(c)], reads[c])',
           Bounded', TableOK', CallsOK'
    PROVE  PageInv' /\ OnDisplay' = OnDisplay
<1>1. /\ EntriesOK(cache) /\ FormOK(form, cache) /\ form.debounced \in Texts
      /\ form.previous \in Texts \cup {NoText}
  BY DEF PageInv, FormOK, Forms
<1>2. OnDisplay' = OnDisplay
  <2>1. cache'[ContestsKey(form.debounced)] = cache[ContestsKey(form.debounced)]
    BY <1>1, KeysApart
  <2>2. Observed(mounted, form', cache') = Observed(mounted, form, cache)
    BY <1>1, <2>1, SameDisplay
  <2> QED  BY <2>2 DEF OnDisplay
<1>3. EntriesOK(cache')
  BY <1>1, KeysApart DEF EntriesOK
<1>4. FormOK(form', cache')
  BY <1>1, KeysApart DEF FormOK
<1>5. RequestsOK(cache, reads)'
  <2>1. \A k \in Keys : cache'[k].fetching => k \in OnDisplay'
    BY <1>2 DEF PageInv, RequestsOK
  <2> QED  BY <1>2, <2>1 DEF RequestsOK
<1>6. SearchOK'
  BY <1>1, KeysApart DEF PageInv, SearchOK
<1> QED  BY <1>2, <1>3, <1>4, <1>5, <1>6 DEF PageInv, EntriesOK, FormOK

\* Steps of the form, the calls and the table alone.
LEMMA StillStep ==
    ASSUME PageInv, UNCHANGED <<mounted, cache, reads, told, joined>>, form' \in Forms,
           form'.debounced = form.debounced, form'.previous = form.previous,
           form'.contestId = form.contestId,
           registered \subseteq registered', registered' \subseteq Problems,
           Bounded', CallsOK'
    PROVE  PageInv'
<1>1. TableOK'
  BY DEF PageInv, TableOK
<1>2. /\ cache' = [k \in Keys |-> cache'[k]] /\ reads' = [c \in Contests |-> reads'[c]]
      /\ \A k \in StatusKeys : IsEntry(cache'[k]) /\ (cache'[k].fetching => k \in OnDisplay)
  BY KeysApart DEF PageInv, EntriesOK, RequestsOK
<1>3. OnDisplay' = OnDisplay => \A c \in Contests :
          StatusOK(c, cache[StatusKey(c)], reads[c])'
  BY DEF PageInv, RequestsOK, StatusOK, Knows
<1> QED  BY <1>1, <1>2, <1>3, StatusStep

LEMMA CallsKept ==
    ASSUME CallsOK, registered \subseteq registered', calls' \subseteq calls
    PROVE  CallsOK'
BY DEF CallsOK, CallOK

-----------------------------------------------------------------------------
(* Rendering. *)

LEMMA RenderedEntries ==
    ASSUME NEW m \in BOOLEAN, NEW f, NEW e, NEW r, EntriesOK(e), FormOK(f, e),
           Render(m, f, e, r)
    PROVE  /\ mounted' = m /\ FormOK(form', cache') /\ form'.debounced = f.debounced
           /\ EntriesOK(cache')
           /\ \A k \in Keys :
               /\ cache'[k].data = e[k].data /\ cache'[k].invalidated = e[k].invalidated
               /\ k \in OnDisplay' \cap OnDisplay => cache'[k] = e[k]
               /\ k \in OnDisplay' \ OnDisplay =>
                    (e[k].data = NoData \/ e[k].invalidated => cache'[k].fetching)
               /\ k \notin OnDisplay' => (cache'[k].fetching => e[k].fetching /\ k \notin OnDisplay)
           /\ reads' = [c \in Contests |->
                IF StatusKey(c) \in OnDisplay' \cap OnDisplay THEN r[c] ELSE NoData]
<1>1. PICK k0 \in Keys \ StatusKeys : k0 = ContestsKey(f.debounced)
  BY KeysApart DEF FormOK, Forms
<1>2. PICK h : h = IF m /\ k0 \notin OnDisplay /\ e[k0].data = NoData
                   THEN [e EXCEPT ![k0] = StartFetch(@)] ELSE e
  OBVIOUS
<1>3. PICK new : new = Observed(m, f, h)
  OBVIOUS
<1>4. PICK old :
        /\ mounted' = m
        /\ form' = [f EXCEPT !.previous = IF m /\ e[k0].data # NoData THEN f.debounced ELSE @]
        /\ cache' = [k \in Keys |->
                IF /\ k \in new \ OnDisplay
                   /\ e[k].data = NoData \/ e[k].invalidated \/ k \in old
                THEN StartFetch(e[k])
                ELSE IF k \in OnDisplay \ new THEN CancelFetch(e[k])
                ELSE e[k]]
        /\ reads' = [c \in Contests |->
                IF StatusKey(c) \in new \cap OnDisplay THEN r[c] ELSE NoData]
  BY <1>1, <1>2, <1>3 DEF Render
<1>5. ASSUME NEW k \in Keys
      PROVE  /\ IsEntry(cache'[k])
             /\ cache'[k].data = e[k].data /\ cache'[k].invalidated = e[k].invalidated
             /\ k \in new \cap OnDisplay => cache'[k] = e[k]
             /\ k \in new \ OnDisplay =>
                    (e[k].data = NoData \/ e[k].invalidated => cache'[k] = StartFetch(e[k]))
             /\ k \notin new => (cache'[k].fetching => e[k].fetching /\ k \notin OnDisplay)
  <2>1. IsEntry(e[k]) /\ e[k].error \in Errors
    BY DEF EntriesOK, IsEntry
  <2>2. CASE /\ k \in new \ OnDisplay
             /\ e[k].data = NoData \/ e[k].invalidated \/ k \in old
    <3>1. cache'[k] = StartFetch(e[k])
      BY <1>4, <2>2
    <3> QED  BY <2>1, <2>2, <3>1, StartFetchEntry
  <2>3. CASE k \in OnDisplay \ new
    <3>1. cache'[k] = FailFetch(e[k], e[k].error)
      BY <1>4, <2>3 DEF CancelFetch
    <3> QED  BY <2>1, <2>3, <3>1, FailFetchEntry
  <2>4. CASE /\ k \notin OnDisplay \ new
             /\ ~(/\ k \in new \ OnDisplay
                  /\ e[k].data = NoData \/ e[k].invalidated \/ k \in old)
    <3>1. cache'[k] = e[k]
      BY <1>4, <2>4
    <3> QED  BY <2>1, <2>4, <3>1
  <2> QED  BY <2>2, <2>3, <2>4
<1>6. EntriesOK(cache')
  <2>1. cache' = [k \in Keys |-> cache'[k]]
    BY <1>4
  <2> QED  BY <1>5, <2>1, KeysApart DEF EntriesOK
<1>7. /\ form'.debounced = f.debounced /\ form'.contestId = f.contestId
      /\ e[k0].data = NoData => form'.previous = f.previous
      /\ FormOK(form', cache')
  <2>1. /\ form'.debounced = f.debounced /\ form'.contestId = f.contestId
        /\ e[k0].data = NoData => form'.previous = f.previous
        /\ form' \in Forms
        /\ form'.previous = f.previous \/ (form'.previous = f.debounced /\ e[k0].data # NoData)
    BY <1>4 DEF FormOK, Forms
  <2>2. form'.previous # NoText => cache'[ContestsKey(form'.previous)].data # NoData
    <3>1. CASE form'.previous = f.previous
      BY <1>5, <3>1, KeysApart DEF FormOK, Forms
    <3>2. CASE form'.previous = f.debounced /\ e[k0].data # NoData
      BY <1>1, <1>5, <3>2
    <3> QED  BY <2>1, <3>1, <3>2
  <2> QED  BY <2>1, <2>2 DEF FormOK
<1>8. OnDisplay' = new
  <2>1. \A k \in Keys : h[k].data = e[k].data /\ IsEntry(h[k])
    BY <1>1, <1>2, StartFetchEntry DEF EntriesOK
  <2>2. h = [k \in Keys |-> h[k]]
    BY <1>1, <1>2 DEF EntriesOK
  <2>3. EntriesOK(h) /\ FormOK(f, h)
    BY <2>1, <2>2, KeysApart DEF EntriesOK, FormOK, Forms
  <2>4. m => (IsPending(cache'[k0]) <=> IsPending(h[k0]))
    <3>1. CASE m /\ e[k0].data # NoData
      BY <1>1, <1>5, <2>1, <3>1 DEF IsPending
    <3>2. CASE m /\ e[k0].data = NoData
      <4>1. k0 \in new
        BY <1>1, <1>3, <3>2 DEF Observed
      <4>2. CASE k0 \in OnDisplay
        BY <1>1, <1>2, <1>5, <4>1, <4>2
      <4>3. CASE k0 \notin OnDisplay
        <5>1. cache'[k0] = StartFetch(e[k0])
          BY <1>1, <1>5, <3>2, <4>1, <4>3
        <5>2. h[k0] = StartFetch(e[k0])
          BY <1>1, <1>2, <3>2, <4>3 DEF EntriesOK
        <5> QED  BY <5>1, <5>2
      <4> QED  BY <4>2, <4>3
    <3> QED  BY <3>1, <3>2
  <2>5. \A k \in Keys \ StatusKeys : cache'[k].data = h[k].data
    BY <1>5, <2>1
  <2>6. h[k0].data = NoData => form'.previous = f.previous
    BY <1>1, <1>7, <2>1
  <2>7. Observed(m, form', cache') = Observed(m, f, h)
    BY <1>1, <1>7, <2>3, <2>4, <2>5, <2>6, SameDisplay
  <2> QED  BY <1>3, <1>4, <2>7 DEF OnDisplay
<1>9. ASSUME NEW k \in Keys, k \in new \ OnDisplay, e[k].data = NoData \/ e[k].invalidated
      PROVE  cache'[k].fetching
  BY <1>5, <1>9, StartFetchEntry DEF EntriesOK
<1> QED  BY <1>4, <1>5, <1>6, <1>7, <1>8, <1>9

\* Requests are cancelled with what asks for them, and what comes on display without
\* an answer, or marked, is fetched.
LEMMA RenderStep ==
    ASSUME PageInv, NEW m \in BOOLEAN, NEW f, NEW e, NEW r,
           EntriesOK(e), FormOK(f, e), RequestsOK(e, r), Render(m, f, e, r),
           ContestsKey(f.debounced) \in OnDisplay => Started(e[ContestsKey(f.debounced)]),
           UNCHANGED <<registered, told, joined>>, Bounded', CallsOK'
    PROVE  PageInv'
<1>1. /\ mounted' = m /\ FormOK(form', cache') /\ form'.debounced = f.debounced
      /\ EntriesOK(cache')
      /\ \A k \in Keys :
           /\ cache'[k].data = e[k].data /\ cache'[k].invalidated = e[k].invalidated
           /\ k \in OnDisplay' \cap OnDisplay => cache'[k] = e[k]
           /\ k \in OnDisplay' \ OnDisplay =>
                (e[k].data = NoData \/ e[k].invalidated => cache'[k].fetching)
           /\ k \notin OnDisplay' => (cache'[k].fetching => e[k].fetching /\ k \notin OnDisplay)
      /\ reads' = [c \in Contests |->
            IF StatusKey(c) \in OnDisplay' \cap OnDisplay THEN r[c] ELSE NoData]
  BY RenderedEntries
<1>2. TableOK'
  BY <1>1 DEF PageInv, TableOK
<1>3. \A k \in Keys : cache'[k].fetching => k \in OnDisplay'
  BY <1>1 DEF RequestsOK
<1>4. ASSUME NEW c \in Contests PROVE StatusOK(c, cache[StatusKey(c)], reads[c])'
  <2>1. StatusOK(c, e[StatusKey(c)], r[c]) /\ StatusKey(c) \in Keys
    BY KeysApart DEF RequestsOK
  <2>2. reads'[c] = IF StatusKey(c) \in OnDisplay' \cap OnDisplay THEN r[c] ELSE NoData
    BY <1>1
  <2>3. CASE StatusKey(c) \in OnDisplay' \cap OnDisplay
    BY <1>1, <2>1, <2>2, <2>3 DEF StatusOK, Knows
  <2>4. CASE StatusKey(c) \notin OnDisplay' \cap OnDisplay
    BY <1>1, <2>1, <2>2, <2>4 DEF StatusOK, Knows
  <2> QED  BY <2>3, <2>4
<1>5. RequestsOK(cache, reads)'
  <2>1. reads' = [c \in Contests |-> reads'[c]]
    BY <1>1
  <2> QED  BY <1>3, <1>4, <2>1 DEF RequestsOK
<1>6. SearchOK'
  <2> SUFFICES ASSUME m PROVE Started(cache'[ContestsKey(f.debounced)])
    BY <1>1 DEF SearchOK
  <2>1. ContestsKey(f.debounced) \in Keys
    BY KeysApart DEF FormOK, Forms
  <2>2. ContestsKey(f.debounced) \in OnDisplay'
    BY <1>1 DEF OnDisplay, Observed
  <2> QED  BY <1>1, <2>1, <2>2 DEF Started
<1> QED  BY <1>1, <1>2, <1>5, <1>6 DEF PageInv, EntriesOK, FormOK

-----------------------------------------------------------------------------
(* The user's steps. *)

LEMMA BoundsAreNat == MaxCalls \in Nat /\ MaxIncidents \in Nat /\ MaxTyped \in Nat
BY RegistrationPageAssumption

LEMMA Counts ==
    /\ Bounded /\ Incident => incidents' \in 0 .. MaxIncidents
    /\ Bounded /\ OneMoreCall => sent' \in 0 .. MaxCalls
    /\ Bounded /\ typed < MaxTyped /\ typed' = typed + 1 => typed' \in 0 .. MaxTyped
BY BoundsAreNat DEF Bounded, Incident, OneMoreCall

LEMMA FormSteps ==
    ASSUME PageInv,
           \/ \E t \in Texts : Type(t)
           \/ \E p \in Problems : ToggleProblem(p)
           \/ ToggleAll \/ SetMode
    PROVE  PageInv'
<1>1. form \in Forms /\ Available(form, cache) \subseteq Problems
  BY AvailableAreProblems DEF PageInv, FormOK
<1>2. UNCHANGED <<registered, mounted, cache, reads, calls, sent, incidents, told, joined>>
  BY DEF Type, ToggleProblem, ToggleAll, SetMode, boundVars, historyVars
<1>3. Bounded'
  <2>1. typed' = typed \/ (typed < MaxTyped /\ typed' = typed + 1)
    BY DEF Type, ToggleProblem, ToggleAll, SetMode, boundVars
  <2> QED  BY <1>2, <2>1, Counts DEF PageInv, Bounded
<1>4. /\ form' \in Forms /\ form'.debounced = form.debounced
      /\ form'.previous = form.previous /\ form'.contestId = form.contestId
  <2>1. CASE \E t \in Texts : Type(t)
    BY <1>1, <2>1 DEF Type, Forms
  <2>2. CASE \E p \in Problems : ToggleProblem(p)
    BY <1>1, <2>2 DEF ToggleProblem, Forms
  <2>3. CASE ToggleAll
    BY <1>1, <2>3 DEF ToggleAll, Forms
  <2>4. CASE SetMode
    BY <1>1, <2>4 DEF SetMode, Forms
  <2> QED  BY <2>1, <2>2, <2>3, <2>4
<1>5. CallsOK'
  BY <1>2, CallsKept DEF PageInv
<1> QED  BY <1>2, <1>3, <1>4, <1>5, StillStep DEF PageInv, TableOK

\* Renderings of the entries as they are.
LEMMA RenderForm ==
    ASSUME PageInv, NEW m \in BOOLEAN, NEW f, FormOK(f, cache), Render(m, f, cache, reads),
           mounted => f.debounced = form.debounced \/ ContestsKey(f.debounced) \notin OnDisplay,
           UNCHANGED <<registered, told, joined>>, Bounded', CallsOK'
    PROVE  PageInv'
<1>1. ContestsKey(f.debounced) \in OnDisplay => mounted
  BY DEF OnDisplay, Observed
<1>2. ContestsKey(f.debounced) \in OnDisplay => Started(cache[ContestsKey(f.debounced)])
  BY <1>1 DEF PageInv, SearchOK
<1>3. EntriesOK(cache) /\ RequestsOK(cache, reads)
  BY DEF PageInv
<1> QED  BY <1>2, <1>3, RenderStep

\* One search at a time is on display.
LEMMA OtherSearch ==
    ASSUME FormOK(form, cache), EntriesOK(cache), NEW t \in Texts, t # form.debounced
    PROVE  ContestsKey(t) \notin OnDisplay
<1>1. form.debounced \in Texts
  BY DEF FormOK, Forms
<1>2. ContestsKey(t) # ContestsKey(form.debounced)
  BY DEF ContestsKey
<1>3. ActiveContest(form, cache) \in Contests \cup {NoContest}
  BY ActiveIsContest
<1>4. PICK c : c = ActiveContest(form, cache)
  OBVIOUS
<1>5. c # NoContest => ContestsKey(t) # ProblemsKey(c)
  BY <1>3, <1>4, KeysApart
<1>6. ContestsKey(t) # StatusKey(c)
  BY DEF ContestsKey, StatusKey
<1> QED  BY <1>2, <1>4, <1>5, <1>6 DEF OnDisplay, Observed

LEMMA RenderSteps ==
    ASSUME PageInv, Debounce \/ (\E c \in Contests : SelectContest(c)) \/ Leave \/ Return
    PROVE  PageInv'
<1>1. form \in Forms /\ FormOK(form, cache) /\ EntriesOK(cache) /\ CallsOK /\ Bounded
  BY DEF PageInv, FormOK
<1>2. FormOK(NewForm, cache)
  BY RegistrationPageAssumption DEF FormOK, NewForm, Forms
<1>3. UNCHANGED calls => CallsOK'
  BY <1>1, CallsKept DEF Debounce, SelectContest, Leave, Return
<1>4. CASE Debounce
  <2>1. PICK f : f = [form EXCEPT !.debounced = form.query]
    OBVIOUS
  <2>2. FormOK(f, cache) /\ f.debounced \in Texts /\ f.debounced # form.debounced
    BY <1>1, <1>4, <2>1 DEF FormOK, Forms, Debounce
  <2>3. Render(TRUE, f, cache, reads) /\ UNCHANGED <<registered, told, joined, calls>> /\ Bounded'
    BY <1>1, <1>4, <2>1 DEF Debounce, Bounded, boundVars, historyVars
  <2> QED  BY <1>1, <1>3, <2>2, <2>3, OtherSearch, RenderForm
<1>5. ASSUME NEW c \in Contests, SelectContest(c) PROVE PageInv'
  <2>1. PICK f : f = [form EXCEPT !.contestId = c, !.selected = {}]
    OBVIOUS
  <2>2. FormOK(f, cache) /\ f.debounced = form.debounced
    BY <1>1, <2>1 DEF FormOK, Forms
  <2>3. Render(TRUE, f, cache, reads) /\ UNCHANGED <<registered, told, joined, calls>> /\ Bounded'
    BY <1>1, <1>5, <2>1 DEF SelectContest, Bounded, boundVars, historyVars
  <2> QED  BY <1>3, <2>2, <2>3, RenderForm
<1>6. CASE Leave
  <2>1. /\ Render(FALSE, NewForm, cache, reads) /\ UNCHANGED <<registered, told, joined>>
        /\ calls' = {[c EXCEPT !.caller = FALSE] : c \in calls}
    BY <1>6 DEF Leave, historyVars
  <2>2. Bounded'
    BY <1>1, <1>6, Counts DEF Leave, Bounded
  <2>3. CallsOK'
    <3> SUFFICES ASSUME NEW c \in calls, NEW d, d = [c EXCEPT !.caller = FALSE]
                 PROVE  CallOK(d)'
      BY <2>1 DEF CallsOK
    <3>1. CallOK(c)
      BY <1>1 DEF CallsOK
    <3> QED  BY <2>1, <3>1 DEF CallOK
  <2>4. ContestsKey("") \in OnDisplay => Started(cache[ContestsKey("")])
    <3>1. CASE form.debounced = ""
      BY <3>1 DEF PageInv, SearchOK, OnDisplay, Observed
    <3>2. CASE form.debounced # ""
      BY <1>1, <3>2, OtherSearch, RegistrationPageAssumption
    <3> QED  BY <3>1, <3>2
  <2>5. NewForm.debounced = ""
    BY DEF NewForm
  <2>6. RequestsOK(cache, reads)
    BY DEF PageInv
  <2> QED  BY <1>1, <1>2, <2>1, <2>2, <2>3, <2>4, <2>5, <2>6, RenderStep
<1>7. CASE Return
  <2>1. /\ Render(TRUE, NewForm, cache, reads) /\ UNCHANGED <<registered, told, joined, calls>>
        /\ ~mounted /\ Bounded'
    BY <1>1, <1>7 DEF Return, Bounded, boundVars, historyVars
  <2> QED  BY <1>2, <1>3, <2>1, RenderForm
<1> QED  BY <1>4, <1>5, <1>6, <1>7

LEMMA SendSteps ==
    ASSUME PageInv, RegisterSelected \/ \E p \in Problems : SubmitUrl(p)
    PROVE  PageInv'
<1>1. PICK kind, problems :
        /\ calls' = calls \cup {Call(kind, problems)}
        /\ problems \subseteq Problems /\ problems # {}
  <2>1. CASE RegisterSelected
    <3>1. /\ calls' = calls \cup {Call("selected", SelectedProblems(form, cache))}
          /\ SelectedProblems(form, cache) # {}
      BY <2>1 DEF RegisterSelected, CanRegister
    <3>2. SelectedProblems(form, cache) \subseteq Problems
      BY AvailableAreProblems DEF SelectedProblems, PageInv
    <3> QED  BY <3>1, <3>2
  <2>2. CASE \E p \in Problems : SubmitUrl(p)
    <3>1. PICK p \in Problems : calls' = calls \cup {Call("url", {p})}
      BY <2>2 DEF SubmitUrl
    <3>2. {p} \subseteq Problems /\ {p} # {}
      OBVIOUS
    <3> QED  BY <3>1, <3>2
  <2> QED  BY <2>1, <2>2
<1>2. UNCHANGED <<registered, mounted, form, cache, reads, incidents, typed, told, joined>>
  BY DEF RegisterSelected, SubmitUrl, historyVars
<1>3. Bounded'
  BY <1>2, Counts DEF RegisterSelected, SubmitUrl, PageInv, Bounded
<1>4. PICK new : new = Call(kind, problems)
  OBVIOUS
<1>5. CallOK(new)'
  BY <1>1, <1>4 DEF CallOK, Call
<1>6. CallsOK'
  BY <1>1, <1>2, <1>4, <1>5 DEF PageInv, CallsOK, CallOK
<1> QED  BY <1>2, <1>3, <1>6, StillStep DEF PageInv, FormOK, TableOK

-----------------------------------------------------------------------------
(* The queries. *)

\* One entry changes, and the page is rendered.
LEMMA EntryRender ==
    ASSUME PageInv, NEW k \in Keys, NEW s, IsEntry(s), NEW r,
           Render(TRUE, form, [cache EXCEPT ![k] = s], r),
           \A t \in Texts : k = ContestsKey(t) =>
               /\ s.data \in {NoData, Matches[t]} /\ Started(s)
               /\ cache[k].data # NoData => s.data # NoData,
           \A c \in Contests : k = ProblemsKey(c) => s.data \in {NoData, ProblemsOf[c]},
           s.fetching => k \in OnDisplay,
           r = [c \in Contests |-> r[c]],
           \A c \in Contests :
               StatusOK(c, IF k = StatusKey(c) THEN s ELSE cache[StatusKey(c)], r[c]),
           UNCHANGED <<registered, told, joined, calls>>, Bounded'
    PROVE  PageInv'
<1>1. PICK e : e = [cache EXCEPT ![k] = s]
  OBVIOUS
<1>2. /\ e[k] = s /\ \A j \in Keys \ {k} : e[j] = cache[j]
      /\ e = [j \in Keys |-> e[j]]
  BY <1>1 DEF PageInv, EntriesOK
<1>3. EntriesOK(e)
  <2>1. \A j \in Keys : IsEntry(e[j])
    BY <1>2 DEF PageInv, EntriesOK
  <2>2. \A t \in Texts : e[ContestsKey(t)].data \in {NoData, Matches[t]}
    BY <1>2, KeysApart DEF PageInv, EntriesOK
  <2>3. \A c \in Contests : e[ProblemsKey(c)].data \in {NoData, ProblemsOf[c]}
    BY <1>2, KeysApart DEF PageInv, EntriesOK
  <2> QED  BY <1>2, <2>1, <2>2, <2>3 DEF EntriesOK
<1>4. form \in Forms /\ form.debounced \in Texts /\ form.previous \in Texts \cup {NoText}
  BY DEF PageInv, FormOK, Forms
<1>5. FormOK(form, e)
  <2>1. form.previous # NoText => e[ContestsKey(form.previous)].data # NoData
    BY <1>2, <1>4, KeysApart DEF PageInv, FormOK
  <2> QED  BY <1>4, <2>1 DEF FormOK
<1>6. RequestsOK(e, r)
  <2>1. \A j \in Keys : e[j].fetching => j \in OnDisplay
    BY <1>2 DEF PageInv, RequestsOK
  <2>2. ASSUME NEW c \in Contests PROVE StatusOK(c, e[StatusKey(c)], r[c])
    <3>1. e[StatusKey(c)] = IF k = StatusKey(c) THEN s ELSE cache[StatusKey(c)]
      BY <1>2, KeysApart
    <3> QED  BY <3>1
  <2> QED  BY <2>1, <2>2 DEF RequestsOK
<1>7. ContestsKey(form.debounced) \in OnDisplay => Started(e[ContestsKey(form.debounced)])
  <2>1. ContestsKey(form.debounced) \in OnDisplay => mounted
    BY DEF OnDisplay, Observed
  <2> QED  BY <1>2, <1>4, <2>1, KeysApart DEF PageInv, SearchOK
<1>8. CallsOK'
  BY CallsKept DEF PageInv
<1> QED  BY <1>1, <1>3, <1>5, <1>6, <1>7, <1>8, RenderStep

LEMMA ReceiveCatalogStep ==
    ASSUME PageInv, NEW k \in Keys \ StatusKeys, NEW data, ReceiveCatalog(k, data),
           \A t \in Texts : k = ContestsKey(t) => data = Matches[t],
           \A c \in Contests : k = ProblemsKey(c) => data = ProblemsOf[c]
    PROVE  PageInv'
<1>1. PICK s : s = Answer(cache[k], data)
  OBVIOUS
<1>2. IsEntry(s) /\ s.data = data /\ ~s.fetching
  BY <1>1, AnswerEntry
<1>3. /\ Render(TRUE, form, [cache EXCEPT ![k] = s], reads)
      /\ UNCHANGED <<registered, told, joined, calls>> /\ Bounded'
  BY <1>1 DEF ReceiveCatalog, PageInv, Bounded, boundVars, historyVars
<1>4. \A t \in Texts : k = ContestsKey(t) =>
         /\ s.data \in {NoData, Matches[t]} /\ Started(s)
         /\ cache[k].data # NoData => s.data # NoData
  BY <1>2, RegistrationPageAssumption DEF Started
<1>5. \A c \in Contests : k = ProblemsKey(c) => s.data \in {NoData, ProblemsOf[c]}
  BY <1>2
<1>6. /\ reads = [c \in Contests |-> reads[c]]
      /\ \A c \in Contests :
           StatusOK(c, IF k = StatusKey(c) THEN s ELSE cache[StatusKey(c)], reads[c])
  BY KeysApart DEF PageInv, RequestsOK
<1> QED  BY <1>2, <1>3, <1>4, <1>5, <1>6, EntryRender

LEMMA QueryFailsStep ==
    ASSUME PageInv, NEW k \in Keys, QueryFails(k)
    PROVE  PageInv'
<1>1. PICK s : s = FailFetch(cache[k], "transient")
  OBVIOUS
<1>2. PICK r : r = [c \in Contests |-> IF k = StatusKey(c) THEN NoData ELSE reads[c]]
  OBVIOUS
<1>3. /\ IsEntry(s) /\ s.data = cache[k].data /\ s.invalidated = cache[k].invalidated
      /\ ~s.fetching /\ IsError(s)
  BY <1>1, FailFetchEntry DEF PageInv, EntriesOK, Errors, FailFetch, IsError
<1>4. /\ Render(TRUE, form, [cache EXCEPT ![k] = s], r)
      /\ UNCHANGED <<registered, told, joined, calls>> /\ Bounded'
  <2>1. Bounded'
    BY Counts DEF QueryFails, PageInv, Bounded
  <2> QED  BY <1>1, <1>2, <2>1 DEF QueryFails, historyVars
<1>5. \A t \in Texts : k = ContestsKey(t) =>
         /\ s.data \in {NoData, Matches[t]} /\ Started(s)
         /\ cache[k].data # NoData => s.data # NoData
  BY <1>3 DEF Started, PageInv, EntriesOK
<1>6. \A c \in Contests : k = ProblemsKey(c) => s.data \in {NoData, ProblemsOf[c]}
  BY <1>3 DEF PageInv, EntriesOK
<1>7. ASSUME NEW c \in Contests
      PROVE  StatusOK(c, IF k = StatusKey(c) THEN s ELSE cache[StatusKey(c)], r[c])
  <2>1. StatusOK(c, cache[StatusKey(c)], reads[c])
    BY DEF PageInv, RequestsOK
  <2>2. CASE k = StatusKey(c)
    BY <1>2, <1>3, <2>1, <2>2 DEF StatusOK, Knows
  <2>3. CASE k # StatusKey(c)
    BY <1>2, <2>1, <2>3
  <2> QED  BY <2>2, <2>3
<1>8. r = [c \in Contests |-> r[c]]
  BY <1>2
<1> QED  BY <1>3, <1>4, <1>5, <1>6, <1>7, <1>8, EntryRender

LEMMA RefetchStep ==
    ASSUME PageInv, NEW k \in Keys, Refetch(k)
    PROVE  PageInv'
<1>1. PICK s : s = StartFetch(cache[k])
  OBVIOUS
<1>2. /\ IsEntry(s) /\ s.data = cache[k].data /\ s.invalidated = cache[k].invalidated
      /\ s.fetching
  BY <1>1, StartFetchEntry DEF PageInv, EntriesOK
<1>3. /\ Render(TRUE, form, [cache EXCEPT ![k] = s], reads) /\ k \in OnDisplay
      /\ UNCHANGED <<registered, told, joined, calls>> /\ Bounded'
  <2>1. Bounded'
    BY Counts DEF Refetch, PageInv, Bounded
  <2> QED  BY <1>1, <2>1 DEF Refetch, historyVars
<1>4. \A t \in Texts : k = ContestsKey(t) =>
         /\ s.data \in {NoData, Matches[t]} /\ Started(s)
         /\ cache[k].data # NoData => s.data # NoData
  BY <1>2 DEF Started, PageInv, EntriesOK
<1>5. \A c \in Contests : k = ProblemsKey(c) => s.data \in {NoData, ProblemsOf[c]}
  BY <1>2 DEF PageInv, EntriesOK
<1>6. ASSUME NEW c \in Contests
      PROVE  StatusOK(c, IF k = StatusKey(c) THEN s ELSE cache[StatusKey(c)], reads[c])
  <2>1. StatusOK(c, cache[StatusKey(c)], reads[c])
    BY DEF PageInv, RequestsOK
  <2>2. CASE k = StatusKey(c)
    BY <1>2, <2>1, <2>2 DEF StatusOK, Knows
  <2>3. CASE k # StatusKey(c)
    BY <2>1, <2>3
  <2> QED  BY <2>2, <2>3
<1>7. reads = [c \in Contests |-> reads[c]]
  BY DEF PageInv, RequestsOK
<1> QED  BY <1>2, <1>3, <1>4, <1>5, <1>6, <1>7, EntryRender

\* The status is read from a table that has all that was told.
LEMMA ReadStatusStep ==
    ASSUME PageInv, NEW c \in Contests, ReadStatus(c)
    PROVE  PageInv'
<1>1. /\ UNCHANGED <<registered, mounted, form, cache, calls, sent, incidents, typed, told, joined>>
      /\ reads' = [reads EXCEPT ![c] = registered \cap AskedFor(c)]
      /\ cache[StatusKey(c)].fetching
  BY DEF ReadStatus, boundVars, historyVars
<1>2. ASSUME NEW d \in Contests, OnDisplay' = OnDisplay
      PROVE  StatusOK(d, cache[StatusKey(d)], reads[d])'
  <2>1. StatusOK(d, cache[StatusKey(d)], reads[d])
    BY DEF PageInv, RequestsOK
  <2>2. CASE d # c
    <3>1. reads'[d] = reads[d]
      BY <1>1, <2>2 DEF PageInv, RequestsOK
    <3> QED  BY <1>1, <1>2, <2>1, <3>1 DEF StatusOK, Knows
  <2>3. CASE d = c
    <3>1. reads'[c] = registered \cap AskedFor(c)
      BY <1>1 DEF PageInv, RequestsOK
    <3>2. told[c] \subseteq registered
      BY DEF PageInv, TableOK
    <3> QED  BY <1>1, <1>2, <2>1, <2>3, <3>1, <3>2 DEF StatusOK, Knows
  <2> QED  BY <2>2, <2>3
<1>3. TableOK' /\ Bounded' /\ CallsOK'
  BY <1>1 DEF PageInv, TableOK, Bounded, CallsOK, CallOK
<1>4. /\ cache' = [k \in Keys |-> cache'[k]] /\ reads' = [d \in Contests |-> reads'[d]]
      /\ \A k \in Keys \ StatusKeys : cache'[k] = cache[k]
      /\ \A k \in StatusKeys : IsEntry(cache'[k]) /\ (cache'[k].fetching => k \in OnDisplay)
      /\ form' \in Forms
  BY <1>1, KeysApart DEF PageInv, EntriesOK, RequestsOK, FormOK
<1> QED  BY <1>1, <1>2, <1>3, <1>4, StatusStep

LEMMA ReceiveStatusStep ==
    ASSUME PageInv, NEW c \in Contests, ReceiveStatus(c)
    PROVE  PageInv'
<1>1. /\ UNCHANGED <<registered, mounted, form, calls, sent, incidents, typed>>
      /\ reads[c] # NoData
      /\ cache' = [cache EXCEPT ![StatusKey(c)] = Answer(cache[StatusKey(c)], reads[c])]
      /\ reads' = [reads EXCEPT ![c] = NoData]
      /\ told' = [told EXCEPT ![c] = told[c] \cup reads[c]]
      /\ joined' = IF told[c] \cap AskedFor(c) \subseteq reads[c] THEN joined \ {c} ELSE joined
  BY DEF ReceiveStatus, boundVars
<1>2. PICK s : s = Answer(cache[StatusKey(c)], reads[c])
  OBVIOUS
<1>3. IsEntry(s) /\ s.data = reads[c] /\ ~s.fetching /\ ~s.invalidated
  BY <1>2, AnswerEntry DEF Answer
<1>4. /\ cache'[StatusKey(c)] = s
      /\ \A k \in Keys \ {StatusKey(c)} : cache'[k] = cache[k]
      /\ cache' = [k \in Keys |-> cache'[k]]
  BY <1>1, <1>2, KeysApart DEF PageInv, EntriesOK
<1>5. /\ reads'[c] = NoData /\ reads' = [d \in Contests |-> reads'[d]]
      /\ \A d \in Contests \ {c} : reads'[d] = reads[d]
  BY <1>1 DEF PageInv, RequestsOK
<1>6. /\ told'[c] = told[c] \cup reads[c] /\ \A d \in Contests \ {c} : told'[d] = told[d]
      /\ reads[c] \subseteq registered
      /\ told' \in [Contests -> SUBSET registered]
  <2>1. reads[c] \subseteq registered
    BY <1>1 DEF PageInv, RequestsOK, StatusOK
  <2> QED  BY <1>1, <2>1 DEF PageInv, TableOK
<1>7. TableOK' /\ Bounded' /\ CallsOK'
  BY <1>1, <1>6 DEF PageInv, TableOK, Bounded, CallsOK, CallOK
<1>8. ASSUME NEW d \in Contests, OnDisplay' = OnDisplay
      PROVE  StatusOK(d, cache[StatusKey(d)], reads[d])'
  <2>1. StatusOK(d, cache[StatusKey(d)], reads[d])
    BY DEF PageInv, RequestsOK
  <2>2. CASE d # c
    <3>1. cache'[StatusKey(d)] = cache[StatusKey(d)]
      BY <1>4, <2>2, KeysApart
    <3>2. reads'[d] = reads[d] /\ told'[d] = told[d] /\ (d \notin joined' => d \notin joined)
      BY <1>1, <1>5, <1>6, <2>2
    <3> QED  BY <1>1, <1>8, <2>1, <3>1, <3>2 DEF StatusOK, Knows
  <2>3. CASE d = c
    <3>1. c \notin joined' => told[c] \cap AskedFor(c) \subseteq reads[c]
      BY <1>1, <2>1, <2>3 DEF StatusOK, Knows
    <3>2. c \notin joined' => told'[c] \cap AskedFor(c) \subseteq s.data
      BY <1>3, <1>6, <3>1
    <3> QED  BY <1>3, <1>4, <1>5, <2>3, <3>2 DEF StatusOK, Knows
  <2> QED  BY <2>2, <2>3
<1>9. /\ \A k \in Keys \ StatusKeys : cache'[k] = cache[k]
      /\ \A k \in StatusKeys : IsEntry(cache'[k]) /\ (cache'[k].fetching => k \in OnDisplay)
      /\ form' \in Forms
  BY <1>1, <1>3, <1>4, KeysApart DEF PageInv, EntriesOK, RequestsOK, FormOK
<1> QED  BY <1>1, <1>4, <1>5, <1>7, <1>8, <1>9, StatusStep

-----------------------------------------------------------------------------
(* The calls. *)

LEMMA ServeStep ==
    ASSUME PageInv, NEW c \in calls, Serve(c)
    PROVE  PageInv'
<1>1. /\ UNCHANGED <<mounted, form, cache, reads, sent, incidents, typed, told, joined>>
      /\ registered' = registered \cup c.problems
  BY DEF Serve, RegisteredAfter, boundVars, historyVars
<1>2. CallOK(c)
  BY DEF PageInv, CallsOK
<1>3. PICK d : d = [c EXCEPT !.phase = "served", !.new = c.problems \ registered]
  OBVIOUS
<1>4. CallOK(d)'
  BY <1>1, <1>2, <1>3 DEF CallOK
<1>5. CallsOK'
  <2>1. \A b \in calls' : b \in calls \/ b = d
    BY <1>3 DEF Serve, NewlyRegistered
  <2>2. \A b \in calls : CallOK(b)'
    BY <1>1 DEF PageInv, CallsOK, CallOK
  <2> QED  BY <1>4, <2>1, <2>2 DEF CallsOK
<1>6. registered \subseteq registered' /\ registered' \subseteq Problems
  BY <1>1, <1>2 DEF CallOK, PageInv, TableOK
<1> QED  BY <1>1, <1>5, <1>6, StillStep DEF PageInv, FormOK, Bounded

\* Every status is fetched anew, marked, or known to be older (joined).
LEMMA InvalidateStatusStep ==
    ASSUME PageInv, InvalidateStatus, NEW problems, problems \subseteq registered,
           Tell(problems), UNCHANGED <<registered, mounted>>, form' \in Forms,
           form'.debounced = form.debounced, form'.previous = form.previous,
           form'.contestId = form.contestId, Bounded', CallsOK'
    PROVE  PageInv'
<1>1. PICK fetched :
        /\ fetched = {k \in StatusKeys \cap OnDisplay : ~KeepsFetchInFlight(cache[k])}
        /\ cache' = [k \in Keys |->
                IF k \in fetched THEN StartFetch(Invalidate(cache[k]))
                ELSE IF k \in StatusKeys THEN Invalidate(cache[k]) ELSE cache[k]]
        /\ reads' = [c \in Contests |-> IF StatusKey(c) \in fetched THEN NoData ELSE reads[c]]
  BY DEF InvalidateStatus, JoinsFetch
<1>2. /\ joined' = joined \cup
           {c \in Contests : StatusKey(c) \in OnDisplay /\ KeepsFetchInFlight(cache[StatusKey(c)])}
      /\ told' = [c \in Contests |-> told[c] \cup problems]
  BY DEF InvalidateStatus, Tell
<1>3. ASSUME NEW k \in StatusKeys
      PROVE  /\ IsEntry(cache'[k]) /\ cache'[k].data = cache[k].data
             /\ k \in fetched => cache'[k].fetching
             /\ k \notin fetched => cache'[k].fetching = cache[k].fetching
             /\ cache[k].data # NoData => cache'[k].invalidated
  <2>1. IsEntry(cache[k]) /\ k \in Keys
    BY KeysApart DEF PageInv, EntriesOK
  <2>2. PICK e : e = Invalidate(cache[k])
    OBVIOUS
  <2>3. /\ IsEntry(e) /\ e.data = cache[k].data /\ e.fetching = cache[k].fetching
        /\ cache[k].data # NoData => e.invalidated
    BY <2>1, <2>2, InvalidateEntry
  <2>4. cache'[k] = IF k \in fetched THEN StartFetch(e) ELSE e
    BY <1>1, <2>1, <2>2
  <2> QED  BY <2>3, <2>4, StartFetchEntry
<1>4. TableOK'
  BY <1>2 DEF PageInv, TableOK
<1>5. ASSUME NEW c \in Contests, OnDisplay' = OnDisplay
      PROVE  StatusOK(c, cache[StatusKey(c)], reads[c])'
  <2>1. /\ StatusOK(c, cache[StatusKey(c)], reads[c]) /\ StatusKey(c) \in StatusKeys
        /\ cache[StatusKey(c)].fetching => StatusKey(c) \in OnDisplay
    BY KeysApart DEF PageInv, RequestsOK
  <2>2. reads'[c] = IF StatusKey(c) \in fetched THEN NoData ELSE reads[c]
    BY <1>1
  <2>3. CASE StatusKey(c) \in fetched
    BY <1>3, <1>5, <2>1, <2>2, <2>3 DEF StatusOK, Knows
  <2>4. CASE StatusKey(c) \notin OnDisplay
    <3>1. reads[c] = NoData /\ StatusKey(c) \notin fetched
      BY <1>1, <2>1, <2>4 DEF StatusOK
    <3> QED  BY <1>3, <1>5, <2>1, <2>2, <2>4, <3>1 DEF StatusOK, Knows
  <2>5. CASE StatusKey(c) \in OnDisplay /\ StatusKey(c) \notin fetched
    <3>1. KeepsFetchInFlight(cache[StatusKey(c)])
      BY <1>1, <2>1, <2>5
    <3>2. c \in joined' /\ cache[StatusKey(c)].fetching
      BY <1>2, <2>5, <3>1 DEF KeepsFetchInFlight
    <3> QED  BY <1>3, <1>5, <2>1, <2>2, <2>5, <3>2 DEF StatusOK
  <2> QED  BY <2>3, <2>4, <2>5
<1>6. /\ cache' = [k \in Keys |-> cache'[k]] /\ reads' = [c \in Contests |-> reads'[c]]
      /\ \A k \in Keys \ StatusKeys : cache'[k] = cache[k]
  BY <1>1
<1>7. ASSUME NEW k \in StatusKeys, cache'[k].fetching PROVE k \in OnDisplay
  BY <1>1, <1>3, <1>7, KeysApart DEF PageInv, RequestsOK
<1> QED  BY <1>3, <1>4, <1>5, <1>6, <1>7, StatusStep

LEMMA AnswerSteps ==
    ASSUME PageInv, NEW c \in calls, ReceiveSelected(c) \/ ReceiveUrl(c) \/ GiveUp(c)
    PROVE  PageInv'
<1>1. /\ CallOK(c) /\ form \in Forms /\ registered \subseteq Problems
      /\ UNCHANGED <<registered, mounted>>
  BY DEF PageInv, CallsOK, FormOK, TableOK, ReceiveSelected, ReceiveUrl, GiveUp
<1>2. CASE ReceiveSelected(c)
  <2>1. /\ Tell(c.problems) /\ InvalidateStatus /\ c.problems \subseteq registered
        /\ CallsOK' /\ Bounded'
    BY <1>1, <1>2, CallsKept
    DEF ReceiveSelected, Answered, CallOK, PageInv, Bounded, boundVars
  <2>2. /\ form' \in Forms /\ form'.debounced = form.debounced
        /\ form'.previous = form.previous /\ form'.contestId = form.contestId
    <3>1. form' = form \/ form' = [form EXCEPT !.selected = {}]
      BY <1>2 DEF ReceiveSelected
    <3> QED  BY <1>1, <3>1 DEF Forms
  <2> QED  BY <1>1, <2>1, <2>2, InvalidateStatusStep
<1>3. CASE ReceiveUrl(c)
  <2>1. c.problems \subseteq registered /\ CallsOK' /\ Bounded' /\ UNCHANGED form
    BY <1>1, <1>3, CallsKept DEF ReceiveUrl, Answered, CallOK, PageInv, Bounded, boundVars
  <2>2. CASE UNCHANGED <<cache, reads, told, joined>>
    BY <1>1, <2>1, <2>2, StillStep
  <2>3. CASE Tell(c.problems) /\ InvalidateStatus
    BY <1>1, <2>1, <2>3, InvalidateStatusStep
  <2> QED  BY <1>3, <2>2, <2>3 DEF ReceiveUrl, historyVars
<1>4. CASE GiveUp(c)
  <2>1. UNCHANGED <<form, cache, reads, told, joined>>
    BY <1>4 DEF GiveUp, historyVars
  <2>2. Bounded'
    BY <1>4, Counts DEF GiveUp, PageInv, Bounded
  <2>3. PICK d : d = [c EXCEPT !.waiting = FALSE, !.caller = FALSE]
    OBVIOUS
  <2>4. CallOK(d)'
    BY <1>1, <2>3 DEF CallOK
  <2>5. \A b \in calls' : b \in calls \/ b = d
    BY <1>4, <2>3 DEF GiveUp
  <2>6. CallsOK'
    BY <1>1, <2>4, <2>5 DEF PageInv, CallsOK, CallOK
  <2> QED  BY <1>1, <2>1, <2>2, <2>6, StillStep
<1> QED  BY <1>2, <1>3, <1>4

LEMMA ElsewhereStep ==
    ASSUME PageInv, ChangeElsewhere
    PROVE  PageInv'
<1>1. /\ UNCHANGED <<mounted, form, cache, reads, calls, sent, typed, told, joined>>
      /\ registered \subseteq registered' /\ registered' \subseteq Problems
  BY DEF ChangeElsewhere, historyVars, PageInv, TableOK
<1>2. Bounded'
  BY <1>1, Counts DEF ChangeElsewhere, PageInv, Bounded
<1>3. CallsOK'
  BY <1>1, CallsKept DEF PageInv
<1> QED  BY <1>1, <1>2, <1>3, StillStep DEF PageInv, FormOK

-----------------------------------------------------------------------------
(* The theorems. *)

LEMMA PageInvInit == Init => PageInv
<1> SUFFICES ASSUME Init PROVE PageInv
  OBVIOUS
<1>1. /\ cache = [k \in Keys |->
            IF k = ContestsKey("") THEN StartFetch(EmptyEntry) ELSE EmptyEntry]
      /\ mounted = TRUE /\ form = NewForm /\ reads = [c \in Contests |-> NoData]
  BY DEF Init
<1>2. /\ IsEntry(EmptyEntry) /\ EmptyEntry.data = NoData /\ ~EmptyEntry.fetching
      /\ ~EmptyEntry.invalidated
  BY DEF IsEntry, EmptyEntry, Errors
<1>3. ASSUME NEW k \in Keys
      PROVE  /\ IsEntry(cache[k]) /\ cache[k].data = NoData /\ ~cache[k].invalidated
             /\ cache[k].fetching <=> k = ContestsKey("")
  <2>1. CASE k = ContestsKey("")
    <3>1. cache[k] = StartFetch(EmptyEntry)
      BY <1>1, <2>1
    <3> QED  BY <1>2, <2>1, <3>1, StartFetchEntry
  <2>2. CASE k # ContestsKey("")
    <3>1. cache[k] = EmptyEntry
      BY <1>1, <2>2
    <3> QED  BY <1>2, <2>2, <3>1
  <2> QED  BY <2>1, <2>2
<1>4. ContestsKey("") \in Keys /\ form.debounced = "" /\ ContestsKey("") \in OnDisplay
  BY <1>1, KeysApart, RegistrationPageAssumption DEF NewForm, OnDisplay, Observed
<1>5. EntriesOK(cache)
  <2>1. cache = [k \in Keys |-> cache[k]]
    BY <1>1
  <2> QED  BY <1>3, <2>1, KeysApart DEF EntriesOK
<1>6. FormOK(form, cache)
  BY <1>1, RegistrationPageAssumption DEF FormOK, NewForm, Forms
<1>7. RequestsOK(cache, reads)
  BY <1>1, <1>3, <1>4, KeysApart DEF RequestsOK, StatusOK, Knows
<1>8. SearchOK
  BY <1>3, <1>4 DEF SearchOK, Started
<1>9. Bounded
  <2>1. sent = 0 /\ incidents = 0 /\ typed = 0
    BY DEF Init
  <2> QED  BY <2>1, BoundsAreNat DEF Bounded
<1>10. TableOK /\ CallsOK
  BY DEF Init, TableOK, CallsOK
<1> QED  BY <1>5, <1>6, <1>7, <1>8, <1>9, <1>10 DEF PageInv

LEMMA PageInvNext == PageInv /\ [Next]_vars => PageInv'
<1> SUFFICES ASSUME PageInv, [Next]_vars PROVE PageInv'
  OBVIOUS
<1>1. ASSUME NEW t \in Texts, Type(t) \/ ReceiveContests(t) PROVE PageInv'
  <2>1. /\ ContestsKey(t) \in Keys \ StatusKeys
        /\ \A u \in Texts : ContestsKey(t) = ContestsKey(u) => Matches[t] = Matches[u]
        /\ \A c \in Contests : ContestsKey(t) # ProblemsKey(c)
    BY KeysApart DEF ContestsKey
  <2> QED  BY <1>1, <2>1, FormSteps, ReceiveCatalogStep DEF ReceiveContests
<1>2. ASSUME NEW c \in Contests,
             SelectContest(c) \/ ReceiveProblems(c) \/ ReadStatus(c) \/ ReceiveStatus(c)
      PROVE  PageInv'
  <2>1. /\ ProblemsKey(c) \in Keys \ StatusKeys
        /\ \A d \in Contests : ProblemsKey(c) = ProblemsKey(d) => ProblemsOf[c] = ProblemsOf[d]
        /\ \A t \in Texts : ProblemsKey(c) # ContestsKey(t)
    BY KeysApart DEF ProblemsKey
  <2> QED
    BY <1>2, <2>1, RenderSteps, ReceiveCatalogStep, ReadStatusStep, ReceiveStatusStep
    DEF ReceiveProblems
<1>3. ASSUME NEW p \in Problems, ToggleProblem(p) \/ SubmitUrl(p) PROVE PageInv'
  BY <1>3, FormSteps, SendSteps
<1>4. CASE Debounce \/ Leave \/ Return
  BY <1>4, RenderSteps
<1>5. CASE ToggleAll \/ SetMode
  BY <1>5, FormSteps
<1>6. CASE RegisterSelected
  BY <1>6, SendSteps
<1>7. ASSUME NEW k \in Keys, QueryFails(k) \/ Refetch(k) PROVE PageInv'
  BY <1>7, QueryFailsStep, RefetchStep
<1>8. ASSUME NEW c \in calls,
             Serve(c) \/ ReceiveSelected(c) \/ ReceiveUrl(c) \/ GiveUp(c)
      PROVE  PageInv'
  BY <1>8, ServeStep, AnswerSteps
<1>9. CASE ChangeElsewhere
  BY <1>9, ElsewhereStep
<1>10. CASE UNCHANGED vars
  BY <1>10, CallsKept, StillStep DEF vars, PageInv, FormOK, Bounded, TableOK
<1> QED
  BY <1>1, <1>2, <1>3, <1>4, <1>5, <1>6, <1>7, <1>8, <1>9, <1>10 DEF Next

\* However searches, answers, navigation and registrations follow one another, the
\* entries and the requests of the page know what the tab was told.
THEOREM PageInvariant == Spec => []PageInv
<1> QED  BY PageInvInit, PageInvNext, PTL DEF Spec

\* A request is in flight only for what the page, as rendered, has on display.
THEOREM RegistrationPageTypeCorrect == Spec => []RegistrationPageTypeOK
<1>1. PageInv => RegistrationPageTypeOK
  <2> SUFFICES ASSUME PageInv PROVE RegistrationPageTypeOK
    OBVIOUS
  <2>1. /\ registered \subseteq Problems /\ told \in [Contests -> SUBSET Problems]
        /\ joined \subseteq Contests /\ mounted \in BOOLEAN
    BY DEF PageInv, TableOK
  <2>2. /\ form.mode \in {"contest", "url"} /\ form.selected \subseteq Problems
        /\ form.query \in Texts /\ form.debounced \in Texts
        /\ form.previous \in Texts \cup {NoText}
        /\ form.contestId \in Contests \cup {NoContest}
    BY DEF PageInv, FormOK, Forms
  <2>3. /\ \A k \in Keys : cache[k].error \in Errors
        /\ {k \in Keys : cache[k].fetching} \subseteq OnDisplay
        /\ \A c \in Contests : reads[c] # NoData => cache[StatusKey(c)].fetching
    BY DEF PageInv, EntriesOK, IsEntry, RequestsOK, StatusOK
  <2>4. \A c \in calls :
            c.problems \subseteq Problems /\ c.problems # {} /\ c.new \subseteq c.problems
    BY DEF PageInv, CallsOK, CallOK
  <2> QED  BY <2>1, <2>2, <2>3, <2>4 DEF RegistrationPageTypeOK, PageInv, Bounded
<1> QED  BY <1>1, PageInvariant, PTL

\* useProblemRegistrationPage with useDebouncedValue and keepPreviousData: a page that
\* says it is not searching shows what the catalog has for the text in the field.
THEOREM SearchMatchesText == Spec => []SettledSearchMatchesText
<1>1. PageInv => SettledSearchMatchesText
  <2> SUFFICES ASSUME PageInv, mounted, ~Searching,
                      ~IsError(cache[ContestsKey(form.debounced)])
               PROVE  ContestsShown(form, cache) = Matches[form.query]
    BY DEF SettledSearchMatchesText
  <2>1. form.query = form.debounced /\ ~cache[ContestsKey(form.debounced)].fetching
    BY DEF Searching
  <2>2. form.debounced \in Texts
    BY DEF PageInv, FormOK, Forms
  <2>3. cache[ContestsKey(form.debounced)].data # NoData
    BY <2>1 DEF PageInv, SearchOK, Started
  <2>4. cache[ContestsKey(form.debounced)].data = Matches[form.debounced]
    BY <2>2, <2>3 DEF PageInv, EntriesOK
  <2> QED  BY <2>1, <2>3, <2>4 DEF ContestsShown, IsPlaceholder, IsPending
<1> QED  BY <1>1, PageInvariant, PTL

\* _.hook.ts:77, for any catalog and any number of registrations: no settled page
\* offers a problem that the tab was told is registered.
THEOREM RegisteredIsNotOffered == Spec => []SettledOffersNothingRegistered
<1>1. PageInv => SettledOffersNothingRegistered
  <2> SUFFICES ASSUME PageInv, NEW c \in Contests \ joined, mounted,
                      c = ActiveContest(form, cache), ~cache[StatusKey(c)].fetching,
                      NEW p \in Available(form, cache) \cap told[c] \cap AskedFor(c)
               PROVE  FALSE
    BY DEF SettledOffersNothingRegistered
  <2>1. Checked(c, cache) /\ p \in Range(ProblemsShown(c, cache)) \ RegisteredShown(c, cache)
    BY DEF Available
  <2>2. ProblemsShown(c, cache) # <<>>
    <3>1. Range(<<>>) = {}
      BY DEF Range
    <3> QED  BY <2>1, <3>1
  <2>3. StatusKey(c) \in OnDisplay
    BY <2>2 DEF OnDisplay, Observed
  <2>4. StatusOK(c, cache[StatusKey(c)], reads[c])
    BY DEF PageInv, RequestsOK
  <2>5. cache[StatusKey(c)].data # NoData /\ ~cache[StatusKey(c)].invalidated
    BY <2>1, <2>3, <2>4 DEF Checked, StatusOK
  <2>6. p \in cache[StatusKey(c)].data
    BY <2>4, <2>5 DEF StatusOK, Knows
  <2> QED  BY <2>1, <2>5, <2>6 DEF RegisteredShown
<1> QED  BY <1>1, PageInvariant, PTL
=============================================================================
