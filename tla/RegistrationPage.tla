--------------------------- MODULE RegistrationPage ---------------------------
(***************************************************************************)
(* The registration page of one signed-in tab (useProblemRegistrationPage) *)
(* over the query cache: the search for contests with its debounce, the    *)
(* problems of the contest on display, which of them are registered, the   *)
(* selection, and the two calls that register problems.                    *)
(*                                                                         *)
(* The server's table is changed by other tabs too.  A call is served some *)
(* time after it was sent, and its answer may be lost; on the server it is *)
(* one step, that of RegistrationService, which the statements of          *)
(* Registration implement.  The catalog does not change while the page is  *)
(* open.  The messages of the page (notice, registrationError, urlError)   *)
(* and the note are left out.                                              *)
(***************************************************************************)
EXTENDS Naturals, Sequences, FiniteSets, QueryCache, ServerAnswers, Functions

CONSTANTS
    Texts,         \* what is typed into the search field
    Contests,
    Problems,
    Matches,       \* the catalog: per text the contests it finds, in order
    ProblemsOf,    \* the catalog: per contest its problems, in order
    CheckLimit,    \* maxRegistrationCheckCount
    NoText,
    NoContest,
    MaxCalls,      \* bound: registrations sent
    MaxIncidents,  \* bound: failures, changes elsewhere, departures, refetches
    MaxSteps,      \* bound: registrations and incidents together
    MaxTyped       \* bound: changes of the search text

ASSUME RegistrationPageAssumption ==
    /\ NoContest \notin Contests /\ NoText \notin Texts /\ "" \in Texts
    /\ Matches \in [Texts -> Seq(Contests)] /\ \A t \in Texts : Matches[t] # NoData
    /\ ProblemsOf \in [Contests -> Seq(Problems)]
    /\ CheckLimit \in Nat \ {0}
    /\ {MaxCalls, MaxIncidents, MaxSteps, MaxTyped} \subseteq Nat

VARIABLES
    registered,    \* review_items: the problems the user has registered
    mounted,       \* the page is open
    form,          \* the page's own state: see NewForm
    cache,         \* SearchContests, ListContestProblems, ListRegisteredProblemIds
    reads,         \* per contest: what its status request in flight has read
    calls,         \* registrations sent and not answered yet
    sent, incidents, typed,   \* the bounds used up
    told,          \* history: per contest the problems said to be registered
    joined         \* history: contests whose first status fetch was joined

vars == <<registered, mounted, form, cache, reads, calls, sent, incidents, typed,
          told, joined>>

ContestsKey(t) == <<"contests", t>>
ProblemsKey(c) == <<"problems", c>>
StatusKey(c) == <<"status", c>>
StatusKeys == {StatusKey(c) : c \in Contests}
Keys ==
    {ContestsKey(t) : t \in Texts} \cup {ProblemsKey(c) : c \in Contests} \cup StatusKeys

\* query is what the field shows, debounced what is searched for, previous the
\* text whose contests keepPreviousData shows meanwhile; contestId the one chosen.
NewForm ==
    [mode |-> "contest", query |-> "", debounced |-> "", previous |-> NoText,
     contestId |-> NoContest, selected |-> {}]

-----------------------------------------------------------------------------
(* What the page derives from its state f and the entries e. *)

IsPlaceholder(f, e) == IsPending(e[ContestsKey(f.debounced)]) /\ f.previous # NoText

ContestsShown(f, e) ==
    IF IsPlaceholder(f, e) THEN e[ContestsKey(f.previous)].data
    ELSE IF e[ContestsKey(f.debounced)].data # NoData
         THEN e[ContestsKey(f.debounced)].data
    ELSE <<>>

\* The contest chosen, or the first one if the search no longer finds it.
ActiveContest(f, e) ==
    LET contests == ContestsShown(f, e)
    IN  IF f.contestId \in Range(contests) THEN f.contestId
        ELSE IF contests = <<>> THEN NoContest ELSE contests[1]

ProblemsShown(c, e) ==
    IF c = NoContest \/ e[ProblemsKey(c)].data = NoData THEN <<>>
    ELSE e[ProblemsKey(c)].data

\* The problems that ListRegisteredProblemIds is asked for.
AskedFor(c) == {ProblemsOf[c][k] : k \in 1 .. CheckLimit \cap DOMAIN ProblemsOf[c]}

Checked(c, e) ==
    c # NoContest /\ e[StatusKey(c)].data # NoData /\ ~IsError(e[StatusKey(c)])

RegisteredShown(c, e) ==
    IF e[StatusKey(c)].data = NoData THEN {} ELSE e[StatusKey(c)].data

\* The boxes that can be ticked, and those that are.
Available(f, e) ==
    LET c == ActiveContest(f, e)
    IN  IF Checked(c, e) THEN Range(ProblemsShown(c, e)) \ RegisteredShown(c, e) ELSE {}
SelectedProblems(f, e) == Available(f, e) \cap f.selected

SearchInFlight == cache[ContestsKey(form.debounced)].fetching  \* mutant: no look at the text
Searching == form.query # form.debounced \/ cache[ContestsKey(form.debounced)].fetching

Pending(kind) == \E c \in calls : c.kind = kind /\ c.caller

\* The buttons of the contests, the boxes of the active one's problems and the box
\* for all of them, and the two buttons that send.
OffersContest(c) == form.mode = "contest" /\ c \in Range(ContestsShown(form, cache))
OffersProblem(p) ==
    /\ form.mode = "contest"
    /\ p \in Available(form, cache)
    /\ ~IsError(cache[ProblemsKey(ActiveContest(form, cache))])
OffersAll == form.mode = "contest" /\ Available(form, cache) # {}
CanRegister ==
    form.mode = "contest" /\ SelectedProblems(form, cache) # {} /\ ~Pending("selected")
CanSubmitUrl == form.mode = "url" /\ ~Pending("url")

Observed(m, f, e) ==
    LET c == ActiveContest(f, e)
    IN  IF ~m THEN {}
        ELSE {ContestsKey(f.debounced)}
             \cup (IF c = NoContest THEN {} ELSE {ProblemsKey(c)})
             \cup (IF ProblemsShown(c, e) = <<>> THEN {} ELSE {StatusKey(c)})

OnDisplay == Observed(mounted, form, cache)

\* React renders the page with state f over the entries e: the queries that it
\* begins to observe are fetched if they have nothing, were invalidated or - those
\* of the status, the others cannot have changed - are older than staleTime; the
\* queries that it no longer observes are cancelled.  A search that failed is
\* pending again at once, with the contests of before.
Render(m, f, e, r) ==
    LET k0 == ContestsKey(f.debounced)
        before == OnDisplay
        again == m /\ k0 \notin before /\ e[k0].data = NoData
        new == Observed(m, f, IF again THEN [e EXCEPT ![k0] = StartFetch(@)] ELSE e)
    IN  \E old \in {{}, StatusKeys} :
        /\ mounted' = m
        /\ form' = [f EXCEPT !.previous =
                IF m /\ e[k0].data # NoData THEN f.debounced ELSE @]
        /\ cache' = [k \in Keys |->
                IF /\ k \in new \ before
                   /\ e[k].data = NoData \/ e[k].invalidated \/ k \in old
                THEN StartFetch(e[k])
                ELSE IF k \in before \ new THEN CancelFetch(e[k])
                ELSE e[k]]
        /\ reads' = [c \in Contests |->
                IF StatusKey(c) \in new \cap before THEN r[c] ELSE NoData]

-----------------------------------------------------------------------------
(* The bounds. *)

StepLeft == sent + incidents < MaxSteps
Incident == StepLeft /\ incidents < MaxIncidents /\ incidents' = incidents + 1
OneMoreCall == StepLeft /\ sent < MaxCalls /\ sent' = sent + 1

Init ==
    /\ registered \in SUBSET Problems
    /\ mounted = TRUE
    /\ form = NewForm
    /\ cache = [k \in Keys |->
            IF k = ContestsKey("") THEN StartFetch(EmptyEntry) ELSE EmptyEntry]
    /\ reads = [c \in Contests |-> NoData]
    /\ calls = {}
    /\ sent = 0 /\ incidents = 0 /\ typed = 0
    /\ told = [c \in Contests |-> {}] /\ joined = {}

-----------------------------------------------------------------------------
(* The user. *)

boundVars == <<sent, incidents, typed>>
historyVars == <<told, joined>>

Type(t) ==
    /\ mounted /\ form.mode = "contest" /\ t # form.query
    /\ typed < MaxTyped /\ typed' = typed + 1
    /\ form' = [form EXCEPT !.query = t]
    /\ UNCHANGED <<registered, mounted, cache, reads, calls, sent, incidents, told, joined>>

\* The timer of useDebouncedValue, which every change of the text starts anew.
Debounce ==
    /\ mounted /\ form.query # form.debounced
    /\ Render(TRUE, [form EXCEPT !.debounced = form.query], cache, reads)
    /\ UNCHANGED <<registered, calls, boundVars, historyVars>>

SelectContest(c) ==
    /\ mounted /\ OffersContest(c)
    /\ Render(TRUE, [form EXCEPT !.contestId = c, !.selected = {}], cache, reads)
    /\ UNCHANGED <<registered, calls, boundVars, historyVars>>

ToggleProblem(p) ==
    /\ mounted /\ OffersProblem(p)
    /\ form' = [form EXCEPT !.selected = IF p \in @ THEN @ \ {p} ELSE @ \cup {p}]
    /\ UNCHANGED <<registered, mounted, cache, reads, calls, boundVars, historyVars>>

ToggleAll ==
    LET available == Available(form, cache)
    IN  /\ mounted /\ OffersAll
        /\ form' = [form EXCEPT !.selected =
                IF available \subseteq @ THEN @ \ available ELSE @ \cup available]
        /\ UNCHANGED <<registered, mounted, cache, reads, calls, boundVars, historyVars>>

SetMode ==
    /\ mounted
    /\ form' = [form EXCEPT !.mode = IF @ = "url" THEN "contest" ELSE "url"]
    /\ UNCHANGED <<registered, mounted, cache, reads, calls, boundVars, historyVars>>

Call(kind, problems) ==
    [kind |-> kind, problems |-> problems, new |-> {}, phase |-> "sent", caller |-> TRUE,
     waiting |-> TRUE]

RegisterSelected ==
    /\ mounted /\ CanRegister
    /\ OneMoreCall
    /\ calls' = calls \cup {Call("selected", SelectedProblems(form, cache))}
    /\ UNCHANGED <<registered, mounted, form, cache, reads, incidents, typed, historyVars>>

\* The URL of a problem; parseProblemUrl stops every other text.
SubmitUrl(p) ==
    /\ mounted /\ CanSubmitUrl
    /\ OneMoreCall
    /\ calls' = calls \cup {Call("url", {p})}
    /\ UNCHANGED <<registered, mounted, form, cache, reads, incidents, typed, historyVars>>

\* Another route: what the page held is gone, its calls go on.
Leave ==
    /\ mounted
    /\ Incident
    /\ Render(FALSE, NewForm, cache, reads)
    /\ calls' = {[c EXCEPT !.caller = FALSE] : c \in calls}
    /\ UNCHANGED <<registered, sent, typed, historyVars>>

Return ==
    /\ ~mounted
    /\ Render(TRUE, NewForm, cache, reads)
    /\ UNCHANGED <<registered, calls, boundVars, historyVars>>

-----------------------------------------------------------------------------
(* The queries. *)

\* The answer of SearchContests or ListContestProblems.
ReceiveCatalog(k, data) ==
    /\ cache[k].fetching
    /\ Render(TRUE, form, [cache EXCEPT ![k] = Answer(@, data)], reads)
    /\ UNCHANGED <<registered, calls, boundVars, historyVars>>

ReadStatus(c) ==
    /\ cache[StatusKey(c)].fetching /\ reads[c] = NoData
    /\ reads' = [reads EXCEPT ![c] = registered \cap AskedFor(c)]
    /\ UNCHANGED <<registered, mounted, form, cache, calls, boundVars, historyVars>>

ReceiveStatus(c) ==
    /\ reads[c] # NoData
    /\ cache' = [cache EXCEPT ![StatusKey(c)] = Answer(@, reads[c])]
    /\ reads' = [reads EXCEPT ![c] = NoData]
    /\ told' = [told EXCEPT ![c] = @ \cup reads[c]]
    /\ joined' = IF told[c] \cap AskedFor(c) \subseteq reads[c] THEN joined \ {c} ELSE joined
    /\ UNCHANGED <<registered, mounted, form, calls, boundVars>>

QueryFails(k) ==
    /\ cache[k].fetching
    /\ Incident
    /\ Render(TRUE, form, [cache EXCEPT ![k] = FailFetch(@, "transient")],
              [c \in Contests |-> IF k = StatusKey(c) THEN NoData ELSE reads[c]])
    /\ UNCHANGED <<registered, calls, sent, typed, historyVars>>

\* The retry buttons; no button fetches the status again, the window's focus does.
Refetch(k) ==
    /\ k \in OnDisplay /\ ~cache[k].fetching
    /\ IF k \in StatusKeys THEN Incident
       ELSE IsError(cache[k]) /\ UNCHANGED incidents
    /\ Render(TRUE, form, [cache EXCEPT ![k] = StartFetch(@)], reads)
    /\ UNCHANGED <<registered, calls, sent, typed, historyVars>>

-----------------------------------------------------------------------------
(* The calls. *)

Serve(c) ==
    /\ c.phase = "sent"
    /\ registered' = RegisteredAfter(registered, c.problems)
    /\ calls' = (calls \ {c}) \cup
        (IF c.waiting
         THEN {[c EXCEPT !.phase = "served", !.new = NewlyRegistered(registered, c.problems)]}
         ELSE {})
    /\ UNCHANGED <<mounted, form, cache, reads, boundVars, historyVars>>

JoinsAnyFetch(k) == cache[k].fetching  \* mutant: cancelRefetch is off
JoinsFetch(k) == KeepsFetchInFlight(cache[k])

\* invalidateQueries(reviewServiceQueryKey), as far as this page's entries go.
InvalidateStatus ==
    LET fetched == {k \in StatusKeys \cap OnDisplay : ~JoinsFetch(k)}
    IN  /\ cache' = [k \in Keys |->
                IF k \in fetched THEN StartFetch(Invalidate(cache[k]))
                ELSE IF k \in StatusKeys THEN Invalidate(cache[k]) ELSE cache[k]]
        /\ reads' = [c \in Contests |-> IF StatusKey(c) \in fetched THEN NoData ELSE reads[c]]
        /\ joined' = joined \cup
            {c \in Contests : StatusKey(c) \in OnDisplay /\ KeepsFetchInFlight(cache[StatusKey(c)])}

\* The answer of a registration speaks of problems of whatever contest.
Tell(problems) == told' = [c \in Contests |-> told[c] \cup problems]

Answered(c) == c.phase = "served" /\ c.waiting /\ calls' = calls \ {c}

ReceiveSelected(c) ==
    /\ c.kind = "selected" /\ Answered(c)
    /\ form' = IF c.caller THEN [form EXCEPT !.selected = {}] ELSE form
    /\ Tell(c.problems)
    /\ InvalidateStatus
    /\ UNCHANGED <<registered, mounted, boundVars>>

\* A URL that was registered before is said to be, and nothing is fetched.
ReceiveUrl(c) ==
    /\ c.kind = "url" /\ Answered(c)
    /\ \/ c.new = {} /\ UNCHANGED <<cache, reads, historyVars>>
       \/ c.new # {} /\ Tell(c.problems) /\ InvalidateStatus
    /\ UNCHANGED <<registered, mounted, form, boundVars>>

\* An error, or no answer: the call may have been served, or be served later.
GiveUp(c) ==
    /\ c.waiting
    /\ Incident
    /\ calls' = (calls \ {c}) \cup
        (IF c.phase = "sent" THEN {[c EXCEPT !.waiting = FALSE, !.caller = FALSE]} ELSE {})
    /\ UNCHANGED <<registered, mounted, form, cache, reads, sent, typed, historyVars>>

-----------------------------------------------------------------------------
\* Another tab or device registers a problem: nothing tells this tab.
ChangeElsewhere ==
    /\ Incident
    /\ \E p \in Problems \ registered : registered' = registered \cup {p}
    /\ UNCHANGED <<mounted, form, cache, reads, calls, sent, typed, historyVars>>

ReceiveContests(t) == ReceiveCatalog(ContestsKey(t), Matches[t])
ReceiveProblems(c) == ReceiveCatalog(ProblemsKey(c), ProblemsOf[c])

Next ==
    \/ \E t \in Texts : Type(t) \/ ReceiveContests(t)
    \/ \E c \in Contests :
        SelectContest(c) \/ ReceiveProblems(c) \/ ReadStatus(c) \/ ReceiveStatus(c)
    \/ \E p \in Problems : ToggleProblem(p) \/ SubmitUrl(p)
    \/ Debounce \/ ToggleAll \/ SetMode \/ RegisterSelected
    \/ Leave \/ Return
    \/ \E k \in Keys : QueryFails(k) \/ Refetch(k)
    \/ \E c \in calls : Serve(c) \/ ReceiveSelected(c) \/ ReceiveUrl(c) \/ GiveUp(c)
    \/ ChangeElsewhere

Spec == Init /\ [][Next]_vars
-----------------------------------------------------------------------------
(* Properties. *)

\* Every variable has its type, and a request is in flight only for what the page
\* has on display.
RegistrationPageTypeOK ==
    /\ registered \subseteq Problems /\ told \in [Contests -> SUBSET Problems] /\ joined \subseteq Contests
    /\ mounted \in BOOLEAN
    /\ form.mode \in {"contest", "url"} /\ form.selected \subseteq Problems
    /\ form.query \in Texts /\ form.debounced \in Texts
    /\ form.previous \in Texts \cup {NoText} /\ form.contestId \in Contests \cup {NoContest}
    /\ \A k \in Keys : cache[k].error \in Errors
    /\ {k \in Keys : cache[k].fetching} \subseteq OnDisplay
    /\ \A c \in Contests : reads[c] # NoData => cache[StatusKey(c)].fetching
    /\ \A c \in calls : c.problems \subseteq Problems /\ c.problems # {} /\ c.new \subseteq c.problems
    /\ sent \in 0 .. MaxCalls /\ incidents \in 0 .. MaxIncidents /\ typed \in 0 .. MaxTyped

\* The contests on display while the page says it is not searching are those the
\* catalog has for the text in the field: neither those of an earlier text that
\* keepPreviousData holds, nor none.
SettledSearchMatchesText ==
    mounted /\ ~Searching /\ ~IsError(cache[ContestsKey(form.debounced)]) =>
        ContestsShown(form, cache) = Matches[form.query]

\* _.hook.ts:77: no problem that is registered can be ticked by mistake.  Once the
\* status is settled, what this tab was told is registered - by a status of this
\* contest, or by a registration through any of them or by URL - is not on offer,
\* wherever the page was when it was told.  (Beyond CheckLimit nothing is asked; a
\* first fetch that the registration found under way is joined and may be older:
\* see joined.)
SettledOffersNothingRegistered ==
    \A c \in Contests \ joined :
        /\ mounted /\ c = ActiveContest(form, cache)
        /\ ~cache[StatusKey(c)].fetching
        => Available(form, cache) \cap told[c] \cap AskedFor(c) = {}
=============================================================================
