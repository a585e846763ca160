------------------------------ MODULE ReviewPages ------------------------------
(***************************************************************************)
(* The review pages of one signed-in tab: the dashboard with the result    *)
(* sheet, the review list and the profile form, over the query cache, with *)
(* the user's rows on the server, which other tabs and devices change too. *)
(*                                                                         *)
(* A query is read on the server by several statements with no snapshot    *)
(* around them; those of the dashboard, which overlap, are two steps here.  *)
(* A mutation is a call that the server serves some time after it was sent; *)
(* its answer may be lost, and a call that the client gave up may be served *)
(* later.  On the server a call is one step: ReviewService has these steps, *)
(* and the statements of ReviewStore implement it.                         *)
(***************************************************************************)
EXTENDS Naturals, Sequences, FiniteSets, QueryCache, ServerAnswers

CONSTANTS
    Items,         \* the user's review items, one per problem
    Outcomes,      \* result and difficulty of an attempt
    Zones,         \* time zones
    NoItem,
    NoLog,
    MaxPanels,     \* bound: result sheets opened
    MaxCalls,      \* bound: records and toggles sent
    MaxIncidents,  \* bound: changes elsewhere, failures, unasked refetches, saves
    MaxSteps,      \* bound: sheets, calls and incidents together
    Links          \* bound: the pages that a user goes to

ASSUME PagesAssumption ==
    /\ NoItem \notin Items /\ Items \cap {"today", "list", "account"} = {}
    /\ MaxPanels \in Nat /\ MaxCalls \in Nat /\ MaxIncidents \in Nat
    /\ MaxSteps \in Nat
    /\ Links \subseteq {"/reviews", "/review-list", "/profile", "/mypage"}

VARIABLES
    server,        \* the user's rows: items due and paused, logs, time zone
    page,          \* the route
    selection,     \* ?problem= of the dashboard
    cache,         \* the entries of GetTodayReviews, ListReviewItems, ...
    reads,         \* per entry: what its request in flight has read so far
    panel,         \* the mounted result sheet
    opened,        \* sheets mounted so far: their request ids
    calls,         \* mutations sent and not answered yet
    pending,       \* pendingItemId of the list, and how far its toggle is
    profile,       \* the profile form's submission
    sent,          \* MaxCalls used up
    incidents,     \* MaxIncidents used up
    excused        \* history: entries that need not show the server's rows

vars == <<server, page, selection, cache, reads, panel, opened, calls, pending,
          profile, sent, incidents, excused>>

Pages == {"/reviews", "/review-list", "/profile", "/mypage"}
ReviewKeys == {"today", "list"} \cup Items    \* an item's key: GetReviewItem
Keys == ReviewKeys \cup {"account"}

Requests == 1 .. MaxPanels + MaxIncidents
LogRecords == [request : Requests, item : Items, outcome : Outcomes]
NoPanel == [request |-> 0, item |-> NoItem, phase |-> "closed", log |-> NoLog]
NotPending == [item |-> NoItem, phase |-> "idle"]

-----------------------------------------------------------------------------
(* The reads of the server. *)

LogsOf(i) == {l \in server.logs : l.item = i}

\* GetTodayReviews lists what is due, then the rest with the count of the day.
DueItems == [zone |-> server.zone, due |-> server.due \ server.paused]
OtherItems ==
    [upcoming |-> Items \ (server.due \cup server.paused),
     completed |-> Cardinality(server.logs)]

Rows(k) ==
    CASE k = "today" -> <<DueItems, OtherItems>>
      [] k = "list" -> <<[zone |-> server.zone, paused |-> server.paused], server.logs>>
      [] k \in Items -> <<[paused |-> k \in server.paused], Cardinality(LogsOf(k))>>
      [] k = "account" -> <<[zone |-> server.zone], TRUE>>

Shown(k) == cache[k].data
HasData(k) == Shown(k) # NoData

\* The queries that the boundary and the mounted page observe.
Observed(p, i) ==
    {"account"} \cup
    (IF p = "/reviews" THEN {"today"} \cup ({i} \ {NoItem}) ELSE {}) \cup
    (IF p = "/review-list" THEN {"list"} ELSE {})

OnDisplay == Observed(page, selection)

-----------------------------------------------------------------------------
(* The bounds. *)

StepLeft == opened + sent + incidents < MaxSteps
Incident == StepLeft /\ incidents < MaxIncidents /\ incidents' = incidents + 1
OneMoreCall == StepLeft /\ sent < MaxCalls /\ sent' = sent + 1

-----------------------------------------------------------------------------
(* What the pages show and offer. *)

\* A query that has failed before it had data shows its error with the retry
\* button; data stay on display through a refetch, and if that fails.
View(k) ==
    IF HasData(k) THEN "rows" ELSE IF IsError(cache[k]) THEN "error" ELSE "loading"
DashboardView == View("today")
ListView == View("list")

\* The sheet is mounted for an item that is not paused, once the zone is known.
OpensSheet(p, i, entries) ==
    /\ p = "/reviews" /\ i # NoItem
    /\ entries["today"].data # NoData
    /\ entries[i].data # NoData
    /\ ~entries[i].data[1].paused

\* key={item.id}: the same item keeps the sheet and its request id.
RequestOf(p) == IF p.item = selection' THEN p.request ELSE opened + 1

\* React mounts or unmounts the sheet after a step that left p in it.
RenderSheet(p) ==
    /\ panel' =
        IF ~OpensSheet(page', selection', cache') THEN NoPanel
        ELSE IF RequestOf(p) = p.request THEN p
        ELSE [NoPanel EXCEPT !.request = RequestOf(p), !.item = selection',
                             !.phase = "open"]
    /\ opened' = IF panel'.request > opened THEN panel'.request ELSE opened
    /\ opened' # opened => StepLeft /\ opened' <= MaxPanels

\* 取り組む: a button of every item in the queue of the dashboard, and a link on
\* the cards of the list whose item is not paused.
DashboardOffers(i) ==
    page = "/reviews" /\ DashboardView = "rows" /\ i \in Shown("today")[1].due
ListOffers(i) ==
    page = "/review-list" /\ ListView = "rows" /\ i \notin Shown("list")[1].paused
\* 一時停止 and 再開 of the cards, all disabled while one is pending.
CanToggle(i) ==
    page = "/review-list" /\ ListView = "rows" /\ pending.item = NoItem

\* The form of the sheet and its button; what it sends is chosen at the click.
CanSubmit == panel.phase = "open"
\* A sheet that is saved shows the recorded attempt in place of the form.
Confirmed == IF panel.phase = "saved" THEN panel.log ELSE NoLog

\* Bound: one save is under way, also across mounts of the form.
CanSave == page = "/profile" /\ HasData("account") /\ profile = "idle"

-----------------------------------------------------------------------------
\* The boundary shows a page once it has the account.
Init ==
    /\ server \in [due : {Items}, paused : {{}}, logs : {{}}, zone : Zones]
    /\ page \in Pages
    /\ selection \in IF page = "/reviews" THEN Items \cup {NoItem} ELSE {NoItem}
    /\ cache = [k \in Keys |->
            IF k = "account" THEN Answer(EmptyEntry, Rows(k))
            ELSE IF k \in OnDisplay THEN StartFetch(EmptyEntry) ELSE EmptyEntry]
    /\ reads = [k \in Keys |-> <<>>]
    /\ panel = NoPanel
    /\ opened = 0
    /\ calls = {}
    /\ pending = NotPending
    /\ profile = "idle"
    /\ sent = 0 /\ incidents = 0
    /\ excused = {}

-----------------------------------------------------------------------------
(* The queries. *)

\* The router goes to page p with i in its address: entries that come on display
\* are fetched if they have nothing, were invalidated or are older than staleTime.
\* A page that is left gets no more answers; its calls go on.
Enter(p, i) ==
    \E old \in {{}, Observed(p, i) \ OnDisplay} :
        LET new == Observed(p, i)
            fetched == old \cup {k \in new \ OnDisplay :
                                    ~HasData(k) \/ cache[k].invalidated}
        IN  /\ page' = p /\ selection' = i
            /\ cache' = [k \in Keys |->
                    IF k \in fetched THEN StartFetch(cache[k])
                    ELSE IF k \in OnDisplay \ new THEN CancelFetch(cache[k])
                    ELSE cache[k]]
            /\ reads' = [k \in Keys |-> IF k \in new \cap OnDisplay THEN reads[k] ELSE <<>>]
            /\ UNCHANGED excused
            /\ pending' = IF p = page THEN pending ELSE NotPending
            /\ calls' = IF p = page THEN calls ELSE {[c EXCEPT !.caller = FALSE] : c \in calls}
            /\ RenderSheet(panel)

\* The retry button, the window's focus.  (AuthContext refetches the account.)
Refetch(k) ==
    /\ k \in OnDisplay \ {"account"} /\ ~cache[k].fetching
    /\ IF IsError(cache[k]) THEN UNCHANGED incidents ELSE Incident
    /\ cache' = [cache EXCEPT ![k] = StartFetch(@)]
    /\ UNCHANGED <<server, page, selection, reads, panel, opened, calls, pending,
                   profile, sent, excused>>

Read(k) ==
    /\ cache[k].fetching /\ Len(reads[k]) < 2
    /\ reads' = [reads EXCEPT ![k] =
            IF k # "today" THEN Rows(k)
            ELSE IF @ = <<>> THEN <<DueItems>> ELSE Append(@, OtherItems)]
    /\ UNCHANGED <<server, page, selection, cache, panel, opened, calls, pending,
                   profile, sent, incidents, excused>>

Receive(k) ==
    /\ Len(reads[k]) = 2
    /\ cache' = [cache EXCEPT ![k] = Answer(@, reads[k])]
    /\ reads' = [reads EXCEPT ![k] = <<>>]
    /\ excused' = IF reads[k] = Rows(k) THEN excused \ {k} ELSE excused
    /\ UNCHANGED <<page, selection>>
    /\ RenderSheet(panel)
    /\ UNCHANGED <<server, calls, pending, profile, sent, incidents>>

QueryFails(k) ==
    /\ cache[k].fetching
    /\ Incident
    /\ cache' = [cache EXCEPT ![k] = FailFetch(@, "transient")]
    /\ reads' = [reads EXCEPT ![k] = <<>>]
    /\ UNCHANGED <<server, page, selection, panel, opened, calls, pending,
                   profile, sent, excused>>

JoinsAnyFetch(k) == cache[k].fetching  \* mutant: cancelRefetch is off
JoinsFetch(k) == KeepsFetchInFlight(cache[k])

\* invalidateQueries for a set of keys.  What joins a first fetch may show rows
\* from before the write that is being announced.
InvalidateQueries(keys) ==
    LET shown == keys \cap OnDisplay
        joined == {k \in shown : JoinsFetch(k)}
        fetched == shown \ joined
    IN  /\ cache' = [k \in Keys |->
                IF k \in fetched THEN StartFetch(Invalidate(cache[k]))
                ELSE IF k \in keys THEN Invalidate(cache[k]) ELSE cache[k]]
        /\ reads' = [k \in Keys |-> IF k \in fetched THEN <<>> ELSE reads[k]]
        /\ excused' = excused \cup {k \in shown : KeepsFetchInFlight(cache[k])}

-----------------------------------------------------------------------------
(* Navigation. *)

Start(i) ==
    /\ DashboardOffers(i) \/ ListOffers(i)
    /\ Enter("/reviews", i)
    /\ UNCHANGED <<server, profile, sent, incidents>>

Close ==
    /\ page = "/reviews" /\ selection # NoItem
    /\ Enter("/reviews", NoItem)
    /\ UNCHANGED <<server, profile, sent, incidents>>

Visit(p) ==
    /\ p # page
    /\ Enter(p, NoItem)
    /\ UNCHANGED <<server, profile, sent, incidents>>

-----------------------------------------------------------------------------
(* The calls. *)

Call(kind, i, value) ==
    [kind |-> kind, item |-> i, value |-> value, request |-> 0, log |-> NoLog,
     phase |-> "sent", caller |-> TRUE, waiting |-> TRUE]

\* submit of the sheet, with whatever outcome is chosen now.
Submit(o) ==
    /\ CanSubmit
    /\ OneMoreCall
    /\ calls' = calls \cup
        {[Call("record", panel.item, o) EXCEPT !.request = panel.request, !.caller = FALSE]}
    /\ panel' = [panel EXCEPT !.phase = "sending"]
    /\ UNCHANGED <<server, page, selection, cache, reads, opened, pending, profile,
                   incidents, excused>>

ToggleTo(i) == IF i \in Shown("list")[1].paused THEN "resume" ELSE "pause"

ToggleAnyTime(i) ==  \* mutant: pendingItemId is not looked at
    /\ page = "/review-list" /\ ListView = "rows"
    /\ OneMoreCall
    /\ calls' = calls \cup {Call("pause", i, ToggleTo(i))}
    /\ pending' = [item |-> i, phase |-> "calling"]
    /\ UNCHANGED <<server, page, selection, cache, reads, panel, opened, profile,
                   incidents, excused>>
\* togglePause: resume what the list shows as paused, pause the others.
TogglePause(i) ==
    /\ CanToggle(i)
    /\ OneMoreCall
    /\ calls' = calls \cup {Call("pause", i, ToggleTo(i))}
    /\ pending' = [item |-> i, phase |-> "calling"]
    /\ UNCHANGED <<server, page, selection, cache, reads, panel, opened, profile,
                   incidents, excused>>

SaveProfile(z) ==
    /\ CanSave
    /\ Incident
    /\ calls' = calls \cup {Call("profile", NoItem, z)}
    /\ profile' = "saving"
    /\ UNCHANGED <<server, page, selection, cache, reads, panel, opened, pending,
                   sent, excused>>

\* An attempt sets the due date of its item; due is what that comes to.
Rescheduled(l, due) ==
    [Recorded(server, l) EXCEPT !.due = (@ \ {l.item}) \cup due]

Answers(c, phase, log) ==
    (calls \ {c}) \cup (IF c.waiting THEN {[c EXCEPT !.phase = phase, !.log = log]} ELSE {})

unservedVars == <<page, selection, cache, reads, panel, opened, pending, profile,
                  sent, incidents>>

\* A call that its client gave up is no news to this tab: nothing is refetched.
Write(c, rows, keys) ==
    /\ server' = rows
    /\ excused' = IF c.waiting THEN excused ELSE excused \cup keys

ServeRecord(c) ==
    /\ c.kind = "record" /\ c.phase = "sent"
    /\ \/ /\ \E l \in server.logs :
                Replays(server, c, l) /\ calls' = Answers(c, "served", l)
          /\ UNCHANGED <<server, excused>>
       \/ /\ Refuses(server, c)
          /\ calls' = Answers(c, "refused", NoLog)
          /\ UNCHANGED <<server, excused>>
       \/ /\ Accepts(server, c)
          /\ \E due \in SUBSET {c.item} :
                Write(c, Rescheduled(Attempt(c), due), ReviewKeys)
          /\ calls' = Answers(c, "served", Attempt(c))
    /\ UNCHANGED unservedVars

ServePause(c) ==
    /\ c.kind = "pause" /\ c.phase = "sent"
    /\ Write(c, Toggled(server, c.item, c.value), ReviewKeys)
    /\ calls' = Answers(c, "served", NoLog)
    /\ UNCHANGED unservedVars

\* The queries of the review service show the zone too, but are not invalidated.
ServeProfile(c) ==
    /\ c.kind = "profile" /\ c.phase = "sent"
    /\ server' = [server EXCEPT !.zone = c.value]
    /\ excused' = excused \cup (IF c.waiting THEN ReviewKeys ELSE Keys)
    /\ calls' = Answers(c, "served", NoLog)
    /\ UNCHANGED unservedVars

\* What the component of a call does when it has an error, or nothing.
CallFails(c) ==
    /\ panel' = IF panel.request = c.request /\ panel.phase = "sending"
                THEN [panel EXCEPT !.phase = "open"] ELSE panel
    /\ pending' = IF c.kind = "pause" /\ c.caller THEN NotPending ELSE pending
    /\ profile' = IF c.kind = "profile" THEN "idle" ELSE profile
    /\ UNCHANGED <<server, page, selection, cache, reads, opened, sent>>

ReceiveFailure(c) ==
    /\ c.phase = "refused"
    /\ calls' = calls \ {c}
    /\ CallFails(c)
    /\ UNCHANGED <<incidents, excused>>

\* An error on the way, or no answer: the call may have been served, or be served
\* later, or never.
GiveUp(c) ==
    /\ c.waiting
    /\ Incident
    /\ calls' = (calls \ {c}) \cup
        (IF c.phase = "sent" THEN {[c EXCEPT !.waiting = FALSE, !.caller = FALSE]} ELSE {})
    /\ excused' = IF c.phase = "served" THEN Keys ELSE excused
    /\ CallFails(c)

ReceiveRecord(c) ==
    /\ c.kind = "record" /\ c.phase = "served" /\ c.waiting
    /\ calls' = calls \ {c}
    /\ panel' = IF panel.request = c.request
                THEN [panel EXCEPT !.phase = "saved", !.log = c.log] ELSE panel
    /\ InvalidateQueries(ReviewKeys)
    /\ UNCHANGED <<server, page, selection, opened, pending, profile, sent, incidents>>

ReceivePause(c) ==
    /\ c.kind = "pause" /\ c.phase = "served" /\ c.waiting
    /\ calls' = calls \ {c}
    /\ pending' = IF c.caller THEN [pending EXCEPT !.phase = "refreshing"] ELSE pending
    /\ InvalidateQueries(ReviewKeys)
    /\ UNCHANGED <<server, page, selection, panel, opened, profile, sent, incidents>>

\* The await of invalidateQueries is over.
ReleasePending ==
    /\ pending.phase = "refreshing" /\ ~cache["list"].fetching
    /\ pending' = NotPending
    /\ UNCHANGED <<server, page, selection, cache, reads, panel, opened, calls,
                   profile, sent, incidents, excused>>

ReceiveProfile(c) ==
    /\ c.kind = "profile" /\ c.phase = "served" /\ c.waiting
    /\ calls' = calls \ {c}
    /\ profile' = "refreshing"
    /\ InvalidateQueries({"account"})
    /\ UNCHANGED <<server, page, selection, panel, opened, pending, sent, incidents>>

\* Wherever the user has gone in the meantime.  "/mypage" stands for the welcome page
\* too, where a first set-up goes on to: neither has a review query.
ProfileNavigates ==
    /\ profile = "refreshing" /\ ~cache["account"].fetching
    /\ profile' = "idle"
    /\ Enter("/mypage", NoItem)
    /\ UNCHANGED <<server, sent, incidents>>

-----------------------------------------------------------------------------
\* Another tab or device, or the day: nothing tells this tab.
ChangeElsewhere ==
    /\ Incident
    /\ \/ \E i \in Items, to \in {"pause", "resume"} : server' = Toggled(server, i, to)
       \/ \E i \in Items \ server.paused, o \in Outcomes :
            server' = Rescheduled([request |-> MaxPanels + incidents', item |-> i,
                                   outcome |-> o], {})
       \/ \E z \in Zones : server' = [server EXCEPT !.zone = z]
       \/ \E i \in Items : server' = [server EXCEPT !.due = @ \cup {i}]
    /\ server' # server
    /\ excused' = Keys
    /\ UNCHANGED <<page, selection, cache, reads, panel, opened, calls, pending,
                   profile, sent>>

Query(k) == Refetch(k) \/ Read(k) \/ Receive(k) \/ QueryFails(k)
Serve(c) == ServeRecord(c) \/ ServePause(c) \/ ServeProfile(c)
Settle(c) ==
    ReceiveRecord(c) \/ ReceivePause(c) \/ ReceiveProfile(c) \/ ReceiveFailure(c) \/ GiveUp(c)

Next ==
    \/ \E k \in Keys : Query(k)
    \/ \E c \in calls : Serve(c) \/ Settle(c)
    \/ \E i \in Items : Start(i) \/ TogglePause(i)
    \/ Close \/ \E p \in Links : Visit(p)
    \/ \E o \in Outcomes : Submit(o)
    \/ \E z \in Zones : SaveProfile(z)
    \/ ReleasePending \/ ProfileNavigates
    \/ ChangeElsewhere

Spec == Init /\ [][Next]_vars
-----------------------------------------------------------------------------
(* Properties. *)

CallRecords ==
    [kind : {"record", "pause", "profile"}, item : Items \cup {NoItem},
     value : Outcomes \cup {"pause", "resume"} \cup Zones, request : 0 .. MaxPanels,
     log : LogRecords \cup {NoLog}, phase : {"sent", "served", "refused"},
     caller : BOOLEAN, waiting : BOOLEAN]

PagesTypeOK ==
    /\ server.due \subseteq Items /\ server.paused \subseteq Items
    /\ server.logs \subseteq LogRecords /\ server.zone \in Zones
    /\ page \in Pages
    /\ selection \in Items \cup {NoItem} /\ (selection # NoItem => page = "/reviews")
    /\ \A k \in Keys :
        /\ cache[k].error \in Errors
        /\ cache[k].fetching => k \in OnDisplay
        /\ Len(reads[k]) \in 0 .. 2 /\ (reads[k] # <<>> => cache[k].fetching)
    /\ panel.phase \in {"closed", "open", "sending", "saved"}
    /\ panel.phase # "closed" => panel.item = selection
    /\ opened \in 0 .. MaxPanels /\ panel.request \in 0 .. opened
    /\ calls \subseteq CallRecords
    /\ pending \in [item : Items \cup {NoItem}, phase : {"idle", "calling", "refreshing"}]
    /\ profile \in {"idle", "saving", "refreshing"}
    /\ sent \in 0 .. MaxCalls /\ incidents \in 0 .. MaxIncidents
    /\ excused \subseteq Keys

\* Nothing is on its way to this entry, and it is not marked as outdated.
Settled(k) ==
    HasData(k) /\ ~cache[k].fetching /\ ~cache[k].invalidated /\ cache[k].error = "none"

\* The comment of reviewServiceQueryKey: after a record or a pause the queries
\* are all fetched anew.  Once the answers of this tab's own calls are in, what
\* a page shows is what the server has, whole: no row of before the write, and
\* no dashboard of which one part was read before it and another after it.  (An
\* entry is excused if the change was made elsewhere, if the answer was lost, if
\* its first fetch was joined, or if the write was to the zone: see excused.)
SettledPagesShowServer ==
    calls = {} =>
        \A k \in OnDisplay \ excused : Settled(k) => Shown(k) = Rows(k)

\* A click acts on what the list shows, and the list changes under it: at most
\* one toggle of the mounted list is on its way, and its button says so.
OneToggleAtATime ==
    LET own == {c \in calls : c.kind = "pause" /\ c.caller}
    IN  /\ Cardinality(own) <= 1
        /\ own # {} => pending.phase = "calling"

\* The comment of requestId: what is sent again from one sheet is one attempt to
\* the server; and what the sheet confirms is the attempt the server has.
Attempts ==
    INSTANCE AttemptPanels WITH
        Logs <- LogRecords, Requests <- 1 .. MaxPanels, NoSheet <- 0,
        logs <- server.logs, sheet <- panel.request, shown <- Confirmed
AttemptsSpec == Attempts!Spec
=============================================================================
