--------------------------- MODULE ReviewPagesProofs ---------------------------
(***************************************************************************)
(* What holds of the review pages for any number of items, sheets, calls   *)
(* and changes elsewhere.  SheetInv is about the sheet and the calls, with *)
(* the rows they are about; CacheInv about the entries and their requests. *)
(***************************************************************************)
EXTENDS ReviewPages, QueryCacheProofs, FiniteSetTheorems, SequenceTheorems, TLAPS

-----------------------------------------------------------------------------
(* The sheet and the calls. *)

SheetPhases == {"closed", "open", "sending", "saved"}

SheetTypes ==
    /\ server \in [due : SUBSET Items, paused : SUBSET Items,
                   logs : SUBSET LogRecords, zone : Zones]
    /\ page \in Pages
    /\ selection \in Items \cup {NoItem} /\ (selection # NoItem => page = "/reviews")
    /\ panel \in [request : Nat, item : Items \cup {NoItem}, phase : SheetPhases,
                  log : LogRecords \cup {NoLog}]
    /\ opened \in 0 .. MaxPanels
    /\ incidents \in 0 .. MaxIncidents /\ sent \in 0 .. MaxCalls
    /\ pending \in [item : Items \cup {NoItem}, phase : {"idle", "calling", "refreshing"}]
    /\ profile \in {"idle", "saving", "refreshing"}

\* What a call carries fits its kind, and an answered one is in the table.
CallOK(c) ==
    /\ c \in CallRecords
    /\ c.kind = "record" =>
        c.item \in Items /\ c.value \in Outcomes /\ c.request \in 1 .. opened
    /\ c.kind = "pause" =>
        c.item \in Items /\ c.value \in {"pause", "resume"} /\ c.request = 0
    /\ c.kind = "profile" => c.value \in Zones /\ c.request = 0
    /\ c.phase # "sent" => c.waiting
    /\ c.kind = "record" /\ c.phase = "served" =>
        c.log \in server.logs /\ c.log.request = c.request

CallsOK == \A c \in calls : CallOK(c)

\* The sheet is closed, or mounted for the selection under a request of its own.
PanelOK ==
    /\ panel.request <= opened
    /\ panel.phase = "closed" <=> panel.request = 0
    /\ panel.phase = "closed" => panel = NoPanel
    /\ panel.phase # "closed" => panel.item = selection /\ selection # NoItem

\* The calls whose answers the mounted sheet waits for: one, while it is sending.
Awaited(c) == c.kind = "record" /\ c.waiting /\ c.request = panel.request

OneAwaited ==
    \A c \in calls : Awaited(c) =>
        /\ panel.phase = "sending"
        /\ \A d \in calls : Awaited(d) => c = d

\* The requests of sheets to come have no logs.
LogsOpened ==
    \A l \in server.logs :
        l.request \in 1 .. opened \cup (MaxPanels + 1) .. (MaxPanels + incidents)

OwnToggle(c) == c.kind = "pause" /\ c.caller

\* One toggle of the mounted list at most, and pendingItemId tells.
ToggleShown ==
    /\ pending.phase # "idle" => pending.item # NoItem
    /\ \A c \in calls : OwnToggle(c) =>
        /\ pending.phase = "calling"
        /\ \A d \in calls : OwnToggle(d) => c = d

SheetInv ==
    SheetTypes /\ CallsOK /\ PanelOK /\ OneAwaited /\ LogsOpened /\ ToggleShown

LEMMA SheetInvInit == Init => SheetInv
<1> SUFFICES ASSUME Init PROVE SheetInv
  OBVIOUS
<1>1. SheetTypes
  BY PagesAssumption
  DEF Init, SheetTypes, SheetPhases, Pages, NoPanel, NotPending
<1>2. PanelOK /\ calls = {} /\ server.logs = {}
  BY DEF Init, PanelOK, NoPanel
<1>3. pending.phase = "idle"
  BY DEF Init, NotPending
<1> QED
  BY <1>1, <1>2, <1>3 DEF SheetInv, CallsOK, OneAwaited, LogsOpened, ToggleShown

\* A call stays in order as sheets are opened and rows are added.
LEMMA CallKept ==
    ASSUME NEW c, CallOK(c), opened \in Nat, opened' \in Nat, opened <= opened',
           server.logs \subseteq server'.logs
    PROVE  CallOK(c)'
BY DEF CallOK

\* React keeps the sheet, closes it, or mounts one with the next request id.
LEMMA Rendered ==
    ASSUME SheetTypes, PanelOK, RenderSheet(panel), selection' \in Items \cup {NoItem}
    PROVE  \/ panel' = NoPanel /\ opened' = opened
           \/ panel' = panel /\ opened' = opened /\ panel.item = selection' /\ selection' # NoItem
           \/ /\ opened' = opened + 1 /\ opened' <= MaxPanels
              /\ panel' = [request |-> opened', item |-> selection', phase |-> "open",
                           log |-> NoLog]
              /\ selection' # NoItem
<1>1. opened \in Nat /\ panel.request \in Nat /\ panel.request <= opened /\ MaxPanels \in Nat
  BY PagesAssumption DEF SheetTypes, PanelOK
<1>2. /\ opened' = IF panel'.request > opened THEN panel'.request ELSE opened
      /\ opened' # opened => opened' <= MaxPanels
  BY DEF RenderSheet
<1>3. CASE panel' = NoPanel
  <2>1. panel'.request = 0
    BY <1>3 DEF NoPanel
  <2> QED  BY <1>1, <1>2, <1>3, <2>1
<1>4. CASE panel' # NoPanel
  <2>1. selection' # NoItem
    BY <1>4 DEF RenderSheet, OpensSheet
  <2>2. CASE RequestOf(panel) = panel.request
    <3>1. panel.item = selection'
      BY <1>1, <2>2 DEF RequestOf
    <3>2. panel' = panel
      BY <1>4, <2>2 DEF RenderSheet
    <3> QED  BY <1>1, <1>2, <2>1, <3>1, <3>2
  <2>3. CASE RequestOf(panel) # panel.request
    <3>1. RequestOf(panel) = opened + 1
      BY <2>3 DEF RequestOf
    <3>2. panel' = [NoPanel EXCEPT !.request = RequestOf(panel), !.item = selection',
                                   !.phase = "open"]
      BY <1>4, <2>3 DEF RenderSheet
    <3>3. panel' = [request |-> opened + 1, item |-> selection', phase |-> "open",
                    log |-> NoLog]
      BY <3>1, <3>2 DEF NoPanel
    <3>4. panel'.request = opened + 1
      BY <3>3
    <3>5. opened' = opened + 1 /\ opened' <= MaxPanels
      BY <1>1, <1>2, <3>4
    <3> QED  BY <2>1, <3>3, <3>5
  <2> QED  BY <2>2, <2>3
<1> QED  BY <1>3, <1>4

LEMMA Counted ==
    ASSUME SheetTypes, Incident
    PROVE  incidents' \in 0 .. MaxIncidents /\ incidents <= incidents'
BY PagesAssumption DEF SheetTypes, Incident

LEMMA LogsKept ==
    ASSUME SheetTypes, LogsOpened, UNCHANGED server,
           opened' \in Nat, opened <= opened', incidents' \in Nat, incidents <= incidents'
    PROVE  LogsOpened'
BY PagesAssumption DEF SheetTypes, LogsOpened

\* Steps of the cache alone.
LEMMA IdleStep ==
    ASSUME SheetInv,
           UNCHANGED <<server, page, selection, panel, opened, calls, pending, profile, sent>>,
           incidents' \in 0 .. MaxIncidents, incidents <= incidents'
    PROVE  SheetInv'
<1>1. SheetTypes'
  BY DEF SheetInv, SheetTypes
<1>2. LogsOpened'
  BY LogsKept, PagesAssumption DEF SheetInv, SheetTypes
<1>3. CallsOK' /\ PanelOK' /\ OneAwaited' /\ ToggleShown'
  BY DEF SheetInv, CallsOK, CallOK, PanelOK, OneAwaited, Awaited, ToggleShown, OwnToggle
<1> QED  BY <1>1, <1>2, <1>3 DEF SheetInv

\* The page that sent a call is left.
LEMMA Released ==
    ASSUME NEW c, CallOK(c), NEW d, d = [c EXCEPT !.caller = FALSE]
    PROVE  /\ CallOK(d) /\ ~OwnToggle(d)
           /\ d.kind = c.kind /\ d.waiting = c.waiting /\ d.request = c.request
           /\ d.phase = c.phase
<1>1. /\ d.kind = c.kind /\ d.item = c.item /\ d.value = c.value /\ d.request = c.request
      /\ d.log = c.log /\ d.phase = c.phase /\ d.waiting = c.waiting /\ d.caller = FALSE
      /\ d \in CallRecords
  BY DEF CallOK, CallRecords
<1> QED  BY <1>1 DEF CallOK, OwnToggle

\* Steps that end in a rendering of the dashboard.
LEMMA RenderStep ==
    ASSUME SheetInv, RenderSheet(panel), UNCHANGED <<server, sent, incidents>>,
           page' \in Pages, selection' \in Items \cup {NoItem},
           selection' # NoItem => page' = "/reviews",
           profile' \in {"idle", "saving", "refreshing"},
           \/ UNCHANGED <<calls, pending>>
           \/ pending' = NotPending /\ calls' = {[c EXCEPT !.caller = FALSE] : c \in calls}
    PROVE  SheetInv'
<1>1. /\ opened \in Nat /\ opened <= MaxPanels /\ MaxPanels \in Nat
      /\ incidents \in Nat
  BY PagesAssumption DEF SheetInv, SheetTypes
<1>2. /\ opened' \in 0 .. MaxPanels /\ opened <= opened'
      /\ panel' \in [request : Nat, item : Items \cup {NoItem}, phase : SheetPhases,
                     log : LogRecords \cup {NoLog}]
      /\ PanelOK'
  <2>1. CASE panel' = NoPanel /\ opened' = opened
    BY <1>1, <2>1 DEF PanelOK, NoPanel, SheetPhases
  <2>2. CASE panel' = panel /\ opened' = opened /\ panel.item = selection' /\ selection' # NoItem
    BY <1>1, <2>2 DEF PanelOK, SheetInv, SheetTypes
  <2>3. CASE /\ opened' = opened + 1 /\ opened' <= MaxPanels
             /\ panel' = [request |-> opened', item |-> selection', phase |-> "open",
                          log |-> NoLog]
             /\ selection' # NoItem
    BY <1>1, <2>3 DEF PanelOK, SheetPhases
  <2> QED  BY <2>1, <2>2, <2>3, Rendered DEF SheetInv
<1>3. SheetTypes'
  BY <1>2 DEF SheetInv, SheetTypes, NotPending
<1>4. \A d \in calls' : \E c \in calls :
          /\ CallOK(c) /\ CallOK(d) /\ d.kind = c.kind /\ d.waiting = c.waiting
          /\ d.request = c.request /\ (d = c \/ d = [c EXCEPT !.caller = FALSE])
  BY Released DEF SheetInv, CallsOK
<1>5. CallsOK'
  BY <1>1, <1>2, <1>4, CallKept DEF CallsOK
<1>6. OneAwaited'
  <2>1. CASE panel' = panel
    <3>1. CASE UNCHANGED calls
      BY <2>1, <3>1 DEF SheetInv, OneAwaited, Awaited
    <3>2. CASE calls' = {[c EXCEPT !.caller = FALSE] : c \in calls}
      <4> SUFFICES ASSUME NEW d \in calls', Awaited(d)'
                   PROVE  panel'.phase = "sending" /\ \A e \in calls' : Awaited(e)' => d = e
        BY DEF OneAwaited
      <4>1. PICK c \in calls : d = [c EXCEPT !.caller = FALSE] /\ Awaited(c)
        BY <2>1, <3>2, Released DEF SheetInv, CallsOK, Awaited
      <4>2. ASSUME NEW e \in calls', Awaited(e)' PROVE d = e
        <5>1. PICK b \in calls : e = [b EXCEPT !.caller = FALSE] /\ Awaited(b)
          BY <2>1, <3>2, <4>2, Released DEF SheetInv, CallsOK, Awaited
        <5> QED  BY <4>1, <5>1 DEF SheetInv, OneAwaited
      <4> QED  BY <2>1, <4>1, <4>2 DEF SheetInv, OneAwaited
    <3> QED  BY <3>1, <3>2
  <2>2. CASE panel' # panel
    <3>1. panel'.request = 0 \/ panel'.request = opened + 1
      BY <2>2, Rendered DEF SheetInv, NoPanel
    <3>2. \A d \in calls' : d.kind = "record" => d.request \in 1 .. opened
      BY <1>4 DEF CallOK
    <3>3. \A d \in calls' : ~Awaited(d)'
      BY <1>1, <3>1, <3>2 DEF Awaited
    <3> QED  BY <3>3 DEF OneAwaited
  <2> QED  BY <2>1, <2>2
<1>7. LogsOpened'
  BY <1>1, <1>2, LogsKept DEF SheetInv
<1>8. ToggleShown'
  BY Released DEF SheetInv, CallsOK, ToggleShown, OwnToggle, NotPending
<1> QED  BY <1>2, <1>3, <1>5, <1>6, <1>7, <1>8 DEF SheetInv

\* The calls that are sent.
LEMMA SubmitStep ==
    ASSUME SheetInv, NEW o \in Outcomes, Submit(o)
    PROVE  SheetInv'
<1>0. PICK new : new = [Call("record", panel.item, o) EXCEPT !.request = panel.request,
                                                             !.caller = FALSE]
  OBVIOUS
<1>b. /\ new.kind = "record" /\ new.item = panel.item /\ new.value = o
      /\ new.request = panel.request /\ new.phase = "sent"
  BY <1>0 DEF Call
<1>1. /\ calls' = calls \cup {new} /\ panel.phase = "open"
      /\ panel' = [panel EXCEPT !.phase = "sending"]
      /\ UNCHANGED <<server, page, selection, opened, pending, profile, incidents>>
      /\ sent' \in 0 .. MaxCalls
  <2>1. sent' \in 0 .. MaxCalls
    BY PagesAssumption DEF Submit, OneMoreCall, SheetInv, SheetTypes
  <2> QED  BY <1>0, <2>1 DEF Submit, CanSubmit
<1>2. /\ panel'.request = panel.request /\ panel'.phase = "sending"
      /\ panel'.item = panel.item
  BY <1>1 DEF SheetInv, SheetTypes
<1>3. /\ panel.item = selection /\ selection \in Items
      /\ panel.request \in 1 .. opened /\ opened \in 0 .. MaxPanels
  BY <1>1, PagesAssumption DEF SheetInv, SheetTypes, PanelOK
<1>4. SheetTypes'
  BY <1>1 DEF SheetInv, SheetTypes, SheetPhases
<1>5. CallsOK'
  <2>1. new \in CallRecords
    <3>1. Call("record", panel.item, o) \in CallRecords
      BY <1>3, PagesAssumption DEF Call, CallRecords
    <3>2. panel.request \in 0 .. MaxPanels
      BY <1>3, PagesAssumption
    <3> QED  BY <1>0, <3>1, <3>2 DEF CallRecords
  <2>2. CallOK(new)'
    BY <1>b, <1>1, <1>3, <2>1 DEF CallOK
  <2>3. \A c \in calls : CallOK(c)'
    BY <1>1 DEF SheetInv, CallsOK, CallOK
  <2> QED  BY <1>1, <2>2, <2>3 DEF CallsOK
<1>6. PanelOK'
  BY <1>1, <1>2, <1>3 DEF SheetInv, PanelOK
<1>7. OneAwaited'
  <2>1. \A c \in calls : ~Awaited(c)
    BY <1>1 DEF SheetInv, OneAwaited
  <2>2. \A c \in calls' : Awaited(c)' => c = new
    BY <1>1, <1>2, <2>1 DEF Awaited
  <2> QED  BY <1>2, <2>2 DEF OneAwaited
<1>8. LogsOpened'
  BY <1>1 DEF SheetInv, LogsOpened
<1>9. ToggleShown'
  BY <1>b, <1>1 DEF SheetInv, ToggleShown, OwnToggle
<1> QED  BY <1>4, <1>5, <1>6, <1>7, <1>8, <1>9 DEF SheetInv

LEMMA TogglePauseStep ==
    ASSUME SheetInv, NEW i \in Items, TogglePause(i)
    PROVE  SheetInv'
<1>0. PICK new : new = [kind |-> "pause", item |-> i, value |-> ToggleTo(i), request |-> 0,
                   log |-> NoLog, phase |-> "sent", caller |-> TRUE, waiting |-> TRUE]
  OBVIOUS
<1>1. /\ calls' = calls \cup {new} /\ pending.item = NoItem
      /\ pending' = [item |-> i, phase |-> "calling"]
      /\ UNCHANGED <<server, page, selection, panel, opened, profile, incidents>>
      /\ sent' \in 0 .. MaxCalls
  BY <1>0, PagesAssumption DEF TogglePause, CanToggle, Call, OneMoreCall, SheetInv, SheetTypes
<1>2. SheetTypes'
  BY <1>1 DEF SheetInv, SheetTypes
<1>3. CallsOK'
  <2>1. new \in CallRecords
    BY <1>0, PagesAssumption DEF CallRecords, ToggleTo
  <2>2. CallOK(new)'
    BY <1>0, <2>1 DEF CallOK, ToggleTo
  <2>3. \A c \in calls : CallOK(c)'
    BY <1>1 DEF SheetInv, CallsOK, CallOK
  <2> QED  BY <1>1, <2>2, <2>3 DEF CallsOK
<1>4. PanelOK' /\ LogsOpened'
  BY <1>1 DEF SheetInv, PanelOK, LogsOpened
<1>5. OneAwaited'
  BY <1>0, <1>1 DEF SheetInv, OneAwaited, Awaited
<1>6. ToggleShown'
  <2>1. \A c \in calls : ~OwnToggle(c)
    BY <1>1 DEF SheetInv, ToggleShown
  <2>2. \A c \in calls' : OwnToggle(c)' => c = new
    BY <1>1, <2>1 DEF OwnToggle
  <2>3. pending'.phase = "calling" /\ pending'.item # NoItem
    BY <1>1, PagesAssumption
  <2> QED  BY <2>2, <2>3 DEF ToggleShown
<1> QED  BY <1>2, <1>3, <1>4, <1>5, <1>6 DEF SheetInv

LEMMA SaveProfileStep ==
    ASSUME SheetInv, NEW z \in Zones, SaveProfile(z)
    PROVE  SheetInv'
<1>0. PICK new : new = [kind |-> "profile", item |-> NoItem, value |-> z, request |-> 0,
                   log |-> NoLog, phase |-> "sent", caller |-> TRUE, waiting |-> TRUE]
  OBVIOUS
<1>1. /\ calls' = calls \cup {new} /\ profile' = "saving"
      /\ UNCHANGED <<server, page, selection, panel, opened, pending, sent>>
      /\ incidents' \in 0 .. MaxIncidents /\ incidents <= incidents'
  BY <1>0, Counted DEF SaveProfile, Call, SheetInv
<1>2. SheetTypes'
  BY <1>1 DEF SheetInv, SheetTypes
<1>3. CallsOK'
  <2>1. new \in CallRecords
    BY <1>0, PagesAssumption DEF CallRecords
  <2>2. CallOK(new)'
    BY <1>0, <2>1 DEF CallOK
  <2>3. \A c \in calls : CallOK(c)'
    BY <1>1 DEF SheetInv, CallsOK, CallOK
  <2> QED  BY <1>1, <2>2, <2>3 DEF CallsOK
<1>4. LogsOpened'
  BY <1>1, LogsKept DEF SheetInv, SheetTypes
<1>5. PanelOK' /\ OneAwaited' /\ ToggleShown'
  BY <1>0, <1>1 DEF SheetInv, PanelOK, OneAwaited, Awaited, ToggleShown, OwnToggle
<1> QED  BY <1>2, <1>3, <1>4, <1>5 DEF SheetInv

\* The server's part: a call gets its answer, or has lost its client.
LEMMA ServedStep ==
    ASSUME SheetInv, NEW c \in calls, NEW phase \in {"served", "refused"},
           NEW log \in LogRecords \cup {NoLog}, calls' = Answers(c, phase, log),
           UNCHANGED unservedVars,
           server' \in [due : SUBSET Items, paused : SUBSET Items,
                       logs : SUBSET LogRecords, zone : Zones],
           server.logs \subseteq server'.logs, LogsOpened',
           c.kind = "record" /\ phase = "served" =>
               log \in server'.logs /\ log.request = c.request
    PROVE  SheetInv'
<1>0. PICK d : d = [c EXCEPT !.phase = phase, !.log = log]
  OBVIOUS
<1>1. CallOK(c)
  BY DEF SheetInv, CallsOK
<1>2. /\ d.kind = c.kind /\ d.item = c.item /\ d.value = c.value /\ d.request = c.request
      /\ d.phase = phase /\ d.log = log /\ d.waiting = c.waiting /\ d.caller = c.caller
      /\ d \in CallRecords
  BY <1>0, <1>1 DEF CallOK, CallRecords
<1>3. /\ UNCHANGED <<page, selection, panel, opened, pending, profile, sent, incidents>>
      /\ opened \in Nat
  BY DEF unservedVars, SheetInv, SheetTypes
<1>4. \A e \in calls' : (e \in calls /\ e # c) \/ (e = d /\ c.waiting)
  BY <1>0 DEF Answers
<1>5. SheetTypes'
  BY <1>3 DEF SheetInv, SheetTypes
<1>6. CallsOK'
  <2>1. c.waiting => CallOK(d)'
    BY <1>1, <1>2, <1>3 DEF CallOK
  <2>2. \A e \in calls : CallOK(e)'
    BY <1>3, CallKept DEF SheetInv, CallsOK
  <2> QED  BY <1>4, <2>1, <2>2 DEF CallsOK
<1>7. PanelOK'
  BY <1>3 DEF SheetInv, PanelOK
<1>8. OneAwaited'
  BY <1>2, <1>3, <1>4 DEF SheetInv, OneAwaited, Awaited
<1>9. ToggleShown'
  BY <1>2, <1>3, <1>4 DEF SheetInv, ToggleShown, OwnToggle
<1> QED  BY <1>5, <1>6, <1>7, <1>8, <1>9 DEF SheetInv

\* The rows after an attempt.
ServerRows ==
    [due : SUBSET Items, paused : SUBSET Items, logs : SUBSET LogRecords, zone : Zones]

LEMMA RescheduledRows ==
    ASSUME SheetTypes, NEW l \in LogRecords, NEW due \in SUBSET {l.item}
    PROVE  /\ Rescheduled(l, due) \in ServerRows
           /\ Rescheduled(l, due).logs = server.logs \cup {l}
           /\ Rescheduled(l, due).zone = server.zone
<1> DEFINE rows == Recorded(server, l)
<1>1. /\ rows \in ServerRows /\ rows.logs = server.logs \cup {l}
      /\ rows.zone = server.zone
  BY DEF Recorded, ServerRows, SheetTypes
<1>2. Rescheduled(l, due) = [rows EXCEPT !.due = (@ \ {l.item}) \cup due]
  BY DEF Rescheduled
<1>3. l.item \in Items
  BY DEF LogRecords
<1> QED
  <2> HIDE DEF rows
  <2> QED  BY <1>1, <1>2, <1>3 DEF ServerRows

LEMMA ServeStep ==
    ASSUME SheetInv, NEW c \in calls, Serve(c)
    PROVE  SheetInv'
<1>1. /\ CallOK(c) /\ server.logs \subseteq LogRecords
      /\ opened \in 0 .. MaxPanels /\ incidents \in 0 .. MaxIncidents
      /\ MaxPanels \in Nat /\ MaxIncidents \in Nat
  BY PagesAssumption DEF SheetInv, SheetTypes, CallsOK
<1>2. UNCHANGED unservedVars
  BY DEF Serve, ServeRecord, ServePause, ServeProfile
<1>3. CASE ServeRecord(c)
  <2>1. ASSUME NEW l \in server.logs, Replays(server, c, l),
               calls' = Answers(c, "served", l), UNCHANGED server
        PROVE  SheetInv'
    <3>1. l \in server.logs /\ l.request = c.request
      BY <2>1 DEF Replays
    <3>2. LogsOpened'
      BY <1>2, <2>1 DEF SheetInv, LogsOpened, unservedVars
    <3> QED  BY <1>1, <1>2, <2>1, <3>1, <3>2, ServedStep DEF SheetInv, SheetTypes
  <2>2. CASE calls' = Answers(c, "refused", NoLog) /\ UNCHANGED server
    <3>1. LogsOpened'
      BY <1>2, <2>2 DEF SheetInv, LogsOpened, unservedVars
    <3> QED  BY <1>1, <1>2, <2>2, <3>1, ServedStep DEF SheetInv, SheetTypes
  <2>3. ASSUME NEW l, l = Attempt(c), NEW due \in SUBSET {c.item},
               server' = Rescheduled(l, due), calls' = Answers(c, "served", l)
        PROVE  SheetInv'
    <3>1. c.item \in Items /\ c.value \in Outcomes /\ c.request \in 1 .. opened
      BY <1>1, <1>3 DEF CallOK, ServeRecord
    <3>2. l \in LogRecords /\ l.request = c.request /\ l.item = c.item
      BY <1>1, <2>3, <3>1 DEF Attempt, LogRecords, Requests
    <3>3. /\ server' \in [due : SUBSET Items, paused : SUBSET Items,
                          logs : SUBSET LogRecords, zone : Zones]
          /\ server'.logs = server.logs \cup {l}
      BY <2>3, <3>2, RescheduledRows DEF SheetInv, ServerRows
    <3>4. LogsOpened'
      BY <1>2, <3>1, <3>2, <3>3 DEF SheetInv, LogsOpened, unservedVars
    <3> QED  BY <1>2, <2>3, <3>2, <3>3, <3>4, ServedStep
  <2> QED  BY <1>3, <2>1, <2>2, <2>3 DEF ServeRecord, Write
<1>4. CASE ServePause(c)
  <2>1. /\ server' \in [due : SUBSET Items, paused : SUBSET Items,
                        logs : SUBSET LogRecords, zone : Zones]
        /\ server'.logs = server.logs
    BY <1>1, <1>4 DEF ServePause, Write, Toggled, CallOK, SheetInv, SheetTypes
  <2>2. LogsOpened'
    BY <1>2, <2>1 DEF SheetInv, LogsOpened, unservedVars
  <2> QED  BY <1>2, <1>4, <2>1, <2>2, ServedStep DEF ServePause
<1>5. CASE ServeProfile(c)
  <2>1. /\ server' \in [due : SUBSET Items, paused : SUBSET Items,
                        logs : SUBSET LogRecords, zone : Zones]
        /\ server'.logs = server.logs
    BY <1>1, <1>5 DEF ServeProfile, CallOK, SheetInv, SheetTypes
  <2>2. LogsOpened'
    BY <1>2, <2>1 DEF SheetInv, LogsOpened, unservedVars
  <2> QED  BY <1>2, <1>5, <2>1, <2>2, ServedStep DEF ServeProfile
<1> QED  BY <1>3, <1>4, <1>5 DEF Serve

\* The client's part: a call is answered or given up.
LEMMA SettledStep ==
    ASSUME SheetInv, NEW c \in calls, c.waiting,
           \A d \in calls' :
               \/ d \in calls /\ d # c
               \/ c.phase = "sent" /\ d = [c EXCEPT !.waiting = FALSE, !.caller = FALSE],
           UNCHANGED <<server, page, selection, opened, sent>>,
           incidents' \in 0 .. MaxIncidents, incidents <= incidents',
           profile' \in {"idle", "saving", "refreshing"},
           \/ panel' = panel
           \/ /\ c.kind = "record" /\ panel.request = c.request
              /\ \/ panel' = [panel EXCEPT !.phase = "open"]
                 \/ /\ c.phase = "served"
                    /\ panel' = [panel EXCEPT !.phase = "saved", !.log = c.log],
           \/ pending' = pending
           \/ OwnToggle(c) /\ pending' \in {NotPending, [pending EXCEPT !.phase = "refreshing"]}
    PROVE  SheetInv'
<1>1. CallOK(c)
  BY DEF SheetInv, CallsOK
<1>2. \A d \in calls' : d \notin calls \/ d = c =>
          /\ CallOK(d) /\ ~d.waiting /\ ~d.caller
  <2> SUFFICES ASSUME c.phase = "sent",
                      NEW d, d = [c EXCEPT !.waiting = FALSE, !.caller = FALSE]
               PROVE  CallOK(d) /\ ~d.waiting /\ ~d.caller
    OBVIOUS
  <2>1. /\ d.kind = c.kind /\ d.item = c.item /\ d.value = c.value /\ d.request = c.request
        /\ d.phase = c.phase /\ d.waiting = FALSE /\ d.caller = FALSE
        /\ d \in CallRecords
    BY <1>1 DEF CallOK, CallRecords
  <2> QED  BY <1>1, <2>1 DEF CallOK
<1>3. /\ panel'.request = panel.request /\ panel'.item = panel.item
      /\ panel' \in [request : Nat, item : Items \cup {NoItem}, phase : SheetPhases,
                     log : LogRecords \cup {NoLog}]
      /\ panel'.phase = "closed" <=> panel.phase = "closed"
      /\ panel'.phase = "closed" => panel' = panel
  <2>1. CASE panel' = panel
    BY <2>1 DEF SheetInv, SheetTypes
  <2>2. CASE panel' # panel
    <3>1. panel.phase # "closed"
      BY <1>1, <2>2 DEF SheetInv, SheetTypes, PanelOK, CallOK
    <3>2. c.phase = "served" => c.log \in LogRecords \cup {NoLog}
      BY <1>1 DEF CallOK, CallRecords
    <3> QED  BY <2>2, <3>1, <3>2 DEF SheetInv, SheetTypes, SheetPhases
  <2> QED  BY <2>1, <2>2
<1>4. /\ pending' \in [item : Items \cup {NoItem}, phase : {"idle", "calling", "refreshing"}]
      /\ pending'.phase # "idle" => pending'.item # NoItem
  <2>1. OwnToggle(c) => pending.phase = "calling"
    BY DEF SheetInv, ToggleShown
  <2> QED  BY <2>1 DEF SheetInv, SheetTypes, ToggleShown, NotPending
<1>5. SheetTypes'
  BY <1>3, <1>4 DEF SheetInv, SheetTypes
<1>6. CallsOK'
  BY <1>2 DEF SheetInv, CallsOK, CallOK
<1>7. PanelOK'
  BY <1>3 DEF SheetInv, PanelOK
<1>8. OneAwaited'
  <2>1. \A d \in calls' : Awaited(d)' => d \in calls /\ d # c /\ Awaited(d)
    BY <1>2, <1>3 DEF Awaited
  <2>2. CASE panel' = panel
    BY <2>1, <2>2 DEF SheetInv, OneAwaited
  <2>3. CASE panel' # panel
    BY <2>1, <2>3 DEF SheetInv, OneAwaited, Awaited
  <2> QED  BY <2>2, <2>3
<1>9. LogsOpened'
  BY LogsKept DEF SheetInv, SheetTypes
<1>10. ToggleShown'
  BY <1>2, <1>4 DEF SheetInv, ToggleShown, OwnToggle
<1> QED  BY <1>5, <1>6, <1>7, <1>8, <1>9, <1>10 DEF SheetInv

LEMMA SettleStep ==
    ASSUME SheetInv, NEW c \in calls, Settle(c)
    PROVE  SheetInv'
<1>1. /\ CallOK(c) /\ incidents \in 0 .. MaxIncidents /\ MaxIncidents \in Nat
      /\ profile \in {"idle", "saving", "refreshing"}
  BY PagesAssumption DEF SheetInv, SheetTypes, CallsOK
<1>2. panel.phase = "sending" /\ panel.request = c.request => c.kind = "record"
  BY <1>1 DEF CallOK, CallRecords, SheetInv, PanelOK
<1>3. c.kind = "pause" => c.caller \in BOOLEAN
  BY <1>1 DEF CallOK, CallRecords
<1>4. CASE ReceiveRecord(c)
  <2>1. /\ c.waiting /\ c.kind = "record" /\ c.phase = "served" /\ calls' = calls \ {c}
        /\ UNCHANGED <<server, page, selection, opened, pending, profile, sent, incidents>>
        /\ panel' = IF panel.request = c.request
                    THEN [panel EXCEPT !.phase = "saved", !.log = c.log] ELSE panel
    BY <1>4 DEF ReceiveRecord
  <2>2. \A d \in calls' :
          \/ d \in calls /\ d # c
          \/ c.phase = "sent" /\ d = [c EXCEPT !.waiting = FALSE, !.caller = FALSE]
    BY <2>1
  <2>3. incidents' \in 0 .. MaxIncidents /\ incidents <= incidents'
    BY <1>1, <2>1
  <2> QED  BY <1>1, <2>1, <2>2, <2>3, SettledStep
<1>5. CASE ReceivePause(c)
  <2>1. /\ c.waiting /\ c.kind = "pause" /\ calls' = calls \ {c}
        /\ UNCHANGED <<server, page, selection, panel, opened, profile, sent, incidents>>
        /\ pending' = IF c.caller THEN [pending EXCEPT !.phase = "refreshing"] ELSE pending
    BY <1>5 DEF ReceivePause
  <2>2. \A d \in calls' :
          \/ d \in calls /\ d # c
          \/ c.phase = "sent" /\ d = [c EXCEPT !.waiting = FALSE, !.caller = FALSE]
    BY <2>1
  <2>3. incidents' \in 0 .. MaxIncidents /\ incidents <= incidents'
    BY <1>1, <2>1
  <2> QED  BY <1>1, <2>1, <2>2, <2>3, SettledStep DEF OwnToggle
<1>6. CASE ReceiveProfile(c)
  <2>1. /\ c.waiting /\ calls' = calls \ {c} /\ profile' = "refreshing"
        /\ UNCHANGED <<server, page, selection, panel, opened, pending, sent, incidents>>
    BY <1>6 DEF ReceiveProfile
  <2>2. \A d \in calls' :
          \/ d \in calls /\ d # c
          \/ c.phase = "sent" /\ d = [c EXCEPT !.waiting = FALSE, !.caller = FALSE]
    BY <2>1
  <2>3. incidents' \in 0 .. MaxIncidents /\ incidents <= incidents'
    BY <1>1, <2>1
  <2> QED  BY <1>1, <2>1, <2>2, <2>3, SettledStep
<1>7. ASSUME CallFails(c), c.waiting, incidents' \in 0 .. MaxIncidents, incidents <= incidents',
             \A d \in calls' :
               \/ d \in calls /\ d # c
               \/ c.phase = "sent" /\ d = [c EXCEPT !.waiting = FALSE, !.caller = FALSE]
      PROVE  SheetInv'
  BY <1>1, <1>2, <1>7, SettledStep DEF CallFails, OwnToggle
<1>8. CASE ReceiveFailure(c)
  <2>1. c.waiting
    BY <1>1, <1>8 DEF ReceiveFailure, CallOK
  <2> QED  BY <1>1, <1>7, <1>8, <2>1 DEF ReceiveFailure
<1>9. CASE GiveUp(c)
  <2>1. incidents' \in 0 .. MaxIncidents /\ incidents <= incidents'
    BY <1>9, Counted DEF GiveUp, SheetInv
  <2> QED  BY <1>7, <1>9, <2>1 DEF GiveUp
<1> QED  BY <1>4, <1>5, <1>6, <1>8, <1>9 DEF Settle

LEMMA ReleasePendingStep == SheetInv /\ ReleasePending => SheetInv'
<1> SUFFICES ASSUME SheetInv, ReleasePending PROVE SheetInv'
  OBVIOUS
<1>1. /\ pending.phase = "refreshing" /\ pending' = NotPending
      /\ UNCHANGED <<server, page, selection, panel, opened, calls, profile, sent, incidents>>
  BY DEF ReleasePending
<1>2. SheetTypes'
  BY <1>1 DEF SheetInv, SheetTypes, NotPending
<1>3. CallsOK' /\ PanelOK' /\ OneAwaited' /\ LogsOpened'
  BY <1>1 DEF SheetInv, CallsOK, CallOK, PanelOK, OneAwaited, Awaited, LogsOpened
<1>4. ToggleShown'
  BY <1>1 DEF SheetInv, ToggleShown, OwnToggle, NotPending
<1> QED  BY <1>2, <1>3, <1>4 DEF SheetInv

\* What another tab may do to the rows.
LEMMA ElsewhereRows ==
    ASSUME SheetInv, ChangeElsewhere
    PROVE  /\ incidents' = incidents + 1 /\ incidents' \in 0 .. MaxIncidents
           /\ server' \in [due : SUBSET Items, paused : SUBSET Items,
                           logs : SUBSET LogRecords, zone : Zones]
           /\ \/ server'.logs = server.logs
              \/ \E l \in LogRecords : /\ l.request = MaxPanels + incidents'
                                      /\ server'.logs = server.logs \cup {l}
<1>1. /\ incidents' = incidents + 1 /\ incidents' \in 1 .. MaxIncidents
      /\ MaxPanels \in Nat /\ MaxIncidents \in Nat
  BY PagesAssumption DEF ChangeElsewhere, Incident, SheetInv, SheetTypes
<1>2. ASSUME NEW i \in Items, NEW to \in {"pause", "resume"},
             server' = Toggled(server, i, to)
      PROVE  /\ server' \in [due : SUBSET Items, paused : SUBSET Items,
                             logs : SUBSET LogRecords, zone : Zones]
             /\ server'.logs = server.logs
  BY <1>2 DEF Toggled, SheetInv, SheetTypes
<1>3. ASSUME NEW i \in Items \ server.paused, NEW o \in Outcomes,
             server' = Rescheduled([request |-> MaxPanels + incidents', item |-> i,
                                    outcome |-> o], {})
      PROVE  /\ server' \in [due : SUBSET Items, paused : SUBSET Items,
                             logs : SUBSET LogRecords, zone : Zones]
             /\ \E l \in LogRecords : /\ l.request = MaxPanels + incidents'
                                     /\ server'.logs = server.logs \cup {l}
  <2>1. PICK l : l = [request |-> MaxPanels + incidents', item |-> i, outcome |-> o]
    OBVIOUS
  <2>2. l \in LogRecords /\ l.request = MaxPanels + incidents' /\ l.item = i
    BY <1>1, <2>1 DEF LogRecords, Requests
  <2>3. server' = Rescheduled(l, {})
    BY <1>3, <2>1
  <2> QED  BY <2>2, <2>3, RescheduledRows DEF SheetInv, ServerRows
<1>4. ASSUME NEW z \in Zones, server' = [server EXCEPT !.zone = z]
      PROVE  /\ server' \in [due : SUBSET Items, paused : SUBSET Items,
                             logs : SUBSET LogRecords, zone : Zones]
             /\ server'.logs = server.logs
  BY <1>4 DEF SheetInv, SheetTypes
<1>5. ASSUME NEW i \in Items, server' = [server EXCEPT !.due = @ \cup {i}]
      PROVE  /\ server' \in [due : SUBSET Items, paused : SUBSET Items,
                             logs : SUBSET LogRecords, zone : Zones]
             /\ server'.logs = server.logs
  BY <1>5 DEF SheetInv, SheetTypes
<1>6. \/ \E i \in Items, to \in {"pause", "resume"} : server' = Toggled(server, i, to)
      \/ \E i \in Items \ server.paused, o \in Outcomes :
           server' = Rescheduled([request |-> MaxPanels + incidents', item |-> i,
                                  outcome |-> o], {})
      \/ \E z \in Zones : server' = [server EXCEPT !.zone = z]
      \/ \E i \in Items : server' = [server EXCEPT !.due = @ \cup {i}]
  BY DEF ChangeElsewhere
<1>7. incidents' \in 0 .. MaxIncidents
  BY <1>1
<1> QED  BY <1>1, <1>2, <1>3, <1>4, <1>5, <1>6, <1>7

LEMMA ElsewhereStep == SheetInv /\ ChangeElsewhere => SheetInv'
<1> SUFFICES ASSUME SheetInv, ChangeElsewhere PROVE SheetInv'
  OBVIOUS
<1>1. /\ UNCHANGED <<page, selection, panel, opened, calls, pending, profile, sent>>
      /\ opened \in Nat /\ MaxPanels \in Nat /\ incidents \in Nat
  BY PagesAssumption DEF ChangeElsewhere, SheetInv, SheetTypes
<1>2. SheetTypes'
  BY <1>1, ElsewhereRows DEF SheetInv, SheetTypes
<1>3. server.logs \subseteq server'.logs
  BY ElsewhereRows
<1>4. CallsOK'
  BY <1>1, <1>3, CallKept DEF SheetInv, CallsOK
<1>5. LogsOpened'
  BY <1>1, ElsewhereRows DEF SheetInv, LogsOpened
<1>6. PanelOK' /\ OneAwaited' /\ ToggleShown'
  BY <1>1 DEF SheetInv, PanelOK, OneAwaited, Awaited, ToggleShown, OwnToggle
<1> QED  BY <1>2, <1>4, <1>5, <1>6 DEF SheetInv

LEMMA EnterStep ==
    ASSUME SheetInv, NEW p \in Pages, NEW i \in Items \cup {NoItem},
           i # NoItem => p = "/reviews", Enter(p, i),
           UNCHANGED <<server, sent, incidents>>,
           profile' \in {"idle", "saving", "refreshing"}
    PROVE  SheetInv'
<1>1. /\ page' = p /\ selection' = i
      /\ pending' = IF p = page THEN pending ELSE NotPending
      /\ calls' = IF p = page THEN calls ELSE {[c EXCEPT !.caller = FALSE] : c \in calls}
      /\ RenderSheet(panel)
  BY DEF Enter
<1> QED  BY <1>1, RenderStep

LEMMA SheetInvNext == SheetInv /\ [Next]_vars => SheetInv'
<1> SUFFICES ASSUME SheetInv, [Next]_vars PROVE SheetInv'
  OBVIOUS
<1>0. /\ profile \in {"idle", "saving", "refreshing"} /\ page \in Pages
      /\ selection \in Items \cup {NoItem} /\ (selection # NoItem => page = "/reviews")
      /\ incidents \in 0 .. MaxIncidents /\ MaxIncidents \in Nat
      /\ Links \subseteq Pages
  BY PagesAssumption DEF SheetInv, SheetTypes, Pages
<1>1. ASSUME NEW k \in Keys, Query(k) PROVE SheetInv'
  <2>1. CASE Refetch(k)
    <3>1. incidents' \in 0 .. MaxIncidents /\ incidents <= incidents'
      BY <1>0, <2>1, Counted DEF Refetch, SheetInv
    <3> QED  BY <2>1, <3>1, IdleStep DEF Refetch
  <2>2. CASE Read(k)
    BY <1>0, <2>2, IdleStep DEF Read
  <2>3. CASE Receive(k)
    BY <1>0, <2>3, RenderStep DEF Receive
  <2>4. CASE QueryFails(k)
    <3>1. incidents' \in 0 .. MaxIncidents /\ incidents <= incidents'
      BY <2>4, Counted DEF QueryFails, SheetInv
    <3> QED  BY <2>4, <3>1, IdleStep DEF QueryFails
  <2> QED  BY <1>1, <2>1, <2>2, <2>3, <2>4 DEF Query
<1>2. ASSUME NEW c \in calls, Serve(c) \/ Settle(c) PROVE SheetInv'
  BY <1>2, ServeStep, SettleStep
<1>3. ASSUME NEW i \in Items, Start(i) PROVE SheetInv'
  BY <1>0, <1>3, EnterStep DEF Start, Pages
<1>4. ASSUME NEW i \in Items, TogglePause(i) PROVE SheetInv'
  BY <1>4, TogglePauseStep
<1>5. CASE Close
  BY <1>0, <1>5, EnterStep DEF Close, Pages
<1>6. ASSUME NEW p \in Links, Visit(p) PROVE SheetInv'
  BY <1>0, <1>6, EnterStep DEF Visit
<1>7. ASSUME NEW o \in Outcomes, Submit(o) PROVE SheetInv'
  BY <1>7, SubmitStep
<1>8. ASSUME NEW z \in Zones, SaveProfile(z) PROVE SheetInv'
  BY <1>8, SaveProfileStep
<1>9. CASE ReleasePending
  BY <1>9, ReleasePendingStep
<1>10. CASE ProfileNavigates
  BY <1>10, EnterStep DEF ProfileNavigates, Pages
<1>11. CASE ChangeElsewhere
  BY <1>11, ElsewhereStep
<1>12. CASE UNCHANGED vars
  BY <1>0, <1>12, IdleStep DEF vars
<1> QED
  BY <1>1, <1>2, <1>3, <1>4, <1>5, <1>6, <1>7, <1>8, <1>9, <1>10, <1>11, <1>12 DEF Next

\* What the sheet shows and what its calls carry fit together, whatever came between
\* the sending and the answer: another sheet, another page, a lost answer, a write
\* of another tab.
THEOREM SheetInvariant == Spec => []SheetInv
<1> QED  BY SheetInvInit, SheetInvNext, PTL DEF Spec

\* togglePause of useReviewListPage: however the list is left, entered again and
\* fetched anew, the mounted one never has two toggles on their way.
THEOREM TogglesOneAtATime == Spec => []OneToggleAtATime
<1>1. SheetInv => OneToggleAtATime
  <2> SUFFICES ASSUME SheetInv PROVE OneToggleAtATime
    OBVIOUS
  <2> DEFINE own == {c \in calls : c.kind = "pause" /\ c.caller}
  <2>1. own # {} => pending.phase = "calling"
    BY DEF SheetInv, ToggleShown, OwnToggle
  <2>2. Cardinality(own) <= 1
    <3>1. CASE own = {}
      BY <3>1, FS_EmptySet
    <3>2. CASE own # {}
      <4>1. PICK c : c \in own
        BY <3>2
      <4>2. own = {c}
        BY <4>1 DEF SheetInv, ToggleShown, OwnToggle
      <4> QED  BY <4>2, FS_Singleton
    <3> QED  BY <3>1, <3>2
  <2> QED  BY <2>1, <2>2 DEF OneToggleAtATime
<1> QED  BY <1>1, SheetInvariant, PTL

-----------------------------------------------------------------------------
(* The refinement. *)

LEMMA RenderedAttempts ==
    ASSUME SheetInv, RenderSheet(panel), UNCHANGED server,
           selection' \in Items \cup {NoItem}
    PROVE  Attempts!Open(panel'.request) \/ UNCHANGED <<server, panel>>
<1>1. CASE panel' = panel
  BY <1>1
<1>2. CASE panel' # panel /\ panel' = NoPanel
  <2>1. panel'.request = 0 /\ panel'.phase = "closed"
    BY <1>2 DEF NoPanel
  <2>2. panel.request # 0
    BY <1>2 DEF SheetInv, PanelOK
  <2> QED  BY <2>1, <2>2 DEF Attempts!Open, Confirmed
<1>3. CASE panel' = [request |-> opened', item |-> selection', phase |-> "open",
                     log |-> NoLog] /\ opened' = opened + 1 /\ opened' <= MaxPanels
  <2>1. /\ panel'.request = opened + 1 /\ panel'.phase = "open"
        /\ opened \in Nat /\ opened + 1 <= MaxPanels /\ MaxPanels \in Nat
        /\ incidents \in Nat
    BY <1>3, PagesAssumption DEF SheetInv, SheetTypes
  <2>2. panel'.request # panel.request
    BY <2>1 DEF SheetInv, SheetTypes, PanelOK
  <2>3. \A l \in server.logs : l.request # opened + 1
    BY <2>1 DEF SheetInv, LogsOpened
  <2> QED  BY <2>1, <2>2, <2>3 DEF Attempts!Open, Confirmed
<1> QED  BY <1>1, <1>2, <1>3, Rendered DEF SheetInv

\* Steps that neither record an attempt nor change what the sheet confirms.
LEMMA AttemptsStutter ==
    ASSUME server'.logs = server.logs, panel'.request = panel.request,
           \/ panel' = panel
           \/ panel.phase # "saved" /\ panel'.phase # "saved"
    PROVE  UNCHANGED Attempts!vars
BY DEF Attempts!vars, Confirmed

LEMMA RenderedNext ==
    ASSUME SheetInv, RenderSheet(panel), UNCHANGED server,
           selection' \in Items \cup {NoItem}
    PROVE  [Attempts!Next]_(Attempts!vars)
<1>1. CASE UNCHANGED <<server, panel>>
  BY <1>1, AttemptsStutter
<1>2. CASE Attempts!Open(panel'.request)
  <2>1. panel'.request \in 1 .. MaxPanels \cup {0}
    <3>1. /\ opened \in 0 .. MaxPanels /\ MaxPanels \in Nat
          /\ panel.request \in Nat /\ panel.request <= opened
      BY PagesAssumption DEF SheetInv, SheetTypes, PanelOK
    <3>2. panel'.request = 0 \/ panel'.request = panel.request
            \/ (panel'.request = opened + 1 /\ opened + 1 <= MaxPanels)
      BY Rendered DEF SheetInv, NoPanel
    <3> QED  BY <3>1, <3>2
  <2> QED  BY <1>2, <2>1 DEF Attempts!Next
<1> QED  BY <1>1, <1>2, RenderedAttempts

\* A row that is new: no log has its request.
LEMMA RecordedNext ==
    ASSUME NEW l \in LogRecords, \A m \in server.logs : m.request # l.request,
           server'.logs = server.logs \cup {l}, UNCHANGED panel
    PROVE  [Attempts!Next]_(Attempts!vars)
<1>1. Attempts!Record(l)
  BY DEF Attempts!Record, Confirmed
<1> QED  BY <1>1 DEF Attempts!Next

LEMMA ServeNext ==
    ASSUME SheetInv, NEW c \in calls, Serve(c)
    PROVE  [Attempts!Next]_(Attempts!vars)
<1>0. UNCHANGED panel /\ CallOK(c)
  BY DEF Serve, ServeRecord, ServePause, ServeProfile, unservedVars, SheetInv, CallsOK
<1>1. CASE UNCHANGED server
  BY <1>0, <1>1, AttemptsStutter
<1>2. CASE server' # server /\ ServeRecord(c)
  <2>1. PICK l : l = Attempt(c)
    OBVIOUS
  <2>2. PICK due \in SUBSET {c.item} : server' = Rescheduled(l, due)
    BY <1>2, <2>1 DEF ServeRecord, Write
  <2>3. Accepts(server, c)
    BY <1>2 DEF ServeRecord
  <2>4. c.item \in Items /\ c.value \in Outcomes /\ c.request \in 1 .. opened
        /\ opened \in 0 .. MaxPanels /\ MaxPanels \in Nat /\ MaxIncidents \in Nat
    BY <1>0, <1>2, PagesAssumption DEF CallOK, ServeRecord, SheetInv, SheetTypes
  <2>5. l \in LogRecords /\ l.request = c.request /\ l.item = c.item
    BY <2>1, <2>4 DEF Attempt, LogRecords, Requests
  <2>6. server'.logs = server.logs \cup {l}
    BY <2>2, <2>5, RescheduledRows DEF SheetInv
  <2>7. \A m \in server.logs : m.request # l.request
    BY <2>3, <2>5 DEF Accepts
  <2> QED  BY <1>0, <2>5, <2>6, <2>7, RecordedNext
<1>3. CASE ServePause(c) \/ ServeProfile(c)
  <2>1. server'.logs = server.logs
    BY <1>3 DEF ServePause, ServeProfile, Write, Toggled, SheetInv, SheetTypes
  <2> QED  BY <1>0, <2>1, AttemptsStutter
<1> QED  BY <1>1, <1>2, <1>3 DEF Serve

LEMMA SettleNext ==
    ASSUME SheetInv, NEW c \in calls, Settle(c)
    PROVE  [Attempts!Next]_(Attempts!vars)
<1>0. UNCHANGED server /\ CallOK(c)
  BY DEF Settle, ReceiveRecord, ReceivePause, ReceiveProfile, ReceiveFailure, GiveUp,
         CallFails, SheetInv, CallsOK
<1>1. CASE UNCHANGED panel
  BY <1>0, <1>1, AttemptsStutter
<1>2. CASE ReceiveRecord(c) /\ panel.request = c.request
  <2>1. /\ c.kind = "record" /\ c.phase = "served" /\ c.waiting
        /\ panel' = [panel EXCEPT !.phase = "saved", !.log = c.log]
    BY <1>2 DEF ReceiveRecord
  <2>2. panel.phase = "sending"
    BY <1>2, <2>1 DEF SheetInv, OneAwaited, Awaited
  <2>3. /\ panel'.phase = "saved" /\ panel'.log = c.log /\ panel'.request = panel.request
    BY <2>1 DEF SheetInv, SheetTypes
  <2>4. c.log \in server.logs /\ c.log.request = panel.request /\ c.log \in LogRecords
    BY <1>0, <1>2, <2>1 DEF CallOK, SheetInv, SheetTypes
  <2>5. Attempts!Confirm(c.log)
    BY <1>0, <2>2, <2>3, <2>4 DEF Attempts!Confirm, Confirmed
  <2> QED  BY <2>4, <2>5 DEF Attempts!Next
<1>3. CASE panel.phase = "sending" /\ panel' = [panel EXCEPT !.phase = "open"]
  <2>1. panel'.phase = "open" /\ panel'.request = panel.request
    BY <1>3 DEF SheetInv, SheetTypes
  <2> QED  BY <1>0, <1>3, <2>1, AttemptsStutter
<1> QED
  BY <1>1, <1>2, <1>3
  DEF Settle, ReceiveRecord, ReceivePause, ReceiveProfile, ReceiveFailure, GiveUp, CallFails

LEMMA AttemptsNext == SheetInv /\ [Next]_vars => [Attempts!Next]_(Attempts!vars)
<1> SUFFICES ASSUME SheetInv, [Next]_vars PROVE [Attempts!Next]_(Attempts!vars)
  OBVIOUS
<1>0. selection \in Items \cup {NoItem}
  BY DEF SheetInv, SheetTypes
<1>1. CASE UNCHANGED <<server, panel>>
  BY <1>1, AttemptsStutter
<1>2. ASSUME NEW p, NEW i \in Items \cup {NoItem}, Enter(p, i), UNCHANGED server
      PROVE  [Attempts!Next]_(Attempts!vars)
  <2>1. selection' = i /\ RenderSheet(panel)
    BY <1>2 DEF Enter
  <2> QED  BY <1>2, <2>1, RenderedNext
<1>3. ASSUME NEW k \in Keys, Query(k) PROVE [Attempts!Next]_(Attempts!vars)
  <2>1. CASE Receive(k)
    BY <1>0, <2>1, RenderedNext DEF Receive
  <2>2. CASE ~Receive(k)
    BY <1>1, <1>3, <2>2 DEF Query, Refetch, Read, QueryFails
  <2> QED  BY <2>1, <2>2
<1>4. ASSUME NEW c \in calls, Serve(c) \/ Settle(c) PROVE [Attempts!Next]_(Attempts!vars)
  BY <1>4, ServeNext, SettleNext
<1>5. ASSUME NEW i \in Items, Start(i) PROVE [Attempts!Next]_(Attempts!vars)
  BY <1>2, <1>5 DEF Start
<1>6. ASSUME NEW i \in Items, TogglePause(i) PROVE [Attempts!Next]_(Attempts!vars)
  BY <1>1, <1>6 DEF TogglePause
<1>7. CASE Close
  BY <1>2, <1>7 DEF Close
<1>8. ASSUME NEW p \in Links, Visit(p) PROVE [Attempts!Next]_(Attempts!vars)
  BY <1>2, <1>8 DEF Visit
<1>9. ASSUME NEW o \in Outcomes, Submit(o) PROVE [Attempts!Next]_(Attempts!vars)
  <2>1. /\ UNCHANGED server /\ panel.phase = "open"
        /\ panel' = [panel EXCEPT !.phase = "sending"]
    BY <1>9 DEF Submit, CanSubmit
  <2>2. panel'.request = panel.request /\ panel'.phase = "sending"
    BY <2>1 DEF SheetInv, SheetTypes
  <2> QED  BY <2>1, <2>2, AttemptsStutter
<1>10. ASSUME NEW z \in Zones, SaveProfile(z) PROVE [Attempts!Next]_(Attempts!vars)
  BY <1>1, <1>10 DEF SaveProfile
<1>11. CASE ReleasePending
  BY <1>1, <1>11 DEF ReleasePending
<1>12. CASE ProfileNavigates
  BY <1>2, <1>12 DEF ProfileNavigates
<1>13. CASE ChangeElsewhere
  <2>1. UNCHANGED panel /\ MaxPanels \in Nat /\ opened \in 0 .. MaxPanels
        /\ incidents \in Nat
    BY <1>13, PagesAssumption DEF ChangeElsewhere, SheetInv, SheetTypes
  <2>2. CASE server'.logs = server.logs
    BY <2>1, <2>2, AttemptsStutter
  <2>3. ASSUME NEW l \in LogRecords, l.request = MaxPanels + incidents',
               server'.logs = server.logs \cup {l}
        PROVE  [Attempts!Next]_(Attempts!vars)
    <3>1. incidents' = incidents + 1
      BY <1>13, ElsewhereRows
    <3>2. \A m \in server.logs : m.request # l.request
      BY <2>1, <2>3, <3>1 DEF SheetInv, LogsOpened
    <3> QED  BY <2>1, <2>3, <3>2, RecordedNext
  <2> QED  BY <1>13, <2>2, <2>3, ElsewhereRows
<1>14. CASE UNCHANGED vars
  BY <1>1, <1>14 DEF vars
<1> QED
  BY <1>3, <1>4, <1>5, <1>6, <1>7, <1>8, <1>9, <1>10, <1>11, <1>12, <1>13, <1>14 DEF Next

\* The comment of requestId in useReviewResultSheet: what is sent again from one sheet
\* is one attempt, and what the sheet confirms is that attempt as it was recorded -
\* for any number of sheets, calls, lost answers and attempts recorded elsewhere.
THEOREM PagesImplementAttempts == Spec => AttemptsSpec
<1>1. Init => Attempts!Init
  BY DEF Init, Attempts!Init, NoPanel, Confirmed
<1> QED
  BY <1>1, SheetInvariant, AttemptsNext, PTL DEF Spec, AttemptsSpec, Attempts!Spec

-----------------------------------------------------------------------------
(* The entries. *)

\* A served call whose answer this tab still waits for is news to some entries:
\* the answer will invalidate them.
Announces(c, k) ==
    /\ c.waiting /\ c.phase = "served"
    /\ IF c.kind = "profile" THEN k = "account" ELSE k \in ReviewKeys
NoNews(k) == \A c \in calls : ~Announces(c, k)

\* What a request has read when nothing was written since it was sent.
Parts(k) == {<<>>, Rows(k)} \cup (IF k = "today" THEN {<<DueItems>>} ELSE {})

IsRead(r) ==
    \/ r = <<>>
    \/ Len(r) = 1 /\ r = <<r[1]>>
    \/ Len(r) = 2 /\ r = <<r[1], r[2]>>

EntryOK(k) ==
    /\ IsEntry(cache[k]) /\ IsRead(reads[k])
    /\ cache[k].fetching => k \in OnDisplay
    /\ reads[k] # <<>> => cache[k].fetching

CacheTypes ==
    /\ cache = [k \in Keys |-> cache[k]] /\ reads = [k \in Keys |-> reads[k]]
    /\ \A k \in Keys : EntryOK(k)
    /\ excused \subseteq Keys

\* An entry that no answer is about to invalidate shows the rows, or knows that it
\* does not; and its request has read nothing else.
Fresh(k) ==
    NoNews(k) =>
        /\ HasData(k) /\ ~cache[k].invalidated => Shown(k) = Rows(k)
        /\ reads[k] \in Parts(k)

CacheInv == CacheTypes /\ \A k \in Keys \ excused : Fresh(k)

-----------------------------------------------------------------------------
(* The rows of an entry, and what a request reads. *)

LEMMA AccountRows ==
    /\ Rows("account") = <<[zone |-> server.zone], TRUE>>
    /\ Rows("account")' = <<[zone |-> server'.zone], TRUE>>
BY PagesAssumption DEF Rows

LEMMA RowsHaveTwoParts ==
    ASSUME NEW k \in Keys
    PROVE  Len(Rows(k)) = 2 /\ Rows(k) # <<>> /\ IsRead(Rows(k))
<1>1. ASSUME NEW a, NEW b PROVE Len(<<a, b>>) = 2 /\ <<a, b>> # <<>> /\ IsRead(<<a, b>>)
  BY DEF IsRead
<1>2. \E a, b : Rows(k) = <<a, b>>
  BY PagesAssumption DEF Rows, Keys, ReviewKeys
<1> QED  BY <1>1, <1>2

LEMMA RowsKept ==
    ASSUME NEW k, UNCHANGED server
    PROVE  Rows(k)' = Rows(k) /\ Parts(k)' = Parts(k)
<1>1. Rows(k)' = Rows(k) /\ DueItems' = DueItems
  BY DEF Rows, DueItems, OtherItems, LogsOf
<1> QED  BY <1>1 DEF Parts

LEMMA AccountKept ==
    ASSUME server'.zone = server.zone
    PROVE  Rows("account")' = Rows("account") /\ Parts("account")' = Parts("account")
BY AccountRows DEF Parts

LEMMA DisplayIsKeys ==
    ASSUME NEW p, NEW i \in Items \cup {NoItem}
    PROVE  Observed(p, i) \subseteq Keys
BY DEF Observed, Keys, ReviewKeys

-----------------------------------------------------------------------------
(* The steps. *)

LEMMA FreshKept ==
    ASSUME NEW k, Fresh(k), NoNews(k)' => NoNews(k),
           Rows(k)' = Rows(k), Parts(k)' = Parts(k),
           cache'[k].data = cache[k].data,
           cache'[k].invalidated = cache[k].invalidated,
           reads'[k] = reads[k] \/ reads'[k] = <<>>
    PROVE  Fresh(k)'
<1> SUFFICES ASSUME NoNews(k)'
             PROVE  /\ (HasData(k) /\ ~cache[k].invalidated => Shown(k) = Rows(k))'
                    /\ reads'[k] \in Parts(k)'
  BY DEF Fresh
<1>1. (HasData(k) /\ ~cache[k].invalidated => Shown(k) = Rows(k))'
  BY DEF Fresh, HasData, Shown
<1>2. reads'[k] \in Parts(k)
  BY DEF Fresh, Parts
<1> QED  BY <1>1, <1>2

\* Steps of the calls and of the server, which leave the cache alone.
LEMMA CallsCacheStep ==
    ASSUME CacheInv, UNCHANGED <<page, selection, cache, reads>>,
           excused \subseteq excused', excused' \subseteq Keys,
           \A k \in Keys \ excused' :
               /\ NoNews(k)' => NoNews(k)
               /\ NoNews(k)' => Rows(k)' = Rows(k) /\ Parts(k)' = Parts(k)
    PROVE  CacheInv'
<1>1. CacheTypes'
  BY DEF CacheInv, CacheTypes, EntryOK, OnDisplay
<1>2. ASSUME NEW k \in Keys \ excused' PROVE Fresh(k)'
  <2>1. Fresh(k)
    BY DEF CacheInv
  <2>2. CASE NoNews(k)'
    BY <2>1, <2>2, FreshKept
  <2>3. CASE ~NoNews(k)'
    BY <2>3 DEF Fresh
  <2> QED  BY <2>2, <2>3
<1> QED  BY <1>1, <1>2 DEF CacheInv

\* Steps of one entry.
LEMMA EntryStep ==
    ASSUME CacheInv, NEW k \in Keys, UNCHANGED <<server, page, selection, calls>>,
           NEW e, NEW r, cache' = [cache EXCEPT ![k] = e], reads' = [reads EXCEPT ![k] = r],
           IsEntry(e), IsRead(r), e.fetching => k \in OnDisplay, r # <<>> => e.fetching,
           excused' \in {excused, excused \ {k}},
           k \in excused' \/ Fresh(k)'
    PROVE  CacheInv'
<1>1. /\ cache'[k] = e /\ reads'[k] = r
      /\ \A j \in Keys \ {k} : cache'[j] = cache[j] /\ reads'[j] = reads[j]
      /\ cache' = [j \in Keys |-> cache'[j]] /\ reads' = [j \in Keys |-> reads'[j]]
  BY DEF CacheInv, CacheTypes
<1>2. CacheTypes'
  <2>1. EntryOK(k)'
    BY <1>1 DEF EntryOK, OnDisplay
  <2>2. ASSUME NEW j \in Keys \ {k} PROVE EntryOK(j)'
    BY <1>1 DEF CacheInv, CacheTypes, EntryOK, OnDisplay
  <2> QED  BY <1>1, <2>1, <2>2 DEF CacheInv, CacheTypes
<1>3. ASSUME NEW j \in Keys \ excused', j # k PROVE Fresh(j)'
  <2>1. Fresh(j) /\ Rows(j)' = Rows(j) /\ Parts(j)' = Parts(j)
    BY <1>3, RowsKept DEF CacheInv
  <2>2. NoNews(j)' => NoNews(j)
    BY DEF NoNews
  <2> QED  BY <1>1, <1>3, <2>1, <2>2, FreshKept
<1> QED  BY <1>2, <1>3 DEF CacheInv

LEMMA OneRead ==
    ASSUME NEW x
    PROVE  Len(<<x>>) = 1 /\ <<x>> # <<>> /\ IsRead(<<x>>)
BY DEF IsRead

LEMMA TwoRead ==
    ASSUME NEW x, NEW y
    PROVE  Len(<<x, y>>) = 2 /\ <<x, y>> # <<>> /\ IsRead(<<x, y>>)
BY DEF IsRead

LEMMA AppendedPair ==
    ASSUME NEW x, NEW y
    PROVE  Append(<<x>>, y) = <<x, y>>
<1>1. /\ <<x>> \in Seq({x, y}) /\ Len(<<x>>) = 1
      /\ <<x, y>> \in Seq({x, y}) /\ Len(<<x, y>>) = 2
  OBVIOUS
<1>2. PICK s : s = Append(<<x>>, y)
  OBVIOUS
<1>3. s \in Seq({x, y}) /\ Len(s) = 2 /\ s[1] = x /\ s[2] = y
  BY <1>1, <1>2
<1>4. \A i \in 1 .. Len(s) : s[i] = <<x, y>>[i]
  BY <1>3
<1> QED  BY <1>1, <1>2, <1>3, <1>4, SeqEqual

\* A second statement is executed after the first.
LEMMA SecondRead ==
    ASSUME NEW r, IsRead(r), Len(r) < 2, r # <<>>
    PROVE  Len(r) = 1 /\ \A y : Append(r, y) = <<r[1], y>>
<1>1. \/ Len(r) = 1 /\ r = <<r[1]>>
      \/ Len(r) = 2 /\ Len(r) < 2
  BY DEF IsRead
<1>2. ~(2 < 2)
  OBVIOUS
<1>3. Len(r) = 1 /\ r = <<r[1]>>
  BY <1>1, <1>2, Zenon
<1>4. PICK x : x = r[1]
  OBVIOUS
<1>5. \A y : Append(<<x>>, y) = <<x, y>>
  BY AppendedPair
<1> QED  BY <1>3, <1>4, <1>5, Zenon

LEMMA NewsKept ==
    ASSUME NEW k, UNCHANGED calls
    PROVE  NoNews(k)' <=> NoNews(k)
BY DEF NoNews

LEMMA RefetchStep ==
    ASSUME SheetInv, CacheInv, NEW k \in Keys, Refetch(k)
    PROVE  CacheInv'
<1>1. /\ UNCHANGED <<server, page, selection, calls, reads, excused>> /\ k \in OnDisplay
      /\ cache' = [cache EXCEPT ![k] = StartFetch(cache[k])] /\ ~cache[k].fetching
  BY DEF Refetch
<1>2. IsEntry(cache[k]) /\ IsRead(reads[k]) /\ reads' = [reads EXCEPT ![k] = reads[k]]
  BY <1>1 DEF CacheInv, CacheTypes, EntryOK
<1>3. PICK e : e = StartFetch(cache[k])
  OBVIOUS
<1>4. /\ IsEntry(e) /\ e.data = cache[k].data /\ e.invalidated = cache[k].invalidated
      /\ e.fetching /\ cache'[k] = e
  BY <1>1, <1>2, <1>3, StartFetchEntry DEF CacheInv, CacheTypes
<1>5. k \notin excused => Fresh(k)'
  BY <1>1, <1>4, RowsKept, NewsKept, FreshKept DEF CacheInv
<1> QED  BY <1>1, <1>2, <1>3, <1>4, <1>5, EntryStep

LEMMA QueryFailsStep ==
    ASSUME SheetInv, CacheInv, NEW k \in Keys, QueryFails(k)
    PROVE  CacheInv'
<1>1. /\ UNCHANGED <<server, page, selection, calls, excused>>
      /\ cache' = [cache EXCEPT ![k] = FailFetch(cache[k], "transient")]
      /\ reads' = [reads EXCEPT ![k] = <<>>]
  BY DEF QueryFails
<1>2. IsEntry(cache[k]) /\ IsRead(<<>>)
  BY DEF CacheInv, CacheTypes, EntryOK, IsRead
<1>3. PICK e : e = FailFetch(cache[k], "transient")
  OBVIOUS
<1>4. /\ IsEntry(e) /\ e.data = cache[k].data /\ e.invalidated = cache[k].invalidated
      /\ ~e.fetching /\ cache'[k] = e /\ reads'[k] = <<>>
  BY <1>1, <1>2, <1>3, FailFetchEntry DEF CacheInv, CacheTypes, Errors
<1>5. k \notin excused => Fresh(k)'
  BY <1>1, <1>4, RowsKept, NewsKept, FreshKept DEF CacheInv
<1> QED  BY <1>1, <1>2, <1>3, <1>4, <1>5, EntryStep

\* The first part of the dashboard, or the rest: nothing was written in between.
LEMMA ReadStep ==
    ASSUME SheetInv, CacheInv, NEW k \in Keys, Read(k)
    PROVE  CacheInv'
<1>1. /\ UNCHANGED <<server, page, selection, calls, cache, excused>>
      /\ cache[k].fetching /\ Len(reads[k]) < 2
  BY DEF Read
<1>2. /\ IsEntry(cache[k]) /\ IsRead(reads[k]) /\ k \in OnDisplay
      /\ cache' = [cache EXCEPT ![k] = cache[k]]
  BY <1>1 DEF CacheInv, CacheTypes, EntryOK
<1>3. PICK r : r = IF k # "today" THEN Rows(k)
                   ELSE IF reads[k] = <<>> THEN <<DueItems>>
                   ELSE Append(reads[k], OtherItems)
  OBVIOUS
<1>4. reads' = [reads EXCEPT ![k] = r]
  BY <1>3 DEF Read
<1>5. IsRead(r)
  <2>1. CASE k # "today"
    BY <1>3, <2>1, RowsHaveTwoParts
  <2>2. CASE k = "today" /\ reads[k] = <<>>
    BY <1>3, <2>2, OneRead
  <2>3. CASE k = "today" /\ reads[k] # <<>>
    <3>1. Append(reads[k], OtherItems) = <<reads[k][1], OtherItems>>
      BY <1>1, <1>2, <2>3, SecondRead
    <3> QED  BY <1>3, <2>3, <3>1, TwoRead
  <2> QED  BY <2>1, <2>2, <2>3
<1>6. ASSUME reads[k] \in Parts(k) PROVE r \in Parts(k)
  <2>1. CASE k # "today"
    BY <1>3, <2>1 DEF Parts
  <2>2. CASE k = "today" /\ reads[k] = <<>>
    BY <1>3, <2>2 DEF Parts
  <2>3. CASE k = "today" /\ reads[k] # <<>>
    <3>1. /\ Len(reads[k]) = 1
          /\ Append(reads[k], OtherItems) = <<reads[k][1], OtherItems>>
      BY <1>1, <1>2, <2>3, SecondRead
    <3>2. reads[k] # Rows(k)
      <4>1. Len(Rows(k)) = 2
        BY RowsHaveTwoParts
      <4>2. Len(reads[k]) # Len(Rows(k))
        BY <3>1, <4>1
      <4> QED  BY <4>2, Zenon
    <3>3. reads[k] = <<DueItems>>
      BY <1>6, <2>3, <3>2 DEF Parts
    <3>5. r = <<DueItems, OtherItems>>
      BY <1>3, <2>3, <3>1, <3>3
    <3>4. Rows(k) = <<DueItems, OtherItems>>
      BY <2>3, PagesAssumption DEF Rows
    <3> QED  BY <3>4, <3>5 DEF Parts
  <2> QED  BY <2>1, <2>2, <2>3
<1>7. k \notin excused => Fresh(k)'
  <2> SUFFICES ASSUME k \notin excused, NoNews(k) PROVE Fresh(k)'
    BY <1>1, NewsKept DEF Fresh
  <2>1. /\ HasData(k) /\ ~cache[k].invalidated => Shown(k) = Rows(k)
        /\ reads[k] \in Parts(k)
    BY DEF CacheInv, Fresh
  <2>2. Rows(k)' = Rows(k) /\ Parts(k)' = Parts(k) /\ HasData(k)' = HasData(k)
        /\ Shown(k)' = Shown(k)
    BY <1>1, RowsKept DEF HasData, Shown
  <2>3. reads'[k] = r
    BY <1>4 DEF CacheInv, CacheTypes
  <2> QED  BY <1>1, <1>6, <2>1, <2>2, <2>3 DEF Fresh
<1> QED  BY <1>1, <1>2, <1>4, <1>5, <1>7, EntryStep

LEMMA ReceiveStep ==
    ASSUME SheetInv, CacheInv, NEW k \in Keys, Receive(k)
    PROVE  CacheInv'
<1>1. /\ UNCHANGED <<server, page, selection, calls>> /\ Len(reads[k]) = 2
      /\ cache' = [cache EXCEPT ![k] = Answer(cache[k], reads[k])]
      /\ reads' = [reads EXCEPT ![k] = <<>>]
      /\ excused' = IF reads[k] = Rows(k) THEN excused \ {k} ELSE excused
  BY DEF Receive
<1>2. PICK e : e = Answer(cache[k], reads[k])
  OBVIOUS
<1>3. /\ IsEntry(e) /\ e.data = reads[k] /\ ~e.fetching /\ IsRead(<<>>)
      /\ cache'[k] = e /\ reads'[k] = <<>>
  BY <1>1, <1>2, AnswerEntry DEF CacheInv, CacheTypes, IsRead
<1>4. Rows(k)' = Rows(k) /\ (NoNews(k)' <=> NoNews(k))
  BY <1>1, RowsKept, NewsKept
<1>5. CASE reads[k] = Rows(k)
  <2>1. Fresh(k)'
    BY <1>3, <1>4, <1>5 DEF Fresh, Shown, Parts
  <2> QED  BY <1>1, <1>2, <1>3, <2>1, EntryStep
<1>6. CASE reads[k] # Rows(k)
  <2>1. k \notin excused => Fresh(k)'
    <3> SUFFICES ASSUME k \notin excused, NoNews(k) PROVE FALSE
      BY <1>4 DEF Fresh
    <3>1. reads[k] \in Parts(k)
      BY DEF CacheInv, Fresh
    <3>2. Len(<<>>) = 0 /\ Len(<<DueItems>>) = 1
      OBVIOUS
    <3>3. reads[k] # <<>> /\ reads[k] # <<DueItems>>
      BY <1>1, <3>2
    <3> QED  BY <1>6, <3>1, <3>3, Zenon DEF Parts
  <2> QED  BY <1>1, <1>2, <1>3, <1>6, <2>1, EntryStep
<1> QED  BY <1>5, <1>6

\* Leaving a page forgets its requests, never what is known of an entry.
LEMMA EnterCacheStep ==
    ASSUME SheetInv, CacheInv, NEW p, NEW i \in Items \cup {NoItem}, Enter(p, i),
           UNCHANGED server
    PROVE  CacheInv'
<1>1. PICK fetched :
          /\ fetched \subseteq Observed(p, i) \ OnDisplay
          /\ cache' = [k \in Keys |->
                IF k \in fetched THEN StartFetch(cache[k])
                ELSE IF k \in OnDisplay \ Observed(p, i) THEN CancelFetch(cache[k])
                ELSE cache[k]]
  <2>1. PICK old \in {{}, Observed(p, i) \ OnDisplay} :
          LET new == Observed(p, i)
              fetched == old \cup {k \in new \ OnDisplay :
                                      ~HasData(k) \/ cache[k].invalidated}
          IN  cache' = [k \in Keys |->
                IF k \in fetched THEN StartFetch(cache[k])
                ELSE IF k \in OnDisplay \ new THEN CancelFetch(cache[k])
                ELSE cache[k]]
    BY DEF Enter
  <2>2. PICK fetched : fetched = old \cup {k \in Observed(p, i) \ OnDisplay :
                                              ~HasData(k) \/ cache[k].invalidated}
    OBVIOUS
  <2>3. fetched \subseteq Observed(p, i) \ OnDisplay
    BY <2>1, <2>2
  <2> QED  BY <2>1, <2>2, <2>3
<1>2. /\ reads' = [k \in Keys |-> IF k \in Observed(p, i) \cap OnDisplay
                                  THEN reads[k] ELSE <<>>]
      /\ UNCHANGED excused /\ OnDisplay' = Observed(p, i)
      /\ calls' = calls \/ calls' = {[c EXCEPT !.caller = FALSE] : c \in calls}
  BY DEF Enter, OnDisplay, Observed
<1>3. ASSUME NEW k \in Keys
      PROVE  /\ IsEntry(cache'[k]) /\ cache'[k].data = cache[k].data
             /\ cache'[k].invalidated = cache[k].invalidated
             /\ cache'[k].fetching => k \in Observed(p, i)
             /\ k \in Observed(p, i) \cap OnDisplay => cache'[k] = cache[k]
  <2>1. IsEntry(cache[k]) /\ cache[k].error \in Errors
        /\ (cache[k].fetching => k \in OnDisplay)
    BY DEF CacheInv, CacheTypes, EntryOK, IsEntry
  <2>2. CASE k \in fetched
    BY <1>1, <2>1, <2>2, StartFetchEntry
  <2>3. CASE k \notin fetched /\ k \in OnDisplay \ Observed(p, i)
    BY <1>1, <2>1, <2>3, FailFetchEntry DEF CancelFetch
  <2>4. CASE k \notin fetched /\ k \notin OnDisplay \ Observed(p, i)
    BY <1>1, <2>1, <2>4
  <2> QED  BY <2>2, <2>3, <2>4
<1>4. CacheTypes'
  <2>1. cache' = [k \in Keys |-> cache'[k]] /\ reads' = [k \in Keys |-> reads'[k]]
    BY <1>1, <1>2
  <2>2. ASSUME NEW k \in Keys PROVE EntryOK(k)'
    <3>1. EntryOK(k)
      BY DEF CacheInv, CacheTypes
    <3>2. CASE k \in Observed(p, i) \cap OnDisplay
      BY <1>2, <1>3, <3>1, <3>2 DEF EntryOK
    <3>3. CASE k \notin Observed(p, i) \cap OnDisplay
      BY <1>2, <1>3, <3>3 DEF EntryOK, IsRead
    <3> QED  BY <3>2, <3>3
  <2> QED  BY <1>2, <2>1, <2>2 DEF CacheInv, CacheTypes
<1>5. ASSUME NEW k PROVE NoNews(k)' => NoNews(k)
  <2> SUFFICES ASSUME NEW c \in calls, Announces(c, k) PROVE \E d \in calls' : Announces(d, k)
    BY DEF NoNews
  <2>1. PICK d : d = [c EXCEPT !.caller = FALSE]
    OBVIOUS
  <2>2. CallOK(c)
    BY DEF SheetInv, CallsOK
  <2>3. Announces(d, k)
    BY <2>1, <2>2, Released DEF Announces
  <2> QED  BY <1>2, <2>1, <2>3
<1>6. ASSUME NEW k \in Keys \ excused' PROVE Fresh(k)'
  <2>1. reads'[k] = reads[k] \/ reads'[k] = <<>>
    BY <1>2
  <2>2. Fresh(k)
    BY <1>2 DEF CacheInv
  <2> QED  BY <1>3, <1>5, <2>1, <2>2, RowsKept, FreshKept
<1> QED  BY <1>4, <1>6 DEF CacheInv

\* The answer of a write: its entries are fetched anew or marked, but for those whose
\* first fetch it joins.
LEMMA InvalidateStep ==
    ASSUME CacheInv, NEW keys \in SUBSET Keys, InvalidateQueries(keys),
           UNCHANGED <<server, page, selection>>,
           \A k \in Keys \ keys : NoNews(k)' => NoNews(k)
    PROVE  CacheInv'
<1>1. PICK fetched :
          /\ fetched = {k \in keys \cap OnDisplay : ~KeepsFetchInFlight(cache[k])}
          /\ cache' = [k \in Keys |->
                IF k \in fetched THEN StartFetch(Invalidate(cache[k]))
                ELSE IF k \in keys THEN Invalidate(cache[k]) ELSE cache[k]]
          /\ reads' = [k \in Keys |-> IF k \in fetched THEN <<>> ELSE reads[k]]
  <2>1. PICK fetched : fetched = (keys \cap OnDisplay) \ {k \in keys \cap OnDisplay : JoinsFetch(k)}
    OBVIOUS
  <2>2. fetched = {k \in keys \cap OnDisplay : ~KeepsFetchInFlight(cache[k])}
    BY <2>1 DEF JoinsFetch
  <2> QED  BY <2>1, <2>2 DEF InvalidateQueries
<1>2. excused' = excused \cup {k \in keys \cap OnDisplay : KeepsFetchInFlight(cache[k])}
  BY DEF InvalidateQueries
<1>3. ASSUME NEW k \in Keys
      PROVE  /\ IsEntry(cache'[k]) /\ cache'[k].data = cache[k].data
             /\ cache'[k].fetching => cache[k].fetching \/ k \in fetched
             /\ cache[k].fetching => cache'[k].fetching
             /\ k \notin keys => cache'[k] = cache[k]
             /\ k \in keys /\ cache[k].data # NoData => cache'[k].invalidated
  <2>1. IsEntry(cache[k])
    BY DEF CacheInv, CacheTypes, EntryOK
  <2>2. PICK e : e = Invalidate(cache[k])
    OBVIOUS
  <2>3. /\ IsEntry(e) /\ e.data = cache[k].data /\ e.fetching = cache[k].fetching
        /\ cache[k].data # NoData => e.invalidated
    BY <2>1, <2>2, InvalidateEntry
  <2>4. CASE k \in fetched
    <3>1. cache'[k] = StartFetch(e)
      BY <1>1, <2>2, <2>4
    <3> QED  BY <1>1, <2>3, <2>4, <3>1, StartFetchEntry
  <2>5. CASE k \notin fetched /\ k \in keys
    BY <1>1, <2>2, <2>3, <2>5
  <2>6. CASE k \notin keys
    BY <1>1, <2>1, <2>6
  <2> QED  BY <2>4, <2>5, <2>6
<1>4. CacheTypes'
  <2>1. cache' = [k \in Keys |-> cache'[k]] /\ reads' = [k \in Keys |-> reads'[k]]
    BY <1>1
  <2>2. ASSUME NEW k \in Keys PROVE EntryOK(k)'
    <3>1. EntryOK(k)
      BY DEF CacheInv, CacheTypes
    <3>2. CASE k \in fetched
      <4>1. k \in OnDisplay' /\ reads'[k] = <<>>
        BY <1>1, <3>2 DEF OnDisplay
      <4> QED  BY <1>3, <4>1 DEF EntryOK, IsRead
    <3>3. CASE k \notin fetched
      <4>1. (k \in OnDisplay' <=> k \in OnDisplay) /\ reads'[k] = reads[k]
        BY <1>1, <3>3 DEF OnDisplay
      <4> QED  BY <1>3, <3>1, <3>3, <4>1 DEF EntryOK
    <3> QED  BY <3>2, <3>3
  <2> QED  BY <1>2, <2>1, <2>2 DEF CacheInv, CacheTypes
<1>5. ASSUME NEW k \in Keys \ excused' PROVE Fresh(k)'
  <2>1. Fresh(k) /\ EntryOK(k)
    BY <1>2 DEF CacheInv, CacheTypes
  <2>2. CASE k \in keys
    <3>1. reads'[k] = <<>>
      <4>1. CASE k \in OnDisplay
        BY <1>1, <1>2, <2>2, <4>1
      <4>2. CASE k \notin OnDisplay
        BY <1>1, <2>1, <2>2, <4>2 DEF EntryOK
      <4> QED  BY <4>1, <4>2
    <3>2. ~(HasData(k) /\ ~cache[k].invalidated)'
      BY <1>3, <2>2 DEF HasData, Shown
    <3> QED  BY <3>1, <3>2 DEF Fresh, Parts
  <2>3. CASE k \notin keys
    <3>1. cache'[k] = cache[k] /\ reads'[k] = reads[k]
      BY <1>1, <1>3, <2>3
    <3> QED  BY <2>1, <2>3, <3>1, RowsKept, FreshKept
  <2> QED  BY <2>2, <2>3
<1> QED  BY <1>4, <1>5 DEF CacheInv

\* The answers that are still awaited when a call has been served.
LEMMA ServedNews ==
    ASSUME NEW c \in calls, CallOK(c), c.phase = "sent",
           NEW phase, NEW log, calls' = Answers(c, phase, log), NEW k
    PROVE  /\ NoNews(k)' => NoNews(k)
           /\ c.waiting /\ phase = "served"
              /\ (IF c.kind = "profile" THEN k = "account" ELSE k \in ReviewKeys)
                => ~NoNews(k)'
<1>1. PICK d : d = [c EXCEPT !.phase = phase, !.log = log]
  OBVIOUS
<1>2. d.kind = c.kind /\ d.phase = phase /\ d.waiting = c.waiting
  BY <1>1 DEF CallOK, CallRecords
<1>3. calls \ {c} \subseteq calls' /\ (c.waiting => d \in calls')
  BY <1>1 DEF Answers
<1>4. ~Announces(c, k)
  BY DEF Announces
<1>5. NoNews(k)' => NoNews(k)
  BY <1>3, <1>4 DEF NoNews, Announces
<1>6. c.waiting /\ phase = "served"
      /\ (IF c.kind = "profile" THEN k = "account" ELSE k \in ReviewKeys)
        => Announces(d, k)
  BY <1>2 DEF Announces
<1> QED  BY <1>3, <1>5, <1>6 DEF NoNews, Announces

LEMMA ServeCacheStep ==
    ASSUME SheetInv, CacheInv, NEW c \in calls, Serve(c)
    PROVE  CacheInv'
<1>1. /\ UNCHANGED <<page, selection, cache, reads>> /\ CallOK(c) /\ c.phase = "sent"
      /\ excused \subseteq Keys
  BY DEF Serve, ServeRecord, ServePause, ServeProfile, unservedVars, SheetInv, CallsOK,
         CacheInv, CacheTypes
<1>2. Keys = ReviewKeys \cup {"account"} /\ ReviewKeys \subseteq Keys
  BY DEF Keys
<1>3. ASSUME NEW phase, NEW log, calls' = Answers(c, phase, log),
             UNCHANGED <<server, excused>>
      PROVE  CacheInv'
  <2>1. \A k \in Keys \ excused' :
            /\ NoNews(k)' => NoNews(k)
            /\ NoNews(k)' => Rows(k)' = Rows(k) /\ Parts(k)' = Parts(k)
    BY <1>1, <1>3, ServedNews, RowsKept
  <2> QED  BY <1>1, <1>3, <2>1, CallsCacheStep
<1>4. ASSUME NEW log, calls' = Answers(c, "served", log), c.kind # "profile",
             server'.zone = server.zone,
             excused' = IF c.waiting THEN excused ELSE excused \cup ReviewKeys
      PROVE  CacheInv'
  <2>1. ASSUME NEW k \in Keys \ excused', NoNews(k)'
        PROVE  NoNews(k) /\ Rows(k)' = Rows(k) /\ Parts(k)' = Parts(k)
    <3>1. k = "account"
      BY <1>1, <1>2, <1>4, <2>1, ServedNews
    <3> QED  BY <1>1, <1>4, <2>1, <3>1, ServedNews, AccountKept
  <2> QED  BY <1>1, <1>2, <1>4, <2>1, CallsCacheStep
<1>5. CASE ServeRecord(c)
  <2>1. ASSUME NEW due, server' = Rescheduled(Attempt(c), due)
        PROVE  server'.zone = server.zone
    <3>1. Recorded(server, Attempt(c)).zone = server.zone
      BY DEF Recorded, SheetInv, SheetTypes
    <3> QED  BY <2>1, <3>1 DEF Rescheduled, Recorded, SheetInv, SheetTypes
  <2> QED  BY <1>3, <1>4, <1>5, <2>1 DEF ServeRecord, Write
<1>6. CASE ServePause(c)
  <2>1. server'.zone = server.zone
    BY <1>6 DEF ServePause, Write, Toggled, SheetInv, SheetTypes
  <2> QED  BY <1>4, <1>6, <2>1 DEF ServePause, Write
<1>7. CASE ServeProfile(c)
  <2>1. /\ calls' = Answers(c, "served", NoLog) /\ c.kind = "profile"
        /\ excused' = excused \cup (IF c.waiting THEN ReviewKeys ELSE Keys)
    BY <1>7 DEF ServeProfile
  <2>2. ASSUME NEW k \in Keys \ excused' PROVE ~NoNews(k)'
    BY <1>1, <1>2, <2>1, ServedNews
  <2> QED  BY <1>1, <1>2, <2>1, <2>2, CallsCacheStep
<1> QED  BY <1>5, <1>6, <1>7 DEF Serve

LEMMA SettleCacheStep ==
    ASSUME SheetInv, CacheInv, NEW c \in calls, Settle(c)
    PROVE  CacheInv'
<1>1. CallOK(c) /\ UNCHANGED <<server, page, selection>> /\ excused \subseteq Keys
  BY DEF Settle, ReceiveRecord, ReceivePause, ReceiveProfile, ReceiveFailure, GiveUp,
         CallFails, SheetInv, CallsOK, CacheInv, CacheTypes
<1>2. ReviewKeys \in SUBSET Keys /\ {"account"} \in SUBSET Keys
  BY DEF Keys
<1>3. CASE ReceiveRecord(c) \/ ReceivePause(c)
  <2>1. c.kind # "profile" /\ calls' = calls \ {c} /\ InvalidateQueries(ReviewKeys)
    BY <1>3 DEF ReceiveRecord, ReceivePause
  <2>2. \A k \in Keys \ ReviewKeys : NoNews(k)' => NoNews(k)
    BY <2>1 DEF NoNews, Announces
  <2> QED  BY <1>1, <1>2, <2>1, <2>2, InvalidateStep
<1>4. CASE ReceiveProfile(c)
  <2>1. c.kind = "profile" /\ calls' = calls \ {c} /\ InvalidateQueries({"account"})
    BY <1>4 DEF ReceiveProfile
  <2>2. \A k \in Keys \ {"account"} : NoNews(k)' => NoNews(k)
    BY <2>1 DEF NoNews, Announces
  <2> QED  BY <1>1, <1>2, <2>1, <2>2, InvalidateStep
<1>5. CASE ReceiveFailure(c) \/ GiveUp(c)
  <2>1. /\ UNCHANGED <<cache, reads>> /\ calls \ {c} \subseteq calls'
        /\ excused \subseteq excused' /\ excused' \subseteq Keys
        /\ c.phase = "served" => excused' = Keys
    BY <1>1, <1>5 DEF ReceiveFailure, GiveUp, CallFails
  <2>2. \A k \in Keys \ excused' : NoNews(k)' => NoNews(k)
    BY <2>1 DEF NoNews, Announces
  <2>3. \A k \in Keys : Rows(k)' = Rows(k) /\ Parts(k)' = Parts(k)
    BY <1>1, RowsKept
  <2> QED  BY <1>1, <2>1, <2>2, <2>3, CallsCacheStep
<1> QED  BY <1>3, <1>4, <1>5 DEF Settle

\* Clicks send calls; nothing is announced by them.
LEMMA QuietStep ==
    ASSUME CacheInv, UNCHANGED <<server, page, selection, cache, reads, excused>>,
           calls \subseteq calls'
    PROVE  CacheInv'
<1>1. \A k \in Keys : NoNews(k)' => NoNews(k)
  BY DEF NoNews, Announces
<1>2. \A k \in Keys : Rows(k)' = Rows(k) /\ Parts(k)' = Parts(k)
  BY RowsKept
<1> QED  BY <1>1, <1>2, CallsCacheStep DEF CacheInv, CacheTypes

LEMMA CacheInvInit == Init => CacheInv
<1> SUFFICES ASSUME Init PROVE CacheInv
  OBVIOUS
<1>1. /\ cache = [k \in Keys |->
            IF k = "account" THEN Answer(EmptyEntry, Rows(k))
            ELSE IF k \in OnDisplay THEN StartFetch(EmptyEntry) ELSE EmptyEntry]
      /\ reads = [k \in Keys |-> <<>>] /\ excused = {}
  BY DEF Init
<1>2. IsEntry(EmptyEntry) /\ EmptyEntry.data = NoData /\ ~EmptyEntry.fetching
  BY DEF IsEntry, EmptyEntry, Errors
<1>3. ASSUME NEW k \in Keys
      PROVE  /\ EntryOK(k)
             /\ HasData(k) => Shown(k) = Rows(k)
             /\ reads[k] \in Parts(k)
  <2>1. reads[k] = <<>> /\ IsRead(reads[k]) /\ reads[k] \in Parts(k)
    BY <1>1 DEF IsRead, Parts
  <2>2. CASE k = "account"
    <3>1. cache[k] = Answer(EmptyEntry, Rows(k))
      BY <1>1, <2>2
    <3> QED  BY <2>1, <3>1, AnswerEntry DEF EntryOK, Shown
  <2>3. CASE k # "account" /\ k \in OnDisplay
    <3>1. cache[k] = StartFetch(EmptyEntry)
      BY <1>1, <2>3
    <3> QED  BY <1>2, <2>1, <2>3, <3>1, StartFetchEntry DEF EntryOK, HasData, Shown
  <2>4. CASE k # "account" /\ k \notin OnDisplay
    <3>1. cache[k] = EmptyEntry
      BY <1>1, <2>4
    <3> QED  BY <1>2, <2>1, <3>1 DEF EntryOK, HasData, Shown
  <2> QED  BY <2>2, <2>3, <2>4
<1>4. cache = [k \in Keys |-> cache[k]] /\ reads = [k \in Keys |-> reads[k]]
  BY <1>1
<1> QED  BY <1>1, <1>3, <1>4 DEF CacheInv, CacheTypes, Fresh

LEMMA CacheInvNext == SheetInv /\ CacheInv /\ [Next]_vars => CacheInv'
<1> SUFFICES ASSUME SheetInv, CacheInv, [Next]_vars PROVE CacheInv'
  OBVIOUS
<1>1. ASSUME NEW k \in Keys, Query(k) PROVE CacheInv'
  BY <1>1, RefetchStep, ReadStep, ReceiveStep, QueryFailsStep DEF Query
<1>2. ASSUME NEW c \in calls, Serve(c) \/ Settle(c) PROVE CacheInv'
  BY <1>2, ServeCacheStep, SettleCacheStep
<1>3. ASSUME NEW i \in Items, Start(i) PROVE CacheInv'
  BY <1>3, EnterCacheStep DEF Start
<1>4. ASSUME NEW i \in Items, TogglePause(i) PROVE CacheInv'
  BY <1>4, QuietStep DEF TogglePause
<1>5. CASE Close
  BY <1>5, EnterCacheStep DEF Close
<1>6. ASSUME NEW p \in Links, Visit(p) PROVE CacheInv'
  BY <1>6, EnterCacheStep DEF Visit
<1>7. ASSUME NEW o \in Outcomes, Submit(o) PROVE CacheInv'
  BY <1>7, QuietStep DEF Submit
<1>8. ASSUME NEW z \in Zones, SaveProfile(z) PROVE CacheInv'
  BY <1>8, QuietStep DEF SaveProfile
<1>9. CASE ReleasePending
  BY <1>9, QuietStep DEF ReleasePending
<1>10. CASE ProfileNavigates
  BY <1>10, EnterCacheStep DEF ProfileNavigates
<1>11. CASE ChangeElsewhere
  <2>1. UNCHANGED <<page, selection, cache, reads>> /\ excused' = Keys
    BY <1>11 DEF ChangeElsewhere
  <2> QED  BY <2>1, CallsCacheStep DEF CacheInv, CacheTypes
<1>12. CASE UNCHANGED vars
  BY <1>12, QuietStep DEF vars
<1> QED
  BY <1>1, <1>2, <1>3, <1>4, <1>5, <1>6, <1>7, <1>8, <1>9, <1>10, <1>11, <1>12 DEF Next

\* An entry and its request know of every write of this tab that has been answered,
\* in whatever order requests, writes, answers and navigation came.
THEOREM CacheInvariant == Spec => [](SheetInv /\ CacheInv)
<1>1. Init => SheetInv /\ CacheInv
  BY SheetInvInit, CacheInvInit
<1>2. SheetInv /\ CacheInv /\ [Next]_vars => (SheetInv /\ CacheInv)'
  BY SheetInvNext, CacheInvNext
<1> QED  BY <1>1, <1>2, PTL DEF Spec

\* Only a mounted query has a request in flight, and only it has read anything.
THEOREM PagesTypeCorrect == Spec => []PagesTypeOK
<1>1. SheetInv /\ CacheInv => PagesTypeOK
  <2> SUFFICES ASSUME SheetInv, CacheInv PROVE PagesTypeOK
    OBVIOUS
  <2>1. /\ server.due \subseteq Items /\ server.paused \subseteq Items
        /\ server.logs \subseteq LogRecords /\ server.zone \in Zones
    BY DEF SheetInv, SheetTypes
  <2>2. ASSUME NEW k \in Keys
        PROVE  /\ cache[k].error \in Errors
               /\ cache[k].fetching => k \in OnDisplay
               /\ Len(reads[k]) \in 0 .. 2 /\ (reads[k] # <<>> => cache[k].fetching)
    <3>1. EntryOK(k)
      BY DEF CacheInv, CacheTypes
    <3>2. Len(<<>>) = 0
      OBVIOUS
    <3>3. Len(reads[k]) \in 0 .. 2
      BY <3>1, <3>2 DEF EntryOK, IsRead
    <3> QED  BY <3>1, <3>3 DEF EntryOK, IsEntry
  <2>3. /\ panel.phase \in {"closed", "open", "sending", "saved"}
        /\ panel.phase # "closed" => panel.item = selection
        /\ opened \in 0 .. MaxPanels /\ panel.request \in 0 .. opened
    BY PagesAssumption DEF SheetInv, SheetTypes, SheetPhases, PanelOK
  <2>4. calls \subseteq CallRecords
    BY DEF SheetInv, CallsOK, CallOK
  <2>5. excused \subseteq Keys
    BY DEF CacheInv, CacheTypes
  <2> QED  BY <2>1, <2>2, <2>3, <2>4, <2>5 DEF PagesTypeOK, SheetInv, SheetTypes
<1> QED  BY <1>1, CacheInvariant, PTL

\* The comment of reviewServiceQueryKey, for any number of items, sheets, calls and
\* reads: when this tab's calls are answered, a settled page shows the server's rows,
\* and no dashboard is put together from before a write and after it.
THEOREM SettledPagesAreCurrent == Spec => []SettledPagesShowServer
<1>1. SheetInv /\ CacheInv => SettledPagesShowServer
  <2> SUFFICES ASSUME SheetInv, CacheInv, calls = {}, NEW k \in OnDisplay \ excused, Settled(k)
               PROVE  Shown(k) = Rows(k)
    BY DEF SettledPagesShowServer
  <2>1. NoNews(k)
    BY DEF NoNews
  <2>2. k \in Keys
    BY DisplayIsKeys DEF OnDisplay, SheetInv, SheetTypes
  <2> QED  BY <2>1, <2>2 DEF CacheInv, Fresh, Settled
<1> QED  BY <1>1, CacheInvariant, PTL
=============================================================================
