----------------------------- MODULE SessionFlow -----------------------------
(***************************************************************************)
(* What a tab shows while sessions come and go: the router's pages, the    *)
(* boundary around the protected ones (useAuthVerification), the login     *)
(* form and the sign-out of the sidebar, on top of the context and the     *)
(* cache of AuthContext.                                                   *)
(*                                                                         *)
(* "/login" stands for both forms (login, register), "/app" for the        *)
(* other protected pages.  An effect of React is an action of its own: it runs    *)
(* some time after the render whose values it tests.                       *)
(***************************************************************************)
EXTENDS AuthContext

Protected == {"/app", "/profile"}
Public == {"/", "/login"}
NoTarget == "none"

CONSTANT Links   \* bound: the pages that a user goes to by link, button or address

ASSUME LinksAssumption == Links \subseteq Protected \cup Public

VARIABLES
    path,             \* where the router is
    loginTarget,      \* redirectTo in the address of the login page
    redirectStarted,  \* redirectStartedRef of the mounted boundary
    redirecting,      \* per redirect: the address it is about to leave for the login
    form              \* the login form: how far a submission is, its destination, the
                      \* reload it awaits, and (history) whether a sign-out crossed it

pageVars == <<path, loginTarget, redirectStarted, redirecting>>
flowVars == <<path, loginTarget, redirectStarted, redirecting, form>>
vars == <<authVars, flowVars>>

IdleForm == [phase |-> "idle", target |-> NoTarget, reload |-> "none", crossed |-> FALSE]
Awaits(c) == form.phase = "reloading" /\ form.reload = c

Init ==
    /\ AuthInit
    /\ path \in Protected \cup Public
    /\ loginTarget = NoTarget
    /\ redirectStarted = FALSE
    /\ redirecting = [r \in Redirects |-> NoTarget]
    /\ form = IdleForm

-----------------------------------------------------------------------------
(* The boundary. *)

RpcRequiresLogin == account.error = "authentication"
NeedsLogin == auth.status = "unauthenticated" \/ RpcRequiresLogin
NeedsProfileSetup == account.data # NoData /\ ~account.data.setUp

AccountVerification ==
    IF IsPending(account) THEN "loading"
    ELSE IF IsError(account) THEN "transientError"
    ELSE IF NeedsProfileSetup /\ path # "/profile" THEN "loading"
    ELSE "ready"

AuthVerification ==
    CASE auth.status = "loading" -> "loading"
      [] auth.status = "error" -> "transientError"
      [] auth.status = "unauthenticated" -> "loading"
      [] auth.status = "authenticated" ->
            IF RpcRequiresLogin THEN "loading" ELSE AccountVerification

Shows(state) == path \in Protected /\ AuthVerification = state

GoWithRef(p, target) ==  \* mutant: the ref outlives its boundary
    /\ path' = p
    /\ loginTarget' = target
    /\ UNCHANGED redirectStarted
    /\ IF p \in Protected THEN UNCHANGED <<account, request>> ELSE DropRequest
\* The router goes to page p.  Outside the protected pages the boundary is gone,
\* with its ref and with the last user of the account entry.
GoTo(p, target) ==
    /\ path' = p
    /\ loginTarget' = target
    /\ IF p \in Protected
       THEN UNCHANGED <<redirectStarted, account, request>>
       ELSE redirectStarted' = FALSE /\ DropRequest

unmovedVars == <<storage, events, auth, previousUser, mount, reload,
                 overwritten, changes>>

\* A link, the browser's Back and Forward, an address typed in.
Visit(p) ==
    /\ p # path
    /\ GoTo(p, NoTarget)
    /\ UNCHANGED <<unmovedVars, signOuts, redirecting, form>>

\* The effect that sends to the login page.  A refused token is discarded first,
\* and until that is over the address may change; so may the ref, and then another
\* redirect starts.
StartRedirect(r) ==
    /\ path \in Protected /\ RpcRequiresLogin
    /\ ~redirectStarted
    /\ redirecting[r] = NoTarget
    /\ redirectStarted' = TRUE
    /\ redirecting' = [redirecting EXCEPT ![r] = path]
    /\ SignOutAsked(r)
    /\ UNCHANGED <<unmovedVars, account, request, path, loginTarget, form>>

RedirectAtOnce ==
    /\ path \in Protected /\ NeedsLogin /\ ~RpcRequiresLogin
    /\ ~redirectStarted
    /\ GoTo("/login", path)
    /\ UNCHANGED <<unmovedVars, signOuts, redirecting, form>>

StartAgain ==
    /\ path \in Protected /\ ~NeedsLogin
    /\ redirectStarted
    /\ redirectStarted' = FALSE
    /\ UNCHANGED <<authVars, path, loginTarget, redirecting, form>>

RedirectAnyPage(r) ==  \* mutant: the address is not looked at again
    /\ redirecting[r] # NoTarget
    /\ signOuts[r] = "idle"
    /\ redirecting' = [redirecting EXCEPT ![r] = NoTarget]
    /\ GoTo("/login", redirecting[r])
    /\ UNCHANGED <<unmovedVars, signOuts, form>>
\* The discarding has ended, well or not: leave, unless the page has changed.
Redirect(r) ==
    /\ redirecting[r] # NoTarget
    /\ signOuts[r] = "idle"
    /\ redirecting' = [redirecting EXCEPT ![r] = NoTarget]
    /\ IF path = redirecting[r]
       THEN GoTo("/login", redirecting[r])
       ELSE UNCHANGED <<path, loginTarget, redirectStarted, account, request>>
    /\ UNCHANGED <<unmovedVars, signOuts, form>>

RedirectToProfile ==
    /\ path \in Protected \ {"/profile"} /\ NeedsProfileSetup
    /\ GoTo("/profile", NoTarget)
    /\ UNCHANGED <<unmovedVars, signOuts, redirecting, form>>

\* onRetryClick of the boundary, and the same button of the index page.
RetrySession ==
    /\ auth.status = "error" /\ path # "/login"
    /\ \E c \in Reloads : Reload(c) /\ ~Awaits(c)
    /\ UNCHANGED flowVars

\* The account entry is fetched at a mount, at a retry, or when it is stale.
UseAccount == path \in Protected /\ FetchAccount /\ UNCHANGED flowVars

-----------------------------------------------------------------------------
(* The public pages. *)

\* The index page sends who is signed in on to the app.
EnterApp ==
    /\ path = "/" /\ auth.status = "authenticated"
    /\ GoTo("/app", NoTarget)
    /\ UNCHANGED <<unmovedVars, signOuts, redirecting, form>>

SafeRedirectPath(target) == IF target \in Protected THEN target ELSE "/app"

LeaveLogin ==
    /\ path = "/login" /\ auth.status = "authenticated"
    /\ GoTo(SafeRedirectPath(loginTarget), NoTarget)
    /\ UNCHANGED <<unmovedVars, signOuts, redirecting, form>>

\* Bound: one submission is under way, also across mounts of the form.
Submit ==
    /\ path = "/login" /\ form.phase = "idle"
    /\ form' = [IdleForm EXCEPT !.phase = "submitting",
                               !.target = SafeRedirectPath(loginTarget)]
    /\ UNCHANGED <<authVars, pageVars>>

\* An error, or the notice that a mail is on its way.
SubmitEndsHere ==
    /\ form.phase = "submitting"
    /\ form' = IdleForm
    /\ UNCHANGED <<authVars, pageVars>>

\* What says that nobody is signed in, or is still to be told so, from before.
SignOutOnItsWay ==
    \/ events # <<>>
    \/ \E c \in Callers : signOuts[c] = "removed"
    \/ \E c \in Reloads : reload[c].phase = "read" /\ reload[c].session = NoSession

SignsInUnsynced(s) ==  \* mutant: the form leaves the context to the auth event
    /\ form.phase = "submitting"
    /\ Store(s)
    /\ \E c \in Reloads :
        form' = [form EXCEPT !.phase = "reloading", !.reload = c, !.crossed = SignOutOnItsWay]
    /\ UNCHANGED <<auth, previousUser, mount, reload, signOuts, account, request,
                   overwritten, changes, pageVars>>
\* auth-js has a session; the form reloads the context before it navigates.
SubmitSignsIn(s) ==
    /\ form.phase = "submitting"
    /\ Store(s)
    /\ \E c \in Reloads :
        /\ ReloadStarts(c)
        /\ form' = [form EXCEPT !.phase = "reloading", !.reload = c, !.crossed = SignOutOnItsWay]
    /\ UNCHANGED <<previousUser, mount, signOuts, account, request, overwritten,
                   changes, pageVars>>

\* The destination is the one of the submission, wherever the tab is by now.
FormNavigates ==
    /\ form.phase = "reloading" /\ reload[form.reload].phase = "idle"
    /\ form' = IdleForm
    /\ GoTo(form.target, NoTarget)
    /\ UNCHANGED <<unmovedVars, signOuts, redirecting>>

-----------------------------------------------------------------------------
(* The sidebar, on protected pages. *)

ClickSignOut ==
    /\ Shows("ready")
    /\ SignOut("sidebar")
    /\ UNCHANGED flowVars

SidebarSignedOut == SignedOut("sidebar", "leaving") /\ UNCHANGED flowVars

\* handleSignOut goes on to the public page.
GoHome ==
    /\ signOuts["sidebar"] = "leaving"
    /\ signOuts' = [signOuts EXCEPT !["sidebar"] = "idle"]
    /\ GoTo("/", NoTarget)
    /\ UNCHANGED <<unmovedVars, redirecting, form>>

-----------------------------------------------------------------------------
\* auth-js, the network and the backend: what the pages only wait for.
Background ==
    /\ \/ DeliverEvent
       \/ MountReads \/ \E ok \in BOOLEAN : MountAnswers(ok)
       \/ \E c \in Reloads : ReloadReads(c) \/ \E ok \in BOOLEAN : ReloadAnswers(c, ok)
       \/ \E r \in Redirects : SignedOut(r, "idle")
       \/ SendRequest \/ ReceiveAnswer
    /\ UNCHANGED flowVars

\* A step that may leave the storage empty while a submission awaits its reload.
NoticeSignOut ==
    /\ form' = [form EXCEPT !.crossed =
                    @ \/ (form.phase = "reloading" /\ storage' = NoSession)]
    /\ UNCHANGED pageVars

SignOutAnswered(c) == (SignOutFails(c) \/ SessionRemoved(c)) /\ NoticeSignOut

OtherTabs == (\E s \in Stored : StorageChanges(s)) /\ NoticeSignOut

Boundary ==
    \/ \E r \in Redirects : StartRedirect(r) \/ Redirect(r)
    \/ RedirectAtOnce \/ StartAgain \/ RedirectToProfile
LoginForm == SubmitEndsHere \/ (\E s \in Sessions : SubmitSignsIn(s)) \/ FormNavigates
PublicPages == EnterApp \/ LeaveLogin
SidebarSteps == SidebarSignedOut \/ GoHome

Next ==
    \/ Background \/ OtherTabs \/ \E c \in Callers : SignOutAnswered(c)
    \/ UseAccount \/ RetrySession
    \/ Boundary \/ LoginForm \/ PublicPages \/ SidebarSteps
    \/ Submit \/ ClickSignOut
    \/ \E p \in Links : Visit(p)

Spec == Init /\ [][Next]_vars

\* Promises are settled, requests are answered; a pending entry is fetched when
\* its page mounts.  An effect runs after every render that changed what it tests,
\* and an await goes on once its own promise is settled, even if a refetch or a
\* retry soon disables them again: hence strong fairness.  Users and other tabs
\* need not do anything.
Fairness ==
    /\ WF_vars(DeliverEvent /\ UNCHANGED flowVars)
    /\ WF_vars((MountReads \/ \E ok \in BOOLEAN : MountAnswers(ok)) /\ UNCHANGED flowVars)
    /\ \A c \in Reloads :
        WF_vars((ReloadReads(c) \/ \E ok \in BOOLEAN : ReloadAnswers(c, ok)) /\ UNCHANGED flowVars)
    /\ WF_vars((SendRequest \/ ReceiveAnswer) /\ UNCHANGED flowVars)
    /\ WF_vars(UseAccount /\ IsPending(account))
    /\ \A c \in Callers : WF_vars(SignOutAnswered(c))
    /\ \A r \in Redirects :
        WF_vars(SignedOut(r, "idle") /\ UNCHANGED flowVars) /\ WF_vars(Redirect(r))
    /\ SF_vars(\E r \in Redirects : StartRedirect(r))
    /\ SF_vars(RedirectAtOnce) /\ SF_vars(RedirectToProfile) /\ WF_vars(StartAgain)
    /\ WF_vars(SubmitEndsHere \/ \E s \in Sessions : SubmitSignsIn(s)) /\ SF_vars(FormNavigates)
    /\ WF_vars(PublicPages) /\ WF_vars(SidebarSteps)

FairSpec == Spec /\ Fairness
-----------------------------------------------------------------------------
(* Properties. *)

Pages == Protected \cup Public
Targets == Protected \cup {NoTarget}

FlowTypeOK ==
    /\ TypeOK
    /\ path \in Pages
    /\ loginTarget \in Targets /\ (loginTarget # NoTarget => path = "/login")
    /\ redirectStarted \in BOOLEAN /\ (redirectStarted => path \in Protected)
    /\ redirecting \in [Redirects -> Targets]
    /\ form \in [phase : {"idle", "submitting", "reloading"}, target : Targets,
                reload : Reloads \cup {"none"}, crossed : BOOLEAN]

\* A protected page that is on display shows the account of the very user whose
\* session the next request will carry, as soon as this tab has had all events.
PageShowsStoredUser ==
    Shows("ready") /\ events = <<>> /\ ~overwritten =>
        account.data.user = UserOf[storage]

\* The comment in the redirect of the boundary: who has left the page in the
\* meantime, by signing out or otherwise, is not taken to the login page after all.
LoginOnlyFromItsPage ==
    [][path' = "/login" /\ path # "/login" /\ loginTarget' # NoTarget
        => path = loginTarget']_vars

\* The redirect was called off because the page had changed, and the ref still
\* says it is under way: this boundary will not start another one.
Stranded ==
    path \in Protected /\ NeedsLogin /\ redirectStarted
    /\ \A r \in Redirects : redirecting[r] = NoTarget

\* A protected page is not blank for ever: the boundary shows the page, shows an
\* error to retry, or leaves - unless its redirect is Stranded.
VisitSettles == Shows("loading") ~> ~Shows("loading") \/ Stranded

\* The comment before the form's reload (AuthForm): a submission that signs in goes
\* to the destination it had when it was sent, and does not enter it on the state of
\* before: the context says "signed out" only if somebody has signed out since, here
\* or in another tab, or such news was on its way already.
DestinationKnowsSignIn ==
    [][form.phase = "reloading" /\ form'.phase # "reloading" =>
        /\ path' = form.target
        /\ auth.status = "unauthenticated" => form.crossed]_vars

\* ... and it does go there: no submission stays pending, whether its reload succeeds
\* or fails, and whether it is answered before or after the auth event.
SubmissionReachesDestination ==
    DestinationKnowsSignIn /\ (form.phase # "idle" ~> form.phase = "idle")

\* frontend/README.md, sidebar: when the session is discarded the guard takes the
\* visitor back to the login page.
GuardReturnsToLogin ==
    path \in Protected /\ auth.status = "unauthenticated" ~>
        path \notin Protected \/ auth.status # "unauthenticated"
=============================================================================
