----------------------------- MODULE AuthContext -----------------------------
(***************************************************************************)
(* One browser tab's view of who is signed in (AuthProvider), next to the  *)
(* session that auth-js keeps in the storage all tabs share, and the cached *)
(* answer of GetCurrentAccount as the example of API data, which belongs   *)
(* to the user whose token the request carried.                            *)
(*                                                                         *)
(* Three things change the context: the auth events, which auth-js delivers *)
(* in the order of the storage's changes and some time after them; the     *)
(* answers of getSession, which read the storage at one moment and are     *)
(* applied at a later one; and a sign-out that has come back.              *)
(***************************************************************************)
EXTENDS Naturals, Sequences, FiniteSets, QueryCache

CONSTANTS
    Sessions,       \* sessions (tokens) that auth-js may hold
    Users,          \* users they belong to
    UserOf,         \* the user of a session
    NoSession,      \* nobody signed in
    NoUser,         \* the user of NoSession
    SetUp,          \* users who have set their profile up
    Redirects,      \* bound: redirects of the boundary that await their signOut
    Reloads,        \* bound: calls of reloadSession on their way
    MaxChanges,     \* bound: changes that other tabs and token refreshes make
    MaxEvents       \* bound: auth events on their way

Stored == Sessions \cup {NoSession}

ASSUME AuthAssumption ==
    /\ NoSession \notin Sessions
    /\ NoUser \notin Users /\ "undefined" \notin Users \cup {NoUser}
    /\ UserOf \in [Stored -> Users \cup {NoUser}]
    /\ \A s \in Stored : UserOf[s] = NoUser <=> s = NoSession
    /\ SetUp \subseteq Users
    /\ "sidebar" \notin Redirects
    /\ MaxChanges \in Nat /\ MaxEvents \in Nat \ {0}

Accounts == [user : Users, setUp : BOOLEAN]

ASSUME NoDataIsNoAccount == NoData \notin Accounts

VARIABLES
    storage,        \* the session in localStorage
    events,         \* auth events this tab has not had yet
    auth,           \* AuthState: status and session
    previousUser,   \* previousUserIDRef
    mount,          \* the getSession of the first effect
    reload,         \* per call: the getSession of reloadSession
    signOuts,       \* per caller: how far its signOut is
    account,        \* the cache entry of GetCurrentAccount
    request,        \* the request of that entry in flight
    overwritten,    \* history: the cache may hold what an outdated answer let in
    changes         \* MaxChanges used up

authVars == <<storage, events, auth, previousUser, mount, reload,
              signOuts, account, request, overwritten, changes>>

Statuses == {"loading", "authenticated", "unauthenticated", "error"}
Callers == {"sidebar"} \cup Redirects   \* signOut, clearSession

\* A getSession: asked, then read once the storage was looked at.
NoRead == [phase |-> "idle", session |-> NoSession]
Asked == [phase |-> "asked", session |-> NoSession]

\* A request: built, then sent with a token.
NoRequest == [phase |-> "idle", token |-> NoSession]
Built == [phase |-> "built", token |-> NoSession]

Loading == [status |-> "loading", session |-> NoSession]
Failed == [status |-> "error", session |-> NoSession]
AuthStateOf(s) ==
    [status |-> IF s = NoSession THEN "unauthenticated" ELSE "authenticated",
     session |-> s]

\* AuthProvider mounts, and auth-js reports the session it finds.
AuthInit ==
    /\ storage \in Stored
    /\ events = <<storage>>
    /\ auth = Loading
    /\ previousUser = "undefined"
    /\ mount = Asked
    /\ reload = [c \in Reloads |-> NoRead]
    /\ signOuts = [c \in Callers |-> "idle"]
    /\ account = EmptyEntry
    /\ request = NoRequest
    /\ overwritten = FALSE
    /\ changes = 0

-----------------------------------------------------------------------------
(* auth-js: the storage and its events. *)

\* The storage takes a new session, and this tab will hear of it.
Store(s) ==
    /\ Len(events) < MaxEvents
    /\ storage' = s
    /\ events' = Append(events, s)

\* Another tab signs in or out, opens a confirmation link, or the token is
\* refreshed.
StorageChanges(s) ==
    /\ changes < MaxChanges
    /\ s # storage
    /\ Store(s)
    /\ changes' = changes + 1
    /\ UNCHANGED <<auth, previousUser, mount, reload, signOuts, account, request,
                   overwritten>>

-----------------------------------------------------------------------------
(* AuthProvider. *)

ForgetEntryOnly ==  \* mutant: a fetch in flight outlives the clearing
    /\ account' = EmptyEntry
    /\ UNCHANGED request
\* queryClient.clear(): the data goes, and so does what is in flight.
ClearCache ==
    /\ account' = EmptyEntry
    /\ request' = NoRequest

KeepCacheOfUser(s) ==  \* mutant: only a sign-out clears, not a change of user
    /\ previousUser' = UserOf[s]
    /\ auth' = AuthStateOf(s)
    /\ IF s = NoSession THEN ClearCache ELSE UNCHANGED <<account, request>>
KeepCacheAtSignOut(s) ==  \* mutant: a sign-out does not count as a change
    /\ previousUser' = UserOf[s]
    /\ auth' = AuthStateOf(s)
    /\ IF previousUser \notin {"undefined", UserOf[s]} /\ s # NoSession
       THEN ClearCache ELSE UNCHANGED <<account, request>>
ChangesUser(s) == previousUser \notin {"undefined", UserOf[s]}
\* applySession
ApplySession(s) ==
    /\ previousUser' = UserOf[s]
    /\ auth' = AuthStateOf(s)
    /\ IF ChangesUser(s)
       THEN ClearCache
       ELSE UNCHANGED <<account, request>>

\* The storage has moved on from the session s that is being applied, and no event
\* is left that would correct it.  The cache is clean again once the user changes.
Outdated(s) == events = <<>> /\ s # storage
Overwrites(s) == overwritten' = (Outdated(s) \/ (overwritten /\ ~ChangesUser(s)))

MountKept == mount  \* mutant: authEventCount is not compared
\* authEventCount has moved: what the first getSession answers is ignored now.
MountOvertaken == NoRead

\* onAuthStateChange
DeliverEvent ==
    /\ events # <<>>
    /\ ApplySession(Head(events))
    /\ overwritten' = (overwritten /\ ~ChangesUser(Head(events)))
    /\ events' = Tail(events)
    /\ mount' = MountOvertaken
    /\ UNCHANGED <<storage, reload, signOuts, changes>>

MountReads ==
    /\ mount.phase = "asked"
    /\ mount' = [phase |-> "read", session |-> storage]
    /\ UNCHANGED <<storage, events, auth, previousUser, reload, signOuts,
                   account, request, overwritten, changes>>

\* The first getSession comes back, with the session or with an error.
MountAnswers(ok) ==
    /\ mount.phase = "read"
    /\ mount' = NoRead
    /\ IF ok THEN ApplySession(mount.session)
       ELSE auth' = Failed /\ UNCHANGED <<previousUser, account, request>>
    /\ UNCHANGED <<storage, events, reload, signOuts, overwritten, changes>>

\* reloadSession, of the retry button or of the login form.
ReloadStarts(c) ==
    /\ reload[c].phase = "idle"
    /\ auth' = Loading
    /\ reload' = [reload EXCEPT ![c] = Asked]

Reload(c) ==
    /\ ReloadStarts(c)
    /\ UNCHANGED <<storage, events, previousUser, mount, signOuts, account, request,
                   overwritten, changes>>

ReloadReads(c) ==
    /\ reload[c].phase = "asked"
    /\ reload' = [reload EXCEPT ![c] = [phase |-> "read", session |-> storage]]
    /\ UNCHANGED <<storage, events, auth, previousUser, mount, signOuts, account,
                   request, overwritten, changes>>

\* The answer is applied whatever has come since it was read.
ReloadAnswers(c, ok) ==
    /\ reload[c].phase = "read"
    /\ reload' = [reload EXCEPT ![c] = NoRead]
    /\ IF ok
       THEN ApplySession(reload[c].session) /\ Overwrites(reload[c].session)
       ELSE auth' = Failed /\ UNCHANGED <<previousUser, account, request, overwritten>>
    /\ UNCHANGED <<storage, events, mount, signOuts, changes>>

\* performSignOut: "asked" at auth-js, then "removed" from the storage.
SignOutAsked(c) ==
    /\ signOuts[c] = "idle"
    /\ signOuts' = [signOuts EXCEPT ![c] = "asked"]

SignOut(c) ==
    /\ SignOutAsked(c)
    /\ UNCHANGED <<storage, events, auth, previousUser, mount, reload, account,
                   request, overwritten, changes>>

\* auth-js could not reach its server: the session stays, performSignOut throws.
SignOutFails(c) ==
    /\ signOuts[c] = "asked"
    /\ signOuts' = [signOuts EXCEPT ![c] = "idle"]
    /\ UNCHANGED <<storage, events, auth, previousUser, mount, reload, account,
                   request, overwritten, changes>>

SessionRemoved(c) ==
    /\ signOuts[c] = "asked"
    /\ Store(NoSession)
    /\ signOuts' = [signOuts EXCEPT ![c] = "removed"]
    /\ UNCHANGED <<auth, previousUser, mount, reload, account, request, overwritten, changes>>

\* The await is over: applySession(null); next is what is left for the caller.
SignedOut(c, next) ==
    /\ signOuts[c] = "removed"
    /\ signOuts' = [signOuts EXCEPT ![c] = next]
    /\ ApplySession(NoSession)
    /\ Overwrites(NoSession)
    /\ UNCHANGED <<storage, events, mount, reload, changes>>

-----------------------------------------------------------------------------
(* GetCurrentAccount through the cache and the authenticated transport. *)

FetchStarts ==
    /\ auth.status = "authenticated"
    /\ ~account.fetching
    /\ account' = StartFetch(account)
    /\ request' = Built

FetchAccount ==
    /\ FetchStarts
    /\ UNCHANGED <<storage, events, auth, previousUser, mount, reload, signOuts, overwritten, changes>>

\* authenticationInterceptor: the token is the storage's at the moment of sending.
SendRequest ==
    /\ request.phase = "built"
    /\ request' = [phase |-> "sent", token |-> storage]
    /\ UNCHANGED <<storage, events, auth, previousUser, mount, reload,
                   signOuts, account, overwritten, changes>>

AccountOf(s) == [user |-> UserOf[s], setUp |-> UserOf[s] \in SetUp]

ReceiveAccount ==
    /\ request.phase = "sent" /\ request.token # NoSession
    /\ account' = Answer(account, AccountOf(request.token))
    /\ request' = NoRequest
    /\ UNCHANGED <<storage, events, auth, previousUser, mount, reload,
                   signOuts, overwritten, changes>>

\* No token, or one that is refused; or another error, after which the request is
\* built anew if it may be tried again.  In the end "transient" stands for all of these.
ReceiveError(error) ==
    /\ request.phase = "sent"
    /\ IF ShouldRetry(account, error)
       THEN account' = RetryFetch(account) /\ request' = Built
       ELSE /\ account' = FailFetch(account, IF error = "rejected" THEN "transient" ELSE error)
            /\ request' = NoRequest
    /\ UNCHANGED <<storage, events, auth, previousUser, mount, reload,
                   signOuts, overwritten, changes>>

ReceiveAnswer ==
    ReceiveAccount \/ \E error \in Errors \ {"none"} : ReceiveError(error)

\* No page uses the entry any more: the request is given up.
DropRequest ==
    /\ account' = CancelFetch(account)
    /\ request' = NoRequest

-----------------------------------------------------------------------------
(* Properties. *)

TypeOK ==
    /\ storage \in Stored
    /\ events \in Seq(Stored) /\ Len(events) <= MaxEvents
    /\ auth \in [status : Statuses, session : Stored]
    /\ auth.session # NoSession <=> auth.status = "authenticated"
    /\ previousUser \in Users \cup {NoUser, "undefined"}
    /\ mount \in [phase : {"idle", "asked", "read"}, session : Stored]
    /\ reload \in [Reloads -> [phase : {"idle", "asked", "read"}, session : Stored]]
    /\ signOuts \in [Callers -> {"idle", "asked", "removed", "leaving"}]
    /\ account \in EntryOf(Accounts)
    /\ request \in [phase : {"idle", "built", "sent"}, token : Stored]
    /\ account.fetching <=> request.phase # "idle"
    /\ overwritten \in BOOLEAN
    /\ changes \in 0 .. MaxChanges

\* Users of the session the context holds, the one stored, and those in between.
UsersOnTheWay ==
    {previousUser, UserOf[storage]} \cup {UserOf[events[i]] : i \in 1 .. Len(events)}

\* applySession's comment: when the user changes, no API data of the user before
\* stays in the cache, and none arrives later from a request that was in flight;
\* what is there belongs to the user on display or to one whose event is on its
\* way.  Excepted is the time from an outdated answer of reloadSession, or of a
\* sign-out, to the next change of user; see overwritten.
CacheBelongsToUser ==
    ~overwritten =>
        /\ account.data # NoData => account.data.user \in UsersOnTheWay
        /\ request.token # NoSession => UserOf[request.token] \in UsersOnTheWay

\* While nobody is signed in the cache holds nothing, nothing is in flight, and
\* so nothing can arrive.
SignedOutHoldsNothing ==
    auth.status = "unauthenticated" => account = EmptyEntry /\ request = NoRequest

\* The comment on the auth events: they keep the context at the newest session.
\* Once they have all been delivered the context holds the very session of the
\* storage, whatever the getSession of the mount answered in between.  The answers
\* of reloadSession and of a sign-out are not guarded like that one: excepted is the
\* time from one that is applied after the event which it should have preceded
\* to the next change of user; see overwritten.
ContextFollowsStorage ==
    ~overwritten /\ events = <<>> /\ auth.status \in {"authenticated", "unauthenticated"}
        => auth.session = storage
=============================================================================
