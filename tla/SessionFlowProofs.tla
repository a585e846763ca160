--------------------------- MODULE SessionFlowProofs ---------------------------
(***************************************************************************)
(* What holds of a tab for any number of sessions, users, events and       *)
(* changes elsewhere.  The invariant AuthInv is about the context alone:   *)
(* every step of SessionFlow is one of a dozen kinds of steps of it, and   *)
(* there is a lemma for each kind.                                         *)
(***************************************************************************)
EXTENDS SessionFlow, RequestErrors, SequenceTheorems, TLAPS

USE DEF Stored

-----------------------------------------------------------------------------
(* The invariant. *)

\* What the storage holds is what the last event on its way says.
LastEventIsStored == events # <<>> => events[Len(events)] = storage

\* The first event is still to come while the first getSession counts.
MountIsFirst == mount.phase # "idle" => events # <<>>

\* With all events delivered the ref is the user of the storage.
UserFollowsStorage ==
    ~overwritten /\ events = <<>> /\ previousUser # "undefined" =>
        previousUser = UserOf[storage]

\* The context and the ref are of one user.
ContextHasUser ==
    auth.status \in {"authenticated", "unauthenticated"} =>
        previousUser = UserOf[auth.session]

\* Without a user there is neither data nor a request that could bring it.
NobodyHoldsNothing ==
    previousUser \in {"undefined", NoUser} => account = EmptyEntry /\ request = NoRequest

AuthInv ==
    /\ TypeOK
    /\ LastEventIsStored
    /\ MountIsFirst
    /\ UserFollowsStorage
    /\ ContextHasUser
    /\ NobodyHoldsNothing
    /\ CacheBelongsToUser
    /\ ContextFollowsStorage

-----------------------------------------------------------------------------
(* The entry and its request. *)

CacheTypeOK ==
    /\ account \in EntryOf(Accounts)
    /\ request \in [phase : {"idle", "built", "sent"}, token : Stored]
    /\ account.fetching <=> request.phase # "idle"

CacheEmptied == account' = EmptyEntry /\ request' = NoRequest
CacheKept == account' = account /\ request' = request

LEMMA EmptyTypes == EmptyEntry \in EntryOf(Accounts) /\ ~EmptyEntry.fetching
BY RetriesAssumption DEF EmptyEntry, EntryOf, Errors

\* applySession leaves nothing of another user: the cache is emptied, unless the
\* user stays the same or nobody was signed in so far.
LEMMA ApplySessionKeeps ==
    ASSUME TypeOK, NobodyHoldsNothing, NEW s \in Stored, ApplySession(s)
    PROVE  /\ previousUser' = UserOf[s]
           /\ auth' = AuthStateOf(s)
           /\ \/ CacheEmptied
              \/ CacheKept /\ (previousUser = UserOf[s]
                                \/ (account = EmptyEntry /\ request = NoRequest))
           /\ CacheTypeOK'
           /\ NobodyHoldsNothing'
           /\ ContextHasUser'
           /\ previousUser' \in Users \cup {NoUser}
           /\ auth' \in [status : Statuses, session : Stored]
           /\ (auth'.session # NoSession <=> auth'.status = "authenticated")
<1>1. previousUser' = UserOf[s] /\ auth' = AuthStateOf(s)
  BY DEF ApplySession
<1>2. \/ CacheEmptied
      \/ CacheKept /\ (previousUser = UserOf[s]
                        \/ (account = EmptyEntry /\ request = NoRequest))
  <2>1. CASE previousUser \notin {"undefined", UserOf[s]}
    BY <2>1 DEF ApplySession, ChangesUser, ClearCache, CacheEmptied
  <2>2. CASE previousUser = UserOf[s]
    BY <2>2 DEF ApplySession, ChangesUser, CacheKept
  <2>3. CASE previousUser = "undefined"
    BY <2>3 DEF ApplySession, ChangesUser, CacheKept, NobodyHoldsNothing
  <2> QED  BY <2>1, <2>2, <2>3
<1>3. CacheTypeOK'
  BY <1>2, EmptyTypes DEF CacheTypeOK, CacheEmptied, CacheKept, TypeOK, NoRequest
<1>4. UserOf[s] \in Users \cup {NoUser} /\ UserOf[s] # "undefined"
  BY AuthAssumption
<1>5. NobodyHoldsNothing'
  BY <1>1, <1>2, <1>4 DEF NobodyHoldsNothing, CacheEmptied, CacheKept
<1>6. auth'.session = s /\ auth'.status \in {"authenticated", "unauthenticated"}
      /\ (s # NoSession <=> auth'.status = "authenticated")
      /\ auth' \in [status : Statuses, session : Stored]
  BY <1>1 DEF AuthStateOf, Statuses
<1>7. ContextHasUser'
  BY <1>1, <1>6 DEF ContextHasUser
<1> QED  BY <1>1, <1>2, <1>3, <1>4, <1>5, <1>6, <1>7

-----------------------------------------------------------------------------
(* The kinds of steps. *)

SignOutsOK == signOuts' \in [Callers -> {"idle", "asked", "removed", "leaving"}]
Reads == [phase : {"idle", "asked", "read"}, session : Stored]
ReloadsOK == reload' \in [Reloads -> Reads]

LEMMA SignOutsKept ==
    ASSUME AuthInv
    PROVE  /\ UNCHANGED signOuts => SignOutsOK
           /\ \A c \in Callers, to \in {"idle", "asked", "removed", "leaving"} :
                 signOuts' = [signOuts EXCEPT ![c] = to] => SignOutsOK
BY DEF AuthInv, TypeOK, SignOutsOK

LEMMA ReloadsKept ==
    ASSUME AuthInv
    PROVE  /\ UNCHANGED reload => ReloadsOK
           /\ \A c \in Reloads, r \in Reads : reload' = [reload EXCEPT ![c] = r] => ReloadsOK
BY DEF AuthInv, TypeOK, ReloadsOK, Reads

\* The users on the way do not change but for the ref, and the cache is as the
\* ref wants it.
LEMMA ApplyKeepsCacheOfUser ==
    ASSUME AuthInv, NEW s \in Stored, ApplySession(s),
           storage' = storage,
           \/ events' = events
           \/ events # <<>> /\ s = Head(events) /\ events' = Tail(events),
           ~overwritten' => ~overwritten \/ ChangesUser(s)
    PROVE  CacheBelongsToUser'
<1>1. \/ CacheEmptied
      \/ CacheKept /\ (previousUser = UserOf[s]
                        \/ (account = EmptyEntry /\ request = NoRequest))
  BY ApplySessionKeeps DEF AuthInv
<1>2. previousUser' = UserOf[s]
  BY ApplySessionKeeps DEF AuthInv
<1>3. CASE account' = EmptyEntry /\ request' = NoRequest
  BY <1>3 DEF CacheBelongsToUser, EmptyEntry, NoRequest
<1>4. CASE CacheKept /\ previousUser = UserOf[s]
  <2>1. events \in Seq(Stored)
    BY DEF AuthInv, TypeOK
  <2>2. \A i \in 1 .. Len(events) :
            \/ UserOf[events[i]] = UserOf[s]
            \/ \E j \in 1 .. Len(events') : events'[j] = events[i]
    <3>1. CASE events' = events
      BY <3>1
    <3>2. CASE events # <<>> /\ s = Head(events) /\ events' = Tail(events)
      <4> SUFFICES ASSUME NEW i \in 1 .. Len(events), i # 1
                   PROVE  \E j \in 1 .. Len(events') : events'[j] = events[i]
        BY <2>1, <3>2
      <4>1. i - 1 \in 1 .. Len(Tail(events)) /\ Tail(events)[i - 1] = events[i]
        BY <2>1, <3>2
      <4> QED  BY <3>2, <4>1
    <3> QED  BY <3>1, <3>2
  <2>3. UsersOnTheWay \subseteq UsersOnTheWay'
    BY <1>2, <1>4, <2>2 DEF UsersOnTheWay
  <2> QED
    BY <1>4, <2>3 DEF ChangesUser, CacheBelongsToUser, CacheKept, AuthInv
<1> QED  BY <1>1, <1>3, <1>4 DEF CacheEmptied, CacheKept

\* Store: an event follows the storage, and the user before it stays on the way.
LEMMA StoreKeepsCacheOfUser ==
    ASSUME AuthInv, NEW s \in Stored, Store(s),
           UNCHANGED <<previousUser, account, request, overwritten>>
    PROVE  CacheBelongsToUser' /\ LastEventIsStored' /\ events' # <<>>
           /\ events' \in Seq(Stored) /\ Len(events') <= MaxEvents
<1>1. events \in Seq(Stored) /\ MaxEvents \in Nat
  BY AuthAssumption DEF AuthInv, TypeOK
<1>2. /\ events' \in Seq(Stored) /\ Len(events') = Len(events) + 1
      /\ events'[Len(events')] = s
      /\ \A i \in 1 .. Len(events) : events'[i] = events[i]
  BY <1>1 DEF Store
<1>3. Len(events') <= MaxEvents /\ events' # <<>> /\ LastEventIsStored'
  BY <1>1, <1>2 DEF Store, LastEventIsStored
<1>4. CacheBelongsToUser'
  <2>1. CASE previousUser = "undefined"
    BY <2>1 DEF AuthInv, NobodyHoldsNothing, CacheBelongsToUser, EmptyEntry, NoRequest
  <2>2. CASE overwritten
    BY <2>2 DEF CacheBelongsToUser
  <2>3. CASE previousUser # "undefined" /\ ~overwritten
    <3>1. UserOf[storage] \in UsersOnTheWay'
      <4>1. CASE events = <<>>
        BY <2>3, <4>1 DEF AuthInv, UserFollowsStorage, UsersOnTheWay
      <4>2. CASE events # <<>>
        <5>1. Len(events) \in 1 .. Len(events') /\ events'[Len(events)] = storage
          BY <1>1, <1>2, <4>2 DEF AuthInv, LastEventIsStored
        <5> QED  BY <5>1 DEF UsersOnTheWay
      <4> QED  BY <4>1, <4>2
    <3>2. \A i \in 1 .. Len(events) : UserOf[events[i]] \in UsersOnTheWay'
      <4> SUFFICES ASSUME NEW i \in 1 .. Len(events)
                   PROVE  UserOf[events[i]] \in UsersOnTheWay'
        OBVIOUS
      <4>1. i \in 1 .. Len(events') /\ events'[i] = events[i]
        BY <1>1, <1>2
      <4> QED  BY <4>1 DEF UsersOnTheWay
    <3>3. UsersOnTheWay \subseteq UsersOnTheWay'
      BY <3>1, <3>2 DEF UsersOnTheWay
    <3> QED  BY <3>3 DEF AuthInv, CacheBelongsToUser
  <2> QED  BY <2>1, <2>2, <2>3 DEF AuthInv, TypeOK
<1> QED  BY <1>2, <1>3, <1>4

\* Every step that stores a session, here or in another tab.
LEMMA StoreStep ==
    ASSUME AuthInv, NEW s \in Stored, Store(s),
           UNCHANGED <<previousUser, mount, account, request, overwritten>>,
           auth' = auth \/ auth' = Loading,
           ReloadsOK, SignOutsOK,
           changes' \in 0 .. MaxChanges
    PROVE  AuthInv'
<1>1. CacheBelongsToUser' /\ LastEventIsStored' /\ events' # <<>>
      /\ events' \in Seq(Stored) /\ Len(events') <= MaxEvents
  BY StoreKeepsCacheOfUser
<1>2. TypeOK'
  BY <1>1 DEF AuthInv, TypeOK, Store, Loading, Statuses, ReloadsOK, Reads, SignOutsOK
<1>3. MountIsFirst' /\ UserFollowsStorage' /\ ContextFollowsStorage'
  BY <1>1 DEF MountIsFirst, UserFollowsStorage, ContextFollowsStorage
<1>4. ContextHasUser' /\ NobodyHoldsNothing'
  BY DEF AuthInv, ContextHasUser, NobodyHoldsNothing, Loading
<1> QED  BY <1>1, <1>2, <1>3, <1>4 DEF AuthInv

\* Every step that applies a session: an event, the answer of a getSession, the end
\* of a sign-out.  What is applied is the newest, or an event is on its way, or the
\* history records that it was not.
LEMMA ApplyStep ==
    ASSUME AuthInv, NEW s \in Stored, ApplySession(s),
           storage' = storage, changes' = changes,
           \/ events' = events
           \/ events # <<>> /\ s = Head(events) /\ events' = Tail(events) /\ mount' = NoRead,
           mount' = mount \/ mount' = NoRead,
           ReloadsOK, SignOutsOK,
           overwritten' \in BOOLEAN,
           ~overwritten' => ~overwritten \/ ChangesUser(s),
           events' = <<>> /\ ~overwritten' => s = storage
    PROVE  AuthInv'
<1>1. /\ previousUser' = UserOf[s] /\ auth' = AuthStateOf(s)
      /\ CacheTypeOK' /\ NobodyHoldsNothing' /\ ContextHasUser'
      /\ previousUser' \in Users \cup {NoUser}
      /\ auth' \in [status : Statuses, session : Stored]
      /\ (auth'.session # NoSession <=> auth'.status = "authenticated")
  BY ApplySessionKeeps DEF AuthInv
<1>2. CacheBelongsToUser'
  BY ApplyKeepsCacheOfUser
<1>3. events' \in Seq(Stored) /\ Len(events') <= MaxEvents /\ LastEventIsStored'
  <2>1. events \in Seq(Stored) /\ Len(events) <= MaxEvents /\ MaxEvents \in Nat
    BY AuthAssumption DEF AuthInv, TypeOK
  <2>2. CASE events' = events
    BY <2>1, <2>2 DEF AuthInv, LastEventIsStored
  <2>3. CASE events # <<>> /\ s = Head(events) /\ events' = Tail(events)
    <3>1. events' \in Seq(Stored) /\ Len(events') = Len(events) - 1
      BY <2>1, <2>3
    <3>2. events' # <<>> => events'[Len(events')] = events[Len(events)]
      BY <2>1, <2>3
    <3>3. Len(events') <= MaxEvents
      BY <2>1, <3>1
    <3>4. LastEventIsStored'
      BY <2>3, <3>2 DEF AuthInv, LastEventIsStored
    <3> QED  BY <3>1, <3>3, <3>4
  <2> QED  BY <2>2, <2>3
<1>4. TypeOK'
  BY <1>1, <1>3 DEF AuthInv, TypeOK, CacheTypeOK, NoRead, ReloadsOK, Reads, SignOutsOK
<1>5. MountIsFirst'
  BY DEF AuthInv, MountIsFirst, NoRead
<1>6. UserFollowsStorage'
  BY <1>1 DEF UserFollowsStorage
<1>7. ContextFollowsStorage'
  BY <1>1 DEF ContextFollowsStorage, AuthStateOf
<1>8. NobodyHoldsNothing' /\ ContextHasUser' /\ LastEventIsStored'
  BY <1>1, <1>3
<1> QED  BY <1>2, <1>4, <1>5, <1>6, <1>7, <1>8 DEF AuthInv

LEMMA DropTypes ==
    ASSUME NEW e \in EntryOf(Accounts)
    PROVE  /\ CancelFetch(e) \in EntryOf(Accounts)
           /\ CancelFetch(e).data = e.data /\ ~CancelFetch(e).fetching
           /\ e = EmptyEntry => CancelFetch(e) = EmptyEntry
<1>1. CancelFetch(e).data = e.data /\ ~CancelFetch(e).fetching
  BY DEF CancelFetch, FailFetch
<1>2. CancelFetch(e) \in EntryOf(Accounts)
  BY RetriesAssumption DEF CancelFetch, FailFetch, EntryOf
<1>3. e = EmptyEntry => CancelFetch(e) = EmptyEntry
  BY DEF CancelFetch, FailFetch, EmptyEntry
<1> QED  BY <1>1, <1>2, <1>3

\* Every step that neither stores nor applies a session nor brings an answer.
LEMMA NeutralStep ==
    ASSUME AuthInv,
           UNCHANGED <<storage, events, previousUser, overwritten, changes>>,
           auth' = auth \/ auth' = Loading \/ auth' = Failed,
           \/ mount' = mount
           \/ mount' = NoRead
           \/ mount.phase # "idle" /\ mount' = [phase |-> "read", session |-> storage],
           ReloadsOK, SignOutsOK,
           CacheKept \/ DropRequest
    PROVE  AuthInv'
<1>1. /\ account' \in EntryOf(Accounts)
      /\ request' \in [phase : {"idle", "built", "sent"}, token : Stored]
      /\ (account'.fetching <=> request'.phase # "idle")
      /\ account'.data = account.data
      /\ request' = request \/ request' = NoRequest
      /\ (account = EmptyEntry => account' = EmptyEntry)
  <2>1. CASE CacheKept
    BY <2>1 DEF AuthInv, TypeOK, CacheKept
  <2>2. CASE DropRequest
    BY <2>2, DropTypes DEF AuthInv, TypeOK, DropRequest, NoRequest
  <2> QED  BY <2>1, <2>2
<1>2. TypeOK'
  BY <1>1 DEF AuthInv, TypeOK, Loading, Failed, Statuses, NoRead, Reads, ReloadsOK, SignOutsOK
<1>3. LastEventIsStored' /\ MountIsFirst' /\ UserFollowsStorage'
  BY DEF AuthInv, LastEventIsStored, MountIsFirst, UserFollowsStorage, NoRead
<1>4. ContextHasUser' /\ ContextFollowsStorage'
  BY DEF AuthInv, ContextHasUser, ContextFollowsStorage, Loading, Failed
<1>5. NobodyHoldsNothing'
  BY <1>1 DEF AuthInv, NobodyHoldsNothing
<1>6. CacheBelongsToUser'
  BY <1>1 DEF AuthInv, CacheBelongsToUser, UsersOnTheWay, NoRequest
<1> QED  BY <1>2, <1>3, <1>4, <1>5, <1>6 DEF AuthInv

\* Every step of a request: who is signed in does not change, and what is sent or
\* arrives is of a user on the way.
LEMMA RequestStep ==
    ASSUME AuthInv,
           UNCHANGED <<storage, events, auth, previousUser, mount, reload, signOuts,
                       overwritten, changes>>,
           CacheTypeOK',
           previousUser \notin {"undefined", NoUser},
           \/ account'.data = account.data
           \/ request.token # NoSession /\ account'.data = AccountOf(request.token),
           \/ request'.token \in {NoSession, request.token}
           \/ request'.token = storage
    PROVE  AuthInv'
<1>1. TypeOK'
  BY DEF AuthInv, TypeOK, CacheTypeOK
<1>2. LastEventIsStored' /\ MountIsFirst' /\ UserFollowsStorage'
      /\ ContextHasUser' /\ ContextFollowsStorage'
  BY DEF AuthInv, LastEventIsStored, MountIsFirst, UserFollowsStorage, ContextHasUser,
         ContextFollowsStorage
<1>3. NobodyHoldsNothing'
  BY DEF NobodyHoldsNothing
<1>4. UsersOnTheWay' = UsersOnTheWay /\ UserOf[storage] \in UsersOnTheWay
  BY DEF UsersOnTheWay
<1>5. CacheBelongsToUser'
  BY <1>4 DEF AuthInv, CacheBelongsToUser, AccountOf
<1> QED  BY <1>1, <1>2, <1>3, <1>5 DEF AuthInv

-----------------------------------------------------------------------------
(* The invariant is inductive. *)

\* Whatever moves the router leaves the context alone.
LEMMA MoveStep ==
    ASSUME AuthInv, NEW p, NEW t, GoTo(p, t), UNCHANGED unmovedVars, SignOutsOK
    PROVE  AuthInv'
<1>1. UNCHANGED <<storage, events, previousUser, overwritten, changes, auth, mount, reload>>
  BY DEF unmovedVars
<1>2. CacheKept \/ DropRequest
  BY DEF GoTo, CacheKept
<1>3. ReloadsOK
  BY <1>1, ReloadsKept
<1> QED  BY <1>1, <1>2, <1>3, NeutralStep

LEMMA IdleStep ==
    ASSUME AuthInv, UNCHANGED unmovedVars, UNCHANGED <<account, request>>, SignOutsOK
    PROVE  AuthInv'
<1>1. UNCHANGED <<storage, events, previousUser, overwritten, changes, auth, mount, reload>>
  BY DEF unmovedVars
<1>2. CacheKept
  BY DEF CacheKept
<1>3. ReloadsOK
  BY <1>1, ReloadsKept
<1> QED  BY <1>1, <1>2, <1>3, NeutralStep

LEMMA DeliverEventStep == ASSUME AuthInv, DeliverEvent PROVE AuthInv'
<1>1. events \in Seq(Stored) /\ events # <<>>
  BY DEF AuthInv, TypeOK, DeliverEvent
<1>2. Head(events) \in Stored
  BY <1>1
<1>3. Tail(events) = <<>> => Head(events) = storage
  <2>1. Len(Tail(events)) = Len(events) - 1 /\ Len(events) \in Nat
    BY <1>1
  <2>2. Head(events) = events[1]
    BY <1>1
  <2>3. Tail(events) = <<>> => Len(events) = 1
    <3>1. Tail(events) = <<>> => Len(Tail(events)) = 0
      BY EmptySeq, Zenon
    <3> QED  BY <2>1, <3>1
  <2>4. events[Len(events)] = storage
    BY <1>1 DEF AuthInv, LastEventIsStored
  <2> QED  BY <2>2, <2>3, <2>4
<1>4. SignOutsOK /\ ReloadsOK
  BY SignOutsKept, ReloadsKept DEF DeliverEvent
<1>5. overwritten' \in BOOLEAN /\ (~overwritten' => ~overwritten \/ ChangesUser(Head(events)))
  BY DEF AuthInv, TypeOK, DeliverEvent
<1> QED  BY <1>1, <1>2, <1>3, <1>4, <1>5, ApplyStep DEF DeliverEvent, MountOvertaken

LEMMA MountStep ==
    ASSUME AuthInv, MountReads \/ \E ok \in BOOLEAN : MountAnswers(ok) PROVE AuthInv'
<1>1. SignOutsOK /\ ReloadsOK
  BY SignOutsKept, ReloadsKept DEF MountReads, MountAnswers
<1>2. CASE MountReads
  BY <1>1, <1>2, NeutralStep DEF MountReads, CacheKept
<1>3. CASE MountAnswers(TRUE)
  <2>1. mount.session \in Stored /\ overwritten \in BOOLEAN
    BY DEF AuthInv, TypeOK
  <2>2. events # <<>>
    BY <1>3 DEF AuthInv, MountIsFirst, MountAnswers
  <2> QED  BY <1>1, <1>3, <2>1, <2>2, ApplyStep DEF MountAnswers
<1>4. CASE MountAnswers(FALSE)
  BY <1>1, <1>4, NeutralStep DEF MountAnswers, CacheKept
<1> QED  BY <1>2, <1>3, <1>4

\* What the history says of an answer that may be outdated is what ApplyStep needs.
LEMMA OverwritesKeeps ==
    ASSUME AuthInv, NEW s \in Stored, Overwrites(s)
    PROVE  /\ overwritten' \in BOOLEAN
           /\ ~overwritten' => ~overwritten \/ ChangesUser(s)
           /\ events = <<>> /\ ~overwritten' => s = storage
BY DEF AuthInv, TypeOK, Overwrites, Outdated

LEMMA ReloadStep ==
    ASSUME AuthInv, NEW c \in Reloads,
           Reload(c) \/ ReloadReads(c) \/ \E ok \in BOOLEAN : ReloadAnswers(c, ok)
    PROVE  AuthInv'
<1>1. SignOutsOK
  BY SignOutsKept DEF Reload, ReloadReads, ReloadAnswers
<1>2. ReloadsOK
  <2>1. Asked \in Reads /\ NoRead \in Reads
        /\ [phase |-> "read", session |-> storage] \in Reads
    BY DEF AuthInv, TypeOK, Asked, NoRead, Reads
  <2> QED  BY <2>1, ReloadsKept DEF Reload, ReloadStarts, ReloadReads, ReloadAnswers
<1>3. CASE Reload(c)
  BY <1>1, <1>2, <1>3, NeutralStep DEF Reload, ReloadStarts, CacheKept
<1>4. CASE ReloadReads(c)
  BY <1>1, <1>2, <1>4, NeutralStep DEF ReloadReads, CacheKept
<1>5. CASE ReloadAnswers(c, TRUE)
  <2>1. reload[c].session \in Stored
    BY DEF AuthInv, TypeOK
  <2>2. ApplySession(reload[c].session) /\ Overwrites(reload[c].session)
        /\ UNCHANGED <<storage, events, mount, signOuts, changes>>
    BY <1>5 DEF ReloadAnswers
  <2> QED  BY <1>1, <1>2, <2>1, <2>2, OverwritesKeeps, ApplyStep
<1>6. CASE ReloadAnswers(c, FALSE)
  BY <1>1, <1>2, <1>6, NeutralStep DEF ReloadAnswers, CacheKept
<1> QED  BY <1>3, <1>4, <1>5, <1>6

LEMMA SignOutStep ==
    ASSUME AuthInv, NEW c \in Callers,
           \/ SignOut(c) \/ SignOutFails(c) \/ SessionRemoved(c)
           \/ SignedOut(c, "idle") \/ SignedOut(c, "leaving")
    PROVE  AuthInv'
<1>1. SignOutsOK
  BY SignOutsKept DEF SignOut, SignOutAsked, SignOutFails, SessionRemoved, SignedOut
<1>2. CASE SignOut(c) \/ SignOutFails(c)
  <2>1. UNCHANGED unmovedVars /\ UNCHANGED <<account, request>>
    BY <1>2 DEF SignOut, SignOutFails, unmovedVars
  <2> QED  BY <1>1, <2>1, IdleStep
<1>3. CASE SessionRemoved(c)
  <2>1. changes' \in 0 .. MaxChanges /\ ReloadsOK
    BY <1>3, ReloadsKept DEF AuthInv, TypeOK, SessionRemoved
  <2> QED  BY <1>1, <1>3, <2>1, StoreStep DEF SessionRemoved
<1>4. CASE SignedOut(c, "idle") \/ SignedOut(c, "leaving")
  <2>1. ApplySession(NoSession) /\ Overwrites(NoSession)
        /\ UNCHANGED <<storage, events, mount, reload, changes>>
    BY <1>4 DEF SignedOut
  <2>2. ReloadsOK
    BY <2>1, ReloadsKept
  <2> QED  BY <1>1, <2>1, <2>2, OverwritesKeeps, ApplyStep
<1> QED  BY <1>2, <1>3, <1>4

LEMMA CacheTypes ==
    ASSUME NEW e \in EntryOf(Accounts), NEW error \in Errors, NEW s \in Stored
    PROVE  /\ StartFetch(e) \in EntryOf(Accounts) /\ StartFetch(e).fetching
           /\ StartFetch(e).data = e.data
           /\ FailFetch(e, error) \in EntryOf(Accounts) /\ ~FailFetch(e, error).fetching
           /\ FailFetch(e, error).data = e.data
           /\ e.failures < MaxRetries =>
                 RetryFetch(e) \in EntryOf(Accounts) /\ RetryFetch(e).fetching = e.fetching
                 /\ RetryFetch(e).data = e.data
           /\ s # NoSession =>
                 Answer(e, AccountOf(s)) \in EntryOf(Accounts) /\ ~Answer(e, AccountOf(s)).fetching
<1>1. StartFetch(e) \in EntryOf(Accounts) /\ StartFetch(e).fetching
      /\ StartFetch(e).data = e.data
  BY RetriesAssumption DEF StartFetch, EntryOf, Errors
<1>2. FailFetch(e, error) \in EntryOf(Accounts) /\ ~FailFetch(e, error).fetching
      /\ FailFetch(e, error).data = e.data
  BY RetriesAssumption DEF FailFetch, EntryOf
<1>3. ASSUME e.failures < MaxRetries
      PROVE  RetryFetch(e) \in EntryOf(Accounts) /\ RetryFetch(e).fetching = e.fetching
             /\ RetryFetch(e).data = e.data
  <2>1. e.failures + 1 \in 0 .. MaxRetries
    BY <1>3, RetriesAssumption DEF EntryOf
  <2> QED  BY <2>1 DEF RetryFetch, EntryOf
<1>4. ASSUME s # NoSession
      PROVE  Answer(e, AccountOf(s)) \in EntryOf(Accounts) /\ ~Answer(e, AccountOf(s)).fetching
  <2>1. UserOf[s] \in Users
    BY <1>4, AuthAssumption
  <2>2. AccountOf(s) \in Accounts
    BY <2>1 DEF AccountOf, Accounts
  <2> QED  BY <2>2, RetriesAssumption DEF Answer, EntryOf, Errors
<1> QED  BY <1>1, <1>2, <1>3, <1>4

LEMMA FetchAccountStep == ASSUME AuthInv, FetchAccount PROVE AuthInv'
<1>1. account \in EntryOf(Accounts)
  BY DEF AuthInv, TypeOK
<1>2. account' = StartFetch(account) /\ request' = Built /\ auth.status = "authenticated"
  BY DEF FetchAccount, FetchStarts
<1>3. previousUser \notin {"undefined", NoUser}
  BY <1>2, AuthAssumption DEF AuthInv, TypeOK, ContextHasUser
<1>4. account' \in EntryOf(Accounts) /\ account'.fetching /\ account'.data = account.data
  BY <1>1, <1>2, CacheTypes DEF Errors
<1>5. CacheTypeOK' /\ request'.token = NoSession
  BY <1>2, <1>4 DEF CacheTypeOK, Built
<1> QED  BY <1>3, <1>4, <1>5, RequestStep DEF FetchAccount

LEMMA SendRequestStep == ASSUME AuthInv, SendRequest PROVE AuthInv'
<1>1. previousUser \notin {"undefined", NoUser}
  BY DEF AuthInv, NobodyHoldsNothing, SendRequest, NoRequest
<1>2. CacheTypeOK' /\ request'.token = storage
  BY DEF AuthInv, TypeOK, CacheTypeOK, SendRequest
<1> QED  BY <1>1, <1>2, RequestStep DEF SendRequest

LEMMA ReceiveAnswerStep == ASSUME AuthInv, ReceiveAnswer PROVE AuthInv'
<1>1. account \in EntryOf(Accounts) /\ request.phase = "sent" /\ account.fetching
      /\ request.token \in Stored
  BY DEF AuthInv, TypeOK, ReceiveAnswer, ReceiveAccount, ReceiveError
<1>2. previousUser \notin {"undefined", NoUser}
  BY <1>1 DEF AuthInv, NobodyHoldsNothing, NoRequest
<1>3. CASE ReceiveAccount
  <2>1. request.token # NoSession /\ request' = NoRequest
        /\ account' = Answer(account, AccountOf(request.token))
    BY <1>3 DEF ReceiveAccount
  <2>2. CacheTypeOK'
    BY <1>1, <2>1, CacheTypes DEF CacheTypeOK, NoRequest, Errors
  <2>3. account'.data = AccountOf(request.token) /\ request'.token = NoSession
    BY <2>1 DEF Answer, NoRequest
  <2> QED  BY <1>2, <1>3, <2>1, <2>2, <2>3, RequestStep DEF ReceiveAccount
<1>4. ASSUME NEW error \in Errors \ {"none"}, ReceiveError(error)
      PROVE  AuthInv'
  <2>1. CASE ShouldRetry(account, error)
    <3>1. account' = RetryFetch(account) /\ request' = Built
      BY <1>4, <2>1 DEF ReceiveError
    <3>2. CacheTypeOK' /\ account'.data = account.data /\ request'.token = NoSession
      BY <1>1, <2>1, <3>1, CacheTypes DEF CacheTypeOK, Built, ShouldRetry, Errors
    <3> QED  BY <1>2, <1>4, <3>2, RequestStep DEF ReceiveError
  <2>2. CASE ~ShouldRetry(account, error)
    <3>1. PICK e \in Errors : account' = FailFetch(account, e) /\ request' = NoRequest
      BY <1>4, <2>2 DEF ReceiveError, Errors
    <3>2. CacheTypeOK' /\ account'.data = account.data /\ request'.token = NoSession
      <4>1. /\ account' \in EntryOf(Accounts) /\ ~account'.fetching
            /\ account'.data = account.data
        BY <1>1, <3>1, CacheTypes
      <4> QED  BY <3>1, <4>1 DEF CacheTypeOK, NoRequest
    <3> QED  BY <1>2, <1>4, <3>2, RequestStep DEF ReceiveError
  <2> QED  BY <2>1, <2>2
<1> QED  BY <1>3, <1>4 DEF ReceiveAnswer

LEMMA AuthInvInit == Init => AuthInv
<1> SUFFICES ASSUME Init PROVE AuthInv
  OBVIOUS
<1>1. TypeOK
  <2>1. events \in Seq(Stored) /\ Len(events) <= MaxEvents
    BY AuthAssumption DEF Init, AuthInit
  <2>2. account \in EntryOf(Accounts) /\ ~account.fetching
    BY EmptyTypes DEF Init, AuthInit
  <2>3. /\ auth \in [status : Statuses, session : Stored]
        /\ auth.session # NoSession <=> auth.status = "authenticated"
    BY DEF Init, AuthInit, Loading, Statuses
  <2>4. /\ mount \in [phase : {"idle", "asked", "read"}, session : Stored]
        /\ reload \in [Reloads -> [phase : {"idle", "asked", "read"}, session : Stored]]
        /\ request \in [phase : {"idle", "built", "sent"}, token : Stored]
        /\ request.phase = "idle"
    BY DEF Init, AuthInit, Asked, NoRead, NoRequest
  <2>5. signOuts \in [Callers -> {"idle", "asked", "removed", "leaving"}]
    BY DEF Init, AuthInit
  <2>6. storage \in Stored /\ overwritten \in BOOLEAN
    BY DEF Init, AuthInit
  <2>7. previousUser \in Users \cup {NoUser, "undefined"} /\ changes \in 0 .. MaxChanges
    BY AuthAssumption DEF Init, AuthInit
  <2> QED  BY <2>1, <2>2, <2>3, <2>4, <2>5, <2>6, <2>7 DEF TypeOK
<1>2. LastEventIsStored /\ MountIsFirst
  BY DEF Init, AuthInit, LastEventIsStored, MountIsFirst
<1>3. UserFollowsStorage /\ ContextHasUser /\ NobodyHoldsNothing /\ ContextFollowsStorage
  BY DEF Init, AuthInit, Loading, UserFollowsStorage, ContextHasUser, NobodyHoldsNothing,
         ContextFollowsStorage
<1>4. CacheBelongsToUser
  BY DEF Init, AuthInit, CacheBelongsToUser, EmptyEntry, NoRequest
<1> QED  BY <1>1, <1>2, <1>3, <1>4 DEF AuthInv

LEMMA AuthInvNext == AuthInv /\ [Next]_vars => AuthInv'
<1> SUFFICES ASSUME AuthInv, [Next]_vars PROVE AuthInv'
  OBVIOUS
<1>1. CASE Background
  <2>1. CASE DeliverEvent
    BY <2>1, DeliverEventStep
  <2>2. CASE MountReads \/ \E ok \in BOOLEAN : MountAnswers(ok)
    BY <2>2, MountStep
  <2>3. CASE \E c \in Reloads : ReloadReads(c) \/ \E ok \in BOOLEAN : ReloadAnswers(c, ok)
    BY <2>3, ReloadStep
  <2>4. CASE \E r \in Redirects : SignedOut(r, "idle")
    BY <2>4, SignOutStep DEF Callers
  <2>5. CASE SendRequest \/ ReceiveAnswer
    BY <2>5, SendRequestStep, ReceiveAnswerStep
  <2> QED  BY <1>1, <2>1, <2>2, <2>3, <2>4, <2>5 DEF Background
<1>2. CASE OtherTabs
  <2>1. PICK s \in Stored : StorageChanges(s)
    BY <1>2 DEF OtherTabs
  <2>2. SignOutsOK /\ ReloadsOK
    BY <2>1, SignOutsKept, ReloadsKept DEF StorageChanges
  <2>3. changes' \in 0 .. MaxChanges
    BY <2>1, AuthAssumption DEF StorageChanges, AuthInv, TypeOK
  <2> QED  BY <2>1, <2>2, <2>3, StoreStep DEF StorageChanges
<1>3. CASE \E c \in Callers : SignOutAnswered(c)
  BY <1>3, SignOutStep DEF SignOutAnswered
<1>4. CASE UseAccount
  BY <1>4, FetchAccountStep DEF UseAccount
<1>5. CASE RetrySession
  BY <1>5, ReloadStep DEF RetrySession
<1>6. CASE Boundary
  <2>1. ASSUME NEW r \in Redirects, StartRedirect(r) PROVE AuthInv'
    <3>1. SignOutsOK
      BY <2>1, SignOutsKept DEF StartRedirect, SignOutAsked, Callers
    <3> QED  BY <2>1, <3>1, IdleStep DEF StartRedirect
  <2>2. CASE RedirectAtOnce
    BY <2>2, MoveStep, SignOutsKept DEF RedirectAtOnce
  <2>3. CASE StartAgain
    <3>1. UNCHANGED unmovedVars /\ UNCHANGED <<signOuts, account, request>>
      BY <2>3 DEF StartAgain, authVars, unmovedVars
    <3> QED  BY <3>1, IdleStep, SignOutsKept
  <2>4. ASSUME NEW r \in Redirects, Redirect(r) PROVE AuthInv'
    <3>1. UNCHANGED unmovedVars /\ UNCHANGED signOuts
          /\ (GoTo("/login", redirecting[r]) \/ UNCHANGED <<account, request>>)
      BY <2>4 DEF Redirect
    <3> QED  BY <3>1, IdleStep, MoveStep, SignOutsKept
  <2>5. CASE RedirectToProfile
    BY <2>5, MoveStep, SignOutsKept DEF RedirectToProfile
  <2> QED  BY <1>6, <2>1, <2>2, <2>3, <2>4, <2>5 DEF Boundary
<1>7. CASE LoginForm
  <2>1. CASE SubmitEndsHere
    <3>1. UNCHANGED unmovedVars /\ UNCHANGED <<signOuts, account, request>>
      BY <2>1 DEF SubmitEndsHere, authVars, unmovedVars
    <3> QED  BY <3>1, IdleStep, SignOutsKept
  <2>2. ASSUME NEW s \in Sessions, SubmitSignsIn(s) PROVE AuthInv'
    <3>1. SignOutsOK /\ changes' \in 0 .. MaxChanges
      BY <2>2, SignOutsKept DEF SubmitSignsIn, AuthInv, TypeOK
    <3>2. PICK c \in Reloads : ReloadStarts(c)
      BY <2>2 DEF SubmitSignsIn
    <3>3. ReloadsOK
      <4>1. Asked \in Reads
        BY DEF Asked, Reads
      <4> QED  BY <3>2, <4>1, ReloadsKept DEF ReloadStarts
    <3> QED  BY <2>2, <3>1, <3>2, <3>3, StoreStep DEF SubmitSignsIn, ReloadStarts
  <2>3. CASE FormNavigates
    BY <2>3, MoveStep, SignOutsKept DEF FormNavigates
  <2> QED  BY <1>7, <2>1, <2>2, <2>3 DEF LoginForm
<1>8. CASE PublicPages
  BY <1>8, MoveStep, SignOutsKept DEF PublicPages, EnterApp, LeaveLogin
<1>9. CASE SidebarSteps
  <2>1. CASE SidebarSignedOut
    BY <2>1, SignOutStep DEF SidebarSignedOut, Callers
  <2>2. CASE GoHome
    <3>1. SignOutsOK
      BY <2>2, SignOutsKept DEF GoHome, Callers
    <3>2. UNCHANGED unmovedVars /\ GoTo("/", NoTarget)
      BY <2>2 DEF GoHome
    <3> QED  BY <3>1, <3>2, MoveStep
  <2> QED  BY <1>9, <2>1, <2>2 DEF SidebarSteps
<1>10. CASE Submit
  <2>1. UNCHANGED unmovedVars /\ UNCHANGED <<signOuts, account, request>>
    BY <1>10 DEF Submit, authVars, unmovedVars
  <2> QED  BY <2>1, IdleStep, SignOutsKept
<1>11. CASE ClickSignOut
  BY <1>11, SignOutStep DEF ClickSignOut, Callers
<1>12. CASE \E p \in Links : Visit(p)
  BY <1>12, MoveStep, SignOutsKept DEF Visit
<1>13. CASE UNCHANGED vars
  <2>1. UNCHANGED unmovedVars /\ UNCHANGED <<signOuts, account, request>>
    BY <1>13 DEF vars, authVars, unmovedVars
  <2> QED  BY <2>1, IdleStep, SignOutsKept
<1> QED
  BY <1>1, <1>2, <1>3, <1>4, <1>5, <1>6, <1>7, <1>8, <1>9, <1>10, <1>11, <1>12, <1>13 DEF Next

\* What the mount, a reload, a refetch and the auth events have brought to the context
\* and to the cache fits together at every step: the parts of AuthInv are what
\* applySession relies on in each of its callers.
THEOREM AuthInvariant == Spec => []AuthInv
<1> QED  BY AuthInvInit, AuthInvNext, PTL DEF Spec

-----------------------------------------------------------------------------
(* What it implies. *)

\* Whoever signs in or out, here or elsewhere, and however the answers of getSession
\* and of the API come between the auth events: the cache of AuthProvider and the
\* request in flight are of a user this tab shows or is about to show.
THEOREM CacheIsOfItsUser == Spec => []CacheBelongsToUser
<1>1. AuthInv => CacheBelongsToUser
  BY DEF AuthInv
<1> QED  BY <1>1, AuthInvariant, PTL

\* A signed-out tab holds no answer and waits for none, after any history.
THEOREM SignedOutIsEmpty == Spec => []SignedOutHoldsNothing
<1>1. AuthInv => SignedOutHoldsNothing
  BY AuthAssumption DEF AuthInv, TypeOK, ContextHasUser, NobodyHoldsNothing,
     SignedOutHoldsNothing
<1> QED  BY <1>1, AuthInvariant, PTL

\* With every event delivered the context is what the storage says, however the first
\* getSession and the events come; only an outdated answer of reloadSession or of a
\* sign-out leaves it behind, until the user changes again.
THEOREM ContextIsStored == Spec => []ContextFollowsStorage
<1>1. AuthInv => ContextFollowsStorage
  BY DEF AuthInv
<1> QED  BY <1>1, AuthInvariant, PTL

\* The boundary shows a protected page only with the account of the user in the
\* storage, for any number of users and sessions.
THEOREM PageIsOfStoredUser == Spec => []PageShowsStoredUser
<1>1. AuthInv => PageShowsStoredUser
  <2> SUFFICES ASSUME AuthInv, Shows("ready"), events = <<>>, ~overwritten
               PROVE  account.data.user = UserOf[storage]
    BY DEF PageShowsStoredUser
  <2>1. auth.status = "authenticated"
    BY DEF Shows, AuthVerification, AuthInv, TypeOK, Statuses
  <2>2. account.data # NoData
    BY <2>1 DEF Shows, AuthVerification, AccountVerification, IsPending, IsError
  <2>3. UsersOnTheWay = {UserOf[storage]}
    <3>1. previousUser # "undefined"
      BY <2>1, AuthAssumption DEF AuthInv, TypeOK, ContextHasUser
    <3>2. previousUser = UserOf[storage]
      BY <3>1 DEF AuthInv, UserFollowsStorage
    <3>3. 1 .. Len(events) = {}
      OBVIOUS
    <3> QED  BY <3>2, <3>3 DEF UsersOnTheWay
  <2> QED  BY <2>2, <2>3 DEF AuthInv, CacheBelongsToUser
<1> QED  BY <1>1, AuthInvariant, PTL

\* Every way into the login page that remembers a page: only the boundary's redirect,
\* and only from the page it remembers.
THEOREM LoginRemembersItsPage == Spec => LoginOnlyFromItsPage
<1> DEFINE P == path' = "/login" /\ path # "/login" /\ loginTarget' # NoTarget
                    => path = loginTarget'
<1>1. ASSUME [Next]_vars PROVE [P]_vars
  <2>1. CASE Background \/ OtherTabs \/ (\E c \in Callers : SignOutAnswered(c))
             \/ UseAccount \/ RetrySession
    BY <2>1 DEF Background, OtherTabs, SignOutAnswered, NoticeSignOut, UseAccount,
                RetrySession, flowVars, pageVars
  <2>2. CASE Boundary
    BY <2>2 DEF Boundary, StartRedirect, RedirectAtOnce, StartAgain, Redirect,
                RedirectToProfile, GoTo
  <2>3. CASE LoginForm
    BY <2>3 DEF LoginForm, SubmitEndsHere, SubmitSignsIn, FormNavigates, GoTo, pageVars
  <2>4. CASE PublicPages \/ SidebarSteps
    BY <2>4 DEF PublicPages, EnterApp, LeaveLogin, SidebarSteps, SidebarSignedOut, GoHome,
                GoTo, flowVars
  <2>5. CASE Submit \/ ClickSignOut \/ \E p \in Links : Visit(p)
    BY <2>5 DEF Submit, ClickSignOut, Visit, GoTo, flowVars, pageVars
  <2>6. CASE UNCHANGED vars
    BY <2>6
  <2> QED  BY <1>1, <2>1, <2>2, <2>3, <2>4, <2>5, <2>6 DEF Next
<1> QED  BY <1>1, PTL DEF Spec, LoginOnlyFromItsPage
-----------------------------------------------------------------------------
(* The pages. *)

Forms == [phase : {"idle", "submitting", "reloading"}, target : Targets,
          reload : Reloads \cup {"none"}, crossed : BOOLEAN]

\* FlowTypeOK without the context, and what makes it inductive: a submission on its
\* way has a protected page for its destination, and awaits a reload once it signs in.
FlowInv ==
    /\ path \in Pages
    /\ loginTarget \in Targets /\ (loginTarget # NoTarget => path = "/login")
    /\ redirectStarted \in BOOLEAN /\ (redirectStarted => path \in Protected)
    /\ redirecting \in [Redirects -> Targets]
    /\ form \in Forms
    /\ form.phase # "idle" => form.target \in Protected
    /\ form.phase = "reloading" => form.reload \in Reloads

LEMMA IdleFormTypes == IdleForm \in Forms /\ IdleForm.phase = "idle"
BY DEF IdleForm, Forms, Targets

\* The router goes to a page, and only the login page is given one to come back to.
LEMMA GoToStep ==
    ASSUME FlowInv, NEW p \in Pages, NEW t \in Targets, GoTo(p, t),
           t # NoTarget => p = "/login",
           redirecting' \in [Redirects -> Targets], form' \in {form, IdleForm}
    PROVE  FlowInv'
<1>1. /\ path' = p /\ loginTarget' = t
      /\ redirectStarted' \in BOOLEAN /\ (redirectStarted' => path' \in Protected)
  BY DEF GoTo, FlowInv
<1>2. /\ form' \in Forms
      /\ form'.phase # "idle" => form'.target \in Protected
      /\ form'.phase = "reloading" => form'.reload \in Reloads
  BY IdleFormTypes DEF FlowInv
<1> QED  BY <1>1, <1>2 DEF FlowInv

LEMMA FlowStays == ASSUME FlowInv, UNCHANGED flowVars PROVE FlowInv'
BY DEF FlowInv, flowVars

LEMMA NoticeStays == ASSUME FlowInv, NoticeSignOut PROVE FlowInv'
<1>1. /\ form' \in Forms /\ form'.phase = form.phase
      /\ form'.target = form.target /\ form'.reload = form.reload
  BY DEF FlowInv, NoticeSignOut, Forms
<1> QED  BY <1>1 DEF FlowInv, NoticeSignOut, pageVars

LEMMA FlowInvNext == FlowInv /\ [Next]_vars => FlowInv'
<1> SUFFICES ASSUME FlowInv, [Next]_vars PROVE FlowInv'
  OBVIOUS
<1>a. /\ {"/login", "/", "/app", "/profile"} \subseteq Pages
      /\ NoTarget \in Targets /\ Protected \subseteq Pages /\ Protected \subseteq Targets
      /\ \A t : SafeRedirectPath(t) \in Protected
  BY DEF Pages, Protected, Public, Targets, SafeRedirectPath
<1>b. redirecting \in [Redirects -> Targets]
  BY DEF FlowInv
<1>1. CASE Background \/ UseAccount \/ RetrySession \/ ClickSignOut \/ UNCHANGED vars
  <2>1. UNCHANGED flowVars
    BY <1>1 DEF Background, UseAccount, RetrySession, ClickSignOut, vars
  <2> QED  BY <2>1, FlowStays
<1>2. CASE OtherTabs \/ \E c \in Callers : SignOutAnswered(c)
  BY <1>2, NoticeStays DEF OtherTabs, SignOutAnswered
<1>3. CASE Boundary
  <2>1. ASSUME NEW r \in Redirects, StartRedirect(r) PROVE FlowInv'
    BY <2>1, <1>a DEF StartRedirect, FlowInv
  <2>2. CASE RedirectAtOnce
    BY <2>2, <1>a, <1>b, GoToStep DEF RedirectAtOnce
  <2>3. CASE StartAgain
    BY <2>3 DEF StartAgain, FlowInv
  <2>4. ASSUME NEW r \in Redirects, Redirect(r) PROVE FlowInv'
    <3>1. redirecting[r] \in Targets /\ redirecting' \in [Redirects -> Targets] /\ form' = form
      BY <2>4, <1>a, <1>b DEF Redirect
    <3>2. CASE GoTo("/login", redirecting[r])
      BY <3>1, <3>2, <1>a, GoToStep
    <3>3. CASE UNCHANGED <<path, loginTarget, redirectStarted>>
      BY <3>1, <3>3, <1>a DEF FlowInv
    <3> QED  BY <2>4, <3>2, <3>3 DEF Redirect
  <2>5. CASE RedirectToProfile
    BY <2>5, <1>a, <1>b, GoToStep DEF RedirectToProfile
  <2> QED  BY <1>3, <2>1, <2>2, <2>3, <2>4, <2>5 DEF Boundary
<1>4. CASE LoginForm
  <2>1. CASE SubmitEndsHere
    BY <2>1, IdleFormTypes DEF SubmitEndsHere, FlowInv, pageVars
  <2>2. ASSUME NEW s \in Sessions, SubmitSignsIn(s) PROVE FlowInv'
    <3>1. PICK c \in Reloads :
              form' = [form EXCEPT !.phase = "reloading", !.reload = c,
                                   !.crossed = SignOutOnItsWay]
      BY <2>2 DEF SubmitSignsIn
    <3>2. SignOutOnItsWay \in BOOLEAN
      BY DEF SignOutOnItsWay
    <3>3. /\ form' \in Forms /\ form'.target = form.target /\ form'.reload \in Reloads
      BY <3>1, <3>2 DEF FlowInv, Forms
    <3>4. form'.target \in Protected
      BY <2>2, <3>3 DEF SubmitSignsIn, FlowInv
    <3> QED  BY <2>2, <3>3, <3>4 DEF SubmitSignsIn, FlowInv, pageVars
  <2>3. CASE FormNavigates
    <3>1. form.target \in Protected
      BY <2>3 DEF FormNavigates, FlowInv
    <3> QED  BY <2>3, <3>1, <1>a, <1>b, GoToStep DEF FormNavigates
  <2> QED  BY <1>4, <2>1, <2>2, <2>3 DEF LoginForm
<1>5. CASE PublicPages
  BY <1>5, <1>a, <1>b, GoToStep DEF PublicPages, EnterApp, LeaveLogin
<1>6. CASE SidebarSteps
  BY <1>6, <1>a, <1>b, GoToStep, FlowStays DEF SidebarSteps, SidebarSignedOut, GoHome
<1>7. CASE Submit
  <2>1. form' = [IdleForm EXCEPT !.phase = "submitting",
                                !.target = SafeRedirectPath(loginTarget)]
    BY <1>7 DEF Submit
  <2>2. form' \in Forms /\ form'.phase = "submitting" /\ form'.target \in Protected
    BY <2>1, <1>a DEF IdleForm, Forms
  <2> QED  BY <1>7, <2>2 DEF Submit, FlowInv, pageVars
<1>8. CASE \E p \in Links : Visit(p)
  BY <1>8, <1>a, <1>b, LinksAssumption, GoToStep DEF Visit, Pages
<1> QED
  BY <1>1, <1>2, <1>3, <1>4, <1>5, <1>6, <1>7, <1>8 DEF Next

LEMMA FlowInvInit == Init => FlowInv
<1> SUFFICES ASSUME Init PROVE FlowInv
  OBVIOUS
<1>1. path \in Pages /\ loginTarget = NoTarget /\ redirectStarted = FALSE
  BY DEF Init, Pages
<1>2. NoTarget \in Targets
  BY DEF Targets
<1>3. redirecting \in [Redirects -> Targets]
  BY <1>2 DEF Init
<1>4. form \in Forms /\ form.phase = "idle"
  BY IdleFormTypes DEF Init
<1> QED  BY <1>1, <1>2, <1>3, <1>4 DEF FlowInv

\* The router, the boundary's ref and the login form fit together: a destination is
\* remembered on the login page only, and a submission leaves for a protected page.
THEOREM FlowTypeCorrect == Spec => []FlowTypeOK
<1>1. AuthInv /\ FlowInv => FlowTypeOK
  BY DEF AuthInv, FlowInv, FlowTypeOK, Forms
<1> QED  BY <1>1, FlowInvInit, FlowInvNext, AuthInvariant, PTL DEF Spec

-----------------------------------------------------------------------------
(* The login form. *)

\* Nothing that this tab has, or is still to be told, says that nobody is signed in.
OnlySignedIn ==
    /\ storage # NoSession
    /\ \A i \in 1 .. Len(events) : events[i] # NoSession
    /\ mount.phase = "idle"
    /\ \A c \in Callers : signOuts[c] # "removed"
    /\ \A c \in Reloads : reload[c].phase = "read" => reload[c].session # NoSession
    /\ auth.status # "unauthenticated"

\* A submission that has signed in and was not crossed by a sign-out awaits its
\* reload in such a state.
SignInInv == form.phase = "reloading" /\ ~form.crossed => OnlySignedIn

\* What each kind of step does to it.

LEMMA ContextOfSession ==
    ASSUME NEW s \in Stored, s # NoSession, ApplySession(s)
    PROVE  auth'.status # "unauthenticated"
BY DEF ApplySession, AuthStateOf

LEMMA StoreKeepsSignedIn ==
    ASSUME AuthInv, OnlySignedIn, NEW s \in Stored, s # NoSession, Store(s)
    PROVE  storage' # NoSession /\ \A i \in 1 .. Len(events') : events'[i] # NoSession
<1>1. events \in Seq(Stored)
  BY DEF AuthInv, TypeOK
<1>2. /\ Len(events') = Len(events) + 1 /\ events'[Len(events')] = s
      /\ \A i \in 1 .. Len(events) : events'[i] = events[i]
  BY <1>1 DEF Store
<1>3. \A i \in 1 .. Len(events') : i \in 1 .. Len(events) \/ i = Len(events')
  BY <1>1, <1>2
<1> QED  BY <1>2, <1>3 DEF Store, OnlySignedIn

LEMMA BackgroundKeepsSignedIn ==
    ASSUME AuthInv, OnlySignedIn, Background
    PROVE  OnlySignedIn'
<1>a. events \in Seq(Stored) /\ reload \in [Reloads -> Reads] /\ storage \in Stored
  BY DEF AuthInv, TypeOK, Reads
<1>1. CASE DeliverEvent
  <2>1. Head(events) \in Stored /\ Head(events) # NoSession
        /\ \A i \in 1 .. Len(events') : events'[i] # NoSession
    <3>1. events # <<>> /\ events' = Tail(events)
      BY <1>1 DEF DeliverEvent
    <3>2. Len(events) \in Nat \ {0} /\ Head(events) = events[1] /\ Head(events) \in Stored
      BY <1>a, <3>1
    <3>3. \A i \in 1 .. Len(Tail(events)) :
              i + 1 \in 1 .. Len(events) /\ Tail(events)[i] = events[i + 1]
      BY <1>a, <3>1
    <3> QED  BY <3>1, <3>2, <3>3 DEF OnlySignedIn
  <2>2. auth'.status # "unauthenticated"
    BY <1>1, <2>1, ContextOfSession DEF DeliverEvent
  <2> QED  BY <1>1, <2>1, <2>2 DEF DeliverEvent, MountOvertaken, NoRead, OnlySignedIn
<1>2. CASE MountReads \/ \E ok \in BOOLEAN : MountAnswers(ok)
  BY <1>2 DEF MountReads, MountAnswers, OnlySignedIn
<1>3. ASSUME NEW c \in Reloads, ReloadReads(c) PROVE OnlySignedIn'
  BY <1>3, <1>a DEF ReloadReads, OnlySignedIn
<1>4. ASSUME NEW c \in Reloads, NEW ok \in BOOLEAN, ReloadAnswers(c, ok) PROVE OnlySignedIn'
  <2>1. reload[c].session \in Stored /\ reload[c].session # NoSession
    BY <1>4, <1>a DEF ReloadAnswers, OnlySignedIn, Reads
  <2>2. auth'.status # "unauthenticated"
    BY <1>4, <2>1, ContextOfSession DEF ReloadAnswers, Failed
  <2>3. \A d \in Reloads : reload'[d].phase = "read" => reload'[d].session # NoSession
    BY <1>4, <1>a DEF ReloadAnswers, NoRead, OnlySignedIn
  <2> QED  BY <1>4, <2>2, <2>3 DEF ReloadAnswers, OnlySignedIn
<1>5. CASE \E r \in Redirects : SignedOut(r, "idle")
  BY <1>5 DEF SignedOut, OnlySignedIn, Callers
<1>6. CASE SendRequest \/ ReceiveAnswer
  BY <1>6 DEF SendRequest, ReceiveAnswer, ReceiveAccount, ReceiveError, OnlySignedIn
<1> QED  BY <1>1, <1>2, <1>3, <1>4, <1>5, <1>6 DEF Background

LEMMA SignInInvNext == AuthInv /\ FlowInv /\ SignInInv /\ [Next]_vars => SignInInv'
<1> SUFFICES ASSUME AuthInv, FlowInv, SignInInv, [Next]_vars,
                    form'.phase = "reloading", ~form'.crossed
             PROVE  OnlySignedIn'
  BY DEF SignInInv
<1>a. form \in Forms /\ storage \in Stored /\ reload \in [Reloads -> Reads]
      /\ signOuts \in [Callers -> {"idle", "asked", "removed", "leaving"}]
  BY DEF AuthInv, TypeOK, FlowInv, Reads
<1>b. form' = form => OnlySignedIn
  BY DEF SignInInv
\* Steps that leave the context, and what is to change it, alone.
<1>c. ASSUME OnlySignedIn, UNCHANGED unmovedVars,
             \A c \in Callers : signOuts'[c] \in {signOuts[c], "idle", "asked", "leaving"}
      PROVE  OnlySignedIn'
  BY <1>c DEF unmovedVars, OnlySignedIn
<1>1. CASE Background
  BY <1>1, <1>b, BackgroundKeepsSignedIn DEF Background, flowVars
<1>2. ASSUME NEW s \in Stored, StorageChanges(s), NoticeSignOut PROVE OnlySignedIn'
  <2>1. form.phase = "reloading" /\ ~form.crossed /\ storage' # NoSession
    BY <1>2, <1>a DEF NoticeSignOut, Forms
  <2>2. s # NoSession /\ OnlySignedIn
    BY <1>2, <2>1 DEF StorageChanges, Store, SignInInv
  <2> QED  BY <1>2, <2>2, StoreKeepsSignedIn DEF StorageChanges, OnlySignedIn
<1>3. ASSUME NEW c \in Callers, SignOutAnswered(c) PROVE OnlySignedIn'
  <2>1. form.phase = "reloading" /\ ~form.crossed /\ storage' # NoSession
    BY <1>3, <1>a DEF SignOutAnswered, NoticeSignOut, Forms
  <2>2. SignOutFails(c) /\ OnlySignedIn
    BY <1>3, <2>1 DEF SignOutAnswered, SessionRemoved, Store, SignInInv
  <2> QED  BY <2>2, <1>a, <1>c DEF SignOutFails, unmovedVars
<1>4. CASE UseAccount
  BY <1>4, <1>b DEF UseAccount, FetchAccount, flowVars, OnlySignedIn
<1>5. CASE RetrySession
  <2>1. PICK c \in Reloads : Reload(c)
    BY <1>5 DEF RetrySession
  <2>2. OnlySignedIn
    BY <1>5, <1>b DEF RetrySession, flowVars
  <2> QED  BY <2>1, <2>2, <1>a DEF Reload, ReloadStarts, Asked, Loading, OnlySignedIn
<1>6. CASE Boundary
  <2>1. ASSUME NEW r \in Redirects, StartRedirect(r) PROVE OnlySignedIn'
    <3>1. r \in Callers /\ \A c \in Callers : signOuts'[c] \in {signOuts[c], "asked"}
      BY <2>1, <1>a DEF StartRedirect, SignOutAsked, Callers
    <3> QED  BY <2>1, <3>1, <1>b, <1>c DEF StartRedirect
  <2>2. CASE RedirectAtOnce \/ StartAgain \/ RedirectToProfile
             \/ \E r \in Redirects : Redirect(r)
    <3>1. UNCHANGED unmovedVars /\ UNCHANGED <<signOuts, form>>
      BY <2>2 DEF RedirectAtOnce, StartAgain, RedirectToProfile, Redirect, authVars, unmovedVars
    <3> QED  BY <3>1, <1>b, <1>c
  <2> QED  BY <1>6, <2>1, <2>2 DEF Boundary
<1>7. ASSUME NEW s \in Sessions, SubmitSignsIn(s) PROVE OnlySignedIn'
  <2>1. PICK c \in Reloads : /\ ReloadStarts(c)
                             /\ form' = [form EXCEPT !.phase = "reloading", !.reload = c,
                                                     !.crossed = SignOutOnItsWay]
    BY <1>7 DEF SubmitSignsIn
  <2>2. ~SignOutOnItsWay
    BY <2>1, <1>a DEF Forms
  <2>3. events' = <<s>> /\ storage' = s /\ s # NoSession
    <3>1. events = <<>> /\ events' = Append(events, s) /\ storage' = s
      BY <1>7, <2>2 DEF SubmitSignsIn, Store, SignOutOnItsWay
    <3>2. s \in Stored /\ Append(<<>>, s) = <<s>>
      OBVIOUS
    <3>3. s # NoSession
      BY AuthAssumption
    <3> QED  BY <3>1, <3>2, <3>3
  <2>4. mount.phase = "idle"
    BY <2>2 DEF AuthInv, MountIsFirst, SignOutOnItsWay
  <2>5. \A d \in Reloads : reload'[d].phase = "read" => reload'[d].session # NoSession
    BY <2>1, <2>2, <1>a DEF ReloadStarts, Asked, SignOutOnItsWay
  <2>6. auth'.status # "unauthenticated"
    BY <2>1 DEF ReloadStarts, Loading
  <2> QED  BY <1>7, <2>2, <2>3, <2>4, <2>5, <2>6
           DEF SubmitSignsIn, SignOutOnItsWay, OnlySignedIn
<1>8. CASE SubmitEndsHere \/ FormNavigates \/ Submit
  BY <1>8, IdleFormTypes DEF SubmitEndsHere, FormNavigates, Submit, IdleForm
<1>9. CASE PublicPages \/ \E p \in Links : Visit(p)
  BY <1>9, <1>b, <1>c DEF PublicPages, EnterApp, LeaveLogin, Visit
<1>10. CASE SidebarSteps
  <2>1. CASE SidebarSignedOut
    BY <2>1, <1>b DEF SidebarSignedOut, SignedOut, flowVars, Callers, OnlySignedIn
  <2>2. CASE GoHome
    BY <2>2, <1>a, <1>b, <1>c DEF GoHome, Callers
  <2> QED  BY <1>10, <2>1, <2>2 DEF SidebarSteps
<1>11. CASE ClickSignOut
  BY <1>11, <1>a, <1>b, <1>c DEF ClickSignOut, SignOut, SignOutAsked, unmovedVars, flowVars, Callers
<1>12. CASE UNCHANGED vars
  BY <1>12, <1>b, <1>c DEF vars, authVars, flowVars, unmovedVars
<1> QED
  BY <1>1, <1>2, <1>3, <1>4, <1>5, <1>6, <1>7, <1>8, <1>9, <1>10, <1>11, <1>12
  DEF Next, OtherTabs, LoginForm

\* For any number of redirects, reloads, sessions and events: a submission that signs
\* in goes to the destination it was sent with, and unless a sign-out crossed it the
\* context does not say "signed out" then, whichever of reload and event came first.
THEOREM SignInIsKnown == Spec => DestinationKnowsSignIn
<1> DEFINE P == form.phase = "reloading" /\ form'.phase # "reloading" =>
                    /\ path' = form.target
                    /\ auth.status = "unauthenticated" => form.crossed
<1>1. ASSUME FlowInv, SignInInv, [Next]_vars PROVE [P]_vars
  <2> SUFFICES ASSUME Next, form.phase = "reloading", form'.phase # "reloading" PROVE P
    BY <1>1 DEF vars, flowVars
  <2>1. FormNavigates
    <3>1. form' # form
      OBVIOUS
    <3>2. ~Background /\ ~UseAccount /\ ~RetrySession /\ ~ClickSignOut /\ ~Boundary
          /\ ~PublicPages /\ ~SidebarSteps /\ ~\E p \in Links : Visit(p)
      BY <3>1 DEF Background, UseAccount, RetrySession, ClickSignOut, Boundary,
                  StartRedirect, Redirect, RedirectAtOnce, StartAgain, RedirectToProfile,
                  PublicPages, EnterApp, LeaveLogin, SidebarSteps, SidebarSignedOut, GoHome,
                  Visit, flowVars
    <3>3. ~NoticeSignOut
      BY <1>1 DEF NoticeSignOut, FlowInv, Forms
    <3>4. ~SubmitEndsHere /\ ~Submit /\ \A s \in Sessions : ~SubmitSignsIn(s)
      BY DEF SubmitEndsHere, Submit, SubmitSignsIn
    <3> QED  BY <3>2, <3>3, <3>4 DEF Next, OtherTabs, SignOutAnswered, LoginForm
  <2>2. path' = form.target
    BY <2>1 DEF FormNavigates, GoTo
  <2>3. auth.status = "unauthenticated" => form.crossed
    BY <1>1 DEF SignInInv, OnlySignedIn
  <2> QED  BY <2>2, <2>3
<1>2. Init => SignInInv
  BY IdleFormTypes DEF Init, SignInInv
<1> QED
  BY <1>1, <1>2, FlowInvInit, FlowInvNext, SignInInvNext, AuthInvariant, PTL
  DEF Spec, DestinationKnowsSignIn

-----------------------------------------------------------------------------
(* The errors that the context and the pages get. *)

LEMMA AuthenticationFails ==
    ASSUME NEW r \in AuthRequests
    PROVE  /\ Authenticate(r) = "ErrInvalidToken" <=>
                  r.context = NoError /\ ~Trusted(r.token)
           /\ Authenticate(r) = NoError <=>
                  /\ r.context = NoError /\ Trusted(r.token)
                  /\ r.resolving = NoError /\ ~r.zeroUser
           /\ Authenticate(r) \in ContextErrors \cup
                  {NoError, "ErrInvalidToken", "other", "ErrInvalidResolvedUser"}
<1>1. /\ r.context \in {"Canceled", "DeadlineExceeded", "none"}
      /\ r.resolving \in {"Canceled", "DeadlineExceeded", "other", "none"}
  BY DEF AuthRequests, ContextErrors, NoError
<1>2. Verify(r) = IF Trusted(r.token) THEN "none" ELSE "ErrInvalidToken"
  BY DEF Verify, NoError
<1>3. CASE r.context # "none"
  BY <1>1, <1>3 DEF Authenticate, NoError, ContextErrors
<1>4. CASE r.context = "none" /\ ~Trusted(r.token)
  BY <1>2, <1>4 DEF Authenticate, NoError, ContextErrors
<1>5. CASE r.context = "none" /\ Trusted(r.token)
  <2>1. Authenticate(r) =
            IF r.resolving # "none" THEN r.resolving
            ELSE IF r.zeroUser THEN "ErrInvalidResolvedUser" ELSE "none"
    BY <1>2, <1>5 DEF Authenticate, NoError
  <2> QED  BY <1>1, <1>5, <2>1 DEF NoError, ContextErrors
<1> QED  BY <1>3, <1>4, <1>5

LEMMA InterceptorCodes ==
    ASSUME NEW r \in AuthRequests
    PROVE  /\ InterceptorCode(r) \in
                  ContextErrors \cup {NoError, "Unauthenticated", "Internal"}
           /\ InterceptorCode(r) = NoError <=>
                  bearerToken(r) = NoError /\ Authenticate(r) = NoError
           /\ InterceptorCode(r) = "Unauthenticated" <=>
                  \/ bearerToken(r) # NoError
                  \/ Authenticate(r) = "ErrInvalidToken"
<1>1. PICK e : e = Authenticate(r)
  OBVIOUS
<1>2. e \in {"Canceled", "DeadlineExceeded", "none", "ErrInvalidToken", "other",
             "ErrInvalidResolvedUser"}
  BY <1>1, AuthenticationFails DEF ContextErrors, NoError
<1>3. PICK b : b = bearerToken(r)
  OBVIOUS
<1>4. InterceptorCode(r) =
          IF b # "none" THEN "Unauthenticated"
          ELSE IF e \in {"Canceled", "DeadlineExceeded", "none"} THEN e
          ELSE IF e = "ErrInvalidToken" THEN "Unauthenticated" ELSE "Internal"
  BY <1>1, <1>3 DEF InterceptorCode, NoError, ContextErrors
<1> QED  BY <1>1, <1>2, <1>3, <1>4 DEF NoError, ContextErrors

\* A handler runs only for a bearer token that is signed, issued by the project, current
\* and complete, and with a user it was resolved to (authInterceptor, TokenVerifier).
THEOREM HandlerNeedsTrustedToken ==
    ASSUME NEW r \in AuthRequests, InterceptorCode(r) = NoError
    PROVE  /\ r.fields = 2 /\ r.scheme = "Bearer"
           /\ Trusted(r.token)
           /\ r.resolving = NoError /\ ~r.zeroUser
<1>1. bearerToken(r) = NoError /\ Authenticate(r) = NoError
  BY InterceptorCodes
<1>2. r.fields = 2 /\ r.scheme = "Bearer"
  BY <1>1 DEF bearerToken, NoError
<1> QED  BY <1>1, <1>2, AuthenticationFails

LEMMA HandlerCodes ==
    ASSUME NEW s \in Services, NEW error \in ServiceErrors(s)
    PROVE  /\ connectError(s, error) \in
                  {"Canceled", "DeadlineExceeded", "NotFound", "InvalidArgument",
                   "FailedPrecondition", "AlreadyExists", "Internal"}
           /\ connectError(s, error) \in retryableCodes <=>
                  error \in {"DeadlineExceeded", "other"}
           /\ connectError(s, error) = "InvalidArgument" <=> error \in InputErrors[s]
           /\ connectError(s, error) = "FailedPrecondition" <=>
                  error = "ErrReviewItemPaused"
<1> USE DEF ServiceErrors, connectError, ReviewRefusalCode, NotFoundErrors, InputErrors,
            ReviewInputErrors, AccountInputErrors, CatalogInputErrors, ContextErrors,
            retryableCodes
<1>1. CASE s = "review"
  BY <1>1
<1>2. CASE s = "account"
  BY <1>2
<1>3. CASE s = "catalog"
  BY <1>3
<1> QED  BY <1>1, <1>2, <1>3 DEF Services

\* Only a token that is missing or refused sends the visitor to the login page: neither
\* an error of a handler nor a failure to look the user up does, for all that they come
\* through the same interceptor (isAuthenticationError).
THEOREM OnlyRefusedTokensNeedLogin ==
    ASSUME NEW r \in AuthRequests, NEW s \in Services,
           NEW error \in ServiceErrors(s) \cup {NoError}
    PROVE  isAuthenticationError(CodeOf(r, s, error)) <=>
               \/ bearerToken(r) # NoError
               \/ r.context = NoError /\ ~Trusted(r.token)
<1>1. CASE InterceptorCode(r) # NoError
  <2>1. CodeOf(r, s, error) = InterceptorCode(r)
    BY <1>1 DEF CodeOf
  <2>2. InterceptorCode(r) \in {"Canceled", "DeadlineExceeded", "none",
                                "Unauthenticated", "Internal"}
    BY InterceptorCodes DEF ContextErrors, NoError
  <2>3. isAuthenticationError(CodeOf(r, s, error)) <=>
            InterceptorCode(r) = "Unauthenticated"
    BY <2>1, <2>2 DEF isAuthenticationError
  <2> QED  BY <2>3, InterceptorCodes, AuthenticationFails
<1>2. CASE InterceptorCode(r) = NoError
  <2>1. CodeOf(r, s, error) = connectError(s, error)
    BY <1>2 DEF CodeOf
  <2>2. ~isAuthenticationError(connectError(s, error))
    <3>1. CASE error = NoError
      BY <3>1 DEF connectError, ReviewRefusalCode, NotFoundErrors, InputErrors,
                  ReviewInputErrors, AccountInputErrors, CatalogInputErrors,
                  ContextErrors, NoError, isAuthenticationError, Services
    <3>2. CASE error # NoError
      BY <3>2, HandlerCodes DEF isAuthenticationError
    <3> QED  BY <3>1, <3>2
  <2> QED  BY <1>2, <2>1, <2>2, InterceptorCodes, AuthenticationFails
<1> QED  BY <1>1, <1>2

\* Input errors, refusals and what was not found are never tried again, and everything
\* else that a handler may fail with is, unless the client gave up (errors.ts:9-12).
THEOREM OnlyTransientErrorsAreRetried ==
    ASSUME NEW s \in Services, NEW error \in ServiceErrors(s)
    PROVE  shouldRetryConnectQuery(0, connectError(s, error)) <=>
               error \in {"DeadlineExceeded", "other"}
BY HandlerCodes DEF shouldRetryConnectQuery

\* The retries that the models of the pages take are those of the code, with its limit.
THEOREM RetriesAreTheCodes ==
    ASSUME MaxRetries = 2, NEW e, e.failures \in 0 .. MaxRetries, NEW code \in Codes
    PROVE  ShouldRetry(e, KindOf(code)) <=> shouldRetryConnectQuery(e.failures, code)
BY DEF ShouldRetry, KindOf, shouldRetryConnectQuery, retryableCodes, isAuthenticationError

\* Whatever happens on the way to the handler, the sheet speaks of a pause just if the
\* server refused the attempt for one, and the form for a URL explains URLs just if the
\* server refused the input.
THEOREM MessagesNameTheRefusal ==
    ASSUME NEW r \in AuthRequests, NEW error \in ServiceErrors("review")
    PROVE  LET code == CodeOf(r, "review", error)
               reached == InterceptorCode(r) = NoError
           IN  /\ sheetErrorMessage(code) = "paused" <=>
                      reached /\ error = "ErrReviewItemPaused"
               /\ urlErrorMessage(code) = "how a problem's URL looks" <=>
                      reached /\ error \in ReviewInputErrors
<1>1. PICK code : code = CodeOf(r, "review", error)
  OBVIOUS
<1>2. connectErrorMessage(code) \notin {"paused", "how a problem's URL looks"}
  BY DEF connectErrorMessage
<1>3. /\ sheetErrorMessage(code) = "paused" <=> code = "FailedPrecondition"
      /\ urlErrorMessage(code) = "how a problem's URL looks" <=> code = "InvalidArgument"
  BY <1>2 DEF sheetErrorMessage, urlErrorMessage
<1>4. InterceptorCode(r) \notin {"FailedPrecondition", "InvalidArgument"}
  BY InterceptorCodes DEF ContextErrors, NoError
<1>5. /\ connectError("review", error) = "InvalidArgument" <=> error \in ReviewInputErrors
      /\ connectError("review", error) = "FailedPrecondition" <=>
             error = "ErrReviewItemPaused"
  BY HandlerCodes DEF Services, InputErrors
<1> QED  BY <1>1, <1>3, <1>4, <1>5 DEF CodeOf
=============================================================================
