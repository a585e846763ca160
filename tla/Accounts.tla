------------------------------- MODULE Accounts -------------------------------
(***************************************************************************)
(* Authenticated calls of the account module, at the grain of their SQL    *)
(* statements: the authentication interceptor resolves the identity of the *)
(* token to a user id, creating the account at the first access            *)
(* (Repository.ResolveOrCreateByAuthIdentity), and the handler then reads  *)
(* or updates the profile of that user.                                    *)
(*                                                                         *)
(* A session is one call.  PostgreSQL runs at READ COMMITTED: accounts and *)
(* identities are the committed rows, each statement sees those of its own *)
(* moment, and an INSERT of a key that another open transaction has        *)
(* inserted waits for that transaction to end.  Tokens that fail           *)
(* verification change nothing and are left out.                           *)
(***************************************************************************)
EXTENDS FiniteSets

CONSTANTS
    Sessions,      \* calls in flight at the same time
    Identities,    \* external identities (issuer and subject)
    UserIds,       \* ids that identifier.NewUserID may draw
    Profiles,      \* profiles a user may set
    Unset,         \* the profile of an account whose owner has set none
    None           \* no row, no value

ASSUME AccountsAssumption ==
    /\ None \notin Identities \cup UserIds \cup Profiles \cup {Unset}
    /\ Unset \notin Profiles

VARIABLES
    accounts,      \* accounts: [UserIds -> Profiles, Unset or None]
    identities,    \* auth_identities: [Identities -> UserIds or None]
    call           \* per session: the place reached and the local variables

vars == <<accounts, identities, call>>

\* Where a call stands.  looked: the fast path found nothing; missed: nor did
\* the transaction; created: its account is inserted; linked: its identity is
\* inserted; lost: another call's identity was there; deleted: its account is
\* deleted again; found: the transaction has read the identity of another call
\* and is about to commit; resolved: the handler has the user id; answered,
\* notFound: the handler is done; failed: the resolution gave an error.
Places == {"idle", "started", "looked", "missed", "created", "linked", "lost",
           "deleted", "found", "resolved", "answered", "notFound", "failed"}

Idle == [pc |-> "idle", identity |-> None, new |-> None, user |-> None]

Init ==
    /\ accounts = [u \in UserIds |-> None]
    /\ identities = [x \in Identities |-> None]
    /\ call = [s \in Sessions |-> Idle]

\* Session s goes on to place pc; the tables stay as they are.
Goto(s, pc) ==
    /\ call' = [call EXCEPT ![s].pc = pc]
    /\ UNCHANGED <<accounts, identities>>

-----------------------------------------------------------------------------
(* ResolveOrCreateByAuthIdentity. *)

\* The interceptor has verified the token and asks for its identity's user.
Authenticate(s, x) ==
    /\ call[s].pc = "idle"
    /\ call' = [call EXCEPT ![s] = [Idle EXCEPT !.pc = "started", !.identity = x]]
    /\ UNCHANGED <<accounts, identities>>

\* findUserIDByIdentity at place from: on to hit with the user id, or to miss.
FindUserID(s, from, hit, miss) ==
    /\ call[s].pc = from
    /\ UNCHANGED <<accounts, identities>>
    /\ LET user == identities[call[s].identity]
       IN  IF user = None
           THEN call' = [call EXCEPT ![s].pc = miss]
           ELSE call' = [call EXCEPT ![s].pc = hit, ![s].user = user]

NoRowsIgnored(s) ==  \* mutant: ErrNoRows is not told from an answer
    FindUserID(s, "started", "resolved", "resolved")
\* The usual path, with no transaction.
FindFast(s) == FindUserID(s, "started", "resolved", "looked")

\* The transaction looks again: another call may have created it just now.
FindInTransaction(s) == FindUserID(s, "looked", "found", "missed")

\* NewUserID draws an id no one else has.
UnusedId(u) == accounts[u] = None /\ \A s \in Sessions : call[s].new # u

CreateAccount(s) ==
    /\ call[s].pc = "missed"
    /\ \E u \in UserIds :
        /\ UnusedId(u)
        /\ call' = [call EXCEPT ![s].pc = "created", ![s].new = u]
    /\ UNCHANGED <<accounts, identities>>

NeverPending(s, x) == FALSE  \* mutant: no primary key to wait on
IdentityPending(s, x) ==
    \E p \in Sessions \ {s} : call[p].pc = "linked" /\ call[p].identity = x

\* INSERT ... ON CONFLICT DO NOTHING: one row affected.
CreateAuthIdentity(s) ==
    /\ call[s].pc = "created"
    /\ ~IdentityPending(s, call[s].identity)
    /\ identities[call[s].identity] = None
    /\ call' = [call EXCEPT ![s].pc = "linked", ![s].user = call[s].new]
    /\ UNCHANGED <<accounts, identities>>

LoseWithoutWaiting(s) ==  \* mutant: an uncommitted row counts as a conflict
    /\ call[s].pc = "created"
    /\ IdentityPending(s, call[s].identity) \/ identities[call[s].identity] # None
    /\ Goto(s, "lost")
\* No row affected: the identity was committed in the meantime.
LoseAuthIdentity(s) ==
    /\ call[s].pc = "created"
    /\ ~IdentityPending(s, call[s].identity)
    /\ identities[call[s].identity] # None
    /\ Goto(s, "lost")

LinkAgain(s) == CreateAuthIdentity(s)  \* mutant: no DO NOTHING, a violation is retried
InsertAuthIdentity(s) == CreateAuthIdentity(s) \/ LoseAuthIdentity(s)

\* The account of this transaction alone is deleted again.
DeleteAccount(s) ==
    /\ call[s].pc = "lost"
    /\ Goto(s, "deleted")

AnswerOwnId(s) ==  \* mutant: resolvedUserID keeps the deleted account's id
    /\ call[s].pc = "deleted"
    /\ call' = [call EXCEPT ![s].pc = "found", ![s].user = call[s].new]
    /\ UNCHANGED <<accounts, identities>>
\* A later statement sees the winner's row.
FindWinner(s) == FindUserID(s, "deleted", "found", "failed")

CommitCreated(s) ==
    /\ call[s].pc = "linked"
    /\ accounts' = [accounts EXCEPT ![call[s].new] = Unset]
    /\ identities' = [identities EXCEPT ![call[s].identity] = call[s].new]
    /\ call' = [call EXCEPT ![s].pc = "resolved"]

\* Mutant: the account of the loser stays.
AccountsKeepDuplicate(s) ==
    IF call[s].new = None THEN accounts
    ELSE [accounts EXCEPT ![call[s].new] = Unset]
\* What is left of the writes of a transaction that found another's identity.
AccountsAfterFound(s) == accounts

CommitFound(s) ==
    /\ call[s].pc = "found"
    /\ accounts' = AccountsAfterFound(s)
    /\ call' = [call EXCEPT ![s].pc = "resolved"]
    /\ UNCHANGED identities

-----------------------------------------------------------------------------
(* The handlers, with the user id the interceptor put in the context. *)

AnswerFor(row) == IF row = None THEN "notFound" ELSE "answered"

GetCurrentAccount(s) ==
    /\ call[s].pc = "resolved"
    /\ Goto(s, AnswerFor(accounts[call[s].user]))

\* One UPDATE replaces the whole profile, if the row is there.
UpdateProfile(s) ==
    /\ call[s].pc = "resolved"
    /\ \E p \in Profiles :
        accounts' = [accounts EXCEPT ![call[s].user] = IF @ = None THEN @ ELSE p]
    /\ call' = [call EXCEPT ![s].pc = AnswerFor(accounts[call[s].user])]
    /\ UNCHANGED identities

Reply(s) ==
    /\ call[s].pc \in {"answered", "notFound", "failed"}
    /\ call' = [call EXCEPT ![s] = Idle]
    /\ UNCHANGED <<accounts, identities>>

\* A lost connection, a cancelled context or a crash: an open transaction is
\* rolled back.
Abort(s) ==
    /\ call[s].pc # "idle"
    /\ call' = [call EXCEPT ![s] = Idle]
    /\ UNCHANGED <<accounts, identities>>

-----------------------------------------------------------------------------
Resolve(s) ==
    \/ FindFast(s) \/ FindInTransaction(s) \/ CreateAccount(s)
    \/ InsertAuthIdentity(s) \/ DeleteAccount(s) \/ FindWinner(s)
    \/ CommitCreated(s) \/ CommitFound(s)

Serve(s) == Resolve(s) \/ GetCurrentAccount(s) \/ UpdateProfile(s) \/ Reply(s)

Next ==
    \E s \in Sessions :
        \/ \E x \in Identities : Authenticate(s, x)
        \/ Serve(s)
        \/ Abort(s)

Spec == Init /\ [][Next]_vars

\* PostgreSQL serves the waiters of a transaction in turn.
Fairness ==
    \A s \in Sessions : WF_vars(Serve(s)) /\ SF_vars(InsertAuthIdentity(s))

FairSpec == Spec /\ Fairness
-----------------------------------------------------------------------------
(* Properties. *)

\* Every variable has its type, and a call has a user id exactly where the code
\* uses one: from the insertion or the discovery of the identity on.
TypeOK ==
    /\ accounts \in [UserIds -> Profiles \cup {Unset, None}]
    /\ identities \in [Identities -> UserIds \cup {None}]
    /\ call \in [Sessions ->
            [pc : Places, identity : Identities \cup {None},
             new : UserIds \cup {None}, user : UserIds \cup {None}]]
    /\ \A s \in Sessions :
        /\ call[s].identity = None <=> call[s].pc = "idle"
        /\ call[s].pc \in {"created", "linked", "lost", "deleted"} => call[s].new # None
        /\ call[s].user # None <=> call[s].pc \in
                {"linked", "found", "resolved", "answered", "notFound"}

\* The comment of ResolveOrCreateByAuthIdentity: however many first accesses
\* run at once, and whichever of them fail, an identity has one account and no
\* account is left without an identity.
OneAccountPerIdentity ==
    /\ \A x \in Identities : identities[x] # None => accounts[identities[x]] # None
    /\ \A u \in UserIds : accounts[u] # None =>
            \E x \in Identities : /\ identities[x] = u
                                  /\ \A y \in Identities \ {x} : identities[y] # u

\* All calls of an identity act for the same user: the one in the table.
CallsAgreeOnUser ==
    \A s \in Sessions : call[s].pc \in {"found", "resolved", "answered"} =>
        call[s].user = identities[call[s].identity]

\* A call that gets through authentication finds its account, and the loser of
\* a race for a new identity finds the winner's: neither ErrAccountNotFound nor
\* "find concurrently created auth identity" can be answered.
SignInNeverFails == \A s \in Sessions : call[s].pc \notin {"notFound", "failed"}

\* The statements of concurrent calls amount to the atomic steps of the
\* directory: one sign-up per identity, and profiles replaced by their owners.
Directory == INSTANCE AccountDirectory
DirectorySpec == Directory!Spec

\* Every call ends: the wait for another call's identity is always over some day.
EveryCallEnds ==
    \A s \in Sessions : call[s].pc # "idle" ~> call[s].pc = "idle"
=============================================================================
