---------------------------- MODULE AccountsProofs ----------------------------
(***************************************************************************)
(* Proofs about Accounts, for any number of sessions, identities and ids.  *)
(*                                                                         *)
(* The properties are not inductive.  AccountInv adds what the open        *)
(* transactions hold back: an id that is drawn belongs to one call and has *)
(* no committed account before the commit, an identity is inserted by one  *)
(* transaction at most and only while it is not committed, and who loses   *)
(* that race will find the winner's row.                                   *)
(***************************************************************************)
EXTENDS Accounts, ProfileValues, TLAPS

IdsDrawnOnce ==
    \A s, t \in Sessions :
        call[s].new # None /\ call[s].new = call[t].new => s = t

InsertedBeforeCommit ==
    \A s \in Sessions :
        /\ call[s].pc \in {"created", "linked"} => accounts[call[s].new] = None
        /\ call[s].pc = "linked" =>
                /\ identities[call[s].identity] = None
                /\ call[s].user = call[s].new
                /\ ~IdentityPending(s, call[s].identity)

LosersHaveWinners ==
    \A s \in Sessions :
        call[s].pc \in {"lost", "deleted"} => identities[call[s].identity] # None

AccountInv ==
    /\ TypeOK
    /\ OneAccountPerIdentity
    /\ CallsAgreeOnUser
    /\ SignInNeverFails
    /\ IdsDrawnOnce
    /\ InsertedBeforeCommit
    /\ LosersHaveWinners


-----------------------------------------------------------------------------
LEMMA InitEstablishes == Init => AccountInv
  <1> SUFFICES ASSUME Init PROVE AccountInv
    OBVIOUS
  <1>1. TypeOK
    BY AccountsAssumption DEF Init, TypeOK, Idle, Places
  <1>2. OneAccountPerIdentity /\ CallsAgreeOnUser /\ SignInNeverFails
    BY AccountsAssumption DEF Init, OneAccountPerIdentity, CallsAgreeOnUser,
       SignInNeverFails, Idle
  <1>3. IdsDrawnOnce /\ InsertedBeforeCommit /\ LosersHaveWinners
    BY AccountsAssumption DEF Init, IdsDrawnOnce, InsertedBeforeCommit,
       LosersHaveWinners, IdentityPending, Idle
  <1> QED
    BY <1>1, <1>2, <1>3 DEF AccountInv

\* Reading the identity of a committed row, wherever the call goes from there.
LEMMA FindKeeps ==
    ASSUME AccountInv, NEW s \in Sessions,
           FindFast(s) \/ FindInTransaction(s) \/ FindWinner(s)
    PROVE  AccountInv'
  <1> USE AccountsAssumption
  <1>1. TypeOK'
    BY DEF AccountInv, TypeOK, Places, FindFast, FindInTransaction, FindWinner,
       FindUserID, LosersHaveWinners
  <1>2. OneAccountPerIdentity'
    BY DEF AccountInv, OneAccountPerIdentity, FindFast, FindInTransaction,
       FindWinner, FindUserID
  <1>3. CallsAgreeOnUser'
    BY DEF AccountInv, TypeOK, CallsAgreeOnUser, FindFast, FindInTransaction,
       FindWinner, FindUserID
  <1>4. SignInNeverFails'
    BY DEF AccountInv, TypeOK, SignInNeverFails, LosersHaveWinners, FindFast,
       FindInTransaction, FindWinner, FindUserID
  <1>5. IdsDrawnOnce'
    BY DEF AccountInv, TypeOK, IdsDrawnOnce, FindFast, FindInTransaction,
       FindWinner, FindUserID
  <1>6. InsertedBeforeCommit'
    BY DEF AccountInv, TypeOK, InsertedBeforeCommit, IdentityPending, FindFast,
       FindInTransaction, FindWinner, FindUserID
  <1>7. LosersHaveWinners'
    BY DEF AccountInv, TypeOK, LosersHaveWinners, FindFast, FindInTransaction,
       FindWinner, FindUserID
  <1> QED
    BY <1>1, <1>2, <1>3, <1>4, <1>5, <1>6, <1>7 DEF AccountInv

\* A call starts with nothing in hand.
LEMMA AuthenticateKeeps ==
    ASSUME AccountInv, NEW s \in Sessions, NEW x \in Identities, Authenticate(s, x)
    PROVE  AccountInv'
  <1> USE AccountsAssumption
  <1>1. TypeOK'
    BY DEF AccountInv, TypeOK, Places, Authenticate, Idle
  <1>2. OneAccountPerIdentity'
    BY DEF AccountInv, TypeOK, OneAccountPerIdentity, Authenticate, Idle
  <1>3. CallsAgreeOnUser'
    BY DEF AccountInv, TypeOK, CallsAgreeOnUser, Authenticate, Idle
  <1>4. SignInNeverFails'
    BY DEF AccountInv, TypeOK, SignInNeverFails, Authenticate, Idle
  <1>5. IdsDrawnOnce'
    BY DEF AccountInv, TypeOK, IdsDrawnOnce, Authenticate, Idle
  <1>6. InsertedBeforeCommit'
    BY DEF AccountInv, TypeOK, InsertedBeforeCommit, IdentityPending,
       Authenticate, Idle
  <1>7. LosersHaveWinners'
    BY DEF AccountInv, TypeOK, LosersHaveWinners, Authenticate, Idle
  <1> QED
    BY <1>1, <1>2, <1>3, <1>4, <1>5, <1>6, <1>7 DEF AccountInv

\* The loser of the race goes on to delete its account.
LEMMA LoseKeeps ==
    ASSUME AccountInv, NEW s \in Sessions, LoseAuthIdentity(s) \/ DeleteAccount(s)
    PROVE  AccountInv'
  <1> USE AccountsAssumption
  <1>1. TypeOK'
    BY DEF AccountInv, TypeOK, Places, LoseAuthIdentity, DeleteAccount, Goto
  <1>2. OneAccountPerIdentity'
    BY DEF AccountInv, TypeOK, OneAccountPerIdentity, LoseAuthIdentity,
       DeleteAccount, Goto
  <1>3. CallsAgreeOnUser'
    BY DEF AccountInv, TypeOK, CallsAgreeOnUser, LoseAuthIdentity,
       DeleteAccount, Goto
  <1>4. SignInNeverFails'
    BY DEF AccountInv, TypeOK, SignInNeverFails, LoseAuthIdentity,
       DeleteAccount, Goto
  <1>5. IdsDrawnOnce'
    BY DEF AccountInv, TypeOK, IdsDrawnOnce, LoseAuthIdentity, DeleteAccount,
       Goto
  <1>6. InsertedBeforeCommit'
    BY DEF AccountInv, TypeOK, InsertedBeforeCommit, IdentityPending,
       LoseAuthIdentity, DeleteAccount, Goto
  <1>7. LosersHaveWinners'
    BY DEF AccountInv, TypeOK, LosersHaveWinners, LoseAuthIdentity,
       DeleteAccount, Goto
  <1> QED
    BY <1>1, <1>2, <1>3, <1>4, <1>5, <1>6, <1>7 DEF AccountInv

\* An authenticated call finds its account.
LEMMA GetCurrentAccountKeeps ==
    ASSUME AccountInv, NEW s \in Sessions, GetCurrentAccount(s)
    PROVE  AccountInv'
  <1> USE AccountsAssumption
  <1>1. TypeOK'
    BY DEF AccountInv, TypeOK, Places, GetCurrentAccount, AnswerFor, Goto
  <1>2. OneAccountPerIdentity'
    BY DEF AccountInv, TypeOK, OneAccountPerIdentity, GetCurrentAccount,
       AnswerFor, Goto
  <1>3. CallsAgreeOnUser'
    BY DEF AccountInv, TypeOK, CallsAgreeOnUser, GetCurrentAccount, AnswerFor,
       Goto
  <1>4. SignInNeverFails'
    BY DEF AccountInv, TypeOK, SignInNeverFails, CallsAgreeOnUser,
       OneAccountPerIdentity, GetCurrentAccount, AnswerFor, Goto
  <1>5. IdsDrawnOnce'
    BY DEF AccountInv, TypeOK, IdsDrawnOnce, GetCurrentAccount, AnswerFor, Goto
  <1>6. InsertedBeforeCommit'
    BY DEF AccountInv, TypeOK, InsertedBeforeCommit, IdentityPending,
       GetCurrentAccount, AnswerFor, Goto
  <1>7. LosersHaveWinners'
    BY DEF AccountInv, TypeOK, LosersHaveWinners, GetCurrentAccount, AnswerFor,
       Goto
  <1> QED
    BY <1>1, <1>2, <1>3, <1>4, <1>5, <1>6, <1>7 DEF AccountInv

\* A call that ends lets go of all it held.
LEMMA EndKeeps ==
    ASSUME AccountInv, NEW s \in Sessions, Reply(s) \/ Abort(s)
    PROVE  AccountInv'
  <1> USE AccountsAssumption
  <1>1. TypeOK'
    BY DEF AccountInv, TypeOK, Places, Reply, Abort, Idle
  <1>2. OneAccountPerIdentity'
    BY DEF AccountInv, TypeOK, OneAccountPerIdentity, Reply, Abort, Idle
  <1>3. CallsAgreeOnUser'
    BY DEF AccountInv, TypeOK, CallsAgreeOnUser, Reply, Abort, Idle
  <1>4. SignInNeverFails'
    BY DEF AccountInv, TypeOK, SignInNeverFails, Reply, Abort, Idle
  <1>5. IdsDrawnOnce'
    BY DEF AccountInv, TypeOK, IdsDrawnOnce, Reply, Abort, Idle
  <1>6. InsertedBeforeCommit'
    BY DEF AccountInv, TypeOK, InsertedBeforeCommit, IdentityPending, Reply,
       Abort, Idle
  <1>7. LosersHaveWinners'
    BY DEF AccountInv, TypeOK, LosersHaveWinners, Reply, Abort, Idle
  <1> QED
    BY <1>1, <1>2, <1>3, <1>4, <1>5, <1>6, <1>7 DEF AccountInv

\* A drawn id is no one else's.
LEMMA CreateAccountKeeps ==
    ASSUME AccountInv, NEW s \in Sessions, CreateAccount(s)
    PROVE  AccountInv'
  <1> USE AccountsAssumption
  <1>1. TypeOK'
    BY DEF AccountInv, TypeOK, Places, CreateAccount, UnusedId
  <1>2. OneAccountPerIdentity'
    BY DEF AccountInv, TypeOK, OneAccountPerIdentity, CreateAccount, UnusedId
  <1>3. CallsAgreeOnUser'
    BY DEF AccountInv, TypeOK, CallsAgreeOnUser, CreateAccount, UnusedId
  <1>4. SignInNeverFails'
    BY DEF AccountInv, TypeOK, SignInNeverFails, CreateAccount, UnusedId
  <1>5. IdsDrawnOnce'
    BY DEF AccountInv, TypeOK, IdsDrawnOnce, CreateAccount, UnusedId
  <1>6. InsertedBeforeCommit'
    BY DEF AccountInv, TypeOK, InsertedBeforeCommit, IdentityPending,
       CreateAccount, UnusedId
  <1>7. LosersHaveWinners'
    BY DEF AccountInv, TypeOK, LosersHaveWinners, CreateAccount, UnusedId
  <1> QED
    BY <1>1, <1>2, <1>3, <1>4, <1>5, <1>6, <1>7 DEF AccountInv

\* The primary key admits one insertion of an identity at a time.
LEMMA CreateAuthIdentityKeeps ==
    ASSUME AccountInv, NEW s \in Sessions, CreateAuthIdentity(s)
    PROVE  AccountInv'
  <1> USE AccountsAssumption
  <1>1. TypeOK'
    BY DEF AccountInv, TypeOK, Places, CreateAuthIdentity
  <1>2. OneAccountPerIdentity'
    BY DEF AccountInv, TypeOK, OneAccountPerIdentity, CreateAuthIdentity
  <1>3. CallsAgreeOnUser'
    BY DEF AccountInv, TypeOK, CallsAgreeOnUser, CreateAuthIdentity
  <1>4. SignInNeverFails'
    BY DEF AccountInv, TypeOK, SignInNeverFails, CreateAuthIdentity
  <1>5. IdsDrawnOnce'
    BY DEF AccountInv, TypeOK, IdsDrawnOnce, CreateAuthIdentity
  <1>6. InsertedBeforeCommit'
    BY DEF AccountInv, TypeOK, InsertedBeforeCommit, IdentityPending,
       CreateAuthIdentity
  <1>7. LosersHaveWinners'
    BY DEF AccountInv, TypeOK, LosersHaveWinners, CreateAuthIdentity
  <1> QED
    BY <1>1, <1>2, <1>3, <1>4, <1>5, <1>6, <1>7 DEF AccountInv

\* The account and its identity appear together.
LEMMA CommitCreatedKeeps ==
    ASSUME AccountInv, NEW s \in Sessions, CommitCreated(s)
    PROVE  AccountInv'
  <1> USE AccountsAssumption
  <1>1. TypeOK'
    BY DEF AccountInv, TypeOK, Places, CommitCreated
  <1>2. OneAccountPerIdentity'
    BY DEF AccountInv, TypeOK, OneAccountPerIdentity, InsertedBeforeCommit,
       CommitCreated
  <1>3. CallsAgreeOnUser'
    BY DEF AccountInv, TypeOK, CallsAgreeOnUser, InsertedBeforeCommit,
       CommitCreated
  <1>4. SignInNeverFails'
    BY DEF AccountInv, TypeOK, SignInNeverFails, CommitCreated
  <1>5. IdsDrawnOnce'
    BY DEF AccountInv, TypeOK, IdsDrawnOnce, CommitCreated
  <1>6. InsertedBeforeCommit'
    BY DEF AccountInv, TypeOK, InsertedBeforeCommit, IdentityPending,
       IdsDrawnOnce, CommitCreated
  <1>7. LosersHaveWinners'
    BY DEF AccountInv, TypeOK, LosersHaveWinners, CommitCreated
  <1> QED
    BY <1>1, <1>2, <1>3, <1>4, <1>5, <1>6, <1>7 DEF AccountInv

\* The loser leaves nothing behind.
LEMMA CommitFoundKeeps ==
    ASSUME AccountInv, NEW s \in Sessions, CommitFound(s)
    PROVE  AccountInv'
  <1> USE AccountsAssumption
  <1>1. TypeOK'
    BY DEF AccountInv, TypeOK, Places, CommitFound, AccountsAfterFound
  <1>2. OneAccountPerIdentity'
    BY DEF AccountInv, TypeOK, OneAccountPerIdentity, CommitFound,
       AccountsAfterFound
  <1>3. CallsAgreeOnUser'
    BY DEF AccountInv, TypeOK, CallsAgreeOnUser, CommitFound,
       AccountsAfterFound
  <1>4. SignInNeverFails'
    BY DEF AccountInv, TypeOK, SignInNeverFails, CommitFound,
       AccountsAfterFound
  <1>5. IdsDrawnOnce'
    BY DEF AccountInv, TypeOK, IdsDrawnOnce, CommitFound, AccountsAfterFound
  <1>6. InsertedBeforeCommit'
    BY DEF AccountInv, TypeOK, InsertedBeforeCommit, IdentityPending,
       CommitFound, AccountsAfterFound
  <1>7. LosersHaveWinners'
    BY DEF AccountInv, TypeOK, LosersHaveWinners, CommitFound,
       AccountsAfterFound
  <1> QED
    BY <1>1, <1>2, <1>3, <1>4, <1>5, <1>6, <1>7 DEF AccountInv

\* A profile is replaced in an account that is there.
LEMMA UpdateProfileKeeps ==
    ASSUME AccountInv, NEW s \in Sessions, UpdateProfile(s)
    PROVE  AccountInv'
  <1> USE AccountsAssumption
  <1>1. TypeOK'
    BY DEF AccountInv, TypeOK, Places, UpdateProfile, AnswerFor
  <1>2. OneAccountPerIdentity'
    BY DEF AccountInv, TypeOK, OneAccountPerIdentity, UpdateProfile, AnswerFor
  <1>3. CallsAgreeOnUser'
    BY DEF AccountInv, TypeOK, CallsAgreeOnUser, UpdateProfile, AnswerFor
  <1>4. SignInNeverFails'
    BY DEF AccountInv, TypeOK, SignInNeverFails, CallsAgreeOnUser,
       OneAccountPerIdentity, UpdateProfile, AnswerFor
  <1>5. IdsDrawnOnce'
    BY DEF AccountInv, TypeOK, IdsDrawnOnce, UpdateProfile, AnswerFor
  <1>6. InsertedBeforeCommit'
    BY DEF AccountInv, TypeOK, InsertedBeforeCommit, IdentityPending,
       UpdateProfile, AnswerFor
  <1>7. LosersHaveWinners'
    BY DEF AccountInv, TypeOK, LosersHaveWinners, UpdateProfile, AnswerFor
  <1> QED
    BY <1>1, <1>2, <1>3, <1>4, <1>5, <1>6, <1>7 DEF AccountInv

LEMMA StutterKeeps == AccountInv /\ UNCHANGED vars => AccountInv'
  BY DEF AccountInv, vars, TypeOK, OneAccountPerIdentity, CallsAgreeOnUser,
     SignInNeverFails, IdsDrawnOnce, InsertedBeforeCommit, IdentityPending,
     LosersHaveWinners

\* AccountInv is inductive.
LEMMA NextKeeps == AccountInv /\ [Next]_vars => AccountInv'
  <1> SUFFICES ASSUME AccountInv, [Next]_vars PROVE AccountInv'
    OBVIOUS
  <1>1. CASE UNCHANGED vars
    BY <1>1, StutterKeeps
  <1>2. CASE Next
    <2> PICK s \in Sessions :
            (\E x \in Identities : Authenticate(s, x)) \/ Serve(s) \/ Abort(s)
      BY <1>2 DEF Next
    <2>1. CASE \E x \in Identities : Authenticate(s, x)
      BY <2>1, AuthenticateKeeps
    <2>2. CASE FindFast(s) \/ FindInTransaction(s) \/ FindWinner(s)
      BY <2>2, FindKeeps
    <2>3. CASE CreateAccount(s)
      BY <2>3, CreateAccountKeeps
    <2>4. CASE CreateAuthIdentity(s)
      BY <2>4, CreateAuthIdentityKeeps
    <2>5. CASE LoseAuthIdentity(s) \/ DeleteAccount(s)
      BY <2>5, LoseKeeps
    <2>6. CASE CommitCreated(s)
      BY <2>6, CommitCreatedKeeps
    <2>7. CASE CommitFound(s)
      BY <2>7, CommitFoundKeeps
    <2>8. CASE GetCurrentAccount(s)
      BY <2>8, GetCurrentAccountKeeps
    <2>9. CASE UpdateProfile(s)
      BY <2>9, UpdateProfileKeeps
    <2>10. CASE Reply(s) \/ Abort(s)
      BY <2>10, EndKeeps
    <2> QED
      BY <2>1, <2>2, <2>3, <2>4, <2>5, <2>6, <2>7, <2>8, <2>9, <2>10
      DEF Serve, Resolve, InsertAuthIdentity
  <1> QED
    BY <1>1, <1>2

-----------------------------------------------------------------------------
LEMMA AccountInvariance == Spec => []AccountInv
  BY InitEstablishes, NextKeeps, PTL DEF Spec

\* In every reachable state the variables have their types, and a call has a
\* user id exactly from the insertion or discovery of its identity on.
THEOREM TypeCorrect == Spec => []TypeOK
  <1>1. AccountInv => TypeOK
    BY DEF AccountInv
  <1> QED
    BY <1>1, AccountInvariance, PTL

\* ResolveOrCreateByAuthIdentity leaves each identity with one account and no
\* account without an identity, for any number of first accesses and failures.
THEOREM AccountsAreUnique == Spec => []OneAccountPerIdentity
  <1>1. AccountInv => OneAccountPerIdentity
    BY DEF AccountInv
  <1> QED
    BY <1>1, AccountInvariance, PTL

\* Whichever way a call resolved its identity, it acts for the user in the
\* table.
THEOREM CallsAgree == Spec => []CallsAgreeOnUser
  <1>1. AccountInv => CallsAgreeOnUser
    BY DEF AccountInv
  <1> QED
    BY <1>1, AccountInvariance, PTL

\* Neither the resolution's second lookup nor the handler can miss the row.
THEOREM SignInsSucceed == Spec => []SignInNeverFails
  <1>1. AccountInv => SignInNeverFails
    BY DEF AccountInv
  <1> QED
    BY <1>1, AccountInvariance, PTL

\* Every step of a call is a step of the directory or leaves it alone.
LEMMA StepsRefine ==
    ASSUME AccountInv, [Next]_vars
    PROVE  [Directory!Next]_Directory!vars
  <1> USE AccountsAssumption
  <1>1. CASE accounts' = accounts /\ identities' = identities
    BY <1>1 DEF Directory!vars
  <1>2. ASSUME NEW s \in Sessions, CommitCreated(s)
        PROVE  Directory!Next
    <2>1. call[s].identity \in Identities /\ call[s].new \in UserIds
      BY <1>2 DEF AccountInv, TypeOK, CommitCreated
    <2>2. Directory!SignUp(call[s].identity, call[s].new)
      BY <1>2 DEF AccountInv, InsertedBeforeCommit, CommitCreated, Directory!SignUp
    <2> QED
      BY <2>1, <2>2 DEF Directory!Next
  <1>3. ASSUME NEW s \in Sessions, UpdateProfile(s)
        PROVE  Directory!Next
    <2>1. /\ call[s].identity \in Identities
          /\ call[s].user = identities[call[s].identity]
          /\ call[s].user # None
      BY <1>3 DEF AccountInv, TypeOK, CallsAgreeOnUser, UpdateProfile
    <2>2. accounts[call[s].user] # None
      BY <2>1 DEF AccountInv, OneAccountPerIdentity
    <2>3. PICK p \in Profiles : accounts' = [accounts EXCEPT ![call[s].user] = p]
      BY <1>3, <2>2 DEF UpdateProfile, AccountInv, TypeOK
    <2>4. Directory!SetProfile(call[s].identity, p)
      BY <1>3, <2>1, <2>3 DEF UpdateProfile, Directory!SetProfile
    <2> QED
      BY <2>1, <2>4 DEF Directory!Next
  <1>4. \/ accounts' = accounts /\ identities' = identities
        \/ \E s \in Sessions : CommitCreated(s) \/ UpdateProfile(s)
    BY DEF Next, vars, Authenticate, Serve, Resolve, InsertAuthIdentity, FindFast,
       FindInTransaction, FindWinner, FindUserID, CreateAccount,
       CreateAuthIdentity, LoseAuthIdentity, DeleteAccount, CommitFound,
       AccountsAfterFound, GetCurrentAccount, Reply, Abort, Goto
  <1> QED
    BY <1>1, <1>2, <1>3, <1>4

\* The statements of concurrent calls implement the atomic directory: an
\* identity signs up once, and only profiles change after that.
THEOREM AccountsImplementDirectory == Spec => DirectorySpec
  <1>1. Init => Directory!Init
    BY DEF Init, Directory!Init
  <1>2. AccountInv /\ [Next]_vars => [Directory!Next]_Directory!vars
    BY StepsRefine
  <1> QED
    BY <1>1, <1>2, AccountInvariance, PTL DEF Spec, DirectorySpec, Directory!Spec

-----------------------------------------------------------------------------
(* The values of a profile. *)

LEMMA EmptyTexts ==
    ASSUME NEW t \in Texts
    PROVE  t = Empty <=> t.bytes = 0
<1>1. t.length \in Nat /\ t.bytes \in Nat /\ t.length <= t.bytes
  BY DEF Texts
<1>2. /\ t = [length |-> t.length, bytes |-> t.bytes, control |-> t.control,
              white |-> t.white]
      /\ t.control \in BOOLEAN /\ t.white \in BOOLEAN
      /\ t.bytes = 0 => ~t.control /\ ~t.white
  BY DEF Texts
<1>3. t.bytes = 0 => t = [length |-> 0, bytes |-> 0, control |-> FALSE, white |-> FALSE]
  <2> SUFFICES ASSUME t.bytes = 0
               PROVE  t = [length |-> 0, bytes |-> 0, control |-> FALSE, white |-> FALSE]
    OBVIOUS
  <2>1. t.length = 0
    BY <1>1
  <2>2. t.control = FALSE /\ t.white = FALSE
    BY <1>2
  <2> QED  BY <1>2, <2>1, <2>2
<1>4. t = Empty => t.bytes = 0
  BY DEF Empty
<1> QED  BY <1>3, <1>4 DEF Empty

\* What the form lets through, the server takes, so long as it knows the zone: the rules
\* of profileSchema, in UTF-16 and JavaScript's classes, are those of NewProfile.  The
\* saved profile is one that the account is read back with and completes its setup, so
\* that the guard does not send the user to the form again; and the form, filled anew
\* from the row, shows what was saved.
THEOREM SavedProfileIsComplete ==
    ASSUME NEW row \in Rows, NEW values \in Forms(row.timeZone),
           SchemaErrors(values) = {}, values.timeZone \in ServerZones
    PROVE  /\ ProfileValid(values)
           /\ AccountValid(ProfileColumns(values))
           /\ SetupCompleted(ProfileColumns(values))
           /\ FormValues(ProfileColumns(values)) = values
<1>1. /\ values.username \in Texts /\ values.atcoderId \in Texts
      /\ values = [username |-> values.username, atcoderId |-> values.atcoderId,
                   timeZone |-> values.timeZone]
  BY DEF Forms
<1>2. values.username.length \in Nat /\ values.atcoderId.bytes \in Nat
  BY <1>1 DEF Texts
<1>3. /\ values.username.length >= 1 /\ values.username.length <= MaxUsername
      /\ ~values.username.control
  <2>1. "username" \notin SchemaErrors(values)
    OBVIOUS
  <2> QED  BY <1>2, <2>1 DEF SchemaErrors, MaxUsername
<1>4. values.atcoderId.bytes <= MaxAtCoderID /\ ~values.atcoderId.white
  <2>1. "atcoderId" \notin SchemaErrors(values)
    OBVIOUS
  <2> QED  BY <1>2, <2>1 DEF SchemaErrors, MaxAtCoderID
<1>5. NewUsername(values.username)
  BY <1>2, <1>3 DEF NewUsername, MaxUsername
<1>6. values.atcoderId = Empty \/ NewAtCoderID(values.atcoderId)
  <2>1. CASE values.atcoderId.bytes = 0
    BY <1>1, <1>4, <2>1, EmptyTexts
  <2>2. CASE values.atcoderId.bytes # 0
    BY <1>2, <1>4, <2>2 DEF NewAtCoderID, MaxAtCoderID
  <2> QED  BY <2>1, <2>2
<1>7. ProfileValid(values)
  BY <1>5, <1>6 DEF ProfileValid, NewTimeZone
<1>8. AccountValid(ProfileColumns(values)) /\ SetupCompleted(ProfileColumns(values))
  BY <1>5, <1>6 DEF AccountValid, SetupCompleted, ProfileColumns, NewTimeZone
<1>9. ValueOf({values.username}) = values.username
  BY DEF ValueOf
<1>10. ValueOf(IF values.atcoderId = Empty THEN {} ELSE {values.atcoderId})
         = values.atcoderId
  BY DEF ValueOf
<1>11. FormValues(ProfileColumns(values)) =
           [username |-> values.username, atcoderId |-> values.atcoderId,
            timeZone |-> values.timeZone]
  BY <1>9, <1>10 DEF FormValues, ProfileColumns
<1> QED  BY <1>1, <1>7, <1>8, <1>11

\* An account's own values are a form that can be sent: the zone it is in is among the
\* options, also one that the browser does not list (the comment of getTimeZoneGroups),
\* and a user who changes nothing but the name is not refused for the rest.
THEOREM StoredValuesCanBeSaved ==
    ASSUME NEW row \in Rows, AccountValid(row), NEW name \in Texts,
           NewUsername(name)
    PROVE  LET values == [FormValues(row) EXCEPT !.username = name]
           IN  /\ values \in Forms(row.timeZone)
               /\ SchemaErrors(values) = {}
               /\ ProfileValid(values)
<1>1. /\ row.timeZone \in ServerZones /\ row.atCoderID \in SUBSET Texts
      /\ row.username \in SUBSET Texts
  BY DEF Rows
<1>2. PICK id : id = ValueOf(row.atCoderID)
  OBVIOUS
<1>3. PICK values : values = [username |-> name, atcoderId |-> id,
                             timeZone |-> row.timeZone]
  OBVIOUS
<1>4. [FormValues(row) EXCEPT !.username = name] = values
  BY <1>2, <1>3 DEF FormValues
<1>5. Empty \in Texts
  BY DEF Empty, Texts
<1>6. id = Empty \/ id \in row.atCoderID
  BY <1>2 DEF ValueOf
<1>7. id \in Texts /\ (id = Empty \/ NewAtCoderID(id))
  BY <1>1, <1>5, <1>6 DEF AccountValid
<1>8. id.bytes \in Nat /\ id.bytes <= 64 /\ ~id.white
  <2>1. CASE id = Empty
    BY <2>1 DEF Empty
  <2>2. CASE id # Empty
    BY <1>7, <2>2 DEF NewAtCoderID, MaxAtCoderID, Texts
  <2> QED  BY <2>1, <2>2
<1>9. name.length \in 1 .. 40 /\ ~name.control
  BY DEF NewUsername, MaxUsername
<1>10. values.username = name /\ values.atcoderId = id /\ values.timeZone = row.timeZone
  BY <1>3
<1>11. values \in Forms(row.timeZone)
  BY <1>3, <1>7 DEF Forms, TimeZoneOptions
<1>12. "username" \notin SchemaErrors(values)
  BY <1>9, <1>10 DEF SchemaErrors, MaxUsername
<1>13. "atcoderId" \notin SchemaErrors(values)
  BY <1>8, <1>10 DEF SchemaErrors, MaxAtCoderID
<1>14. SchemaErrors(values) = {}
  BY <1>12, <1>13 DEF SchemaErrors
<1>15. ProfileValid(values)
  BY <1>1, <1>7, <1>10 DEF ProfileValid, NewTimeZone
<1> QED  BY <1>4, <1>11, <1>14, <1>15
=============================================================================
