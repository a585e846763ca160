---------------------------- MODULE RequestErrors ----------------------------
(***************************************************************************)
(* From the failure of a call to what its user is told: who may call a     *)
(* handler, the Connect code of each error, and what the browser makes of  *)
(* a code.  Operators only.                                                *)
(*                                                                         *)
(* An error is the sentinel it wraps; "other" is one that wraps none of    *)
(* those the handlers look for (the database, a broken invariant).  A code *)
(* has its Connect name; "none" is no error, and no code.                  *)
(***************************************************************************)
EXTENDS QueryCache

NoError == "none"

ContextErrors == {"Canceled", "DeadlineExceeded"}

Codes ==
    ContextErrors \cup
    {"Unknown", "InvalidArgument", "NotFound", "AlreadyExists", "PermissionDenied",
     "FailedPrecondition", "Internal", "Unavailable", "Unauthenticated"}

-----------------------------------------------------------------------------
(* Authentication: a request is its header, the token in it and what comes  *)
(* of resolving the token's identity to a user.                             *)

RequiredClaims == {"iss", "sub", "aud", "exp", "email"}
IdentityClaims == {"iss", "sub", "email"}

Tokens ==
    [signed : BOOLEAN,                  \* by a key of the project's set
     issued : BOOLEAN,                  \* by the project, for its audience
     current : BOOLEAN,                 \* within the clock skew
     claims : SUBSET RequiredClaims,    \* those it has
     blank : SUBSET RequiredClaims]     \* those with nothing but white space

AuthRequests ==
    [fields : Nat, scheme : {"Bearer", "other"}, token : Tokens,
     context : ContextErrors \cup {NoError},
     resolving : ContextErrors \cup {"other", NoError}, zeroUser : BOOLEAN]

bearerToken(r) ==
    IF r.fields = 0 THEN "ErrMissingAuthorization"
    ELSE IF r.fields # 2 \/ r.scheme # "Bearer" THEN "ErrMalformedBearerToken" ELSE NoError

Trusted(t) ==
    /\ t.signed /\ t.issued /\ t.current
    /\ t.claims = RequiredClaims
    /\ t.blank \cap IdentityClaims = {}

Verify(r) == IF Trusted(r.token) THEN NoError ELSE "ErrInvalidToken"

Authenticate(r) ==
    CASE r.context # NoError -> r.context
      [] r.context = NoError /\ Verify(r) # NoError -> Verify(r)
      [] r.context = NoError /\ Verify(r) = NoError /\ r.resolving # NoError -> r.resolving
      [] OTHER -> IF r.zeroUser THEN "ErrInvalidResolvedUser" ELSE NoError

\* The handler runs if there is no code.
InterceptorCode(r) ==
    LET error == Authenticate(r)
    IN  CASE bearerToken(r) # NoError -> "Unauthenticated"
          [] bearerToken(r) = NoError /\ error \in ContextErrors \cup {NoError} -> error
          [] bearerToken(r) = NoError /\ error = "ErrInvalidToken" -> "Unauthenticated"
          [] OTHER -> "Internal"

-----------------------------------------------------------------------------
(* The errors of the handlers.                                              *)

ReviewInputErrors ==
    {"ErrInvalidID", "ErrInvalidNote", "ErrInvalidOutcome", "ErrInvalidPerformedAt",
     "ErrInvalidProblemID", "ErrInvalidProblemURL", "ErrNoProblems", "ErrTooManyProblems"}
AccountInputErrors == {"ErrInvalidUsername", "ErrInvalidAtCoderID", "ErrInvalidTimeZone"}
CatalogInputErrors == {"ErrInvalidContestQuery", "ErrInvalidContestID"}

NotFoundErrors ==
    [review |-> {"ErrReviewItemNotFound", "ErrProblemNotFound"},
     account |-> {"ErrAccountNotFound"}, catalog |-> {"ErrContestNotFound"}]
InputErrors ==
    [review |-> ReviewInputErrors, account |-> AccountInputErrors,
     catalog |-> CatalogInputErrors]
Services == {"review", "account", "catalog"}

ServiceErrors(s) ==
    ContextErrors \cup NotFoundErrors[s] \cup InputErrors[s] \cup {"other"}
      \cup IF s = "review" THEN {"ErrReviewItemPaused", "ErrRequestIDConflict"} ELSE {}

\* What the reviews' handler adds to the rule that all three have in common.
ReviewRefusalCode(error) ==
    CASE error = "ErrReviewItemPaused" -> "FailedPrecondition"
      [] error = "ErrRequestIDConflict" -> "AlreadyExists"
      [] OTHER -> "Internal"

connectError(s, error) ==
    CASE error \in ContextErrors -> error
      [] error \in NotFoundErrors[s] -> "NotFound"
      [] error \in InputErrors[s] -> "InvalidArgument"
      [] OTHER -> IF s = "review" THEN ReviewRefusalCode(error) ELSE "Internal"

\* A request whose handler, if it runs, fails with error.
CodeOf(r, s, error) ==
    IF InterceptorCode(r) # NoError THEN InterceptorCode(r) ELSE connectError(s, error)

-----------------------------------------------------------------------------
(* The browser.                                                             *)

isAuthenticationError(code) == code \in {"Unauthenticated", "PermissionDenied"}

retryableCodes == {"Unknown", "DeadlineExceeded", "Internal", "Unavailable"}
shouldRetryConnectQuery(failureCount, code) == failureCount < 2 /\ code \in retryableCodes

\* The kinds of error that the entries of QueryCache know.
KindOf(code) ==
    IF isAuthenticationError(code) THEN "authentication"
    ELSE IF code \in retryableCodes THEN "transient" ELSE "rejected"

connectErrorMessage(code) ==
    CASE isAuthenticationError(code) -> "log in again"
      [] code = "InvalidArgument" -> "check the input"
      [] code \in {"Unavailable", "DeadlineExceeded"} -> "no connection"
      [] OTHER -> "try again later"

\* The result sheet and the form for a URL have one message each of their own.
sheetErrorMessage(code) ==
    IF code = "FailedPrecondition" THEN "paused" ELSE connectErrorMessage(code)
urlErrorMessage(code) ==
    IF code = "InvalidArgument" THEN "how a problem's URL looks"
    ELSE connectErrorMessage(code)
=============================================================================
