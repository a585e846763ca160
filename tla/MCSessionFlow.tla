---------------------------- MODULE MCSessionFlow ----------------------------
(* Instances of SessionFlow for TLC: sessions of two users, one of whom has *)
(* not set up a profile.                                                    *)
EXTENDS SessionFlow, RequestErrors

MCUserOf ==
    [s \in Sessions \cup {NoSession} |->
        CASE s \in {"a1", "a2"} -> "A" [] s = "b1" -> "B" [] OTHER -> NoUser]

\* interceptor_test.go: a header that is missing, not of two fields or of another scheme,
\* a token that is refused, a context that has ended, a user that cannot be resolved.
ASSUME InterceptorAnswersAsTested ==
    LET trusted == [signed |-> TRUE, issued |-> TRUE, current |-> TRUE,
                    claims |-> RequiredClaims, blank |-> {}]
        good == [fields |-> 2, scheme |-> "Bearer", token |-> trusted,
                    context |-> NoError, resolving |-> NoError, zeroUser |-> FALSE]
    IN  /\ InterceptorCode(good) = NoError
        /\ \A r \in {[good EXCEPT !.fields = n] : n \in {0, 1, 3}}
                    \cup {[good EXCEPT !.scheme = "other"]}
                    \cup {[good EXCEPT !.token.claims = @ \ {c}] : c \in RequiredClaims}
                    \cup {[good EXCEPT !.token.blank = {c}] : c \in IdentityClaims} :
               InterceptorCode(r) = "Unauthenticated"
        /\ \A c \in ContextErrors :
               /\ InterceptorCode([good EXCEPT !.context = c]) = c
               /\ InterceptorCode([good EXCEPT !.resolving = c]) = c
        /\ \A r \in {[good EXCEPT !.resolving = "other"],
                     [good EXCEPT !.zeroUser = TRUE]} :
               InterceptorCode(r) = "Internal"

\* The codes that the server gives its own errors; the browser knows all of them.
ASSUME CodesOfTheServer ==
    UNION {{connectError(s, e) : e \in ServiceErrors(s)} : s \in Services}
      = {"Canceled", "DeadlineExceeded", "NotFound", "InvalidArgument",
         "FailedPrecondition", "AlreadyExists", "Internal"}
=============================================================================
