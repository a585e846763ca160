--------------------------- MODULE AccountDirectory ---------------------------
(***************************************************************************)
(* What the account module promises: an identity that signs in for the     *)
(* first time gets an account of its own, keeps it for ever, and a profile *)
(* once set can be replaced but is never taken back.                       *)
(***************************************************************************)
CONSTANTS
    Identities,    \* external identities (issuer and subject)
    UserIds,       \* ids that identifier.NewUserID may draw
    Profiles,      \* profiles a user may set
    Unset,         \* the profile of an account whose owner has set none
    None           \* no row

VARIABLES
    accounts,      \* accounts: [UserIds -> Profiles, Unset or None]
    identities     \* auth_identities: [Identities -> UserIds or None]

vars == <<accounts, identities>>

Init ==
    /\ accounts = [u \in UserIds |-> None]
    /\ identities = [x \in Identities |-> None]

SignUp(x, u) ==
    /\ identities[x] = None
    /\ accounts[u] = None
    /\ identities' = [identities EXCEPT ![x] = u]
    /\ accounts' = [accounts EXCEPT ![u] = Unset]

SetProfile(x, p) ==
    /\ identities[x] # None
    /\ accounts' = [accounts EXCEPT ![identities[x]] = p]
    /\ UNCHANGED identities

Next ==
    \E x \in Identities :
        \/ \E u \in UserIds : SignUp(x, u)
        \/ \E p \in Profiles : SetProfile(x, p)

Spec == Init /\ [][Next]_vars
=============================================================================
