---------------------------- MODULE ProfileValues ----------------------------
(***************************************************************************)
(* The values of a profile: from the account to the fields of the form,    *)
(* through its checks to the server, whose checks they must pass too, into *)
(* the columns of accounts, and back into an account.  Operators only.     *)
(*                                                                         *)
(* A text has been trimmed; trim and TrimSpace agree but for U+FEFF and    *)
(* U+0085, which are left out.  Of its characters the checks see how many  *)
(* there are, how many bytes they take in UTF-8, and whether some are      *)
(* control characters or white space.  A column without a value is {}.     *)
(***************************************************************************)
EXTENDS Naturals

CONSTANTS
    ServerZones,     \* zones that time.LoadLocation knows (time/tzdata)
    CommonZones,     \* commonTimeZones
    SupportedZones,  \* Intl.supportedValuesOf("timeZone") of the browser
    defaultTimeZone

ASSUME ZonesAssumption ==
    /\ defaultTimeZone \in CommonZones
    /\ CommonZones \subseteq ServerZones

Texts ==
    {t \in [length : Nat, bytes : Nat, control : BOOLEAN, white : BOOLEAN] :
        /\ t.length <= t.bytes /\ t.bytes <= 4 * t.length
        /\ t.bytes = 0 => ~t.control /\ ~t.white}

Empty == [length |-> 0, bytes |-> 0, control |-> FALSE, white |-> FALSE]

MaxUsername == 40     \* characters
MaxAtCoderID == 64    \* bytes

-----------------------------------------------------------------------------
(* The server. *)

NewUsername(t) == t.length \in 1 .. MaxUsername /\ ~t.control
NewAtCoderID(t) == t.bytes \in 1 .. MaxAtCoderID /\ ~t.white
NewTimeZone(z) == z \in ServerZones

\* NewProfile; an AtCoder ID that is left empty is none.
ProfileValid(values) ==
    /\ NewUsername(values.username)
    /\ values.atcoderId = Empty \/ NewAtCoderID(values.atcoderId)
    /\ NewTimeZone(values.timeZone)

\* The columns that UpdateProfile writes.
ProfileColumns(values) ==
    [username |-> {values.username},
     atCoderID |-> IF values.atcoderId = Empty THEN {} ELSE {values.atcoderId},
     timeZone |-> values.timeZone]

\* A row that RehydrateAccount takes; otherwise every call of its user fails.
AccountValid(row) ==
    /\ \A t \in row.username : NewUsername(t)
    /\ \A t \in row.atCoderID : NewAtCoderID(t)
    /\ NewTimeZone(row.timeZone)

NewAccount == [username |-> {}, atCoderID |-> {}, timeZone |-> defaultTimeZone]

SetupCompleted(row) == row.username # {}

Rows ==
    {row \in [username : SUBSET Texts, atCoderID : SUBSET Texts, timeZone : ServerZones] :
        /\ \A s, t \in row.username : s = t
        /\ \A s, t \in row.atCoderID : s = t}

-----------------------------------------------------------------------------
(* The form. *)

ValueOf(column) == IF column = {} THEN Empty ELSE CHOOSE t \in column : TRUE

\* What form.reset fills in.
FormValues(row) ==
    [username |-> ValueOf(row.username), atcoderId |-> ValueOf(row.atCoderID),
     timeZone |-> row.timeZone]

\* The zones to choose from, for an account in zone current.
TimeZoneOptions(current) == CommonZones \cup SupportedZones \cup {current}

Forms(current) ==
    [username : Texts, atcoderId : Texts, timeZone : TimeZoneOptions(current)]

\* profileSchema: the fields with an error; without one the values are sent.
SchemaErrors(values) ==
    {field \in {"username", "atcoderId"} :
        CASE field = "username" ->
                \/ values.username.length < 1
                \/ values.username.length > MaxUsername
                \/ values.username.control
          [] field = "atcoderId" ->
                values.atcoderId.bytes > MaxAtCoderID \/ values.atcoderId.white}
=============================================================================
