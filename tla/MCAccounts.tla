------------------------------ MODULE MCAccounts ------------------------------
(* Instances of Accounts for TLC. *)
EXTENDS Accounts, ProfileValues

\* The cases of TestNewProfileValidatesInput and of the limits on either side.
Name == [length |-> 2, bytes |-> 6, control |-> FALSE, white |-> FALSE]
Profile(name, id, zone) == [username |-> name, atcoderId |-> id, timeZone |-> zone]
Ascii(n) == [length |-> n, bytes |-> n, control |-> FALSE, white |-> FALSE]

ASSUME ProfilesTakenAsTested ==
    /\ ProfileValid(Profile(Name, Ascii(7), "Asia/Tokyo"))
    /\ ProfileValid(Profile(Name, Empty, "Asia/Tokyo"))
    /\ ProfileValid(Profile(Ascii(40), Ascii(64), "Europe/Kyiv"))
    /\ ~ProfileValid(Profile(Empty, Empty, "Asia/Tokyo"))
    /\ ~ProfileValid(Profile(Name, [Ascii(10) EXCEPT !.white = TRUE], "Asia/Tokyo"))
    /\ ~ProfileValid(Profile(Name, Ascii(65), "Asia/Tokyo"))
    /\ ~ProfileValid(Profile(Ascii(41), Empty, "Asia/Tokyo"))
    /\ ~ProfileValid(Profile(Name, Empty, "Mars/Olympus"))

\* A form sends just the profiles that are taken, but for zones the server does not know.
ASSUME FormSendsWhatIsTaken ==
    \A name, id \in {Empty, Name, Ascii(40), Ascii(41), Ascii(64), Ascii(65),
                     [Name EXCEPT !.control = TRUE], [Name EXCEPT !.white = TRUE]},
       zone \in TimeZoneOptions(defaultTimeZone) :
        ProfileValid(Profile(name, id, zone)) <=>
            SchemaErrors(Profile(name, id, zone)) = {} /\ zone \in ServerZones

\* A new account is read back, and its form starts in its zone.
ASSUME NewAccountIsRead ==
    /\ AccountValid(NewAccount) /\ ~SetupCompleted(NewAccount)
    /\ FormValues(NewAccount) = Profile(Empty, Empty, defaultTimeZone)
=============================================================================
