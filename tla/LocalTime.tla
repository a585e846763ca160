------------------------------- MODULE LocalTime -------------------------------
(***************************************************************************)
(* The wall clock of a time zone around one switch of its offset, and the  *)
(* conversions of ReviewWorkspace/model.ts between instants and the value  *)
(* of the form's date and time field.  Both are integers in one unit; the  *)
(* parsing and formatting of the two, and the days, are left out.          *)
(*                                                                         *)
(* A zone has one switch: those before and after it are months away, and a *)
(* conversion looks at no instant further than two offsets from its result.*)
(***************************************************************************)
EXTENDS Integers

ZonesOf(Instants, Offsets) == [at : Instants, before : Offsets, after : Offsets]

timeZoneOffset(instant, zone) == IF instant < zone.at THEN zone.before ELSE zone.after

localDateTime(zone, instant) == instant + timeZoneOffset(instant, zone)

\* The value is read as if it were UTC, for a first guess of the instant; the
\* offset at that guess is the one that counts.
zonedDateTimeToDate(value, zone) ==
    LET firstGuess == value - timeZoneOffset(value, zone)
    IN  value - timeZoneOffset(firstGuess, zone)

\* The clock shows the value at some instant; and at one before and one after the
\* switch, when it is put back.
Exists(value, zone) ==
    value - zone.before < zone.at \/ value - zone.after >= zone.at
HappensTwice(value, zone) ==
    value - zone.before < zone.at /\ value - zone.after >= zone.at
=============================================================================
