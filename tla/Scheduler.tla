------------------------------- MODULE Scheduler -------------------------------
(***************************************************************************)
(* The number of days until the next review: scheduler.go and fuzz.go, over *)
(* whatever intervals the memory model (fsrs.go) proposes.                 *)
(*                                                                         *)
(* A proposed interval is a number of Parts of a day, a fuzz factor one of *)
(* FuzzSteps steps from zero to below one.  The arithmetic is exact where  *)
(* float64 rounds.                                                         *)
(***************************************************************************)
EXTENDS Integers

CONSTANTS
    Parts,            \* the resolution of the proposed intervals, per day
    FuzzSteps,        \* the resolution of the fuzz factor: 1 << 53
    MaximumInterval   \* the longest interval, in days

\* What the theorems assume of the constants.
SchedulerConstants ==
    Parts \in Nat \ {0} /\ FuzzSteps \in Nat \ {0} /\ MaximumInterval \in Nat \ {0}

Again == 1
Hard == 2
Good == 3
Easy == 4

NoFuzz == [enabled |-> FALSE, factor |-> 0]
Fuzzes == [enabled : BOOLEAN, factor : 0 .. FuzzSteps - 1]

Lesser(a, b) == IF a <= b THEN a ELSE b
Greater(a, b) == IF a >= b THEN a ELSE b
Clamped(value, lower, upper) == Lesser(Greater(value, lower), upper)

\* math.Round of n/d, for what is not negative.
Rounded(n, d) == (2 * n + d) \div (2 * d)

RoundedDays(interval) == Rounded(interval, Parts)

\* A day and 15%, 10% and 5% of what lies in the bands from 2.5, 7 and 20 days on,
\* in fortieths of a part.
FuzzDelta(interval) ==
    IF 2 * interval < 5 * Parts THEN 0
    ELSE 40 * Parts
         + 3 * (2 * Lesser(interval, 7 * Parts) - 5 * Parts)
         + 4 * Greater(Lesser(interval, 20 * Parts) - 7 * Parts, 0)
         + 2 * Greater(interval - 20 * Parts, 0)

\* The days around an interval that the fuzz may choose from.  A range of one day is
\* widened where there is room.
ConstrainedFuzzBounds(interval, least) ==
    LET minimum == Lesser(least, MaximumInterval)
        x == Clamped(interval, minimum * Parts, MaximumInterval * Parts)
        Day(fortieths) == Clamped(Rounded(fortieths, 40 * Parts), minimum, MaximumInterval)
        lower == Day(40 * x - FuzzDelta(x))
        upper == Day(40 * x + FuzzDelta(x))
    IN  [lower |-> lower,
         upper |-> IF upper = lower /\ upper > 2 /\ upper < MaximumInterval
                   THEN lower + 1 ELSE upper]

Apply(fuzz, interval, minimum) ==
    IF fuzz.enabled
    THEN LET bounds == ConstrainedFuzzBounds(interval, minimum)
         IN  bounds.lower + (fuzz.factor * (1 + bounds.upper - bounds.lower)) \div FuzzSteps
    ELSE Clamped(RoundedDays(interval), minimum, MaximumInterval)

\* The least interval that keeps the fuzz from shortening the previous one.
MinimumReviewFuzzInterval(interval, previous) ==
    CASE RoundedDays(interval) > previous -> previous + 1
      [] /\ RoundedDays(interval) <= previous
         /\ previous <= ConstrainedFuzzBounds(interval, 1).upper -> previous
      [] OTHER -> 0

\* states has the interval proposed for each rating.
FirstInterval(states, rating, fuzz) ==
    LET Whole(interval) == Greater(RoundedDays(interval), 1) * Parts
    IN  IF rating = Easy
        THEN Apply(fuzz, Whole(states[Easy]), Apply(fuzz, states[Good], 1) + 1)
        ELSE Apply(fuzz, Whole(states[rating]), 1)

LapseInterval(interval) == Lesser(Greater(RoundedDays(interval), 1), MaximumInterval)

PassingInterval(interval, previous, lowerBound, fuzz) ==
    LET minimum == Greater(MinimumReviewFuzzInterval(interval, previous), lowerBound)
    IN  Apply(fuzz, interval, Clamped(minimum, 1, MaximumInterval))

PassingReviewIntervals(previous, states, fuzz) ==
    LET hard == PassingInterval(states[Hard], previous, 1, fuzz)
        good == PassingInterval(states[Good], previous, hard + 1, fuzz)
        easy == PassingInterval(states[Easy], previous, good + 1, fuzz)
    IN  <<hard, good, easy>>

\* The IntervalDays of Next, for a card that is new or had the interval previous.
NextInterval(new, previous, states, rating, fuzz) ==
    IF new THEN FirstInterval(states, rating, fuzz)
    ELSE IF rating = Again THEN LapseInterval(states[Again])
    ELSE PassingReviewIntervals(previous, states, fuzz)[rating - Again]
=============================================================================
