---------------------------- MODULE CalendarProofs -----------------------------
(***************************************************************************)
(* The arithmetic of dates.  What the two passes of zonedDateTimeToDate    *)
(* compute, for any two offsets and any switch between them, and that the  *)
(* result form sends it.  What interval the scheduler chooses, for any     *)
(* intervals that the memory model proposes and any fuzz.                  *)
(***************************************************************************)
EXTENDS ResultForm, Scheduler, TLAPS


\* The conversions yield integers.
LEMMA ConversionTypes ==
    ASSUME NEW zone \in ZonesOf(Int, Int), NEW t \in Int
    PROVE  localDateTime(zone, t) \in Int /\ zonedDateTimeToDate(t, zone) \in Int
BY DEF ZonesOf, localDateTime, zonedDateTimeToDate, timeZoneOffset

\* zonedDateTimeToDate: whatever the offsets, a value that the clock shows at some
\* instant is converted to an instant at which the clock shows it.
THEOREM ConversionIsExact ==
    ASSUME NEW zone \in ZonesOf(Int, Int), NEW value \in Int, Exists(value, zone)
    PROVE  localDateTime(zone, zonedDateTimeToDate(value, zone)) = value
<1> DEFINE at == zone.at
           before == zone.before
           after == zone.after
<1>1. at \in Int /\ before \in Int /\ after \in Int
  BY DEF ZonesOf
<1>2. CASE value < at
  BY <1>1, <1>2 DEF Exists, localDateTime, zonedDateTimeToDate, timeZoneOffset
<1>3. CASE ~(value < at)
  BY <1>1, <1>3 DEF Exists, localDateTime, zonedDateTimeToDate, timeZoneOffset
<1> QED  BY <1>2, <1>3

\* The default of the field comes back as the instant it was made from, except
\* where the clock shows it twice.
THEOREM RoundTrip ==
    ASSUME NEW zone \in ZonesOf(Int, Int), NEW instant \in Int,
           ~HappensTwice(localDateTime(zone, instant), zone)
    PROVE  zonedDateTimeToDate(localDateTime(zone, instant), zone) = instant
<1> DEFINE value == localDateTime(zone, instant)
           result == zonedDateTimeToDate(value, zone)
<1>1. zone.at \in Int /\ zone.before \in Int /\ zone.after \in Int
  BY DEF ZonesOf
<1>2. value \in Int /\ result \in Int
  BY ConversionTypes
<1>3. Exists(value, zone)
  BY <1>1 DEF Exists, localDateTime, timeZoneOffset
<1>4. localDateTime(zone, result) = value
  BY <1>2, <1>3, ConversionIsExact
<1>5. \/ value - zone.before >= zone.at
      \/ value - zone.after < zone.at
  BY <1>1, <1>2 DEF HappensTwice
<1>6. \A t \in Int : localDateTime(zone, t) = value =>
        \/ t < zone.at /\ t = value - zone.before
        \/ t >= zone.at /\ t = value - zone.after
  BY <1>1, <1>2 DEF localDateTime, timeZoneOffset
<1> HIDE DEF value, result
<1>7. localDateTime(zone, instant) = value
  BY DEF value
<1>8. result = instant
  BY <1>1, <1>2, <1>4, <1>5, <1>6, <1>7
<1> QED  BY <1>8 DEF result, value

\* Where the clock shows it twice, a zone ahead of UTC takes the later instant: in
\* the hour before the clock is put back, the time the form shows by default is
\* sent as one that is that much ahead.
THEOREM AheadTakesTheLater ==
    ASSUME NEW zone \in ZonesOf(Int, Int), NEW instant \in Int,
           zone.after >= 0, zone.before > zone.after,
           instant < zone.at,
           HappensTwice(localDateTime(zone, instant), zone)
    PROVE  zonedDateTimeToDate(localDateTime(zone, instant), zone)
             = instant + (zone.before - zone.after)
BY DEF ZonesOf, HappensTwice, localDateTime, zonedDateTimeToDate, timeZoneOffset

-----------------------------------------------------------------------------
LEMMA FormTypeInvariant ==
    ASSUME FormConstants
    PROVE  Spec => []ResultFormTypeOK
<1>1. Init => ResultFormTypeOK
  <2>1. Instants \subseteq Int /\ Offsets \subseteq Int /\ Start \in Int
    BY DEF FormConstants, Instants
  <2>2. ZonesOf(Instants, Offsets) \subseteq ZonesOf(Int, Int)
    BY <2>1 DEF ZonesOf
  <2> QED  BY <2>1, <2>2 DEF Init, ResultFormTypeOK
<1>2. ResultFormTypeOK /\ [Next]_vars => ResultFormTypeOK'
  <2> SUFFICES ASSUME ResultFormTypeOK, [Next]_vars
               PROVE  ResultFormTypeOK'
    OBVIOUS
  <2> USE DEF ResultFormTypeOK
  <2>1. CASE Tick  BY <2>1 DEF Tick
  <2>2. CASE Open
    <3>1. performedAt' \in Int  BY <2>2, ConversionTypes DEF Open
    <3> QED  BY <2>2, <3>1 DEF Open
  <2>3. CASE \E value \in Values : Edit(value)
    <3>1. PICK value \in Values : Edit(value)  BY <2>3
    <3>2. value \in Int
      BY <3>1 DEF Values, Instants, FormConstants
    <3> QED  BY <3>1, <3>2 DEF Edit
  <2>4. CASE Submit
    <3>1. sent' \in Int  BY <2>4, ConversionTypes DEF Submit
    <3> QED  BY <2>4, <3>1 DEF Submit
  <2>5. CASE Answer  BY <2>5 DEF Answer
  <2>6. CASE Close  BY <2>6 DEF Close
  <2>7. CASE UNCHANGED vars  BY <2>7 DEF vars
  <2> QED  BY <2>1, <2>2, <2>3, <2>4, <2>5, <2>6, <2>7 DEF Next
<1> QED  BY <1>1, <1>2, PTL DEF Spec

\* useReviewResultSheet: as long as the field is not changed, what was sent reads
\* on the account's clock as the field does, in every zone and around every switch.
THEOREM SentIsAsShown ==
    ASSUME FormConstants
    PROVE  Spec => []SentAsShown
<1>1. Init => SentAsShown
  BY DEF Init, SentAsShown
<1>2. ResultFormTypeOK /\ SentAsShown /\ [Next]_vars => SentAsShown'
  <2> SUFFICES ASSUME ResultFormTypeOK, SentAsShown, [Next]_vars
               PROVE  SentAsShown'
    OBVIOUS
  <2>1. CASE Tick  BY <2>1 DEF Tick, SentAsShown
  <2>2. CASE Open  BY <2>2 DEF Open, SentAsShown
  <2>3. CASE \E value \in Values : Edit(value)  BY <2>3 DEF Edit, SentAsShown
  <2>4. CASE Submit
    BY <2>4, ConversionIsExact DEF Submit, SentAsShown, ResultFormTypeOK
  <2>5. CASE Answer  BY <2>5 DEF Answer, SentAsShown
  <2>6. CASE Close  BY <2>6 DEF Close, SentAsShown
  <2>7. CASE UNCHANGED vars  BY <2>7 DEF vars, SentAsShown
  <2> QED  BY <2>1, <2>2, <2>3, <2>4, <2>5, <2>6, <2>7 DEF Next
<1> QED  BY <1>1, <1>2, FormTypeInvariant, PTL DEF Spec

-----------------------------------------------------------------------------
(* The scheduler. *)

\* Rounding, by what it is not above and what it is not below.
LEMMA RoundedAtLeast ==
    ASSUME NEW n \in Int, NEW d \in Nat \ {0}, NEW q \in Int
    PROVE  /\ Rounded(n, d) \in Int
           /\ Rounded(n, d) >= q <=> 2 * n + d >= (2 * d) * q
<1> DEFINE a == 2 * n + d
           b == 2 * d
           r == a \div b
<1>1. a \in Int /\ b \in Nat \ {0}
  OBVIOUS
<1> HIDE DEF a, b
<1>2. r \in Int /\ b * r <= a /\ a < b * (r + 1)
  BY <1>1
<1> HIDE DEF r
<1>3. ASSUME r >= q  PROVE a >= b * q
  <2>1. b * r >= b * q
    BY <1>1, <1>2, <1>3
  <2> QED  BY <1>1, <1>2, <2>1
<1>4. ASSUME r < q  PROVE a < b * q
  <2>1. b * (r + 1) <= b * q
    BY <1>1, <1>2, <1>4
  <2> QED  BY <1>1, <1>2, <2>1
<1> QED  BY <1>1, <1>2, <1>3, <1>4 DEF Rounded, a, b, r

LEMMA RoundedMonotone ==
    ASSUME NEW m \in Int, NEW n \in Int, m <= n, NEW d \in Nat \ {0}
    PROVE  Rounded(m, d) <= Rounded(n, d)
<1>1. Rounded(m, d) \in Int
  BY RoundedAtLeast
<1>2. 2 * m + d >= (2 * d) * Rounded(m, d)
  BY <1>1, RoundedAtLeast
<1>3. 2 * n + d >= 2 * m + d
  OBVIOUS
<1>4. (2 * d) * Rounded(m, d) \in Int
  BY <1>1
<1>5. 2 * n + d >= (2 * d) * Rounded(m, d)
  BY <1>2, <1>3, <1>4
<1>6. Rounded(n, d) >= Rounded(m, d)
  BY <1>1, <1>5, RoundedAtLeast
<1> QED  BY <1>1, <1>6, RoundedAtLeast

LEMMA FuzzDeltaIsNat ==
    ASSUME SchedulerConstants, NEW interval \in Int
    PROVE  FuzzDelta(interval) \in Nat
BY DEF SchedulerConstants, FuzzDelta, Lesser, Greater

\* The days the fuzz may choose from lie within the limits, and there is one.
LEMMA FuzzBoundsInRange ==
    ASSUME SchedulerConstants, NEW interval \in Int, NEW least \in Nat
    PROVE  LET bounds == ConstrainedFuzzBounds(interval, least)
           IN  /\ bounds.lower \in Lesser(least, MaximumInterval) .. bounds.upper
               /\ bounds.upper \in Nat /\ bounds.upper <= MaximumInterval
<1> DEFINE minimum == Lesser(least, MaximumInterval)
           x == Clamped(interval, minimum * Parts, MaximumInterval * Parts)
           a == Rounded(40 * x - FuzzDelta(x), 40 * Parts)
           b == Rounded(40 * x + FuzzDelta(x), 40 * Parts)
           lower == Clamped(a, minimum, MaximumInterval)
           upper == Clamped(b, minimum, MaximumInterval)
           bounds == ConstrainedFuzzBounds(interval, least)
<1>1. minimum \in Nat /\ minimum <= MaximumInterval
  BY DEF SchedulerConstants, Lesser
<1>2. x \in Int
  <2>1. minimum * Parts \in Int /\ MaximumInterval * Parts \in Int
    BY <1>1 DEF SchedulerConstants
  <2> QED  BY <2>1 DEF Clamped, Lesser, Greater
<1> HIDE DEF x
<1>3. FuzzDelta(x) \in Nat
  BY <1>2, FuzzDeltaIsNat
<1>4. a \in Int /\ b \in Int /\ a <= b
  BY <1>2, <1>3, RoundedAtLeast, RoundedMonotone DEF SchedulerConstants
<1>5. bounds = [lower |-> lower,
                upper |-> IF upper = lower /\ upper > 2 /\ upper < MaximumInterval
                          THEN lower + 1 ELSE upper]
  BY DEF ConstrainedFuzzBounds, x
<1> HIDE DEF minimum, a, b, bounds
<1>6. lower \in minimum .. upper /\ upper \in Nat /\ upper <= MaximumInterval
  BY <1>1, <1>4 DEF Clamped, Lesser, Greater, SchedulerConstants
<1> HIDE DEF lower, upper
<1>7. bounds.lower \in minimum .. bounds.upper /\ bounds.upper \in Nat
        /\ bounds.upper <= MaximumInterval
  BY <1>1, <1>5, <1>6 DEF SchedulerConstants
<1> QED  BY <1>7 DEF bounds, minimum

\* A factor below one never reaches past the last day.
LEMMA FactorChooses ==
    ASSUME SchedulerConstants, NEW k \in 0 .. FuzzSteps - 1, NEW w \in Nat \ {0}
    PROVE  (k * w) \div FuzzSteps \in 0 .. w - 1
<1> DEFINE p == k * w
           q == p \div FuzzSteps
<1>1. p \in Nat
  BY DEF SchedulerConstants
<1>2. p < FuzzSteps * w
  BY DEF SchedulerConstants
<1> HIDE DEF p
<1>3. q \in Int /\ FuzzSteps * q <= p /\ p < FuzzSteps * (q + 1)
  BY <1>1 DEF SchedulerConstants
<1> HIDE DEF q
<1>4. q < w
  <2> SUFFICES ASSUME q >= w  PROVE FALSE
    BY <1>3
  <2>1. FuzzSteps * q >= FuzzSteps * w
    BY <1>3 DEF SchedulerConstants
  <2> QED  BY <1>1, <1>2, <1>3, <2>1 DEF SchedulerConstants
<1>5. q >= 0
  <2> SUFFICES ASSUME q + 1 <= 0  PROVE FALSE
    BY <1>3
  <2>1. FuzzSteps * (q + 1) <= 0
    BY <1>3 DEF SchedulerConstants
  <2> QED  BY <1>1, <1>3, <2>1 DEF SchedulerConstants
<1> QED  BY <1>3, <1>4, <1>5 DEF p, q

LEMMA ApplyInRange ==
    ASSUME SchedulerConstants, NEW fuzz \in Fuzzes, NEW interval \in Int,
           NEW minimum \in Nat
    PROVE  Apply(fuzz, interval, minimum)
             \in Lesser(minimum, MaximumInterval) .. MaximumInterval
<1>1. CASE fuzz.enabled
  <2> DEFINE bounds == ConstrainedFuzzBounds(interval, minimum)
             w == 1 + bounds.upper - bounds.lower
             q == (fuzz.factor * w) \div FuzzSteps
  <2>1. /\ bounds.lower \in Lesser(minimum, MaximumInterval) .. bounds.upper
        /\ bounds.upper \in Nat /\ bounds.upper <= MaximumInterval
    BY FuzzBoundsInRange
  <2>2. Lesser(minimum, MaximumInterval) \in Nat
    BY DEF Lesser, SchedulerConstants
  <2>3. Apply(fuzz, interval, minimum) = bounds.lower + q
    BY <1>1 DEF Apply
  <2> HIDE DEF bounds
  <2>4. w \in Nat \ {0}
    BY <2>1, <2>2
  <2>5. fuzz.factor \in 0 .. FuzzSteps - 1
    BY DEF Fuzzes
  <2>6. q \in 0 .. w - 1
    <3> HIDE DEF w
    <3> QED  BY <2>4, <2>5, FactorChooses
  <2> HIDE DEF q
  <2> QED  BY <2>1, <2>2, <2>3, <2>6 DEF SchedulerConstants
<1>2. CASE ~fuzz.enabled
  <2>1. RoundedDays(interval) \in Int
    BY RoundedAtLeast DEF RoundedDays, SchedulerConstants
  <2> QED
    BY <1>2, <2>1 DEF Apply, Clamped, Lesser, Greater, SchedulerConstants
<1> QED  BY <1>1, <1>2

LEMMA MinimumIsNat ==
    ASSUME SchedulerConstants, NEW interval \in Nat, NEW previous \in Nat
    PROVE  MinimumReviewFuzzInterval(interval, previous) \in Nat
<1>1. RoundedDays(interval) \in Int
  BY RoundedAtLeast DEF RoundedDays, SchedulerConstants
<1>2. \/ RoundedDays(interval) > previous
      \/ RoundedDays(interval) <= previous
  BY <1>1
<1> QED  BY <1>2 DEF MinimumReviewFuzzInterval

\* A passing interval is not below the minimum of its rating, nor below the bound
\* that the rating before it leaves.
LEMMA PassingIntervalInRange ==
    ASSUME SchedulerConstants, NEW fuzz \in Fuzzes, NEW interval \in Nat,
           NEW previous \in Nat, NEW lowerBound \in Nat \ {0}
    PROVE  LET days == PassingInterval(interval, previous, lowerBound, fuzz)
           IN  /\ days \in 1 .. MaximumInterval
               /\ days >= Lesser(lowerBound, MaximumInterval)
               /\ days >= Lesser(MinimumReviewFuzzInterval(interval, previous), MaximumInterval)
<1> DEFINE least == MinimumReviewFuzzInterval(interval, previous)
           minimum == Clamped(Greater(least, lowerBound), 1, MaximumInterval)
           days == PassingInterval(interval, previous, lowerBound, fuzz)
<1>1. least \in Nat
  BY MinimumIsNat
<1>2. days = Apply(fuzz, interval, minimum)
  BY DEF PassingInterval
<1> HIDE DEF least
<1>3. /\ minimum \in 1 .. MaximumInterval
      /\ minimum >= Lesser(lowerBound, MaximumInterval)
      /\ minimum >= Lesser(least, MaximumInterval)
  BY <1>1 DEF Clamped, Lesser, Greater, SchedulerConstants
<1> HIDE DEF minimum, days
<1>4. days \in Lesser(minimum, MaximumInterval) .. MaximumInterval
  BY <1>2, <1>3, ApplyInRange DEF SchedulerConstants
<1>5. Lesser(minimum, MaximumInterval) = minimum
  BY <1>3 DEF Lesser, SchedulerConstants
<1>6. Lesser(lowerBound, MaximumInterval) \in Int /\ Lesser(least, MaximumInterval) \in Int
  BY <1>1 DEF Lesser, SchedulerConstants
<1>7. /\ days \in 1 .. MaximumInterval
      /\ days >= Lesser(lowerBound, MaximumInterval)
      /\ days >= Lesser(least, MaximumInterval)
  BY <1>3, <1>4, <1>5, <1>6 DEF SchedulerConstants
<1> QED  BY <1>7 DEF days, least

\* An interval that rounds to at least so many days has a fuzz that reaches them.
LEMMA FuzzReachesWhatRoundingReaches ==
    ASSUME SchedulerConstants, NEW interval \in Nat,
           NEW days \in 0 .. MaximumInterval, RoundedDays(interval) >= days
    PROVE  ConstrainedFuzzBounds(interval, 1).upper >= days
<1> DEFINE x == Clamped(interval, 1 * Parts, MaximumInterval * Parts)
           b == Rounded(40 * x + FuzzDelta(x), 40 * Parts)
           upper == Clamped(b, 1, MaximumInterval)
           lower == Clamped(Rounded(40 * x - FuzzDelta(x), 40 * Parts), 1, MaximumInterval)
           bounds == ConstrainedFuzzBounds(interval, 1)
<1>1. Parts * days \in Int /\ MaximumInterval * Parts \in Int
      /\ Parts * days <= MaximumInterval * Parts
      /\ Parts <= MaximumInterval * Parts
  BY DEF SchedulerConstants
<1>2. 2 * interval + Parts >= 2 * (Parts * days)
  <2>1. 2 * interval + Parts >= (2 * Parts) * days
    BY RoundedAtLeast DEF RoundedDays, SchedulerConstants
  <2>2. (2 * Parts) * days = 2 * (Parts * days)
    BY DEF SchedulerConstants
  <2> QED  BY <2>1, <2>2
<1>3. x \in Int /\ 2 * x + Parts >= 2 * (Parts * days)
  BY <1>1, <1>2 DEF Clamped, Lesser, Greater, SchedulerConstants
<1> HIDE DEF x
<1>4. FuzzDelta(x) \in Nat
  BY <1>3, FuzzDeltaIsNat
<1>5. 2 * (40 * x + FuzzDelta(x)) + 40 * Parts >= 80 * (Parts * days)
  BY <1>1, <1>3, <1>4 DEF SchedulerConstants
<1>6. (2 * (40 * Parts)) * days = 80 * (Parts * days)
  BY DEF SchedulerConstants
<1>7. b \in Int /\ b >= days
  BY <1>3, <1>4, <1>5, <1>6, RoundedAtLeast DEF SchedulerConstants
<1> HIDE DEF b
<1>8. upper >= days /\ upper \in Int
  BY <1>7 DEF Clamped, Lesser, Greater, SchedulerConstants
<1>9. bounds.upper = IF upper = lower /\ upper > 2 /\ upper < MaximumInterval
                     THEN lower + 1 ELSE upper
  <2>1. Lesser(1, MaximumInterval) = 1
    BY DEF Lesser, SchedulerConstants
  <2> QED  BY <2>1 DEF ConstrainedFuzzBounds, x, b
<1> HIDE DEF upper, lower, bounds
<1>10. bounds.upper >= days
  BY <1>8, <1>9
<1> QED  BY <1>10 DEF bounds

-----------------------------------------------------------------------------
States == [Again .. Easy -> Nat]

LEMMA ProposedIntervals ==
    ASSUME SchedulerConstants, NEW states \in States
    PROVE  /\ \A rating \in Again .. Easy :
                states[rating] \in Nat /\ RoundedDays(states[rating]) \in Int
           /\ Again .. Easy = {Again, Hard, Good, Easy}
<1>1. \A rating \in Again .. Easy : states[rating] \in Nat
  BY DEF States
<1>2. \A n \in Nat : RoundedDays(n) \in Int
  BY RoundedAtLeast DEF RoundedDays, SchedulerConstants
<1>3. Again .. Easy = {Again, Hard, Good, Easy}
  BY DEF Again, Hard, Good, Easy
<1> QED  BY <1>1, <1>2, <1>3

\* What the passing interval of each rating is not below.
LEMMA PassingChain ==
    ASSUME SchedulerConstants, NEW states \in States, NEW previous \in Nat,
           NEW fuzz \in Fuzzes
    PROVE  \E days \in [Hard .. Easy -> 1 .. MaximumInterval] :
              /\ PassingReviewIntervals(previous, states, fuzz)
                    = <<days[Hard], days[Good], days[Easy]>>
              /\ days[Good] >= Lesser(days[Hard] + 1, MaximumInterval)
              /\ days[Easy] >= Lesser(days[Good] + 1, MaximumInterval)
              /\ \A rating \in Hard .. Easy :
                    days[rating] >= Lesser(MinimumReviewFuzzInterval(states[rating], previous),
                                           MaximumInterval)
<1> DEFINE Least(interval) == Lesser(MinimumReviewFuzzInterval(interval, previous), MaximumInterval)
           h == PassingInterval(states[Hard], previous, 1, fuzz)
           g == PassingInterval(states[Good], previous, h + 1, fuzz)
           e == PassingInterval(states[Easy], previous, g + 1, fuzz)
           days == [rating \in Hard .. Easy |->
                        IF rating = Hard THEN h ELSE IF rating = Good THEN g ELSE e]
<1>1. states[Hard] \in Nat /\ states[Good] \in Nat /\ states[Easy] \in Nat
  BY ProposedIntervals
<1>2. PassingReviewIntervals(previous, states, fuzz) = <<h, g, e>>
  BY DEF PassingReviewIntervals
<1>3. \A interval \in Nat, bound \in Nat \ {0} :
          LET d == PassingInterval(interval, previous, bound, fuzz)
          IN  /\ d \in 1 .. MaximumInterval
              /\ d >= Lesser(bound, MaximumInterval)
              /\ d >= Least(interval)
  BY PassingIntervalInRange
<1> HIDE DEF Least
<1>4. h \in 1 .. MaximumInterval /\ h >= Least(states[Hard])
  BY <1>1, <1>3
<1> HIDE DEF h
<1>5. /\ g \in 1 .. MaximumInterval /\ g >= Least(states[Good])
      /\ g >= Lesser(h + 1, MaximumInterval)
  <2>1. h + 1 \in Nat \ {0}
    BY <1>4
  <2> QED  BY <1>1, <1>3, <2>1
<1> HIDE DEF g
<1>6. /\ e \in 1 .. MaximumInterval /\ e >= Least(states[Easy])
      /\ e >= Lesser(g + 1, MaximumInterval)
  <2>1. g + 1 \in Nat \ {0}
    BY <1>5
  <2> QED  BY <1>1, <1>3, <2>1
<1> HIDE DEF e
<1>7. Hard .. Easy = {Hard, Good, Easy} /\ Hard # Good /\ Hard # Easy /\ Good # Easy
  BY DEF Hard, Good, Easy
<1>8. days[Hard] = h /\ days[Good] = g /\ days[Easy] = e
  BY <1>7
<1>9. days \in [Hard .. Easy -> 1 .. MaximumInterval]
  BY <1>4, <1>5, <1>6
<1>10. \A rating \in Hard .. Easy : days[rating] >= Least(states[rating])
  BY <1>4, <1>5, <1>6, <1>7, <1>8
<1> HIDE DEF days
<1> QED
  <2>1. /\ PassingReviewIntervals(previous, states, fuzz)
              = <<days[Hard], days[Good], days[Easy]>>
        /\ days[Good] >= Lesser(days[Hard] + 1, MaximumInterval)
        /\ days[Easy] >= Lesser(days[Good] + 1, MaximumInterval)
    BY <1>2, <1>5, <1>6, <1>8
  <2> QED  BY <1>9, <1>10, <2>1 DEF Least

\* The same of the interval that Next returns for a card that has been reviewed.
LEMMA NextOfChain ==
    ASSUME SchedulerConstants, NEW states \in States, NEW previous \in Nat,
           NEW fuzz \in Fuzzes
    PROVE  \E days \in [Hard .. Easy -> 1 .. MaximumInterval] :
              /\ \A rating \in Hard .. Easy :
                    /\ NextInterval(FALSE, previous, states, rating, fuzz) = days[rating]
                    /\ days[rating] >= Lesser(MinimumReviewFuzzInterval(states[rating], previous),
                                              MaximumInterval)
              /\ days[Good] >= Lesser(days[Hard] + 1, MaximumInterval)
              /\ days[Easy] >= Lesser(days[Good] + 1, MaximumInterval)
<1>1. PICK days \in [Hard .. Easy -> 1 .. MaximumInterval] :
              /\ PassingReviewIntervals(previous, states, fuzz)
                    = <<days[Hard], days[Good], days[Easy]>>
              /\ days[Good] >= Lesser(days[Hard] + 1, MaximumInterval)
              /\ days[Easy] >= Lesser(days[Good] + 1, MaximumInterval)
              /\ \A rating \in Hard .. Easy :
                    days[rating] >= Lesser(MinimumReviewFuzzInterval(states[rating], previous),
                                           MaximumInterval)
  BY PassingChain
<1>2. \A rating \in Hard .. Easy :
        NextInterval(FALSE, previous, states, rating, fuzz)
          = PassingReviewIntervals(previous, states, fuzz)[rating - Again]
  BY DEF NextInterval, Again, Hard, Easy
<1>3. \A rating \in Hard .. Easy :
        <<days[Hard], days[Good], days[Easy]>>[rating - Again] = days[rating]
  BY DEF Again, Hard, Good, Easy
<1>4. \A rating \in Hard .. Easy :
        NextInterval(FALSE, previous, states, rating, fuzz) = days[rating]
  BY <1>1, <1>2, <1>3
<1> QED  BY <1>1, <1>4

\* Scheduler.Next: whatever is proposed and however the fuzz falls, the interval is
\* a day at least and no longer than the longest, which is what the rows and the
\* reviews that follow take it to be (Intervals of ReviewItem).
THEOREM NextIntervalInRange ==
    ASSUME SchedulerConstants, NEW states \in States, NEW previous \in Nat,
           NEW fuzz \in Fuzzes, NEW rating \in Again .. Easy, NEW new \in BOOLEAN
    PROVE  NextInterval(new, previous, states, rating, fuzz) \in 1 .. MaximumInterval
<1>1. CASE new
  <2>1. \A i \in Int, m \in Nat \ {0} : Apply(fuzz, i, m) \in 1 .. MaximumInterval
    <3> SUFFICES ASSUME NEW i \in Int, NEW m \in Nat \ {0}
                 PROVE  Apply(fuzz, i, m) \in 1 .. MaximumInterval
      OBVIOUS
    <3>1. Lesser(m, MaximumInterval) \in Nat \ {0}
      BY DEF Lesser, SchedulerConstants
    <3>2. Apply(fuzz, i, m) \in Lesser(m, MaximumInterval) .. MaximumInterval
      BY ApplyInRange
    <3> QED  BY <3>1, <3>2 DEF SchedulerConstants
  <2>2. \A n \in Int : Greater(n, 1) * Parts \in Int
    BY DEF Greater, SchedulerConstants
  <2>3. Good \in Again .. Easy /\ Easy \in Again .. Easy
    BY DEF Again, Good, Easy
  <2>4. Greater(RoundedDays(states[rating]), 1) * Parts \in Int
        /\ Greater(RoundedDays(states[Easy]), 1) * Parts \in Int
    BY <2>2, <2>3, ProposedIntervals
  <2>5. Apply(fuzz, states[Good], 1) + 1 \in Nat \ {0}
    <3>1. states[Good] \in Int
      BY <2>3, ProposedIntervals
    <3>2. Apply(fuzz, states[Good], 1) \in 1 .. MaximumInterval
      BY <2>1, <3>1
    <3> QED  BY <3>2
  <2>6. FirstInterval(states, rating, fuzz) \in 1 .. MaximumInterval
    BY <2>1, <2>4, <2>5 DEF FirstInterval
  <2> QED  BY <1>1, <2>6 DEF NextInterval
<1>2. CASE ~new /\ rating = Again
  <2>1. RoundedDays(states[Again]) \in Int
    BY <1>2, ProposedIntervals
  <2>2. LapseInterval(states[Again]) \in 1 .. MaximumInterval
    BY <2>1 DEF LapseInterval, Lesser, Greater, SchedulerConstants
  <2> QED  BY <1>2, <2>2 DEF NextInterval
<1>3. CASE ~new /\ rating # Again
  <2>1. rating \in Hard .. Easy
    BY <1>3 DEF Again, Hard, Easy
  <2>2. NextInterval(FALSE, previous, states, rating, fuzz) \in 1 .. MaximumInterval
    <3>1. PICK days \in [Hard .. Easy -> 1 .. MaximumInterval] :
            \A r \in Hard .. Easy :
                NextInterval(FALSE, previous, states, r, fuzz) = days[r]
      BY NextOfChain
    <3> QED  BY <2>1, <3>1
  <2>3. new = FALSE
    BY <1>3
  <2> QED  BY <2>2, <2>3
<1> QED  BY <1>1, <1>2, <1>3

\* passingReviewIntervals: Hard < Good < Easy, unless the longest interval leaves no
\* room, and then they are no shorter than it.
THEOREM RatingsKeepTheirOrder ==
    ASSUME SchedulerConstants, NEW states \in States, NEW previous \in Nat,
           NEW fuzz \in Fuzzes
    PROVE  LET days(rating) == NextInterval(FALSE, previous, states, rating, fuzz)
           IN  /\ days(Hard) < days(Good) \/ days(Good) = MaximumInterval
               /\ days(Good) < days(Easy) \/ days(Easy) = MaximumInterval
<1> DEFINE N(rating) == NextInterval(FALSE, previous, states, rating, fuzz)
<1>1. PICK days \in [Hard .. Easy -> 1 .. MaximumInterval] :
          /\ \A rating \in Hard .. Easy : N(rating) = days[rating]
          /\ days[Good] >= Lesser(days[Hard] + 1, MaximumInterval)
          /\ days[Easy] >= Lesser(days[Good] + 1, MaximumInterval)
  BY NextOfChain
<1> HIDE DEF N
<1>2. Hard \in Hard .. Easy /\ Good \in Hard .. Easy /\ Easy \in Hard .. Easy
  BY DEF Hard, Good, Easy
<1>3. N(Hard) = days[Hard] /\ N(Good) = days[Good] /\ N(Easy) = days[Easy]
  BY <1>1, <1>2
<1>4. /\ days[Hard] \in 1 .. MaximumInterval /\ days[Good] \in 1 .. MaximumInterval
      /\ days[Easy] \in 1 .. MaximumInterval
  BY <1>2
<1>5. /\ days[Hard] < days[Good] \/ days[Good] = MaximumInterval
      /\ days[Good] < days[Easy] \/ days[Easy] = MaximumInterval
  BY <1>1, <1>4 DEF Lesser, SchedulerConstants
<1> QED  BY <1>3, <1>5 DEF N

\* minimumReviewFuzzInterval: the fuzz never makes an interval shorter than the
\* previous one when the proposed one, rounded, is not, and when that is longer the
\* chosen one is longer too, up to the longest.
THEOREM FuzzNeverShortens ==
    ASSUME SchedulerConstants, NEW states \in States,
           NEW previous \in Nat, previous <= MaximumInterval, NEW fuzz \in Fuzzes,
           NEW rating \in Hard .. Easy
    PROVE  LET days == NextInterval(FALSE, previous, states, rating, fuzz)
           IN  /\ RoundedDays(states[rating]) >= previous => days >= previous
               /\ RoundedDays(states[rating]) > previous =>
                    days > previous \/ days = MaximumInterval
<1> DEFINE days == NextInterval(FALSE, previous, states, rating, fuzz)
           least == MinimumReviewFuzzInterval(states[rating], previous)
           rounded == RoundedDays(states[rating])
<1>1. previous \in 0 .. MaximumInterval /\ MaximumInterval \in Nat
  BY DEF SchedulerConstants
<1>2. states[rating] \in Nat /\ rounded \in Int
  <2>1. rating \in Again .. Easy
    BY DEF Again, Hard, Easy
  <2> QED  BY <2>1, ProposedIntervals
<1>3. days \in 1 .. MaximumInterval /\ days >= Lesser(least, MaximumInterval)
  <2> HIDE DEF days, least, rounded
  <2>1. PICK d \in [Hard .. Easy -> 1 .. MaximumInterval] :
          /\ \A r \in Hard .. Easy :
                /\ NextInterval(FALSE, previous, states, r, fuzz) = d[r]
                /\ d[r] >= Lesser(MinimumReviewFuzzInterval(states[r], previous),
                                  MaximumInterval)
          /\ d[Good] >= Lesser(d[Hard] + 1, MaximumInterval)
          /\ d[Easy] >= Lesser(d[Good] + 1, MaximumInterval)
    BY NextOfChain
  <2> QED  BY <2>1 DEF days, least
<1>4. rounded > previous => least = previous + 1
  BY <1>1, <1>2 DEF MinimumReviewFuzzInterval
<1>5. rounded = previous => least = previous
  <2> SUFFICES ASSUME rounded = previous  PROVE least = previous
    OBVIOUS
  <2>1. previous <= ConstrainedFuzzBounds(states[rating], 1).upper
    <3>1. ConstrainedFuzzBounds(states[rating], 1).upper >= previous
      BY <1>1, <1>2, FuzzReachesWhatRoundingReaches
    <3>2. ConstrainedFuzzBounds(states[rating], 1).upper \in Nat
      BY <1>2, FuzzBoundsInRange
    <3> QED  BY <1>1, <3>1, <3>2
  <2>2. ~(rounded > previous) /\ rounded <= previous
    BY <1>1, <1>2
  <2> QED  BY <2>1, <2>2 DEF MinimumReviewFuzzInterval
<1> HIDE DEF days, least, rounded
<1>6. /\ rounded >= previous => days >= previous
      /\ rounded > previous => days > previous \/ days = MaximumInterval
  <2>1. CASE rounded > previous
    BY <1>1, <1>2, <1>3, <1>4, <2>1 DEF Lesser
  <2>2. CASE rounded = previous
    BY <1>1, <1>2, <1>3, <1>5, <2>2 DEF Lesser
  <2>3. CASE rounded < previous
    BY <1>1, <1>2, <2>3
  <2> QED  BY <1>1, <1>2, <2>1, <2>2, <2>3
<1> QED  BY <1>6 DEF days, rounded

\* An interval that is too short to be moved is rounded only.
LEMMA ShortIsOnlyRounded ==
    ASSUME SchedulerConstants, NEW fuzz \in Fuzzes, NEW interval \in Nat,
           2 * interval < 5 * Parts
    PROVE  Apply(fuzz, interval, 1) = Clamped(RoundedDays(interval), 1, MaximumInterval)
<1> DEFINE days == Clamped(RoundedDays(interval), 1, MaximumInterval)
           x == Clamped(interval, 1 * Parts, MaximumInterval * Parts)
           r == Rounded(40 * x, 40 * Parts)
<1>1. MaximumInterval * Parts \in Int /\ Parts <= MaximumInterval * Parts
  BY DEF SchedulerConstants
<1>2. /\ RoundedDays(interval) \in Int
      /\ \A q \in Int :
            RoundedDays(interval) >= q <=> 2 * interval + Parts >= (2 * Parts) * q
  BY RoundedAtLeast DEF RoundedDays, SchedulerConstants
<1>3. x \in Nat /\ 2 * x < 5 * Parts
  BY <1>1 DEF Clamped, Lesser, Greater, SchedulerConstants
<1>4. /\ r \in Int
      /\ \A q \in Int : r >= q <=> 2 * x + Parts >= (2 * Parts) * q
  <2>1. /\ r \in Int
        /\ \A q \in Int : r >= q <=> 2 * (40 * x) + 40 * Parts >= (2 * (40 * Parts)) * q
    <3> HIDE DEF x
    <3> QED  BY <1>3, RoundedAtLeast DEF SchedulerConstants
  <2>2. \A q \in Int : (2 * (40 * Parts)) * q = 40 * ((2 * Parts) * q)
    BY DEF SchedulerConstants
  <2>3. \A q \in Int : (2 * Parts) * q \in Int
    BY DEF SchedulerConstants
  <2> HIDE DEF x, r
  <2> QED  BY <1>3, <2>1, <2>2, <2>3 DEF SchedulerConstants
<1>5. Clamped(r, 1, MaximumInterval) = days /\ days <= 2
  <2>1. RoundedDays(interval) <= 2
    <3>1. ~(RoundedDays(interval) >= 3)
      BY <1>2 DEF SchedulerConstants
    <3> QED  BY <1>2, <3>1
  <2>2. CASE x = interval
    <3>1. r >= RoundedDays(interval)
      BY <1>2, <1>4, <2>2
    <3>2. RoundedDays(interval) >= r
      BY <1>2, <1>4, <2>2
    <3>3. r = RoundedDays(interval)
      <4> HIDE DEF r
      <4> QED  BY <1>2, <1>4, <3>1, <3>2
    <3> HIDE DEF r
    <3> QED  BY <1>2, <2>1, <3>3 DEF Clamped, Lesser, Greater, SchedulerConstants
  <2>3. CASE interval < Parts /\ x = Parts
    <3>1. r >= 1 /\ ~(r >= 2)
      <4>1. 2 * x + Parts >= (2 * Parts) * 1 /\ ~(2 * x + Parts >= (2 * Parts) * 2)
        BY <2>3 DEF SchedulerConstants
      <4> HIDE DEF r, x
      <4> QED  BY <1>4, <4>1
    <3>2. ~(RoundedDays(interval) >= 2)
      BY <1>2, <2>3 DEF SchedulerConstants
    <3> HIDE DEF r
    <3> QED  BY <1>2, <1>4, <3>1, <3>2 DEF Clamped, Lesser, Greater, SchedulerConstants
  <2>4. CASE interval > MaximumInterval * Parts /\ x = MaximumInterval * Parts
    <3>1. (2 * Parts) * MaximumInterval = 2 * (MaximumInterval * Parts)
      BY DEF SchedulerConstants
    <3>2. RoundedDays(interval) >= MaximumInterval
      BY <1>1, <1>2, <2>4, <3>1 DEF SchedulerConstants
    <3>3. r >= MaximumInterval
      <4>1. 2 * x + Parts >= (2 * Parts) * MaximumInterval
        BY <1>1, <2>4, <3>1 DEF SchedulerConstants
      <4> HIDE DEF r, x
      <4> QED  BY <1>4, <4>1 DEF SchedulerConstants
    <3> HIDE DEF r
    <3> QED  BY <1>2, <1>4, <2>1, <3>2, <3>3 DEF Clamped, Lesser, Greater, SchedulerConstants
  <2>5. \/ x = interval
        \/ interval < Parts /\ x = Parts
        \/ interval > MaximumInterval * Parts /\ x = MaximumInterval * Parts
    BY <1>1 DEF Clamped, Lesser, Greater, SchedulerConstants
  <2> QED  BY <2>2, <2>3, <2>4, <2>5
<1>6. days \in Nat
  BY <1>2 DEF Clamped, Lesser, Greater, SchedulerConstants
<1>7. CASE fuzz.enabled
  <2> DEFINE bounds == ConstrainedFuzzBounds(interval, 1)
  <2>1. Lesser(1, MaximumInterval) = 1
    BY DEF Lesser, SchedulerConstants
  <2>2. FuzzDelta(x) = 0
    BY <1>3 DEF FuzzDelta
  <2>3. 40 * x - 0 = 40 * x /\ 40 * x + 0 = 40 * x
    BY <1>3
  <2>4. bounds = [lower |-> days,
                  upper |-> IF days = days /\ days > 2 /\ days < MaximumInterval
                            THEN days + 1 ELSE days]
    BY <1>5, <2>1, <2>2, <2>3 DEF ConstrainedFuzzBounds
  <2>5. Apply(fuzz, interval, 1)
          = bounds.lower
            + (fuzz.factor * (1 + bounds.upper - bounds.lower)) \div FuzzSteps
    BY <1>7 DEF Apply
  <2> HIDE DEF bounds, days
  <2>6. bounds.lower = days /\ bounds.upper = days
    BY <1>5, <1>6, <2>4
  <2>7. fuzz.factor \in 0 .. FuzzSteps - 1
    BY DEF Fuzzes
  <2>8. (fuzz.factor * 1) \div FuzzSteps = 0
    BY <2>7, FactorChooses
  <2>9. 1 + bounds.upper - bounds.lower = 1
    BY <1>6, <2>6
  <2>10. Apply(fuzz, interval, 1) = days + 0
    BY <2>5, <2>6, <2>8, <2>9
  <2> QED  BY <1>6, <2>10 DEF days
<1>8. CASE ~fuzz.enabled
  BY <1>8 DEF Apply
<1> QED  BY <1>7, <1>8

\* firstInterval: the first interval for Easy is longer than the one for Good, as
\* long as what is proposed for Good is below two and a half days (it is 2.3065
\* days: w[2] of defaultParameters).  Beyond, the bound and the interval for Good
\* are fuzzed apart, one before and one after rounding, and may be the same.
THEOREM FirstEasyIsLongerThanGood ==
    ASSUME SchedulerConstants, NEW states \in States, NEW previous \in Nat,
           NEW fuzz \in Fuzzes, 2 * states[Good] < 5 * Parts
    PROVE  LET days(rating) == NextInterval(TRUE, previous, states, rating, fuzz)
           IN  days(Good) < days(Easy) \/ days(Easy) = MaximumInterval
<1> DEFINE good == states[Good]
           whole == Greater(RoundedDays(good), 1)
           easy == Greater(RoundedDays(states[Easy]), 1) * Parts
           first == Apply(fuzz, good, 1)
           goodDays == NextInterval(TRUE, previous, states, Good, fuzz)
           easyDays == NextInterval(TRUE, previous, states, Easy, fuzz)
<1>1. good \in Nat /\ RoundedDays(good) \in Int /\ RoundedDays(states[Easy]) \in Int
  <2>1. Good \in Again .. Easy /\ Easy \in Again .. Easy
    BY DEF Again, Good, Easy
  <2> QED  BY <2>1, ProposedIntervals
<1>2. easy \in Int
  BY <1>1 DEF Greater, SchedulerConstants
<1>3. goodDays = Apply(fuzz, whole * Parts, 1) /\ easyDays = Apply(fuzz, easy, first + 1)
  BY DEF NextInterval, FirstInterval, Good, Easy
<1>4. 2 * good < 5 * Parts
  OBVIOUS
<1> HIDE DEF easy, good
<1>5. whole \in {1, 2}
  <2>1. ~(RoundedDays(good) >= 3)
    BY <1>1, <1>4, RoundedAtLeast DEF RoundedDays, SchedulerConstants
  <2> QED  BY <1>1, <2>1 DEF Greater
<1>6. first = Clamped(RoundedDays(good), 1, MaximumInterval)
  BY <1>1, <1>4, ShortIsOnlyRounded
<1>7. goodDays = first
  <2>1. whole * Parts \in Nat /\ 2 * (whole * Parts) < 5 * Parts
    <3> HIDE DEF whole
    <3> QED  BY <1>5 DEF SchedulerConstants
  <2>2. Apply(fuzz, whole * Parts, 1)
          = Clamped(RoundedDays(whole * Parts), 1, MaximumInterval)
    <3> HIDE DEF whole
    <3> QED  BY <2>1, ShortIsOnlyRounded
  <2>3. RoundedDays(whole * Parts) = whole
    <3> HIDE DEF whole
    <3>1. /\ RoundedDays(whole * Parts) \in Int
          /\ \A q \in Int : RoundedDays(whole * Parts) >= q
                              <=> 2 * (whole * Parts) + Parts >= (2 * Parts) * q
      <4>1. \A n \in Nat :
                /\ RoundedDays(n) \in Int
                /\ \A q \in Int : RoundedDays(n) >= q <=> 2 * n + Parts >= (2 * Parts) * q
        BY RoundedAtLeast DEF RoundedDays, SchedulerConstants
      <4> QED  BY <2>1, <4>1
    <3>2. CASE whole = 1
      <4>1. RoundedDays(whole * Parts) >= 1 /\ ~(RoundedDays(whole * Parts) >= 2)
        BY <3>1, <3>2 DEF SchedulerConstants
      <4> QED  BY <3>1, <3>2, <4>1
    <3>3. CASE whole = 2
      <4>1. RoundedDays(whole * Parts) >= 2 /\ ~(RoundedDays(whole * Parts) >= 3)
        BY <3>1, <3>3 DEF SchedulerConstants
      <4> QED  BY <3>1, <3>3, <4>1
    <3> QED  BY <1>5, <3>2, <3>3
  <2>4. Clamped(whole, 1, MaximumInterval) = Clamped(RoundedDays(good), 1, MaximumInterval)
    BY <1>1 DEF Clamped, Lesser, Greater, SchedulerConstants
  <2> HIDE DEF whole, goodDays, first
  <2> QED  BY <1>3, <1>6, <2>2, <2>3, <2>4
<1>8. first \in 1 .. MaximumInterval
  BY <1>1, <1>6 DEF Clamped, Lesser, Greater, SchedulerConstants
<1> HIDE DEF first, goodDays
<1>9. easyDays \in Lesser(first + 1, MaximumInterval) .. MaximumInterval
  <2>1. first + 1 \in Nat
    BY <1>8
  <2> HIDE DEF easyDays
  <2> QED  BY <1>2, <1>3, <2>1, ApplyInRange
<1> HIDE DEF easyDays
<1>10. goodDays < easyDays \/ easyDays = MaximumInterval
  BY <1>7, <1>8, <1>9 DEF Lesser, SchedulerConstants
<1> QED  BY <1>10 DEF goodDays, easyDays
=============================================================================
