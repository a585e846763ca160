\* Two calls on one item, the second of which may commit while the first waits,
\* while the day and the account's zone change.
SPECIFICATION Spec
CONSTANTS
    Items = {i1}
    Requests = {r1, r2}
    Sessions = {s1, s2}
    Outcomes = {"unsolved"}
    Intervals = {1}
    Zones = {0, 1}
    TicksPerDay = 2
    ClockSkew = 1
    StartTime = 2
    MaxTime = 3
    None = None
SYMMETRY Symmetry
INVARIANTS
    OutOfOrderByLessThanADay
    LatestLogIsLastReviewed
