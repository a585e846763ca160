\* Two pause requests race over one item.
SPECIFICATION Spec
CONSTANTS
    Items = {i1}
    Requests = {r1}
    Sessions = {s1, s2}
    Outcomes = {"unsolved"}
    Intervals = {1}
    Zones = {0}
    TicksPerDay = 1
    ClockSkew = 0
    StartTime = 2
    MaxTime = 3
    None = None
PROPERTY PausedAtKept
