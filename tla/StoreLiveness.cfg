SPECIFICATION FairSpec
CONSTANTS
    Items = {i1, i2}
    Requests = {r1}
    Sessions = {s1, s2}
    Outcomes = {"unsolved"}
    Intervals = {1}
    Zones = {0}
    TicksPerDay = 1
    ClockSkew = 0
    StartTime = 1
    MaxTime = 1
    None = None
PROPERTY
    EveryCallEnds
