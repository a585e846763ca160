\* Three RPCs in flight over two items and two request ids; time is trivial.
SPECIFICATION Spec
CONSTANTS
    Items = {i1, i2}
    Requests = {r1, r2}
    Sessions = {s1, s2, s3}
    Outcomes = {"unsolved"}
    Intervals = {1}
    Zones = {0}
    TicksPerDay = 1
    ClockSkew = 0
    StartTime = 1
    MaxTime = 1
    None = None
SYMMETRY Symmetry
INVARIANTS
    TypeOK
    RequestRecordedOnce
    RowFollowsLogs
    LogsFormChain
    AnsweredIsRecorded
PROPERTIES
    RecordOnlyWhileActive
    RetryNeverFails
    LedgerSpec
    ServiceSpec
