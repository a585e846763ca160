\* One item; two result sheets, two calls and one incident, four of these in all.
SPECIFICATION Spec
CONSTANTS
    Items = {"i1"}
    Outcomes = {solved, unsolved}
    Zones = {"tokyo"}
    Links = {"/reviews", "/review-list"}
    NoItem = "none"
    NoLog = NoLog
    NoData = NoData
    MaxRetries = 0
    MaxPanels = 2
    MaxCalls = 2
    MaxIncidents = 1
    MaxSteps = 4
SYMMETRY Symmetry
INVARIANTS
    PagesTypeOK
    SettledPagesShowServer
    OneToggleAtATime
PROPERTIES
    AttemptsSpec
