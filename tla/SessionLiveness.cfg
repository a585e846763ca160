SPECIFICATION FairSpec
CONSTANTS
    Sessions = {"a1"}
    Users = {"A", "B"}
    UserOf <- MCUserOf
    SetUp = {"B"}
    Redirects = {"r1"}
    Reloads = {"g1"}
    NoSession = "nobody"
    NoUser = "no user"
    NoData = NoData
    Links = {"/profile"}
    MaxRetries = 0
    MaxChanges = 0
    MaxEvents = 1
PROPERTIES
    VisitSettles
    SubmissionReachesDestination
CHECK_DEADLOCK FALSE
