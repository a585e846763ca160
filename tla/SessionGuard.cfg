SPECIFICATION FairSpec
CONSTANTS
    Sessions = {"a1"}
    Users = {"A", "B"}
    UserOf <- MCUserOf
    SetUp = {"B"}
    Redirects = {"r1"}
    Reloads = {"g1"}
    NoSession = "nobody"
    NoUser = "no user"
    NoData = NoData
    Links = {"/app", "/profile"}
    MaxRetries = 0
    MaxChanges = 1
    MaxEvents = 1
PROPERTIES
    GuardReturnsToLogin
