SPECIFICATION Spec
CONSTANTS
    Sessions = {"a1", "b1"}
    Users = {"A", "B"}
    UserOf <- MCUserOf
    SetUp = {"B"}
    Redirects = {"r1"}
    Reloads = {"g1"}
    NoSession = "nobody"
    NoUser = "no user"
    NoData = NoData
    Links = {"/", "/login", "/app", "/profile"}
    MaxRetries = 1
    MaxChanges = 1
    MaxEvents = 1
INVARIANTS
    FlowTypeOK
    CacheBelongsToUser
    SignedOutHoldsNothing
    ContextFollowsStorage
    PageShowsStoredUser
PROPERTIES
    LoginOnlyFromItsPage
