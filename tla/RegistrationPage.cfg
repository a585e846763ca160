\* Two contests, one change of the text; two registrations or one and an incident.
SPECIFICATION Spec
CONSTANTS
    Texts = {"", "b"}
    Contests = {"A", "B"}
    Problems = {"p1", "p2"}
    Matches <- MCMatches
    ProblemsOf <- MCProblemsOf
    CheckLimit = 2
    NoText = "none"
    NoContest = "none"
    NoData = NoData
    MaxRetries = 0
    MaxCalls = 2
    MaxIncidents = 1
    MaxSteps = 2
    MaxTyped = 1
    SmallOf <- MCSmallOf
    Blanks = {" "}
    MaxQuery = 100
    MaxFound = 2
INVARIANTS
    RegistrationPageTypeOK
    SettledSearchMatchesText
    SettledOffersNothingRegistered
