\* Three calls in flight for one identity, as many ids as can be in use.
SPECIFICATION FairSpec
CONSTANTS
    Sessions = {s1, s2, s3}
    Identities = {x1}
    UserIds = {u1, u2, u3}
    Profiles = {p1, p2}
    Unset = Unset
    None = None
    ServerZones = {"Asia/Tokyo", "UTC", "Europe/Kyiv"}
    CommonZones = {"Asia/Tokyo", "UTC"}
    SupportedZones = {"Asia/Tokyo", "Europe/Kiev"}
    defaultTimeZone = "Asia/Tokyo"
INVARIANTS
    TypeOK
    OneAccountPerIdentity
    CallsAgreeOnUser
    SignInNeverFails
PROPERTIES
    DirectorySpec
    EveryCallEnds
