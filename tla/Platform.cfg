\* Accounts, memories or the limiter, two requests at once.
CONSTANTS
    req1 = req1
    req2 = req2
    text1 = text1
    text2 = text2
    name1 = name1
    name2 = name2
    Names = {name1, name2}
    Passwords = {"p1", "p2"}
    OwnerRequests = {req1, req2}
    MaxBots = 2
    MaxFresh = 5
    MaxCookies = 2
    MemoryCodes = {m1}
    m1 = m1
    Contents = {text1, text2}
    MaxRevision = 2
    MaxPins = 1
    MemoryRequests = {req1, req2}
    Absent = Absent
    TaskPublisher = 1
    MaxEngagements = 1
    Calls = {req1, req2}
    RequestKeys = {r1}
    r1 = r1
    NoKey = NoKey
    Bodies = {text1, text2}
    MaxWorks = 3
    Reporters = {r1, m1}
    Filings = {req1, req2}
    Resolvers = {req1, req2}
    MaxReports = 3
    Callers = {req1, req2}
    Limit = 2
    Window = 3
    GCWindow = 4
    MaxStall = 1
    MaxTime = 5
SPECIFICATION PlatformSpec
SYMMETRY Alike
PROPERTIES CredentialsAreCurrent VersionsAreKept EngagedReadsPinned RequestsTakeEffectOnce DecisionsStand WindowIsKept
CHECK_DEADLOCK FALSE
