CONSTANTS
    NULL = NULL
    p1 = p1
    p2 = p2
    other = other
    r1 = r1
    s1 = s1
    s2 = s2
    Proxies = {p1, p2}
    Strangers = {other}
    Addresses = {p1, p2, r1, s1, s2}
    ServerNames <- TwoServers
    Routers = {r1}
    Announcements <- Moved
    MaxLines = 3
    CountRange = 2
    Faults = {"lose", "dup", "short", "recvError"}
    Unreliable = {p1}
    Strays = {"none", "ready", "closed"}
    MaxAsked = 3
    MaxClock = 1
    Unset = unset
SPECIFICATION FairSpec
INVARIANTS
    TypeOK
    AnswersFresh
    FailsOnlyAfterCopy
    RotationBalanced
    NearestDialed
    CrashesOnlyUnrouted
PROPERTY
    ResolveReturns
CHECK_DEADLOCK FALSE
