CONSTANTS
    NULL = NULL
    p1 = p1
    p2 = p2
    other = other
    r1 = r1
    s1 = s1
    s2 = s2
    Proxies = {p1, p2}
    Strangers = {other}
    ServerNames <- TwoServers
    Addresses = {p1, p2, r1, s1, s2}
    Routers = {r1}
    Announcements <- Moved
    MaxLines = 3
    CountRange = 2
    Faults = {}
    Unreliable = {}
    Strays = {"none"}
    MaxAsked = 2
    MaxClock = 0
    Unset = unset
SPECIFICATION Spec
INVARIANT
    NameErrorSaid
CHECK_DEADLOCK FALSE
