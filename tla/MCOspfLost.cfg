CONSTANTS
    NULL = NULL
    c1 = c1
    c2 = c2
    r1 = r1
    r2 = r2
    r3 = r3
    s1 = s1
    s2 = s2
    Names = {c1, c2, r1, r2, r3, s1, s2}
    ServerNames <- OneServerLine
    Routers = {r1, r2, r3}
    Announcements <- Line
    MaxLines = 4
SPECIFICATION Spec
INVARIANT
    NeverReached
CHECK_DEADLOCK FALSE
