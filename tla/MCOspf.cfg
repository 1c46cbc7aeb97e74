CONSTANTS
    NULL = NULL
    c1 = c1
    c2 = c2
    r1 = r1
    r2 = r2
    r3 = r3
    s1 = s1
    s2 = s2
    Names = {c1, c2, r1, r2, r3, s1, s2}
    ServerNames <- TwoServerLines
    Routers = {r1, r2, r3}
    Announcements <- Rounds
    MaxLines = 7
SPECIFICATION FairSpec
INVARIANTS
    TypeOK
    NewestWins
    RoutesNearest
    TableComplete
    AssertOnlyWhenCutOff
PROPERTY
    Finishes
CHECK_DEADLOCK FALSE
