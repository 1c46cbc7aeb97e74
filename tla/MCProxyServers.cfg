CONSTANTS
    FD_SETSIZE = 4
    Fds = {3, 4, 5, 6, 7}
    ListenFd = 3
    AliasFd = 63
    Addrs = {a}
    NULL = NULL
    v1 = v1
    v2 = v2
    Viewers = {v1, v2}
    FilmOf <- Films2
    Plans <- VideoAndList
    ServerAddrs = {a}
    ClientAddr = a
    Faults = {"leave", "slowBody", "die", "serverLeaves", "misc", "refuse"}
    Unset = {"empty"}
    MaxAsked = 2
SPECIFICATION FairSpec
INVARIANTS
    NeverForgotten
PROPERTY
    Answered
CHECK_DEADLOCK FALSE
