CONSTANTS
    FD_SETSIZE = 3
    Fds = {3, 4, 5, 6, 7}
    ListenFd = 3
    AliasFd = 63
    Addrs = {a, b}
    NULL = NULL
    v1 = v1
    v2 = v2
    Viewers = {v1}
    FilmOf <- Film1
    Plans <- BadAndPost
    ServerAddrs = {a, b}
    ClientAddr = a
    Faults = {"noHost", "slow", "leave", "cut", "misc", "stall", "silent"}
    Unset = {"stale", "empty", "junk"}
    MaxAsked = 2
SPECIFICATION Spec
INVARIANTS
    NeverForgotten
CHECK_DEADLOCK FALSE
