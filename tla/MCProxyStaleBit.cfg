CONSTANTS
    FD_SETSIZE = 3
    Fds = {3, 4, 5, 6, 7, 8}
    ListenFd = 3
    AliasFd = 63
    Addrs = {a}
    NULL = NULL
    v1 = v1
    v2 = v2
    Viewers = {v1, v2}
    FilmOf <- Films2
    Plans <- TwoVideos
    ServerAddrs = {a}
    ClientAddr = a
    Faults = {"noHost"}
    Unset = {"empty"}
    MaxAsked = 2
SPECIFICATION Spec
INVARIANTS
    ServersServedWhenReadable
CHECK_DEADLOCK FALSE
