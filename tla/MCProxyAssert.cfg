CONSTANTS
    FD_SETSIZE = 3
    Fds = {3, 4, 5, 6, 7, 8}
    ListenFd = 3
    AliasFd = 63
    Addrs = {a}
    NULL = NULL
    v1 = v1
    v2 = v2
    Viewers = {v1}
    FilmOf <- Film1
    Plans <- OneList
    ServerAddrs = {a}
    ClientAddr = a
    Faults = {"die"}
    Unset = {"empty"}
    MaxAsked = 2
SPECIFICATION Spec
INVARIANTS
    OneContentType
CHECK_DEADLOCK FALSE
