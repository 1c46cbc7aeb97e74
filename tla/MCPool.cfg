CONSTANTS
    FD_SETSIZE = 3
    Fds = {3, 4, 5, 6, 7}
    ListenFd = 3
    AliasFd = 63
    Addrs = {a}
    NULL = NULL
SPECIFICATION PoolSpec
INVARIANTS
    TypeOK
    ConnsWellFormed
    RefCountsExact
    SocketsOwned
    SelectSetExact
    CountersExact
    OverrunOnlyWhenFull
PROPERTIES
    ImplementsSessions
CHECK_DEADLOCK FALSE
