SPECIFICATION FairSpec
CONSTANTS
    N = 2
    Responses <- Two
    MaxLine = 5
    Cap = 3
    Faults <- FaultyFirst
INVARIANTS
    TypeOK
    FramesKept
    OverrunOnlyWhenAhead
PROPERTIES
    ImplementsPipe
    Delivered
CHECK_DEADLOCK FALSE
