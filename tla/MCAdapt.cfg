CONSTANTS
    k1 = k1
    k2 = k2
    k3 = k3
    k4 = k4
    a = a
    b = b
    c = c
    f1 = f1
    f2 = f2
    f3 = f3
    Conns = {k1, k2, k3, k4}
    PairOf <- SharedPair
    Films = {f1, f2, f3}
    Document <- Manifests
    NoFilm = NoFilm
    Kilobits = {0, 800}
    Milliseconds <- ClockSteps
    Num = 1
    Den = 2
    FD_SETSIZE = 2
    IntMax = 1999
    Indefinite <- MinusMany
    MaxSamples = 4
SPECIFICATION Spec
INVARIANTS
    TypeOK
    OneEstimate
PROPERTIES
    BestRateAsked
    PulledTowardsSample
CHECK_DEADLOCK FALSE
