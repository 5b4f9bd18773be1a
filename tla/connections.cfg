\* Two connections without a pool, one with a pool of two threads.
SPECIFICATION ConnFairSpec
CONSTANTS
    c1 = c1
    c2 = c2
    Conn = {c1, c2}
    Arrivals <- FewArrivals
    Base = base
    IoThread = {io1, io2}
    IdleSeconds = 1
    MaxStepped = 1
    None = None
INVARIANTS
    ConnectionsSafe
PROPERTIES
    IdleCut
    EventuallyGone
CHECK_DEADLOCK FALSE
