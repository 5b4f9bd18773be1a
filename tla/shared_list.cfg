\* Two connections with a pool of two threads, as documented.
SPECIFICATION ConnSpec
CONSTANTS
    c1 = c1
    c2 = c2
    Conn = {c1, c2}
    Arrivals <- DefaultArrivals
    Base = base
    IoThread = {io1, io2}
    IdleSeconds = 1
    MaxStepped = 1
    None = None
INVARIANTS
    ListUnshared
