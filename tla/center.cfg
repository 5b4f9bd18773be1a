CONSTANTS
    c1 = c1
    c2 = c2
    Coin = {c1, c2}
    Transactions = {{c1, c2}}
    KeyedCoin = {c1, c2}
    NodePeriods = {3}
    NeedUpdate = 1
    PeriodLimit = 2
    IntHalf = 8
    MaxKey = 1
    MaxTime = 1
    MaxEvents = 4
    None = None
    io1 = io1
    io2 = io2
    IoThread = {io1, io2}
SPECIFICATION CenterFairSpec
INVARIANTS
    CenterSafe
PROPERTIES
    TableHeeded
    EventuallyAnswered
