CONSTANTS
    c1 = c1
    Coin = {c1}
    Transactions = {{c1}}
    KeyedCoin = {c1}
    NodePeriods = {6}
    NeedUpdate = 1
    PeriodLimit = 2
    IntHalf = 16
    MaxKey = 2
    MaxTime = 3
    MaxEvents = 4
    None = None
    r1 = r1
    Runner = {r1}
    Daemon = {r1}
    RunInterval = 0
    MaxRetry = 0
    VerifiableKey = {1, 2}
    io1 = io1
    IoThread = {io1}
    CenterFirst = TRUE
SPECIFICATION SystemSpec
PROPERTIES
    RefreshFindsValid
