CONSTANTS
    c1 = c1
    c2 = c2
    Coin = {c1, c2}
    Transactions = {{c1}, {c2}}
    KeyedCoin = {c1, c2}
    NodePeriods = {4, 7}
    NeedUpdate = 3
    PeriodLimit = 4
    IntHalf = 16
    MaxKey = 2
    MaxTime = 8
    MaxEvents = 4
    None = None
    r1 = r1
    Runner = {r1}
    Daemon = {r1}
    RunInterval = 1
    MaxRetry = 1
    VerifiableKey = {1, 2}
    Minute = 60
    MaxOutages = 2
    MaxLost = 2
SPECIFICATION TimingSpec
INVARIANTS
    RenewedInTime
PROPERTIES
    RenewalOnlyImproves
