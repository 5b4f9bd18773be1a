CONSTANTS
    c1 = c1
    Coin = {c1}
    Transactions = {{c1}}
    KeyedCoin = {c1}
    NodePeriods = {3, 6}
    NeedUpdate = 1
    PeriodLimit = 2
    IntHalf = 16
    MaxKey = 2
    MaxTime = 4
    MaxEvents = 5
    None = None
    r1 = r1
    r2 = r2
    Runner = {r1, r2}
    Daemon = {r1}
    RunInterval = 1
    MaxRetry = 1
    VerifiableKey = {2}
SPECIFICATION WatcherSpec
INVARIANTS
    WatcherTypeOK
    CertificateCoversRow
    CertificateVerifies
    RenewalIsAhead
    WithinNodePeriod
PROPERTIES
    ImplementsRegistry
