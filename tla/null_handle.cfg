CONSTANTS
    MaxRetry = 3
    MaxPing = 3
SPECIFICATION SessionSpec
INVARIANTS
    OutageReported
