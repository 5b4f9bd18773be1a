\* Three messages on a connection, in segments of any size; calls to the database.
SPECIFICATION Spec
CONSTANTS
    Payload <- MCPayload
    Invalid = Invalid
    MaxSent = 3
    Radix = 4
    MaxLen = 3
    BadHeader <- MCBadHeader
    RequestLen = 3
    RequestLenNew = 2
    KeyCount = 1
    RecvLen = 4
    Timeout = 2
    MaxRetry = 3
    MaxPing = 3
INVARIANTS
    DialogueSafe
    SessionTypeOK
PROPERTIES
    ImplementsStream
    StatementPrepared
    ImplementsStatement
    ExchangesEnd
CHECK_DEADLOCK FALSE
