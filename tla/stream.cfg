SPECIFICATION Spec
CONSTANTS
  Msg = {m1, m2}
  Sender = {s1}
  Uses <- MCUses
  HighWater = 3
  MaxInput = 1
  Byte = {x, y}
  kCheapPrepend = 2
  kInitialSize = 2
  ExtraBuf = 2
  MaxWrite = 3
  MaxContent = 4
  Conn = {k1, k2, k3}
  MaxPool = 2
  MaxFds = 3
  MaxDelay = 4
  MaxFailed = 3
  MaxClosed = 2
INVARIANTS TcpSafe BufferSafe EndsSafe
PROPERTIES StreamGoesOn
CHECK_DEADLOCK FALSE
