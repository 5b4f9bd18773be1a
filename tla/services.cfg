SPECIFICATION Spec
CONSTANTS
  Worker = {k1, k2}
  Producer = {p1, p2}
  Capacities = {0, 2}
  MaxWork = 4
  Starter = starter
  Child = child
  Nobody = nobody
  BufferLines = 2
  DropOver = 2
  MaxLines = 6
  RollSize = 2
  CheckEvery = 2
  FlushAfter = 1
  RollPerSeconds = 3
  LastSecond = 4
  Subsidy <- MCSubsidy
  Budget <- MCBudget
  MasternodePayment <- MCPayment
  FoundersReward <- MCFounders
  PaymentsStart = 2
  SuperblockStart = 3
  SuperblockCycle = 3
  FoundersEnd = 5
  YearBlocks = 2
  MaxHeight = 12
  MaxHttpLines = 4
  MaxFrames = 2
  RpcCaller = {r1, r2}
  MaxCalls = 3
  FcgiRequests <- MCFcgi
  MaxFcgi = 2
  MuxClient = {m1, m2}
  kMaxConns = 1
  MaxLinks = 2
  MemSession = {s1, s2}
  MaxRequests = 3
  BenchClients = 2
  BenchRequests = 2
  Order = 2
  Puzzles <- MCPuzzles
  Pipelines = 2
  LowMark = 2
  HighMark = 3
  MaxPuzzles = 3
  kSeconds = 3
  LastStatSecond = 6
  MaxResponses = 3
  TestClient = {c1, c2}
  InputLines <- MCInput
  kCells = 2
  MinAnswer = 2
  MaxAnswer = 3
  AnswerSizes = {1, 2, 4}
  rps = 2
  kHz = 3
  MaxTicks = 2
  MaxAsked = 2
  CalendarYears = {1970, 2000, 2023, 2024, 2099, 2100, 2399, 2400}
  ZoneFiles <- MCZones
  Quarters = 32
  LogThread = {t1}
  kSmallBuffer = 17
  kMaxNumericSize = 3
  MaxPieces = 1
  MaxPrinted = 2
  ReadChunk = 1
  TunnelMark = 2
  MaxBytes <- MCBytes
  RequestLimit = 4
  RpcClient = {r1, r2}
  Backends = 2
  MaxRequested = 2
  MaxOutages = 1
  ChatConns = 2
  ChatLoops = 2
  MaxChats = 3
  LoadClients = 3
  Subscriber = sub
  Publisher = pub
  Topics = {"t"}
  MaxSubmitted = 2
  MaxPublished = 2
  Idler = {i1, i2}
  idleSeconds = 2
  kMaxConnections = 1
  LastHalf = 9
  LastConnect = 2
  SetBack = 3
  kPeriod = 2
  kClockTicksPerSecond = 2
  Samples = 3
  Cpus = 1
  BootTime = 100
  ChartWidth = 640
  ChartHeight = 100
  LeftMargin = 5
  RightMargin = 23
  MarginY = 5
  LastMoment = 7
  Slots = 10
  Percent = 7
  LoadThread = {l1, l2}
  NameChars = {"c", "(", ")", " "}
  MaxName = 3
  Tid = {1, 2, 3}
  MicroSeconds = 1000
  Ages = {0, 999, 59999, 60000, 3599999, 3600000, 86399999, 86400000, 180061001}
  Hasher = {h1, h2}
  TextOf <- MCText
  Texts <- MCTexts
  kMaxHashSize = 1
  BatchSize = 2
  WordMark = 2
  File <- MCFiles
  TtcpOptions <- MCOptions
  MaxCommands = 3
  kConcurrent = 2
  MinPiece = 2
  Lengths = {8, 9, 10, 11, 15}
  HeadAnswer <- MCHead
INVARIANTS
  ExamplesRight
  TimesRight
  ThreadsSafe
  CommandsRight
  ProtocolsRight
  RpcRight
  BalancerRight
  TurnsTaken
PROPERTIES
  ThreadsGoOn
CHECK_DEADLOCK FALSE
