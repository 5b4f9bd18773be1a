------------------------------ MODULE MCServices ------------------------------
(***************************************************************************)
(* What is around the event loop, side by side: the threads and logs of     *)
(* muduo, the commands of the tools, the protocols and the examples. In a   *)
(* behaviour one of them runs and the others stand still.                   *)
(***************************************************************************)
EXTENDS Threads, Logging, Tools, Protocols, Multiplexer, Memcache, Sudoku, Calendar,
        Relays, Broadcast, Monitor, Transfers

VARIABLE part

vars == <<part, workVars, startVars, logVars, fileVars, rewardVars, command, httpVars,
          frameVars, rpcVars, fcgiVars, muxVars, memVars, benchVars, solverVars, sudokuVars, statVars, testVars,
          calendarVars, lineVars, tunnelVars, balancerVars,
          chatVars, loadVars, hubVars, idleVars,
          procmonVars, dummyVars, procfsVars,
          wordsVars, filesVars, ttcpVars, redisVars, downloadVars>>

\* What the chain pays at a height of the model: nothing from height 8 on.
MCSubsidy(h) == IF h >= 8 THEN 0 ELSE IF h < 4 THEN 4 ELSE 2
MCBudget(h) == IF h >= 8 THEN 0 ELSE 7
MCPayment(h) == IF h >= 8 THEN 0 ELSE 1
MCFounders(h) == 1

\* Boards with one solution, with many, with none, and that are complete.
Board(r1, r2, r3, r4) == [i \in 0 .. 15 |-> (r1 \o r2 \o r3 \o r4)[i + 1]]
MCPuzzles == {
    Board(<<0, 0, 0, 0>>, <<0, 0, 0, 0>>, <<0, 0, 0, 0>>, <<0, 0, 0, 0>>),
    Board(<<1, 0, 0, 0>>, <<0, 0, 3, 0>>, <<0, 4, 0, 0>>, <<0, 0, 0, 2>>),
    Board(<<1, 0, 0, 0>>, <<0, 0, 0, 2>>, <<0, 3, 0, 0>>, <<0, 0, 4, 0>>),
    Board(<<1, 2, 3, 4>>, <<3, 4, 1, 2>>, <<2, 1, 4, 3>>, <<4, 3, 2, 1>>),
    Board(<<1, 2, 3, 4>>, <<3, 4, 1, 2>>, <<2, 1, 0, 0>>, <<4, 3, 0, 1>>),
    Board(<<0, 3, 2, 0>>, <<4, 0, 0, 0>>, <<3, 0, 4, 1>>, <<0, 0, 0, 0>>),
    Board(<<1, 1, 3, 4>>, <<3, 4, 1, 2>>, <<2, 0, 4, 3>>, <<4, 3, 2, 0>>)}
Complete == {p \in MCPuzzles : \A i \in DOMAIN p : p[i] # 0}

\* A file with two puzzles and a line that is none.
MCInput == <<2, 1, 2>>

\* The clocks of New York, Sydney and Hong Kong around 2008.
Std(o) == [gmtOffset |-> o, isDst |-> FALSE]
Dst(o) == [gmtOffset |-> o, isDst |-> TRUE]
Chg(t, i) == [at |-> t, type |-> i]
MCZones == {
    [types |-> <<Std(-18000), Dst(-14400)>>,
     changes |-> <<Chg(1173596400, 2), Chg(1194156000, 1), Chg(1205046000, 2)>>],
    [types |-> <<Std(36000), Dst(39600)>>,
     changes |-> <<Chg(1206806400, 1), Chg(1223136000, 2), Chg(1238860800, 1)>>],
    [types |-> <<Std(28800)>>, changes |-> <<>>]}

\* One hasher with a text and others with none, small texts, files by their blocks, what
\* ttcp is asked for and what is answered to the request for the head of a file.
Busy == CHOOSE h \in Hasher : TRUE
MCText == [h \in Hasher |-> IF h = Busy THEN <<"a", "b">> ELSE <<>>]
MCTexts == BoundedSeq({"a", "b"}, 3)
MCFiles == {<<>>, <<"full">>, <<"short">>, <<"full", "short">>, <<"full", "full", "short">>}
MCOptions == [number : 0 .. 3, length : {0, 2}] \ {[number |-> 0, length |-> 0]}
MCHead == [found : BOOLEAN, acceptRanges : BOOLEAN, length : {2, 8}]

\* FastCGI requests: who asks, and what it says.
Pair(name, value) == [name |-> name, value |-> value]
Asking(pairs, long, cut, stdin) == [pairs |-> pairs, long |-> long, cut |-> cut, stdin |-> stdin]
MCSays == {
    Asking(<<>>, FALSE, FALSE, <<>>), Asking(<<Pair(<<65>>, <<1>>)>>, TRUE, FALSE, <<7>>),
    Asking(<<Pair(<<66>>, <<>>), Pair(<<65>>, <<1, 2>>), Pair(<<66>>, <<3>>)>>, FALSE, FALSE, <<7, 8>>),
    Asking(<<Pair(<<65>>, <<1>>), Pair(<<66>>, <<2>>)>>, FALSE, TRUE, <<>>),
    Asking(<<Pair(<<65>>, <<>>), Pair(<<>>, <<>>)>>, TRUE, TRUE, <<>>)}
MCFcgi == {[role |-> a.role, flags |-> a.flags] @@ says @@ [answer |-> a.answer] :
              says \in MCSays,
              a \in {[role |-> 1, flags |-> 1, answer |-> 29], [role |-> 1, flags |-> 0, answer |-> 8],
                    [role |-> 2, flags |-> 1, answer |-> 0]}}

\* Bytes that a user sends through a tunnel, and a backend.
MCBytes == [server |-> 2, client |-> 2]

Init ==
    /\ part \in {"work", "start", "log", "file", "reward", "tools", "http", "frames", "rpc",
                 "fcgi", "mux", "mem", "bench", "solver", "sudoku", "stat", "testers", "calendar", "line",
                 "tunnel", "balancer", "chat", "load", "hub", "idle",
                 "procmon", "dummy", "procfs", "words", "files", "ttcp", "redis", "download"}
    /\ WorkInit /\ (part # "work" => capacity = 0 /\ pooled)
    /\ StartInit /\ (part # "start" => joins)
    /\ LogInit /\ FileInit
    /\ RewardInit /\ (part # "reward" => walk = "block" /\ rounds = 0)
    /\ IF part = "tools" THEN ToolInit ELSE command = [name |-> "none"]
    /\ HttpInit /\ FramesInit /\ (part # "frames" => tagged)
    /\ RpcInit /\ FcgiInit
    /\ MuxInit /\ (part # "mux" => threaded)
    /\ MemInit
    /\ BenchInit /\ (part # "bench" => operation = "get")
    /\ puzzle \in (IF part = "solver" THEN MCPuzzles ELSE Complete) /\ SolverInit
    /\ SudokuInit /\ (part # "sudoku" => form = "prod" /\ tester = "batch")
    /\ StatInit
    /\ TestersInit /\ (part # "testers" => program = "batch")
    /\ IF part = "calendar" THEN CalendarInit ELSE CalendarAt(1970)
    /\ LineInit
    /\ TunnelInit /\ (part # "tunnel" => tunnelForm = "relay")
    /\ BalancerInit /\ (part # "balancer" => raw)
    /\ ChatInit /\ (part # "chat" => chatForm = "single")
    /\ LoadInit /\ HubInit
    /\ IdleInit /\ (part # "idle" => idleForm = "max")
    /\ ProcmonInit
    /\ DummyInit /\ (part # "dummy" => loadForm = "other")
    /\ ProcfsInit /\ (part # "procfs" => statFile.name = <<>>)
    /\ WordsInit
    /\ FilesInit /\ (part # "files" => fileForm = "whole" /\ file = NoFile)
    /\ TtcpInit /\ (part # "ttcp" => ttcp = [number |-> 1, length |-> 0])
    /\ RedisInit
    /\ DownloadInit /\ (part # "download" => answer = [found |-> FALSE, acceptRanges |-> FALSE, length |-> 2])

Next ==
    /\ UNCHANGED <<part, command>>
    /\ IF part = "work" THEN WorkNext ELSE UNCHANGED workVars
    /\ IF part = "start" THEN StartNext ELSE UNCHANGED startVars
    /\ IF part = "log" THEN LogNext ELSE UNCHANGED logVars
    /\ IF part = "file" THEN FileNext ELSE UNCHANGED fileVars
    /\ IF part = "reward" THEN RewardNext ELSE UNCHANGED rewardVars
    /\ IF part = "http" THEN HttpNext ELSE UNCHANGED httpVars
    /\ IF part = "frames" THEN FramesNext ELSE UNCHANGED frameVars
    /\ IF part = "rpc" THEN RpcNext ELSE UNCHANGED rpcVars
    /\ IF part = "fcgi" THEN FcgiNext ELSE UNCHANGED fcgiVars
    /\ IF part = "mux" THEN MuxNext ELSE UNCHANGED muxVars
    /\ IF part = "mem" THEN MemNext ELSE UNCHANGED memVars
    /\ IF part = "bench" THEN BenchNext ELSE UNCHANGED benchVars
    /\ IF part = "solver" THEN SolverNext ELSE UNCHANGED solverVars
    /\ IF part = "sudoku" THEN SudokuNext ELSE UNCHANGED sudokuVars
    /\ IF part = "stat" THEN StatNext ELSE UNCHANGED statVars
    /\ IF part = "testers" THEN TestersNext ELSE UNCHANGED testVars
    /\ IF part = "calendar" THEN CalendarNext ELSE UNCHANGED calendarVars
    /\ IF part = "line" THEN LineNext ELSE UNCHANGED lineVars
    /\ IF part = "tunnel" THEN TunnelNext ELSE UNCHANGED tunnelVars
    /\ IF part = "balancer" THEN BalancerNext ELSE UNCHANGED balancerVars
    /\ IF part = "chat" THEN ChatNext ELSE UNCHANGED chatVars
    /\ IF part = "load" THEN LoadNext ELSE UNCHANGED loadVars
    /\ IF part = "hub" THEN HubNext ELSE UNCHANGED hubVars
    /\ IF part = "idle" THEN IdleNext ELSE UNCHANGED idleVars
    /\ IF part = "procmon" THEN ProcmonNext ELSE UNCHANGED procmonVars
    /\ IF part = "dummy" THEN DummyNext ELSE UNCHANGED dummyVars
    /\ IF part = "procfs" THEN ProcfsNext ELSE UNCHANGED procfsVars
    /\ IF part = "words" THEN WordsNext ELSE UNCHANGED wordsVars
    /\ IF part = "files" THEN FilesNext ELSE UNCHANGED filesVars
    /\ IF part = "ttcp" THEN TtcpNext ELSE UNCHANGED ttcpVars
    /\ IF part = "redis" THEN RedisNext ELSE UNCHANGED redisVars
    /\ IF part = "download" THEN DownloadNext ELSE UNCHANGED downloadVars

Spec ==
    /\ Init /\ [][Next]_vars
    /\ \A w \in Worker : WF_workVars(part = "work" /\ WorkerGoesOn(w))
    /\ \A p \in Producer : WF_workVars(part = "work" /\ Put(p))
    /\ WF_workVars(part = "work" /\ Joined)
    /\ WF_startVars(part = "start" /\ StarterGoesOn)
    /\ SF_startVars(part = "start" /\ ChildGoesOn)
    /\ WF_logVars(part = "log" /\ BackEndGoesOn)
    /\ WF_logVars(part = "log" /\ LoggingJoined)
    /\ WF_sudokuVars(part = "sudoku" /\ SudokuLoop)
    /\ WF_tunnelVars(part = "tunnel" /\ TunnelLoop)
    /\ WF_dummyVars(part = "dummy" /\ DummyGoesOn)
    /\ \A t \in LoadThread : WF_dummyVars(part = "dummy" /\ LoaderStep(t))
    /\ \A h \in Hasher : WF_wordsVars(part = "words" /\ HasherMain(h))
    /\ \A h \in Hasher : WF_wordsVars(part = "words" /\ HasherLoop(h))

-----------------------------------------------------------------------------
\* ThreadsSafe, RpcRight and BalancerRight hold of their parts, and of a part that stands
\* still.

\* Log lines keep their order and files their bounds, and times are what they say: dates,
\* the hours of a zone, the second and the zone of a line, and its pieces.
TimesRight == /\ part = "log" => LogTypeOK /\ LinesInOrder /\ SparesRefilled
              /\ part = "file" => FileBounds
              /\ part = "calendar" => CalendarRight
              /\ part = "line" => LinesTrue

\* Of each part, what is promised: whenever it is asked it is kept later.
NoPromise == [asked |-> FALSE, kept |-> TRUE]
FirstPromise == CASE part = "work" -> StopReturns
                  [] part = "start" -> StartReturns
                  [] part = "log" -> LoggingStops
                  [] part = "sudoku" -> ThrottleEnds
                  [] part = "tunnel" -> ReadingResumes("client")
                  [] part = "dummy" -> DummyEnds
                  [] part = "words" -> HasherResumes(Busy)
                  [] OTHER -> NoPromise
SecondPromise == CASE part = "work" -> WorkIsRun
                   [] part = "log" -> LineIsWritten
                   [] part = "tunnel" -> ReadingResumes("server")
                   [] OTHER -> NoPromise
ThirdPromise == IF part = "work" THEN WorkGetsIn ELSE NoPromise

\* start() and both stop() return; work, producers and log lines that wait get through;
\* a throttled Sudoku server or tunnel and a hasher that waits go on again; and a load
\* that is done ends its threads.
ThreadsGoOn == /\ FirstPromise.asked ~> FirstPromise.kept
               /\ SecondPromise.asked ~> SecondPromise.kept
               /\ ThirdPromise.asked ~> ThirdPromise.kept

\* The commands of the tools work out what the documentation says they show.
CommandsRight == (part = "reward" => RewardsAddUp) /\ (part = "tools" => ToolsRight)

\* Each request and frame is taken from the stream once and answered as it says.
ProtocolsRight == /\ part = "http" => HttpRight
                  /\ part = "frames" => FramesRight
                  /\ part = "fcgi" => FcgiRight

\* The servers of the examples keep clients, requests and numbers apart: no packet,
\* answer or value goes to or comes from another than the one it is for. The relays, the
\* chat server and the hub pass on what they are given, in order and to those it is for;
\* idle and surplus connections are closed, and no other; what watches processes shows
\* what they did; and what is transferred arrives whole.
ExamplesRight == /\ part = "mux" => IdsRight /\ PacketsRight
                 /\ part = "mem" => CasNamesValue /\ SessionsRight
                 /\ part = "bench" => BenchRight
                 /\ part = "solver" => SolverRight
                 /\ part = "sudoku" => SudokuRight
                 /\ part = "stat" => StatRight
                 /\ part = "testers" => TestersRight
                 /\ part = "tunnel" => TunnelRight
                 /\ part = "chat" => ChatRight
                 /\ part = "load" => LoadRight
                 /\ part = "hub" => HubRight
                 /\ part = "idle" => IdleRight
                 /\ part = "procmon" => ProcmonRight
                 /\ part = "dummy" => DummyRight
                 /\ part = "procfs" => ProcfsRight
                 /\ part = "words" => WordsRight
                 /\ part = "files" => FilesRight
                 /\ part = "ttcp" => TtcpRight
                 /\ part = "redis" => RedisRight
                 /\ part = "download" => DownloadRight
=============================================================================
