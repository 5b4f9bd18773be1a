# Verification of uctool

uctool keeps the licences of Ulord masternodes. This directory holds TLA+ models
of the two programs that do the work, `licensetool` and `ulordcenter`, of their
tools, and of muduo, the network library that the repository carries with its
examples; the TLC configurations that check them on small instances; and proofs,
checked by TLAPS, of what matters most for every instance.

Paths below are relative to the root of the repository's sources; those of muduo to
`ulordcenter/3rdlibs/muduo/`.

## 1. Inventory

### The system

A masternode is identified by an unspent output, the *coin* `<txid, voutid>`. A web
forum (not in the repository) keeps one row per masternode in the MySQL table
`udevforums_major_node_bind`: whether its binding is confirmed (`status`), until when
its owner has paid (`node_period`), and the *licence*: its end (`validdate`), a
signature (`certificate`), and the number of the key that made it (`cert_version`).

    forum ──rows──▶ MySQL table ◀──UPDATE── licensetool (signs licences)
                        │
                        └──SELECT──▶ ulordcenter (cache) ◀──TCP── masternodes, tools

| Component | State | Operations | Interacts by |
|---|---|---|---|
| table (`README.md`, `common/ulordDB.*`) | rows | `SelectMNode`, `UpdateLicense`, `ClearLicenses` | SQL, one connection per statement |
| licensetool (`licensetool/`) | keys, position in a pass, selected nodes, the node being stored | `InitWatcherKey`, `SelectNeedUpdateMNData`, `SignMNLicense`, `UpdateDB`, `Run`, `test`, `clear` | the table, the clock, `ulordcenter.conf` |
| ulordcenter (`ulordcenter/ulordcenter.*`) | keys, cache `mapMNodeList_` under `cs_`, connection list | `InitUCenterKey`, `onStringMessage`/`HandlerMsg`, `SelectMNData`, `onConnection`, `onTimer` | the table, the clock, TCP, several I/O threads |
| length codec (`ulordcenter/codec.h`) | input buffer of a connection | `onMessage`, `send` | muduo callbacks |
| `MySQLConnection` (`common/`) | a MySQL handle, perhaps null | `open`, `close`, `ping`, `execute`, `query` | MySQL client library |
| client (`tools/msgtool.cc`) | a socket | `MSTRequest` and the `ask...` commands | TCP to ulordcenter |
| other tools (`tools/`) | none | `SelectMNode` and checks of nodes, keys, rewards, numbers of a message | command line |
| helpers (`common/utils.*`, `common/ulord.*`) | settings | configuration, parsing, logging | calls |
| event loop (`muduo/net/EventLoop*`) | `pendingFunctors_`, `quit_`, the wakeup descriptor | `loop`, `queueInLoop`, `quit`, `startLoop` | functors, from any thread |
| timers, pollers, channels (`muduo/net/Timer*`, `poller/`) | `timers_`, `activeTimers_`; channels with an index | `addTimer`, `cancel`, `handleRead`; `poll`, `updateChannel`, `removeChannel` | callbacks of the loop |
| connections, buffers (`muduo/net/TcpConnection*`, `Buffer*`) | `state_`, both buffers, a channel | `send`, `shutdown`, `forceClose`, `startRead`, `stopRead` | callbacks, functors |
| servers, clients (`muduo/net/Tcp{Server,Client}*`, `Acceptor`, `Connector`) | the map of connections, the pool; `connect_`, `retry_` | `newConnection`, `removeConnection`; `connect`, `disconnect`, `stop` | functors of several loops |
| threads (`muduo/base/Thread*`, queues, `Mutex.h`) | deque, `running_`, latch, `holder_` | `put`, `take`, `run`, `start`, `stop` | mutexes, conditions |
| logs, dates (`muduo/base/*Log*`, `Date`, `TimeZone`) | buffers, files, the cached second | `append`, `threadFunc`, `rollFile`; conversions | a mutex, a condition |
| HTTP, inspectors, protobuf, RPC (`muduo/net/{http,inspect,protobuf,protorpc}`) | a parser's state; `outstandings_` | `onMessage`, `onRequest`, `CallMethod`, `onRpcMessage` | callbacks of connections |
| examples (`examples/`, `contrib/hiredis`) | ids, items, lists of connections, files | servers, relays, clients | callbacks of connections |
| UlordChain | outside: a submodule | `CMstNodeData`, `VerifyLicense` | calls |

### What is hard, and what makes each part correct

* **licensetool.** A pass is a sequence of statements with nothing that holds them
  together: rows are selected by one, and each is signed and stored by another,
  seconds to minutes later. In between the forum confirms, withdraws and extends, an
  operator runs `licensetool clear` or a second pass by hand, keys are rotated, the
  process may die, and `execute()` repeats a statement whose reply was lost. It is
  correct if every row still carries the certificate of its own period and version
  (`CertificateCoversRow`), made with a key that can be verified
  (`CertificateVerifies`), if no licence outlives what was paid for
  (`WithinNodePeriod`), if renewals are worth storing (`RenewalIsAhead`) and, with one
  runner, never take anything away (`RenewalOnlyImproves`), and if they come in time
  (`RenewedInTime`).
* **ulordcenter.** I/O threads share a cache under one lock that is held across the
  statement. It is correct if a masternode is told a licence it can verify
  (`CenterSafe`), if a statement that succeeded is heeded and withdrawn nodes get nothing
  new (`TableHeeded`), and if every question is answered (`EventuallyAnswered`).
* **Both together.** They share only the table, the clock and a configuration file
  that each reads at start. The key version of a served licence must be one that
  ulordcenter publishes and a withdrawal must take effect (`AnswersBounded`), and a confirmed node that keeps asking must again and
  again be told a valid licence (`EventuallyServed`).
* **Connections of ulordcenter.** `onConnection` keeps a list of weak references, in
  the order of arrival, that `onTimer` walks every second to shut down connections that
  are too old; closing one goes through timers and functors of two event loops. With
  one loop the list must be safe from the walk and a functor must never
  meet a connection that is gone (`ConnectionsSafe`), idle connections must be found
  although the walk stops early (`IdleCut`) and must go away (`EventuallyGone`).
* **Codec and client.** TCP delivers in segments of any size. The codec must hand on
  what was sent, whole, in order and without delay (`ImplementsStream`,
  `ExchangesEnd`); the tools, which do not reassemble, must take no part of an answer
  for the answer (`DialogueSafe`) and must return (`ExchangesEnd`).
* **MySQL handle.** Each call of `CUlordDb` opens a connection of its own, and pings,
  executes, repeats and reconnects on it while the database comes and goes. The call
  must return (`ExchangesEnd`), run its statement a bounded number of times and report
  success only of one that ran (`ImplementsStatement`), in a session that is set up
  (`StatementPrepared`), and should report that the database is unreachable
  (`OutageReported`, which it does not).
* **The event loop.** Threads queue functors, quit the loop and destroy it while it
  polls, runs functors or has just ended; timers are cancelled from inside their own
  batch, and their addresses are used again; channels leave the pollers and come back.
  No wakeup may be lost (`LoopSafe`), each functor is run once and in order
  (`KeepsPromises`), `cancel()` stops the timer it names and no other (`CancelRight`),
  and nothing that was asked for waits for an unrelated event (`LoopGoesThrough`).
* **Connections and their ends.** Output goes to the kernel, to a buffer or through a
  functor; either side may close, half close or be cut off at any point of it. Bytes
  arrive whole and in order, the FIN comes last and the connection goes down once
  (`TcpSafe`), wherever `Buffer` keeps them (`BufferSafe`); servers and clients remove
  each connection once and make one attempt at a time (`EndsSafe`); and output drains,
  what is down is freed, nobody is left in the backlog (`StreamGoesOn`).
* **Threads and logs.** One notification per task, with spurious wakeups: nobody sleeps
  over work or room, and `start()` leaves nobody in the latch that it destroys
  (`ThreadsSafe`); what is asked of a thread is done (`ThreadsGoOn`). Lines keep their
  order and files their bounds; dates, the hours around a change of the clock and the
  lines of a log are what they say (`TimesRight`).
* **Tools.** The configuration that counts, keys that survive a round of encoding, sums
  of rewards without gap (`CommandsRight`).
* **Protocols and examples.** Requests and frames in pieces, answers that overtake calls,
  ids that are used again, throttles that are set when the output has drained, lists
  that change while they are walked, files that are closed with a callback still
  queued. Each answer goes to its own request (`ProtocolsRight`), or call (`RpcRight`),
  through a balancer too (`BalancerRight`), which asks its backends equally often
  (`TurnsTaken`); servers, relays, lists and transfers lose, double and mix up nothing
  (`ExamplesRight`).

`PROJECT.json` lists the main hazards, each at its line.

## 2. Modules

| Module | Models | Built on |
|---|---|---|
| `LicenseTable` | table, clock, configuration file; the reads of `SelectMNode`; the forum and the operator as environment | |
| `LicenseRegistry` | *abstract*: what licensetool promises of the table | `LicenseTable` |
| `LicenseWatcher` | licensetool, step by step; implements `LicenseRegistry` | `LicenseTable` |
| `WatcherTiming` | when the steps of licensetool happen, and how late a renewal is | `LicenseWatcher` |
| `UCenter` | ulordcenter over the table that `LicenseRegistry` describes | `LicenseRegistry` |
| `LicenseSystem` | licensetool and ulordcenter; implements `UCenter` | `LicenseWatcher`, `UCenter` |
| `Connections` | onConnection, onTimer and what muduo does around them, in one loop or several | |
| `MessageStream` | *abstract*: what the codec promises of a connection | |
| `LengthCodec` | the codec, on bytes; implements `MessageStream` | `MessageStream` |
| `Dialogue` | one connection: codec, `onStringMessage`, and a node or `MSTRequest` | `LengthCodec` |
| `Statement` | *abstract*: what a call of `CUlordDb` promises | |
| `MySQLSession` | one call of `CUlordDb` on its `MySQLConnection`; implements `Statement` | `Statement` |
| `LicenseWatcherProofs` | types of `LicenseWatcher`, the certificates, the periods; that `LicenseRegistry` is implemented | `LicenseWatcher` |
| `TimingProofs` | how late a renewal can be | `WatcherTiming`, `LicenseWatcherProofs` |
| `SystemProofs` | `UCenter`, and both programs together | `LicenseSystem`, `LicenseWatcherProofs` |
| `ConnectionsProofs` | the connections of ulordcenter, and which of them `onTimer` finds | `Connections` |
| `DialogueProofs` | the codec implements `MessageStream`; whole answers; `MySQLSession`: types, settings, and that it implements `Statement` | `Dialogue`, `MySQLSession` |
| `LoopProofs` | the loop, its timers and both pollers, with the abstract specifications they implement | `MCLoop` |
| `StreamProofs` | `Buffer`, `TcpConnection`, `TcpServer`, `TcpClient` | `MCStream` |
| `ServicesProofs` | `Threads`; RPC; the RPC balancer | `Threads`, `Protocols`, `Relays` |
| `TaskQueue` | *abstract*: functors are run once and in order | |
| `EventLoop` | `EventLoop` in an `EventLoopThread`; implements `TaskQueue` | `TaskQueue` |
| `TimerQueue` | timers of one loop | |
| `Interest` | *abstract*: what a poller promises of the events a channel asks for | |
| `Pollers` | `EPollPoller` and `PollPoller`; each implements `Interest` | `Interest` |
| `TcpConnection` | one connection, its loop and other threads | |
| `Buffer` | the vector with two indices | |
| `TcpServer` | `TcpServer`, `Acceptor`, the pool of loops | |
| `TcpClient` | `TcpClient`, `Connector` | |
| `Threads` | `ThreadPool` and the blocking queues; `Thread::start` with its latch and mutex | |
| `Logging` | `AsyncLogging`; `LogFile`; the pieces of a line | |
| `Calendar` | days, times and zones | |
| `Tools` | the commands of `tools/`, the reward walks | |
| `Protocols` | HTTP server and inspector; both protobuf codecs; RPC; FastCGI | |
| `Multiplexer`, `Memcache`, `Sudoku` | those examples; the second with its benchmark client, the last with solver, statistics, and the three testers with what they print | |
| `Relays` | the TCP relay, balancer and SOCKS proxy; the RPC balancer | |
| `Broadcast` | chat servers and their load test; the hub; idle and surplus connections | |
| `Monitor` | procmon and its chart, dummyload; what inspectors read from `/proc` | |
| `Transfers` | word count, file servers, ttcp, the glue to hiredis and to libcurl, the download | |
| `MCLoop`, `MCStream`, `MCServices` | parts side by side: in a behaviour one of them runs | all of the above |
| `MCConnections`, `MCDialogue` | small instances; the second with `MySQLSession` beside it | `Connections`; `Dialogue`, `MySQLSession` |

### State and actions

`LicenseTable`: `db[c]` is the row of coin `c` with status `none` when there is no row;
`now` is `GetTime()`; `confkeys` counts the `privkeyN` lines of `ulordcenter.conf`;
`events` counts disturbances against the bound `MaxEvents`. A certificate is modelled by
what it signs, `[coin, period, version]`, so that it verifies exactly when the row
shows the same values. `ReadRow` is the loop body of `SelectMNode`; `Atoi` keeps the
low bits of the BIGINT columns, as `atoi()` does in the build (`strtol` cut to `int`).
`Bind`, `Audit`, `AddKey` and `Tick` are the environment. The forum's code is not in
the repository; that it only ever extends `node_period` is an assumption.

`LicenseWatcher`: a *runner* is a process. `stage` is where it is in its pass:

| Stage | Action | Code |
|---|---|---|
| `off` | `Start` | constructor, `InitWatcherKey` |
| `scan` | `Scan` | `SelectNeedUpdateMNData`: the clock is read, the statement composed |
| `select` | `Select`, `SelectFail` | `SelectMNode` and its error paths |
| `update` | `Skip`, `Sign` | one round of the loop in `UpdateDB`: `SignMNLicense` refuses, or signs |
| `execute` | `Execute`, `ExecuteLost`, `ExecuteRetry`, `ExecuteFail` | `UpdateLicense`, `IsDBOnline`, `MySQLConnection::execute` |
| `update`, no node left | `PassDone` | end of `UpdateDB`; `MilliSleep`, or return from `main` for `test` |
| `sleep` | `Wake` | `Run` |
| any | `Crash` | the process dies |

`ClearLicenses` is `licensetool clear`. `vecnode` holds copies of rows as they were
read, and `Store`, the UPDATE, names its row by the coin only: all staleness of the
code is in the model. `ExecuteLost` is an UPDATE that was carried out though the
runner sees error 2013 and repeats it. `tries` is `queryTimes`.

`UCenter`: `cache` is `mapMNodeList_`, `ckeys` the number of keys loaded (0: the server
is down), `owner` the holder of `cs_`, and per I/O thread `at`, `request`, `since`
(`tnow`) and the last `answer`. `Ask` is the arrival of `MST_QUEST_ONE`; `Hit` is
`SelectMNData` answering from the cache, `Miss` its way to the statement, `Refresh` and
`RefreshFail` the rest, with the merge and the reply. Between `Miss` and `Refresh` the
lock is held and everything else moves.

`LicenseSystem` interleaves the two; `lastConfirmed` is history. `Released` is the
discipline of restarts: ulordcenter is restarted before a licensetool that will sign
with a new key.

`WatcherTiming` adds outages of the database and lets time pass only while the daemon
sleeps or something is broken; `dueSince`, `lost` and `outages` are history.

`Connections`: `work[t]` is what is left of the callback that the loop of thread `t` is
in, cut where another thread may come between, and `queue[t]` is `pendingFunctors_`.
`thread` is the setting `-thread`; with 1 the only loop is that of `main`. Per
connection there are `state` (`state_`), `open` (the channel is enabled), `context`,
`age` (the time since `lastReceiveTime`), `inServer` (the server's map holds it),
`force` (its `forceClose` timer runs) and the history `cut` (the codec shut it down).
A connection is alive while the map, a callback or a functor holds it (`Alive`); the
raw `this` of `shutdownInLoop` and the iterator of the walk hold nothing.

| Action | Code |
|---|---|
| `NewConnection`, `ConnectEstablished` | `TcpServer::newConnection`, `connectEstablished` |
| `OnConnection`, `Enlist`, `SetContext`, `EraseEntry` | `CUCenter::onConnection` |
| `PeerCloses`, `HandleClose` | `handleRead`, `handleClose` |
| `RemoveConnection`, `RemoveConnectionInLoop`, `Nothing` | `TcpServer::removeConnection`, `connectDestroyed` |
| `InvalidLength`, `Shutdown` | the codec's `shutdown`, and that of `onTimer` |
| `Delay`, `DelaySet`, `ForceClose`, `ForceCloseInLoop` | `forceCloseWithDelay` and its timer |
| `OnTimer`, `WalkEntry`, `WalkNext`, `WalkEnds` | `CUCenter::onTimer` |

Two threads that are both about to use the list (`ListRace`), a position whose entry is
gone and an entry without context (`Dangling`) are undefined behaviour: anything may
follow, and the model says nothing of it: it takes no step after `Undefined`. The times
of a walk are those of its start, so `Tick` and `StepBack` wait for its end.

`LengthCodec` is on the level of bytes: `wire` is under way, `buf` is `inputBuffer_`,
and a round of the loop in `onMessage` is `DeliverFrame`, `RefuseFrame` or `AwaitMore`.
Headers have two bytes of `Radix` values instead of four of 256, big endian and signed
as in the code. `Dialogue` adds the lengths and types that `onStringMessage` tells
requests apart by, the answer in the format of the request, and `MSTRequest` with its
single `recv()`. Whether its socket blocks is decided in UlordChain, which is not in
the repository: `polls` may be either.

`MySQLSession`: `pc` is the next step of the call, or its report; `conn` the handle,
null, open or broken; `back` the step that waits for `open()`; `attempts` is
`queryTimes`, `pings` the counter of `IsDBOnline`, `prepared` what `open()` has set in
the session. `applied` counts what the server really did.

| Code | Actions |
|---|---|
| constructor, `IsDBOnline`, first lines of `ping` | `Begin` |
| `open` | `Connect`, `ConnectFails`, `SetCharset`, `SetZone` |
| `ping`, and `IsDBOnline` around it | `Ping`, `PingFails`, `RepingFails` |
| `execute` | `Execute`, `Answered`, `AnswerLost`, `Gone`, `Rejected`, `Recover` |
| `query`, `MySQLResult` | `Store`, `StoreLost` |
| a null handle in `mysql_ping` or `mysql_query` | `NullHandle` |
| network and server | `Break`, `GoDown`, `ComeUp` |

Automatic reconnection of the client library is off by default and nothing turns it
on, so the branch "reconnect success" of `execute` is never taken. `LicenseWatcher`
and `UCenter` use a call by its outcomes only: `Execute`, `ExecuteLost`,
`ExecuteRetry` and `ExecuteFail` are the ways through `Statement`, the reports
"false" and "empty" are `SelectFail` and `RefreshFail`, and "dead" is `Crash` or `Halt`.

`EventLoop`: `at` is where `threadFunc` and `loop()` are, `calls` whether a thread that
has pushed its functor has yet to call `wakeup()`, `pending` and `functors` the vector and
the local one it is swapped into. The critical section of `queueInLoop` is one step and
the test whether to wake another, as in the code. `pointer` is `loop_` of the
`EventLoopThread`, and `owner` its destructor.

`TimerQueue`: `heap` says what is at an address, with times relative to now; `TimerId`s
in `ids` may outlive what they name. `batch`, `next` and `canceling` are the expired
timers, the one whose callback runs and `cancelingTimers_`. Timers that expire at the same
time come in any order: the code orders them by address. `armed` counts down on its own
when the wall clock is set.

`Pollers`: `events` and `index` are those of the channels, `kernel` is the epoll set,
`pollfds` the vector of the other poller, with the fds it ignores.

`TcpConnection`: an iteration of the loop handles `ready`, the `revents_` of the channel,
and then `round` functors of `tasks`. `wire` is what the kernel took, `inbox` what it
holds. Calls from other threads test `state_` in one step and queue their functor in
another. A message has two units, of which the kernel takes any number. `Uses` says
which calls meet in a behaviour.

`Buffer` has its real cells, stale ones included. `TcpServer` has a queue of functors per
loop and the map in loop 0; `others` are descriptors of the process elsewhere. The
destructor takes one connection after another from the map (`ServerDestroy`,
`DestroyNext`, `ServerGone`) while the loops of the pool go on.
`TcpClient` follows `Connector` and `TcpClient` through the loop's timers and functors.

`Threads`: a critical section is one step, `wait()` one of its own that may return
unasked. In the second part, `start()`, mutex, condition and latch are taken apart to the
calls of pthread. `Logging`: `AppendLine` is the front end, `TopOfLoop` to `WriteBuffers`
the back end of `AsyncLogging`; `LogAppend` is `LogFile`; `StreamPiece` and `Header` make a
line of pieces in a buffer of `kSmallBuffer` cells. `Calendar` walks over days and
instants and compares with days counted by hand. `Tools` has operators of their input,
and the input is a state.

The other modules follow the callbacks of their programs, named after them: a request,
frame, packet or byte is a number or a record that says whose it is. Where output waits
in a connection, what the module keeps of `TcpConnection` (`sendInLoop`, `handleWrite`,
the two marks and the callbacks they queue) is mapped to its lines.

## 3. Runs

| Run | Instance | Shows |
|---|---|---|
| `watcher_pair` | a daemon and a manual pass on 1 coin, only key 2 verifiable | `WatcherTypeOK`, `CertificateCoversRow`, `CertificateVerifies`, `RenewalIsAhead`, `WithinNodePeriod`, `ImplementsRegistry` |
| `timing` | 1 daemon, 2 coins, 2 keys, 2 outages or crashes, 2 units lost, time 0..8 | `RenewedInTime`, `RenewalOnlyImproves` |
| `center` | 2 I/O threads, 2 coins of one transaction | `CenterSafe`, `TableHeeded`, `EventuallyAnswered` |
| `system` | 1 daemon, 1 I/O thread, 1 coin, 2 keys, under fairness | `AnswersBounded`, `ImplementsCenter`, `EventuallyServed` |
| `connections` | 2 connections in one loop, 1 with a pool of two; clock set back once | `ConnectionsSafe`, `IdleCut`, `EventuallyGone` |
| `dialogue` | 3 messages of 7 kinds and 2 invalid headers, all segmentations; and one call of `CUlordDb` after another, the limits of the code (3 pings, 3 repeats) | `DialogueSafe`, `ImplementsStream`; `SessionTypeOK`, `StatementPrepared`, `ImplementsStatement`; `ExchangesEnd` |
| `loop` | 3 functors from 2 threads; 2 timers at 2 addresses; 3 channels | `LoopSafe`, `KeepsPromises`, `CancelRight`, `LoopGoesThrough` |
| `stream` | a connection with 2 messages and a sender; a buffer of 2 cells and what it grows to; a server with 3 connections and up to 2 threads; a client with up to 3 failures | `TcpSafe`, `BufferSafe`, `EndsSafe`, `StreamGoesOn` |
| `services` | 33 parts of the modules from `Threads` on | `ThreadsSafe`, `TimesRight`, `CommandsRight`, `ProtocolsRight`, `RpcRight`, `BalancerRight`, `TurnsTaken`, `ExamplesRight`, `ThreadsGoOn` |
| `narrow_refresh` | the system | *violates* `RefreshFindsValid` |
| `shared_list` | 2 connections, 2 threads | *violates* `ListUnshared` |
| `null_handle` | calls of `CUlordDb` | *violates* `OutageReported` |

Several of these are conjunctions of named parts, each stated and commented beside the
model it is about:

| Property | Its parts |
|---|---|
| `CenterSafe`, `TableHeeded` | types, `AnswerAttested`; `RefreshHeedsTable`, `WithdrawnNotRefreshed` |
| `AnswersBounded` | `ServedVersionPublished`, `WithdrawalTakesEffect` |
| `ConnectionsSafe` | types, `RawThisLive`, `SingleLoopSafe` |
| `DialogueSafe`, `ExchangesEnd` | types, `WholeAnswerOnly`; `ClientReturns`, `MessagesHeard`, `CallReturns` |
| `LoopSafe` | types of the loop, timers and pollers, `NoLostWakeup`, `ArmedInTime` |
| `KeepsPromises` | `ImplementsTaskQueue`, `EPollGivesInterest`, `PollGivesInterest` |
| `CancelRight`, `LoopGoesThrough` | `CancelExact`, `CancelStops`; `QueuedIsRun`, `QuitHeeded`, `TimerExpires` |
| `TcpSafe` | types, `StreamIntact`, `FinIsLast`, `CloseOnce`, `InputComplete` |
| `EndsSafe` | `Balanced`, `RemovedOnce`, `RemovedIdle`, `NoneLeft`; `OneAttempt`, `NoneDangling`, `StopFinal`, `DisconnectFinal` |
| `StreamGoesOn` | `ShutdownHeeded`, `OutputDrains`, `EndsDestroyed`, `DownIsFreed`, `NobodyWaits`, `Persists` |
| `ThreadsSafe` | `NoSleepOverWork`, `NoWaitOverRoom`, `HolderTrue`, `StartedRightly`, types |
| `ThreadsGoOn` | the promises `StopReturns`, `WorkIsRun`, `WorkGetsIn`, `StartReturns`, `LineIsWritten`, `LoggingStops`, `ThrottleEnds`, `ReadingResumes`, `DummyEnds`, `HasherResumes` |
| `TimesRight`, `CommandsRight` | `LinesInOrder`, `SparesRefilled`, `FileBounds`, `CalendarRight`, `LinesTrue`; `RewardsAddUp`, `ToolsRight` |
| `ProtocolsRight` | `HttpRight`, `FramesRight`, `FcgiRight` |
| `ExamplesRight` | `IdsRight`, `PacketsRight`, `CasNamesValue`, `SessionsRight`, `BenchRight`, `SolverRight`, `SudokuRight`, `StatRight`, `TestersRight`, `TunnelRight`, `ChatRight`, `LoadRight`, `HubRight`, `IdleRight`, `ProcmonRight`, `DummyRight`, `ProcfsRight`, `WordsRight`, `FilesRight`, `TtcpRight`, `RedisRight`, `DownloadRight` |

`evenAt` of the balancer is history: what each backend had been asked when one of them
last came or went, from where `TurnsTaken` counts.

A promise of `services` is a record `[asked, kept]`, and `ThreadsGoOn` says `asked ~> kept` of
those of the part that runs, so that TLC follows three formulas and not thirteen.

**Bounds.** `MaxTime` stops the clock, `MaxEvents` caps what the forum, the operators
and crashes do together, `MaxKey` the keys, `MaxOutages` and `MaxLost` the outages.
Periods are scaled: `NeedUpdate` 1 and `PeriodLimit` 2, or 3 and 4, keep the order of the
defaults (3 and 30 days); `NodePeriods` has a value inside the horizon and one outside,
so that licences clipped to `node_period`, expired nodes and extensions all occur.
One coin is enough where rows do not influence one another (the UPDATE touches one
row, the loop of `UpdateDB` visits them in any order); two are used where they could:
the rest of a pass after a node that is skipped, and replies for outputs of the same
transaction. A renewal needs five events at most (bind, confirm, withdraw or extend,
crash or clear, new key), so each hazard fits; `system` has four, of which a restart of ulordcenter is one, and
no pause between passes (`RunInterval` 0 lets the daemon wait, but not for a clock
that the bound has stopped). The calls of `CUlordDb` in `dialogue` need no bounds but
those of the code: their connections may break without end. `IntHalf` is large enough
that nothing wraps in the runs; with `IntHalf` 4 and a period of 9 `RenewalIsAhead` fails
(see "Other observations"), and the theorems about it assume that the periods fit.

For connections two are needed to disturb each other in the list; what threads do to
one connection, and to the list, they do with a single one. `Arrivals` says which
connections come under which setting. `age` is counted up to `AgeLimit`, from where no
step back makes a connection young again, so that the runs go on for ever in finitely
many states. In `dialogue` bytes of four values and `MaxLen` 3 leave room for too long
and for negative lengths, and `RecvLen` 4 is enough for one kind of answer and too
little for the other; with three messages an invalid one can have valid ones on both
sides.

In `loop` three functors are enough for one that runs, one that was swapped out with it
and one that comes too late for that; two timers at two addresses let an address be used
again while an old `TimerId` names it; with three channels the one that leaves
`PollPoller` can be the last, the first, or one whose place the last takes. In `stream`
two messages of two units and `HighWater` 3 reach the mark from below and from above,
a short write splits a message, and a functor can hold the second one back; the buffer
has two cells, less than what comes in at once, so that it moves, grows and shrinks;
three connections go round a pool of two, and `MaxFds` 3 makes `accept` fail.

In `services` the parts share nothing, so they run one at a time, and the states add up
instead of multiplying. Two workers and two producers can take a notification from each
other, at capacity 0 (no bound) and 2; four tasks fill the queue and wait before it.
Buffers of two log lines are full at the second; six lines fill both spares and reach
`DropOver`. A log of 4 seconds with a period of 3 rolls by size and by time. Ids, pools and
limits of the examples (`kMaxConns`, `kMaxConnections`, `kMaxHashSize`, the
marks) are as small as lets them be reached, exceeded and left again. `kConcurrent` is 2,
so that a download has a second piece to wait for; the years are of every kind the calendar knows. Of
the hashers one has a text and the other none.

**Deadlock** is checked in the runs of the table, licensetool and ulordcenter. The
connections may end in undefined behaviour, in `dialogue` a connection is over in the
end, and in `loop`, `stream` and `services` the input is bounded and a part may have
nothing left to do. What must go on is stated as liveness in all of them, also where
`Tick` is enabled for ever.

**Fairness.** `SessionFairSpec`: the caller runs, and the client library returns.
`CenterFairness`: a thread that waits for `cs_` gets it when it is free
again and again (`SF` on `Hit`/`Miss`; the code uses a recursive mutex, which grants no
order but starves nobody for ever), and a statement returns with a result or an error
(`WF` on `Refresh`/`RefreshFail`), since `IsDBOnline` and `execute` stop after a fixed
number of attempts. `SystemFairness` asks in addition that the daemon and ulordcenter
run and are restarted, that their statements do not fail for ever (`SF` on `Select`,
`Execute`, `Refresh`) and that the masternode goes on asking. All of these are weaker
than what the programs do when their host and the database work. `ConnFairness`: the
base loop finishes its callbacks, and `epoll` gives every timer and functor its turn
whatever else happens (`SF`, since walks come in between); time goes on between walks.
`DialogueFairness`: the network delivers, both ends go on, and the server closes idle
connections, which is `EventuallyGone` of `Connections`. A connection may break at any
time, but need not. In `loop`, `stream` and `services` each thread and each loop goes on
(`WF` of its steps, a loop of a server by itself), a caller that has queued a functor
calls `wakeup()`, the kernel takes output and the backlog is accepted: the scheduler and
an `epoll_wait` that returns are all that is asked. The one strong fairness is that of
the child in `Thread::start` (`SF_startVars`), which needs the mutex that its starter
takes again and again. Users, peers and failures have no fairness anywhere.

`EventuallyGone` and `MessagesHeard` except what the code does not do. A connection
that the codec has shut down is no longer `connected()`, so `onTimer` arms no timer for
it, and if its peer stays silent it stays for ever. A request of the length of a boost
archive that is none makes `UnSerializeBoost` cut beyond its end; `substr` throws out
of `onStringMessage` and the process ends (`OnStringMessage`). Also, `lastReceiveTime` is
set when a connection is made and never again, so that "idle" is the age of a
connection; `age` follows the code.

### What the violated properties show

* `RefreshFindsValid` (`ulordcenter/ulordcenter.cc:312-316`): for a cached coin whose
  licence is about to end the statement takes only rows with more than `needupdate`
  to go. A licence that is valid for less than that, because the node's paid period
  ends soon, is never fetched, and the masternode is told of the ended one.
* `ListUnshared` (`ulordcenter/ulordcenter.cc:84`): with the default `-thread` of 2,
  `onConnection` changes `connectionList_` in I/O threads while `onTimer` walks it. With
  `-thread` of 1 the passing run finds the same code safe.
* `OutageReported` (`common/MySQLConnection.cc:99-102`): when the database cannot be
  reached, `open()` leaves the handle null and `ping()` passes it to `mysql_ping`.
  `IsDBOnline` never gets to its retries; the process ends. ulordcenter, which asks
  the database on a request, goes down with it.

### Other observations

What was noticed while modelling. The models follow the code in all of these, or leave
the case out where it is said; none is a run.

* `common/ulordDB.cc:156-160`: MySQL compares the BIGINT `node_period`, `SignMNLicense` an
  `int`. With a period of 2^31 or more a node is re-signed at every pass with a licence
  that has ended.
* `licensetool/licensewatcher.cc:128`: `runinterval` is documented in minutes
  (`licensetool/README.md:26`) and used in seconds.
* `common/utils.cc:196`: `Hex2Int64` collects its digits in an `int` and keeps the lower
  four bytes. `tools/dbtool.cc:96`: `dbgetall` counts a row that fails among those that are
  "check ok". Of two lines of a configuration file for one setting the first one counts.
* `examples/socks4a/tunnel.h:133,161,167`: `clientConn_` is used after `teardown` has
  cleared it; `tunnel.h:78-79`, `socks4a.cc:26`: a user who leaves while the backend is
  being connected leaves its tunnel behind.
* `muduo/base/TimeZone.cc:215,259`: a zone whose file cannot be read is `valid()`.
* `examples/filetransfer/download2.cc:51-61`: a write-complete callback reads and closes
  a `FILE*` that went with the connection.
* `examples/ace/ttcp/ttcp.cc:153`: asked for no message of length 0, the client waits for ever.
* `examples/wordcount/hasher.cc:115`: a hasher that waits for a congested connection is
  not woken when the connection is lost.
* `examples/multiplexer/multiplexer.cc:186`: an id of an earlier backend connection is given
  back to the later one; `demux.cc:128,174`: the entry of a connection that failed is kept.
* `muduo/net/TcpConnection.cc:337`: a server destroyed with a half-closed connection meets
  an assertion of `Channel`. `EventLoop.cc:108`: `quit()` before `loop()` is forgotten.
  `ThreadPool.cc:53`: `stop` wakes no producer that waits for room.
  `http/HttpServer.cc:78`: a second request in one segment waits for the next read.

## 4. Proofs

The theorems hold for every set of coins, runners, threads, keys, connections, functors,
timers, channels, messages and bytes, every period, every width of `int` and every bound,
under the assumptions stated with the constants, which TLC evaluates in the runs. Most
say that a number is one or that a value which stands for none is no other value; of the
rest,

* `UsesAgree` (`TcpConnection`): the calls that meet on one connection do not upset each
  other. A connection that the peer may end is not closed by `forceClose()` from another
  thread, nor by one in the loop if the loop calls `stopRead()` on it too. `MCUses` lists
  all that the run checks; the proof needs the assumption only.
* `PoolLimits`, `ThreadsAreFew`: connections and threads are finitely many.
  `CapacitiesAreNumbers`, `CallsAreNumbered`, `BackendsGiven`: there is a backend, and limits
  are numbers.
* `DelayAssumption` (`TimerQueue`): delays are numbers, 0 among them, and the loop's lateness
  has a bound.

Some theorems need more, in the column *if*.

* `PeriodsFit`: every `node_period` is below 2^31 (`IntHalf`), and the validity of a licence is
  positive. `atoi()` keeps the low bits of a longer period, and then the properties are
  false: TLC finds `RenewalIsAhead` violated with a period that wraps.
* *one runner*, *one daemon*: a second pass that runs by hand beside the daemon may store
  a licence that it signed earlier over a longer one.
* `CenterFirst`: whoever adds a key restarts ulordcenter before licensetool, without which
  ulordcenter serves licences of a key that it does not publish.

| Theorem | States | If |
|---|---|---|
| `WatcherType` | `WatcherSpec => []WatcherTypeOK` | |
| `CertificatesRight` | `WatcherSpec => []CertificateCoversRow` | |
| `CertificatesVerified` | `WatcherSpec => []CertificateVerifies` | |
| `LicencesPaid` | `WatcherSpec => []WithinNodePeriod` | |
| `RenewalsAhead` | `WatcherSpec => []RenewalIsAhead` | `PeriodsFit` |
| `RegistryKept` | `WatcherSpec => ImplementsRegistry` | `PeriodsFit` |
| `OneRunnerImproves` | `WatcherSpec => RenewalOnlyImproves` | `PeriodsFit`, one runner |
| `TimedRunnerImproves` | `TimingSpec => RenewalOnlyImproves` | `PeriodsFit`, one runner |
| `RenewalsInTime` | `TimingSpec => []RenewedInTime` | `PeriodsFit`, one daemon |
| `CenterIsSafe` | `CenterSpec => []CenterSafe` | `PeriodsFit` |
| `CenterHeedsTable` | `CenterSpec => TableHeeded` | `PeriodsFit` |
| `SystemIsCenter` | `SystemSpec => ImplementsCenter` | `PeriodsFit` |
| `AnswersAreBounded` | `SystemSpec => []AnswersBounded` | `PeriodsFit`, `CenterFirst` |
| `ConnectionsAreSafe` | `ConnSpec => []ConnectionsSafe` | |
| `IdleAreCut` | `ConnSpec => IdleCut` | |
| `StreamKept` | `DialogueSpec => ImplementsStream` | |
| `AnswersWhole` | `DialogueSpec => []DialogueSafe` | |
| `SessionType` | `SessionSpec => []SessionTypeOK` | |
| `PreparedAlways` | `SessionSpec => StatementPrepared` | |
| `SessionKeepsPromise` | `SessionSpec => ImplementsStatement` | |
| `LoopKept` | `Spec => []LoopSafe`, `Spec` that of `MCLoop` | |
| `PromisesKept` | `Spec => KeepsPromises` | |
| `CancelsKept` | `Spec => CancelRight` | |
| `BufferKept` | `Spec => []BufferSafe`, `Spec` that of `MCStream` | |
| `EndsKept` | `Spec => []EndsSafe` | |
| `ConnectionKept` | `Spec => []TcpSafe` | |
| `ThreadsKept` | `ThreadsSpec => []ThreadsSafe` | |
| `RpcKept` | `RpcSpec => []RpcRight` | |
| `BalancerKept` | `BalancerSpec => []BalancerRight` | |
| `TurnsKept` | `BalancerSpec => []TurnsTaken` | |

`IdleCut` and `SingleLoopSafe` speak of one loop by themselves. The last four are about a part
of `services` on its own; the run checks the same formulas while other parts run.

*Type correctness* is inductive with `StageAgrees`: a runner has a signed node exactly
while it stores it, which is what makes `Store(pending[r])` well typed.

*Certificates* (`CertInv`). A row is replaced by a node that was signed earlier, so the
property of the table rests on the same property of the nodes in flight
(`SignedCovers`): `Sign` establishes it, no other step makes a signed node, `Store` carries
it into the row, with all three columns at once, and the forum never touches them.
Repeats of the UPDATE and other runners in between need no case of their own.

*Periods* (`PeriodInv`). `WithinNodePeriod` compares a column that licensetool writes with
one that the forum writes. `PeriodInv` adds that what a runner read of `node_period`
(`ReadsPaid`) and what it signed on the strength of it (`SignedPaid`) are covered by the
row as it is now. That this lasts is `PaymentsStay`: nobody shortens a `node_period`.
That it begins is `AtoiNoMore`: cutting a time to an `int` never makes it later.

*The registry* (`AheadInv`, `GrantInv`). Where periods fit, `AtoiExact` replaces
`AtoiNoMore`: what a runner has read is exactly the row, and lies beyond its scan
(`RunnerAhead`). With the bound on what a runner may grant (its key is one of the
configuration, its licence ends within `PeriodLimit`) every `Execute` is `Renew` of
`LicenseRegistry`, `clear` is `Clear`, and every other step of a runner stutters.

*One runner* (`SoleInv` of `LicenseWatcherProofs`). What the runner remembers of a row, from the
scan through the signature to the statement, is at least as good as the row
(`RunnerUpToDate`), since nobody else stores; so the row it writes is better. `TimedStep`
carries this over to the daemon that lives through outages.

*In time* (`WaitInv`). `Accounted(c, r)` says of a row that waits how much it can be late,
according to what the daemon is doing: it has the row in hand, sleeps until `wakeAt`, or
has missed it in an outage. The case analysis is that of the steps of a pass.

*ulordcenter* (`CenterInv`). What a masternode can verify is a property of the rows
(`RowsAttested`), of the cache (`CacheServes`) and of the answer; threads that wait for
`cs_` hold nothing (`BusyThreads`). The steps of the table keep it because of what
`LicenseRegistry` promises, so that `SystemIsCenter` (by `RegistryKept`, and by the steps of
the server, which are the same in both modules) carries it over to the two programs.
`PublishedInv` follows the number of a key from licensetool through row and cache into the
answer; `DatesInv` compares the end of a licence in the cache with the time at which its
node was last confirmed, which is a history variable.

*Connections* (`CommonInv`, and for one loop `SoleInv`). Threads interleave in the middle of
their callbacks, so the invariant lists what a thread can have left to do (`Busy`) and
which functors can wait for it (`Queued`), each with what it relies on: a connection that
is closed, whose context is set, whose loop it is. One lemma for each action says what
other threads see of it (`OnlyOf`, `Steady`, `Undisturbed`), so that the reliance of `n`
threads is one argument and not `n`^2 of them. `Raw` is the point of it: behind a
`shutdownInLoop`, which is bound to a raw `this`, waits in the same queue the
`connectDestroyed` that holds the last reference. With one loop `SoleConn` says more: an
entry of `connectionList_` without a context or without a channel exists only while its
own callback is on its way to set the one or to erase the other.

*Idle connections* (`WalkInv`). A pass of `onTimer` stops at the first young entry, so what it
leaves behind must be younger: `AgesFall` says that a later entry of the list is older than
an earlier one by what the clock was set back at most, and `Youngest` that whoever is about
to enter will keep it so. The walk relies on `Passed`, that every entry before its position
was dealt with, and on `Dealt` for the entry in hand; each operation of the walk, and every
entry that leaves the list in the middle of it, keeps both.

*Codec and dialogue* (`StreamInv`, `ClientInv`). At every moment the bytes in the buffer
and on the wire can be divided into the frames of exactly the messages that are not
handed on yet (`Divided`, an existential statement; `Divides` names the division).
`FrameWritten` adds a frame at the end, `FrameTaken` takes one from the front, and moving
bytes from the wire to the buffer changes nothing. For this the header must be read
back as it was written (`EncodeIsFrame`: any radix, any `MaxLen` whose length stays
positive). A prefix of an answer that is shorter than the answer is not one: its length
disagrees with its header, also when only one byte of the header has come.

*The loop* (`LoopInv`). `Fresh` says that a functor waits that the loop has not seen, `Wakes`
that the wakeup descriptor is readable or a thread is about to call `wakeup()`: whenever
the loop may go to sleep, the first implies the second, and so does `quit`. `TaskSteps` maps
each step to `Submit` or `RunNext` of `TaskQueue`, or to none.

*Timers* (`TimerInv`). `HeapInv`: the sequence number tells apart the timers that an address
has held, which is why `Find` looks for the pair. `SetsInv`: `timers_` and `activeTimers_` are
the same objects. `BatchInv`, `TasksInv`: the expired ones, and those that a functor is
still to add, are objects that nobody else holds. `CancelInv`: what was cancelled waits no
more, or is in `cancelingTimers_` while its batch runs. `ArmedInv` is `ArmedInTime`, which is
inductive with these. No order among timers that expire together is needed.

*Pollers* (`EPollInv`, `PollInv`). The epoll set is what the channels with index `kAdded` ask for.
In the other poller, index and place are inverse to each other, `Cardinality(Indexed)` is
the length of `pollfds_`, and an ignored fd is of a channel that asks for nothing;
`Shortened` is what `pop_back` after the swap does to that. `EPollInterestSteps` and
`PollInterestSteps` map the steps to those of `Interest`.

*Connections of muduo* (`TcpInv`). What the channel asks for follows from state, buffer and
`reading_` (`ChannelRight`). `TasksRight` ties each functor that waits to the state, and says
that the functor that destroys a connection which epoll still knows is `Due`: it runs
before the loop polls again. `ReadyRight` is about what was reported and not handled
yet, `ForcedRight` about threads that force a connection down, `EndRight` about the input
that must have been delivered first. `StreamIntact` and `FinIsLast` are inductive with these,
since a message that waits as a functor, in the buffer or in the kernel is never
overtaken.

*Server and client* (`ServerInv`, `ClientInv`). Each functor in a queue of any loop says what is
true of its connection (`Right`), and waits once (`OnlyOnce`), so that the map loses each
connection once. `Turn` says how often the pool has been gone through, from which `Balanced`
follows. Of a client at most one of a timer, an attempt and a connection exists
(`Exclusive`), and `JobsRight` and `UserRight` say which jobs can still be waiting after what
the user did: after `stop()`, none that starts an attempt.

*Buffer* (`BufferInv`, which is `Holds`). The cells from `readerIndex` on are the content;
`RoomKeeps` and `WriteBehind` are the two facts behind `append`, `readFd` and `prepend`.

*The session* (`SessionInv`) ties the counters to the step the call is at
(`CountersAgree`: at "query" fewer statements ran than were tried, and before it at most
`MaxRetry`), and the settings to the handle (`SettingsAgree`: a connection that is open
outside `open()` has both). From it follow the bound in the type invariant, the settings
of every statement that runs, and the refinement: `Answered` and `AnswerLost` are `Apply` of
`Statement`, what ends the call is `Finish`, and everything else is invisible.

*Threads* (`WorkInv`, `StartInv`). `NoSleepOverWork` counts: while a worker sleeps, at least as many
others are about to take as there are tasks. Each step changes both numbers by one or
none (`OneMore`, `OneLess`; `WorkerNotified` for a notification and its choice of a sleeper),
which needs finitely many threads. `NoWaitOverRoom` is the same for producers and free
places; `Limited` adds that only a queue with a capacity makes anybody wait. For `start()`,
`MutexOK` says who is between `lock()` and `unlock()`, and `StarterWaits` that the starter does
not leave before the child has.

*RPC* (`RpcInv`). A call is in one place: in `CallMethod`, on its way there, with the server, or on
its way back (`PlacesApart`). It is in `outstandings_` before its request is sent
(`PutDown`), so no answer can be too early, and `Outcomes` says what has become of it.

*The balancer* (`BalancerInv`). A message carries an id of its own on each backend (`WayOK`), under
which exactly the call that it is about is pending; `PendingOnce` and `Over` say that a call
is pending once, or answered. For the turn (`TurnInv`): since the last backend came, each
has been given the same number of requests, and those between the place where the turn
was then and where it is now one more (`Ahead`).

Only model-checked:

* what TLAPS does not reach: liveness under fairness (`EventuallyServed`,
  `EventuallyAnswered`, `EventuallyGone`, `ExchangesEnd`, `LoopGoesThrough`, `StreamGoesOn`,
  `ThreadsGoOn`);
* of `services`: `CommandsRight`, since `Tools` works on bits with `Bitwise`; the part of
  `ExamplesRight` that is in `Monitor`, which has a `RECURSIVE` operator; and what the remaining
  parts compute of data, with folds, filters and sorts of sequences of any length: lines
  of a log, bytes of frames and requests, the solver, statistics, dates, transfers
  (`TimesRight`, `ProtocolsRight`, `ExamplesRight`). The provers know no induction over them.
* the composition of `MCServices` itself, which reaches `Monitor`: the theorems about its parts
  are stated of `ThreadsSpec`, `RpcSpec` and `BalancerSpec`.

## 5. Not modelled

* Formatting, logging, configuration syntax, the cryptography (an ideal signature).
* The order in which a pass visits its nodes: any order.
* A statement that takes effect at the server after its connection broke, later than
  the client notices; `multiInsert` and `getVariable`, which nothing calls; `mysql_init`
  without memory.
* muduo: the wrappers of sockets and addresses, `Timestamp`, `Atomic`, exceptions and stack
  traces, Zlib and Gzip streams, `PerformanceInspector` (gperftools), the favicon and HTML
  of inspectors, the bytes of zone files.
* Examples that only call what is modelled elsewhere: simple, echo, pingpong, roundtrip,
  netty, shorturl, twisted, cdns, curl, zeromq, ace logging, the thrift adapter;
  the tokens of a memcached request; the unit tests, and the benchmarks of muduo.
* What the ask commands print of an answer; scripts, block hash and masternode file of the
  tools, vdstool: output with no state.
* Build files.
* UlordChain: a submodule that is not here; what is used of it is external.

## 6. Plan

Done: the table, licensetool, ulordcenter's cache, both together, connections, codec and
client, the MySQL calls; muduo's loop, timers, pollers, connections, buffers, servers,
clients, threads, logs, dates, protocols; the commands of the tools; the examples with
state of their own. Proved: every safety and refinement property of the runs
`watcher_pair`, `timing`, `center`, `system`, `connections`, `dialogue`, `loop` and `stream`, and of
`services` `ThreadsSafe`, `RpcRight`, `BalancerRight` and `TurnsTaken`.

Next theorems, the most important first: `IdsRight` of the multiplexer and `CasNamesValue` of
the memcached server, whose tables have to be written as functions without `:>` and `@@`
for the provers; `LinesInOrder` of `AsyncLogging`, with the lines numbered and an order of
buffers instead of their concatenation; `ChatRight`, from the versions of the copied list.
