------------------------------- MODULE Sudoku --------------------------------
(***************************************************************************)
(* A Sudoku server of muduo's examples and one of its clients on one        *)
(* connection. The server solves a request in its loop ("loops"), or in a   *)
(* thread pool ("pool"), and the "prod" form also throttles the connection  *)
(* when too much of its output waits. The client keeps pipelines_ requests  *)
(* open, sends so many a tick (loadtest), or all at once (batch).           *)
(* A request is its number; a line has length 1 here and lengths below.     *)
(***************************************************************************)
EXTENDS Integers, SequencesExt, FiniteSetsExt

CONSTANTS Pipelines,          \* pipelines_, or what a tick sends
          LowMark, HighMark,  \* 5 and 10 megabytes of output
          MaxPuzzles          \* bound: requests that are sent

ASSUME MarksAreOrdered == LowMark \in Nat /\ HighMark \in Nat /\ LowMark < HighMark

VARIABLES form, tester,  \* the server's form; "pipeline" | "loadtest" | "batch"
          sent, inFlight, answered,  \* count_, sendTime_, and the answers that came
          toServer, pool,        \* requests on their way; tasks of the pool
          outBuf,                \* lines in outputBuffer_, of which some are not written
          queued, batch,         \* functors of the loop, and those of this iteration
          mark, onComplete, throttle, \* highWaterMark_; whether writeComplete is set
          open,                  \* kConnected at the server
          atClient               \* lines on their way to the client

sudokuVars == <<form, tester, sent, inFlight, answered, toServer, pool, outBuf, queued, batch,
                mark, onComplete, throttle, open, atClient>>
clientSide == <<form, tester, sent, inFlight, answered>>
pressure == <<mark, onComplete, throttle>>

Answer(n, kind) == [of |-> n, kind |-> kind]

\* sendInLoop: with nothing in the buffer the socket takes the line, or it does not; the
\* callbacks are put in the queue of the loop.
SendInLoop(line, q) ==
    \/ /\ open /\ outBuf = <<>> /\ atClient' = Append(atClient, line) /\ UNCHANGED outBuf
       /\ queued' = IF onComplete THEN Append(q, [do |-> "complete"]) ELSE q
    \/ /\ open /\ outBuf' = Append(outBuf, line) /\ UNCHANGED atClient
       /\ queued' = IF Len(outBuf') >= mark /\ Len(outBuf) < mark
                      THEN Append(q, [do |-> "mark", tosend |-> Len(outBuf')]) ELSE q
    \/ ~open /\ queued' = q /\ UNCHANGED <<outBuf, atClient>>

(***************************************************************************)
(* The client.                                                              *)
(***************************************************************************)
SendRequests(n) ==
    /\ sent' = sent + n
    /\ toServer' = toServer \o [i \in 1 .. n |-> sent + i]
    /\ inFlight' = inFlight \cup (sent + 1 .. sent + n)

\* onConnection (pipeline, batch) or tick (loadtest).
Tick ==
    LET n == IF tester = "batch" THEN MaxPuzzles ELSE Pipelines
    IN /\ (tester = "loadtest" \/ sent = 0) /\ sent + n <= MaxPuzzles /\ open
       /\ SendRequests(n)
       /\ UNCHANGED <<form, tester, answered, pool, outBuf, queued, batch, pressure, open, atClient>>

\* onMessage and verify, of one answer; the pipeline sends one more for any line.
OnAnswer ==
    LET line == Head(atClient)
        another == tester = "pipeline" /\ sent < MaxPuzzles
    IN /\ atClient # <<>> /\ atClient' = Tail(atClient)
       /\ answered' = Append(answered, line)
       /\ sent' = IF another THEN sent + 1 ELSE sent
       /\ toServer' = IF another /\ open THEN Append(toServer, sent') ELSE toServer
       /\ inFlight' = (inFlight \ {line.of}) \cup IF another THEN {sent'} ELSE {}
       /\ UNCHANGED <<form, tester, pool, outBuf, queued, batch, pressure, open>>

(***************************************************************************)
(* The server.                                                              *)
(***************************************************************************)
\* onMessage and processRequest, of one request: it is solved at once, given to the
\* pool, or, with the connection throttled, answered by "ServerTooBusy".
Requested == batch = <<>> /\ toServer # <<>> /\ toServer' = Tail(toServer)

SolveInLoop ==
    /\ form = "loops" /\ Requested /\ SendInLoop(Answer(Head(toServer), "solved"), queued)
    /\ UNCHANGED <<clientSide, pool, batch, pressure, open>>

TooBusy ==
    /\ form = "prod" /\ throttle /\ Requested
    /\ SendInLoop(Answer(Head(toServer), "busy"), queued)
    /\ UNCHANGED <<clientSide, pool, batch, pressure, open>>

GiveToPool ==
    /\ form = "pool" \/ (form = "prod" /\ ~throttle)
    /\ Requested /\ pool' = pool \cup {Head(toServer)}
    /\ UNCHANGED <<clientSide, outBuf, queued, batch, pressure, open, atClient>>

\* solve() in a thread of the pool: send() from there queues a functor.
PoolSolves(n) ==
    /\ n \in pool /\ pool' = pool \ {n}
    /\ queued' = Append(queued, [do |-> "send", of |-> n])
    /\ UNCHANGED <<clientSide, toServer, outBuf, batch, pressure, open, atClient>>

\* handleWrite: the socket takes some or all of the output.
HandleWrite ==
    /\ batch = <<>> /\ outBuf # <<>>
    /\ \E k \in 1 .. Len(outBuf) :
          /\ outBuf' = SubSeq(outBuf, k + 1, Len(outBuf))
          /\ atClient' = atClient \o SubSeq(outBuf, 1, k)
          /\ queued' = IF k = Len(outBuf) /\ onComplete THEN Append(queued, [do |-> "complete"])
                       ELSE queued
    /\ UNCHANGED <<clientSide, toServer, pool, batch, pressure, open>>

TakeBatch == /\ batch = <<>> /\ queued # <<>> /\ batch' = queued /\ queued' = <<>>
             /\ UNCHANGED <<clientSide, toServer, pool, outBuf, pressure, open, atClient>>

\* highWaterMark: the first time the connection is throttled, then it is shut down.
\* Code that sets no callback for the time when the output is written.
SetsNoCallback == onComplete
SetsCallback == TRUE

HighWaterMark(tosend) ==
    IF tosend < HighMark
      THEN /\ mark' = HighMark /\ onComplete' = SetsCallback /\ throttle' = TRUE
           /\ UNCHANGED <<outBuf, queued, open, atClient>>
      ELSE /\ SendInLoop(Answer(0, "bad"), queued) /\ open' = FALSE /\ UNCHANGED pressure

WriteComplete == /\ mark' = LowMark /\ onComplete' = FALSE /\ throttle' = FALSE
                 /\ UNCHANGED <<outBuf, queued, open, atClient>>

RunFunctor ==
    LET f == Head(batch)
    IN /\ batch # <<>> /\ batch' = Tail(batch)
       /\ CASE f.do = "send" -> SendInLoop(Answer(f.of, "solved"), queued) /\ UNCHANGED <<pressure, open>>
            [] f.do = "mark" -> HighWaterMark(f.tosend)
            [] OTHER -> WriteComplete
       /\ UNCHANGED <<clientSide, toServer, pool>>

SudokuInit ==
    /\ form \in {"prod", "pool", "loops"} /\ tester \in {"pipeline", "loadtest", "batch"}
    /\ sent = 0 /\ inFlight = {} /\ answered = <<>> /\ toServer = <<>> /\ pool = {}
    /\ outBuf = <<>> /\ queued = <<>> /\ batch = <<>>
    /\ mark = (IF form = "prod" THEN LowMark ELSE MaxPuzzles + 1)
    /\ onComplete = FALSE /\ throttle = FALSE /\ open = TRUE /\ atClient = <<>>

SudokuLoop == SolveInLoop \/ TooBusy \/ GiveToPool \/ HandleWrite \/ TakeBatch \/ RunFunctor
SudokuNext == Tick \/ OnAnswer \/ SudokuLoop \/ \E n \in 1 .. MaxPuzzles : PoolSolves(n)

-----------------------------------------------------------------------------
Sends(q) == SelectSeq(q, LAMBDA f : f.do = "send")
Lines == SelectSeq(atClient \o outBuf, LAMBDA l : l.kind # "bad")
Everywhere == ToSet(toServer) \cup pool \cup {f.of : f \in ToSet(Sends(queued \o batch))}
              \cup {l.of : l \in ToSet(Lines)}

\* While the connection is open every request that has no answer is somewhere on its
\* way, and once; each is answered once, whatever order the pool takes. A connection
\* that is throttled has its way back set, and the loop answers in order.
SudokuRight ==
    /\ open => inFlight = Everywhere
    /\ Len(toServer) + Cardinality(pool) + Len(Sends(queued \o batch)) + Len(Lines)
          <= Cardinality(inFlight)
    /\ \A i, j \in DOMAIN answered : i # j /\ answered[i].kind # "bad" => answered[i].of # answered[j].of
    /\ throttle => onComplete /\ mark = HighMark
    /\ form = "loops" => \A i \in DOMAIN answered : answered[i].of = i
    /\ tester = "pipeline" /\ open => Cardinality(inFlight) <= Pipelines

\* A throttled connection is one again when its output is written and one more request
\* came, however the queue of the loop had delayed the callback (server_prod.cc:88).
ThrottleEnds == [asked |-> throttle /\ toServer # <<>>, kept |-> ~throttle \/ ~open]

-----------------------------------------------------------------------------
(***************************************************************************)
(* What the production Sudoku server counts of its answers (stat.h): totals, *)
(* and for each of the last kSeconds seconds how many were answered and how  *)
(* long they took. The clock may be set while it counts. The clients work    *)
(* out the percentiles of the same times (percentile.h).                     *)
(***************************************************************************)
CONSTANTS kSeconds,       \* seconds that are kept
          LastStatSecond, \* bound: the clock shows 1 .. LastStatSecond
          MaxResponses    \* bound: answers that are recorded

ASSUME StatIsBounded == kSeconds \in Nat \ {0}

VARIABLES lastSecond, perSecond, latencyOf, \* lastSecond_, requests_, latencies_
          total,      \* totalResponses_, totalSolved_, totalLatency_, badLatency_
          recorded,   \* the answers since the last reset(), with second and time
          resets

statVars == <<lastSecond, perSecond, latencyOf, total, recorded, resets>>

Times == {-1, 2, 7}   \* microseconds; the clock went back during the first
NoTotal == [responses |-> 0, solved |-> 0, latency |-> 0, bad |-> 0]

StatInit == /\ lastSecond = 0 /\ perSecond = <<>> /\ latencyOf = <<>> /\ total = NoTotal
            /\ recorded = <<>> /\ resets = 0

\* boost::circular_buffer: when it is full, the first element goes.
PushBackTo(s, x) == IF Len(s) = kSeconds THEN Append(Tail(s), x) ELSE Append(s, x)

\* Code that adds one second however far the clock went.
PadsOnce(s, n) == PushBackTo(s, 0)
Pads(s, n) == FoldLeft(LAMBDA t, i : PushBackTo(t, 0), s, [i \in 1 .. n |-> i])

AddAt(s, i, x) == [s EXCEPT ![i] = @ + x]

\* Code that keeps the window when the clock jumped past it.
KeepsWindow(s) == PushBackTo(s, 0)
StartsWindow(s) == <<0>>

\* Where the seconds of the window are put for an answer of `second`, and its place.
Moved(s, second) ==
    IF second = lastSecond THEN s
    ELSE IF lastSecond + 1 = second \/ lastSecond = 0 THEN PushBackTo(s, 0)
    ELSE IF second > lastSecond
           THEN IF second < lastSecond + kSeconds THEN Pads(s, second - lastSecond)
                ELSE StartsWindow(s)
    ELSE s

RecordResponse(second, elapsed, solved) ==
    LET firstSecond == lastSecond - Len(perSecond) + 1
        window == Moved(perSecond, second)
        at == IF second >= lastSecond THEN Len(window) ELSE second - firstSecond + 1
        counted == second >= firstSecond
    IN /\ Len(recorded) < MaxResponses
       /\ recorded' = Append(recorded, [second |-> second, elapsed |-> elapsed])
       /\ total' = [responses |-> total.responses + 1,
                    solved |-> total.solved + (IF solved THEN 1 ELSE 0),
                    latency |-> total.latency + (IF elapsed < 0 THEN 0 ELSE elapsed),
                    bad |-> total.bad + (IF elapsed < 0 THEN 1 ELSE 0)]
       /\ IF elapsed < 0 \/ ~counted THEN UNCHANGED <<lastSecond, perSecond, latencyOf>>
          ELSE /\ perSecond' = AddAt(window, at, 1)
               /\ latencyOf' = AddAt(Moved(latencyOf, second), at, elapsed)
               /\ lastSecond' = IF second > lastSecond THEN second ELSE lastSecond
       /\ UNCHANGED resets

\* droppedRequests_ is not set to 0.
Reset == /\ resets = 0 /\ resets' = 1
         /\ lastSecond' = 0 /\ perSecond' = <<>> /\ latencyOf' = <<>> /\ total' = NoTotal
         /\ recorded' = <<>>

StatNext == \/ \E second \in 1 .. LastStatSecond, t \in Times : RecordResponse(second, t, t = 2)
            \/ Reset

(***************************************************************************)
(* percentile.h, of the times in order.                                     *)
(***************************************************************************)
Timed == SortSeq(SelectSeq([i \in DOMAIN recorded |-> recorded[i].elapsed], LAMBDA t : t >= 0),
                 LAMBDA a, b : a < b)

\* Code that rounds the rank down.
RankBelow(s, percent) == s[IF percent > 0 THEN ((Len(s) * percent) \div 100) + 1 ELSE 1]
GetPercentile(s, percent) == s[IF percent > 0 THEN (Len(s) * percent + 99) \div 100 ELSE 1]

kInterval == 5

\* save: buckets of five microseconds, each with its count and the sum up to it.
Histogram(s) ==
    LET Low(t) == (t \div kInterval) * kInterval
        Take(h, t) == IF t < h.low + kInterval THEN [h EXCEPT !.count = @ + 1]
                      ELSE [low |-> Low(t), count |-> 1,
                            rows |-> Append(h.rows, <<h.low, h.count, h.sum + h.count>>),
                            sum |-> h.sum + h.count]
        h == FoldLeft(Take, [low |-> Low(s[1]), count |-> 0, rows |-> <<>>, sum |-> 0], s)
    IN Append(h.rows, <<h.low, h.count, h.sum + h.count>>)

-----------------------------------------------------------------------------
GoodOf(second) == {i \in DOMAIN recorded : recorded[i].second = second /\ recorded[i].elapsed >= 0}
TimeOf(I) == FoldLeft(LAMBDA t, i : t + recorded[i].elapsed, 0, SetToSeq(I))

\* Every second of the window shows exactly the answers of that second, and their time,
\* however the clock was set; the last one is lastSecond_ (comments at stat.h:167-170).
WindowRight ==
    /\ Len(perSecond) = Len(latencyOf) /\ Len(perSecond) <= kSeconds
    /\ lastSecond > 0 => perSecond # <<>>
    /\ \A i \in DOMAIN perSecond :
          LET of == GoodOf(lastSecond - Len(perSecond) + i)
          IN perSecond[i] = Cardinality(of) /\ latencyOf[i] = TimeOf(of)
    /\ total.responses = Len(recorded) /\ total.solved <= total.responses
    /\ total.latency = TimeOf({i \in DOMAIN recorded : recorded[i].elapsed >= 0})

\* The percentile is the first time that so many percent do not exceed, and the rows of
\* the histogram count every time once, in the bucket that holds it.
PercentilesRight ==
    LET s == Timed  rows == Histogram(s)
        Upto(t) == Cardinality({i \in DOMAIN s : s[i] <= t})
        Below(t) == Cardinality({i \in DOMAIN s : s[i] < t})
    IN s # <<>> =>
         /\ \A p \in {0, 50, 90, 99} : LET t == GetPercentile(s, p) IN
               /\ 100 * Upto(t) >= p * Len(s)
               /\ p > 0 => 100 * Below(t) < p * Len(s)
         /\ rows[Len(rows)][3] = Len(s)
         /\ \A r \in ToSet(rows) :
               r[2] = Cardinality({i \in DOMAIN s : s[i] \in r[1] .. r[1] + kInterval - 1})

StatRight == WindowRight /\ PercentilesRight

-----------------------------------------------------------------------------
(***************************************************************************)
(* The dancing links solver of muduo's Sudoku examples, one call of solve() *)
(* or one of its returns at a time. Node 0 is the root, then come the       *)
(* columns, then four nodes for each value that a cell may take. A board of *)
(* the model has Order * Order rows; the code's has nine.                   *)
(***************************************************************************)
CONSTANTS Order,     \* 3 of the code
          Puzzles    \* boards to solve: cell -> value, 0 for none

ASSUME OrderIsPositive == Order \in Nat \ {0}

VARIABLES puzzle,
          links,     \* the nodes: [left, right, up, down, size, name, col]
          calls,    \* the calls of solve() that have not returned: [col, row]
          solverAt   \* "solve" | "row" | "undo" | "solved" | "unsolved"

solverVars == <<puzzle, links, calls, solverAt>>

Side == Order * Order
Cell == 0 .. Side * Side - 1
RowOf(i) == i \div Side
ColOf(i) == i % Side

\* Code that numbers the boxes without the factor.
BoxesMixed(i) == RowOf(i) \div Order + ColOf(i) \div Order
BoxOf(i) == (RowOf(i) \div Order) * Order + ColOf(i) \div Order

\* What has a value already: rows, cols and boxes of the constructor.
Taken(b, kind, place, v) ==
    \E i \in Cell : b[i] = v /\ place = (CASE kind = "row" -> RowOf(i)
                                           [] kind = "col" -> ColOf(i) [] OTHER -> BoxOf(i))

\* The columns, in the order of append_column, and the rows.
ColumnsOf(b) ==
    LET cells == SelectSeq([i \in 1 .. Side * Side |-> <<"cell", i - 1, 0>>], LAMBDA c : b[c[2]] = 0)
        of(i, v) == SelectSeq(<<<<"row", i, v>>, <<"col", i, v>>, <<"box", i, v>>>>,
                              LAMBDA c : ~Taken(b, c[1], i, v))
    IN cells \o FlattenSeq([k \in 1 .. Side * Side |-> of((k - 1) \div Side, ((k - 1) % Side) + 1)])

RowsOf(b) ==
    LET may(i, v) == b[i] = 0 /\ ~Taken(b, "row", RowOf(i), v) /\ ~Taken(b, "col", ColOf(i), v)
                              /\ ~Taken(b, "box", BoxOf(i), v)
        all == [k \in 1 .. Side * Side * Side |-> <<(k - 1) \div Side, ((k - 1) % Side) + 1>>]
    IN SelectSeq(all, LAMBDA p : may(p[1], p[2]))

\* The constructor: columns around the root, each row around itself (new_row and
\* put_left), its nodes at the end of their columns (put_up).
NewNet(b) ==
    LET cs == ColumnsOf(b)
        rs == RowsOf(b)
        nc == Len(cs)
        names == cs \o FlattenSeq([k \in DOMAIN rs |->
                    LET i == rs[k][1]  v == rs[k][2]
                    IN <<<<"cell", i, 0>>, <<"row", RowOf(i), v>>, <<"col", ColOf(i), v>>,
                         <<"box", BoxOf(i), v>>>>])
        Node == 0 .. Len(names)
        head(n) == IF n <= nc THEN n ELSE CHOOSE c \in 1 .. nc : cs[c] = names[n]
        below(c) == {m \in Node : m > nc /\ names[m] = cs[c]}
        line(n) == nc + 1 + 4 * ((n - nc - 1) \div 4)
        right(n) == IF n <= nc THEN (n + 1) % (nc + 1) ELSE line(n) + ((n - line(n) + 1) % 4)
        left(n) == IF n <= nc THEN (n + nc) % (nc + 1) ELSE line(n) + ((n - line(n) + 3) % 4)
        down(n) == IF n = 0 THEN 0
                   ELSE LET after == {m \in below(head(n)) : m > n}
                        IN IF after = {} THEN head(n) ELSE Min(after)
        up(n) == IF n = 0 THEN 0
                 ELSE IF n <= nc THEN Max(below(n) \cup {n} )
                 ELSE Max({m \in below(head(n)) : m < n} \cup {head(n)})
    IN [left |-> [n \in Node |-> left(n)], right |-> [n \in Node |-> right(n)],
        up |-> [n \in Node |-> up(n)], down |-> [n \in Node |-> down(n)],
        size |-> [n \in 1 .. nc |-> Cardinality(below(n))],
        name |-> [n \in Node |-> IF n = 0 THEN <<"root", 0, 0>> ELSE names[n]],
        col |-> [n \in Node |-> IF n = 0 THEN 0 ELSE head(n)]]

\* The nodes met on the way from n back to n.
Around(next, n) == LET on[m \in DOMAIN next] == IF m = n THEN <<>> ELSE <<m>> \o on[next[m]]
                   IN on[next[n]]

\* cover() and uncover() of a column, which meet the nodes in opposite orders.
\* Code that does not count what it shows again.
ShowUncounted(s, j) == [s EXCEPT !.up[s.down[j]] = j, !.down[s.up[j]] = j]
Hide(s, j) == [s EXCEPT !.up[s.down[j]] = s.up[j], !.down[s.up[j]] = s.down[j],
                        !.size[s.col[j]] = @ - 1]
Show(s, j) == [s EXCEPT !.up[s.down[j]] = j, !.down[s.up[j]] = j, !.size[s.col[j]] = @ + 1]

NodesToHide(s, c) == LET rows == Around(s.down, c)
                     IN FlattenSeq([i \in DOMAIN rows |-> Around(s.right, rows[i])])
NodesToShow(s, c) == LET rows == Around(s.up, c)
                     IN FlattenSeq([i \in DOMAIN rows |-> Around(s.left, rows[i])])

Cover(s, c) ==
    FoldLeft(Hide, [s EXCEPT !.left[s.right[c]] = s.left[c], !.right[s.left[c]] = s.right[c]],
             NodesToHide(s, c))
Uncover(s, c) ==
    LET shown == FoldLeft(Show, s, NodesToShow(s, c))
    IN [shown EXCEPT !.left[s.right[c]] = c, !.right[s.left[c]] = c]

\* get_min_column: the first of the smallest, or the first of size 1 or less.
GetMinColumn(s) ==
    LET cs == Around(s.right, 0)
        small == {i \in DOMAIN cs : s.size[cs[i]] <= 1}
        least == {i \in DOMAIN cs : \A j \in DOMAIN cs : s.size[cs[i]] <= s.size[cs[j]]}
    IN cs[Min(IF small # {} THEN small ELSE least)]

Top == calls[Len(calls)]

\* A call of solve().
Solve ==
    /\ solverAt = "solve"
    /\ IF links.right[0] = 0
         THEN solverAt' = "solved" /\ UNCHANGED <<links, calls>>
         ELSE LET c == GetMinColumn(links)
              IN /\ links' = Cover(links, c) /\ calls' = Append(calls, [col |-> c, row |-> c])
                 /\ solverAt' = "row"
    /\ UNCHANGED puzzle

\* The next row of the column, or the return without a solution.
NextRow ==
    LET row == links.down[Top.row]
    IN /\ solverAt = "row"
       /\ IF row = Top.col
            THEN /\ links' = Uncover(links, Top.col) /\ calls' = Front(calls)
                 /\ solverAt' = IF Len(calls) = 1 THEN "unsolved" ELSE "undo"
            ELSE /\ links' = FoldLeft(LAMBDA s, j : Cover(s, s.col[j]), links, Around(links.right, row))
                 /\ calls' = [calls EXCEPT ![Len(calls)].row = row] /\ solverAt' = "solve"
       /\ UNCHANGED puzzle

\* The row was wrong: its columns are uncovered, the last one first.
Undo == /\ solverAt = "undo" /\ solverAt' = "row"
        /\ links' = FoldLeft(LAMBDA s, j : Uncover(s, s.col[j]), links, Around(links.left, Top.row))
        /\ UNCHANGED <<puzzle, calls>>

\* What solveSudoku returns: the board with the rows of the stack filled in.
RowNodes(f) == ToSet(<<f.row>> \o Around(links.right, f.row))
Says(f) == LET names == {links.name[n] : n \in RowNodes(f)}
               cell == CHOOSE c \in names : c[1] = "cell"
               value == CHOOSE c \in names : c[1] # "cell"
           IN [cell |-> cell[2], value |-> value[3]]
Solution == FoldLeft(LAMBDA b, f : [b EXCEPT ![Says(f).cell] = Says(f).value], puzzle, calls)

SolverInit == /\ puzzle \in Puzzles /\ links = NewNet(puzzle) /\ calls = <<>> /\ solverAt = "solve"

SolverNext == Solve \/ NextRow \/ Undo

-----------------------------------------------------------------------------
Groups == {{i \in Cell : RowOf(i) = k} : k \in 0 .. Side - 1}
          \cup {{i \in Cell : ColOf(i) = k} : k \in 0 .. Side - 1}
          \cup {{r * Side + c : r \in a * Order .. a * Order + Order - 1,
                               c \in e * Order .. e * Order + Order - 1} : a, e \in 0 .. Order - 1}
Legal(b) == \A g \in Groups : {b[i] : i \in g} = 1 .. Side
Extends(b, a) == \A i \in Cell : a[i] # 0 => b[i] = a[i]
Blanks(b) == {i \in Cell : b[i] = 0}
Filled(b, f) == [i \in Cell |-> IF b[i] = 0 THEN f[i] ELSE b[i]]

\* What the solver finds is a solution of the puzzle. When it finds none there is none,
\* also of a board whose givens contradict one another, and every link and size is as
\* it was before the search (sudoku.cc:127, 231). (Boards with many blanks are not
\* searched for a solution here.)
SolverRight ==
    /\ solverAt = "solved" => Legal(Solution) /\ Extends(Solution, puzzle)
    /\ solverAt = "unsolved" =>
          /\ links = NewNet(puzzle)
          /\ Cardinality(Blanks(puzzle)) <= 4 =>
                ~\E f \in [Blanks(puzzle) -> 1 .. Side] : Legal(Filled(puzzle, f))
-----------------------------------------------------------------------------
(***************************************************************************)
(* The three clients again, with what the model above leaves out: several    *)
(* connections, which may go down, answers of any length that come in any    *)
(* pieces, the clocks of the load test and of its reports, and the end of    *)
(* the batch. A server, which is outside, answers in any order. Answers are  *)
(* measured in units, of which the last is the end of the line.              *)
(***************************************************************************)
CONSTANTS TestClient,   \* the connections, of which the user asks for so many
          InputLines,   \* the lengths of the lines of the file
          kCells,       \* of a line that is a puzzle
          MinAnswer, MaxAnswer, \* kCells + 2 and 100, in units
          AnswerSizes,  \* what an answer may measure; 1 is NoSolution or ServerTooBusy
          rps, kHz,     \* requests and ticks a second
          MaxTicks, MaxAsked    \* bounds: ticks; requests of a client that are answered

ASSUME TestersAssumption == kHz \in Nat \ {0} /\ rps \in Nat /\ AnswerSizes \subseteq Nat \ {0}

VARIABLES program,    \* "batch" | "pipeline" | "loadtest"
          clientConn, \* of a client "new" | "up" | "closing" (shutdown() called) | "down"
          counted,    \* count_: of the batch the answers, of the others the requests
          unanswered, \* the keys of sendTime_
          latencies,  \* how many are in latencies_
          atServer, onWire, inBuffer, \* requests; answers on their way and in the buffer
          ticked, sofar,  \* ticks_, sofar_
          reports,    \* history: latencies in the reports of each client
          g_finished, quitTimer, testEnds \* the batch: runAfter(1.0, quit); and the loop has ended

testVars == <<program, clientConn, counted, unanswered, latencies, atServer, onWire, inBuffer,
              ticked, sofar, reports, g_finished, quitTimer, testEnds>>
testClocks == <<ticked, sofar, reports, g_finished, quitTimer, testEnds>>

\* readInput, and runLocal, for which every solution is verified.
ReadInput(lines) == SelectSeq(lines, LAMBDA size : size = kCells)
RunLocal(lines) ==
    LET One(acc, size) == IF size = kCells
                            THEN [count |-> acc.count + 1, succeed |-> acc.succeed + 1] ELSE acc
    IN  FoldLeft(One, [count |-> 0, succeed |-> 0], lines)
InputSize == Len(ReadInput(InputLines))

\* send(n) of the pipeline for a client with these requests open; a connection that is
\* being shut down drops them.
TesterSends(c, n, open_, up) ==
    LET asked == counted[c] + 1 .. counted[c] + n
    IN  /\ counted' = [counted EXCEPT ![c] = @ + n]
        /\ unanswered' = [unanswered EXCEPT ![c] = open_ \cup asked]
        /\ atServer' = [atServer EXCEPT ![c] = IF up THEN @ \cup asked ELSE @]

\* onConnection of the batch (all of the input), of the pipeline, and of the load test.
BatchConnected(c) ==
    /\ program = "batch"
    /\ atServer' = [atServer EXCEPT ![c] = 1 .. InputSize] /\ UNCHANGED <<counted, unanswered>>
PipelineConnected(c) == program = "pipeline" /\ TesterSends(c, Pipelines, {}, TRUE)
LoadtestConnected(c) == program = "loadtest" /\ UNCHANGED <<counted, unanswered, atServer>>

TesterConnected(c) ==
    /\ ~testEnds /\ clientConn[c] = "new" /\ clientConn' = [clientConn EXCEPT ![c] = "up"]
    /\ BatchConnected(c) \/ PipelineConnected(c) \/ LoadtestConnected(c)
    /\ UNCHANGED <<program, latencies, onWire, inBuffer, testClocks>>

\* The server closes, after a shutdown() or on its own; the client does not connect again.
TesterLost(c) ==
    /\ ~testEnds /\ clientConn[c] \in {"up", "closing"}
    /\ clientConn' = [clientConn EXCEPT ![c] = "down"]
    /\ atServer' = [atServer EXCEPT ![c] = {}] /\ onWire' = [onWire EXCEPT ![c] = <<>>]
    /\ UNCHANGED <<program, counted, unanswered, latencies, inBuffer, testClocks>>

ServerAnswers(c, size) ==
    /\ ~testEnds
    /\ \E id \in atServer[c] \cap (1 .. MaxAsked) :
          /\ atServer' = [atServer EXCEPT ![c] = @ \ {id}]
          /\ onWire' = [onWire EXCEPT ![c] = @ \o [i \in 1 .. size |-> [of |-> id, ends |-> i = size]]]
    /\ UNCHANGED <<program, clientConn, counted, unanswered, latencies, inBuffer, testClocks>>

\* The loop of onMessage: a line is taken if there is enough in the buffer, be it of the
\* lines behind; and a line without an end that is too long shuts the connection down.
LineEnds(buf) == {i \in DOMAIN buf : buf[i].ends}
TakenLines(buf) ==
    {i \in LineEnds(buf) : Len(buf) - Max({0} \cup {j \in LineEnds(buf) : j < i}) >= MinAnswer}
TooLong(rest) == Len(rest) >= MinAnswer /\ Len(rest) > MaxAnswer

\* Code that counts the requests of a tick for itself, and the code of tick.
RequestsPerTick(n) == rps \div kHz
RequestsNow(n) == (rps * n) \div kHz - sofar

\* verify, of lines with these numbers: their times are known.
Verify(c, ids) == latencies' = [latencies EXCEPT ![c] = @ + Cardinality(ids \cap unanswered[c])]

\* Batch: the answers are counted, and done() when they are all there.
BatchCounts(c, n) ==
    LET now == counted[c] + n
    IN  /\ counted' = [counted EXCEPT ![c] = now] /\ UNCHANGED <<unanswered, latencies, atServer>>
        /\ g_finished' = IF now = InputSize THEN g_finished + 1 ELSE g_finished
        /\ quitTimer' = (quitTimer \/ (now = InputSize /\ g_finished' = Cardinality(TestClient)))
PipelineSends(c, ids) ==
    /\ Verify(c, ids)
    /\ TesterSends(c, Cardinality(ids), unanswered[c] \ ids, clientConn[c] = "up")
LoadtestNotes(c, ids) ==
    /\ Verify(c, ids) /\ unanswered' = [unanswered EXCEPT ![c] = @ \ ids]
    /\ UNCHANGED <<counted, atServer>>

TesterReads(c) ==
    /\ ~testEnds /\ clientConn[c] \in {"up", "closing"}
    /\ \E n \in 1 .. Len(onWire[c]) :
          LET buf == inBuffer[c] \o SubSeq(onWire[c], 1, n)
              lines == TakenLines(buf)
              rest == SubSeq(buf, Max({0} \cup lines) + 1, Len(buf))
              ids == {buf[i].of : i \in lines}
              done == program = "batch" /\ counted[c] + Cardinality(lines) = InputSize
          IN  /\ onWire' = [onWire EXCEPT ![c] = SubSeq(@, n + 1, Len(@))]
              /\ inBuffer' = [inBuffer EXCEPT ![c] = rest]
              /\ clientConn' = [clientConn EXCEPT ![c] = IF TooLong(rest) \/ done THEN "closing" ELSE @]
              /\ \/ program = "batch" /\ BatchCounts(c, Cardinality(lines))
                 \/ program = "pipeline" /\ PipelineSends(c, ids) /\ UNCHANGED <<g_finished, quitTimer>>
                 \/ program = "loadtest" /\ LoadtestNotes(c, ids) /\ UNCHANGED <<g_finished, quitTimer>>
    /\ UNCHANGED <<program, ticked, sofar, reports, testEnds>>

\* tick: the clients that are not connected pass over it.
LoadtestTick ==
    LET reqs == RequestsNow(ticked + 1)
        asks == IF reqs > 0 THEN {c \in TestClient : clientConn[c] \in {"up", "closing"}} ELSE {}
        asked(c) == IF c \in asks THEN counted[c] + 1 .. counted[c] + reqs ELSE {}
    IN  /\ program = "loadtest" /\ ticked < MaxTicks
        /\ ticked' = ticked + 1 /\ sofar' = sofar + reqs
        /\ counted' = [c \in TestClient |-> counted[c] + Cardinality(asked(c))]
        /\ unanswered' = [c \in TestClient |-> unanswered[c] \cup asked(c)]
        /\ atServer' = [c \in TestClient |-> IF clientConn[c] = "up" THEN atServer[c] \cup asked(c)
                                             ELSE atServer[c]]
        /\ UNCHANGED <<program, clientConn, latencies, onWire, inBuffer, reports, g_finished,
                       quitTimer, testEnds>>

\* report() of a client.
Reported(c) == reports[c] + latencies[c]

\* tock, and report() of the pipeline.
TesterReport ==
    /\ program # "batch"
    /\ reports' = [c \in TestClient |-> Reported(c)]
    /\ latencies' = [c \in TestClient |-> 0]
    /\ UNCHANGED <<program, clientConn, counted, unanswered, atServer, onWire, inBuffer, ticked, sofar,
                   g_finished, quitTimer, testEnds>>

BatchQuits == /\ quitTimer /\ ~testEnds /\ testEnds' = TRUE
              /\ UNCHANGED <<program, clientConn, counted, unanswered, latencies, atServer, onWire,
                             inBuffer, ticked, sofar, reports, g_finished, quitTimer>>

\* runClient of the batch, and of the others.
BatchInit == g_finished = 0 /\ quitTimer = FALSE /\ testEnds = FALSE

TestersInit ==
    /\ program \in {"batch", "pipeline", "loadtest"}
    /\ clientConn = [c \in TestClient |-> "new"] /\ counted = [c \in TestClient |-> 0]
    /\ unanswered = [c \in TestClient |-> {}] /\ latencies = [c \in TestClient |-> 0]
    /\ atServer = [c \in TestClient |-> {}] /\ onWire = [c \in TestClient |-> <<>>]
    /\ inBuffer = [c \in TestClient |-> <<>>] /\ ticked = 0 /\ sofar = 0
    /\ reports = [c \in TestClient |-> 0]
    /\ BatchInit

TestersNext ==
    \/ LoadtestTick \/ TesterReport \/ BatchQuits
    \/ \E c \in TestClient : \/ TesterConnected(c) \/ TesterLost(c) \/ TesterReads(c)
                             \/ \E size \in AnswerSizes : ServerAnswers(c, size)

-----------------------------------------------------------------------------
LinesIn(units) == {units[i].of : i \in LineEnds(units)}
Coming(c) == atServer[c] \cup LinesIn(inBuffer[c] \o onWire[c])

\* However answers come in pieces and clients are cut off: a batch ends only when every
\* client has all its answers, each told once. What stays in a buffer is less than the
\* shortest solution, so a client whose last answers are short waits for ever. A load test
\* has asked at each tick what the rate says, with no rounding piling up; each request is
\* in one report or still open, also that of a connection that is down; and a pipeline
\* that is up keeps its number of requests open.
TestersRight ==
    /\ RunLocal(InputLines) = [count |-> InputSize, succeed |-> InputSize]
    /\ g_finished = Cardinality({c \in TestClient : program = "batch" /\ counted[c] = InputSize})
    /\ quitTimer => \A c \in TestClient : counted[c] = InputSize
    /\ sofar = (rps * ticked) \div kHz
    /\ \A c \in TestClient :
          /\ clientConn[c] = "up" => Len(inBuffer[c]) <= MaxAnswer
                                     /\ (LineEnds(inBuffer[c]) # {} => Len(inBuffer[c]) < MinAnswer)
          /\ program = "batch" /\ clientConn[c] \in {"up", "closing"} =>
                counted[c] + Cardinality(Coming(c)) = InputSize
          /\ program # "batch" => counted[c] = Cardinality(unanswered[c]) + latencies[c] + reports[c]
          /\ program # "batch" /\ clientConn[c] = "up" => unanswered[c] = Coming(c)
          /\ program = "pipeline" /\ clientConn[c] = "up" => Cardinality(unanswered[c]) = Pipelines
          /\ program = "loadtest" => counted[c] <= sofar
=============================================================================
