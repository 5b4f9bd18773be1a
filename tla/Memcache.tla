------------------------------- MODULE Memcache -------------------------------
(***************************************************************************)
(* The memcached server of muduo's examples: sessions in several threads    *)
(* read request lines and the values that follow some of them, and store    *)
(* items under the mutex of a shard. A session reads one thing at a time: a *)
(* line, a byte of a value, or the two bytes that should end it, whatever   *)
(* the client sends; a shard of one key is the table. A value is the        *)
(* numbers of the requests that wrote it.                                   *)
(***************************************************************************)
EXTENDS Integers, SequencesExt

CONSTANTS MemSession,
          MaxRequests   \* bound: requests of all sessions

VARIABLES session,   \* of each session [at, request, got, due]: state_ and what it has of
                     \* the current request; replies that are still to be sent
          item,      \* the table: <<>>, or <<[value, cas]>>
          g_cas,
          asked,     \* requests so far
          seen,     \* [cas, value] of the items there ever were
          memQuits   \* stop() was called: the loop quits in three seconds

memVars == <<session, item, g_cas, asked, seen, memQuits>>

Updates == {"set", "add", "replace", "append", "prepend", "cas"}

\* Request lines. size: "fits" has a value of one byte, "huge" is over a megabyte, "bad"
\* cannot be read. cas is the number a client names.
MemLine ==
    [command : Updates \ {"cas"}, size : {"fits"}, noreply : BOOLEAN, cas : {0}]
    \cup [command : {"cas"}, size : {"fits"}, noreply : {FALSE}, cas : 0 .. g_cas]
    \cup [command : {"set", "get", "delete"}, size : {"huge", "bad"}, noreply : BOOLEAN, cas : {0}]
    \cup [command : {"get", "delete"}, size : {"fits"}, noreply : BOOLEAN, cas : {0}]
    \cup [command : {"quit", "shutdown", "other"}, size : {"fits"}, noreply : {FALSE}, cas : {0}]

NoRequestYet == [command |-> "", size |-> "", noreply |-> FALSE, cas |-> 0, number |-> 0]

\* resetRequest(); code that leaves noreply_ as it is.
ResetAllBut(r) == [NoRequestYet EXCEPT !.noreply = r.noreply]
ResetRequest(r) == NoRequestYet

\* storeItem: the items there are then, with the new number of the item.
\* Code that gives the joined item the number of the old one.
OldCas(old) == old.cas
NewCas(old) == g_cas + 1

StoreItem(r, value) ==
    LET exists == item # <<>>
        new == <<[value |-> value, cas |-> g_cas + 1]>>
        joined(v) == <<[value |-> v, cas |-> NewCas(item[1])]>>
    IN CASE r.command = "set" -> new
         [] r.command = "add" -> IF exists THEN item ELSE new
         [] r.command = "replace" -> IF exists THEN new ELSE item
         [] r.command = "append" -> IF exists THEN joined(item[1].value \o value) ELSE item
         [] r.command = "prepend" -> IF exists THEN joined(value \o item[1].value) ELSE item
         [] OTHER -> IF exists /\ item[1].cas = r.cas THEN new ELSE item

Stores(r) == CASE r.command = "set" -> TRUE
               [] r.command = "add" -> item = <<>>
               [] r.command = "cas" -> item # <<>> /\ item[1].cas = r.cas
               [] OTHER -> item # <<>>

\* reply(): one reply or, with noreply_, none; get sends its own.
Reply(r) == IF r.noreply THEN 0 ELSE 1
Owes(r) == IF r.command = "get" /\ r.size = "fits" THEN 1
           ELSE IF r.noreply \/ r.command \in {"quit", "shutdown"} THEN 0 ELSE 1

\* The request is done, with so many replies.
Done(s, r, replies) ==
    session' = [session EXCEPT ![s] = [at |-> "new", request |-> ResetRequest(r), got |-> 0,
                                       due |-> @.due - replies]]

Keep == UNCHANGED <<item, g_cas, seen>>

\* processRequest: what is right in the line is done at once, but for an update, whose
\* value is received or, when it is too large, discarded, with what the table had.
ProcessRequest(s, line) ==
    LET r == [line EXCEPT !.noreply = @ \/ session[s].request.noreply] @@ [number |-> asked + 1]
        due == session[s].due + Owes(line)
        Says(n) == session' = [session EXCEPT ![s] =
                     [at |-> "new", request |-> ResetRequest(r), got |-> 0, due |-> due - n]]
        Waits(where, n) == session' = [session EXCEPT ![s] =
                     [at |-> where, request |-> r, got |-> 0, due |-> due - n]]
    IN /\ session[s].at = "new" /\ asked < MaxRequests /\ asked' = asked + 1
       /\ memQuits' = (memQuits \/ line.command = "shutdown")
       /\ CASE line.command \in Updates /\ line.size = "fits" -> Waits("receive", 0) /\ Keep
            [] line.command \in Updates /\ line.size = "huge" ->
                  Waits("discard", Reply(r)) /\ item' = <<>> /\ UNCHANGED <<g_cas, seen>>
            [] line.command = "delete" /\ line.size = "fits" ->
                  Says(Reply(r)) /\ item' = <<>> /\ UNCHANGED <<g_cas, seen>>
            [] line.command = "get" /\ line.size = "fits" -> Says(1) /\ Keep
            [] line.command \in {"quit", "shutdown"} -> Says(0) /\ Keep
            [] OTHER -> Says(Reply(r)) /\ Keep

\* receiveValue: a byte, then the end, good or bad.
ReceiveByte(s) ==
    /\ session[s].at = "receive" /\ session[s].got = 0
    /\ session' = [session EXCEPT ![s].got = 1]
    /\ Keep /\ UNCHANGED <<asked, memQuits>>

ReceiveEnd(s, good) ==
    LET r == session[s].request
        stores == good /\ Stores(r)
    IN /\ session[s].at = "receive" /\ session[s].got = 1
       /\ Done(s, r, Reply(r))
       /\ item' = IF good THEN StoreItem(r, <<r.number>>) ELSE item
       /\ g_cas' = IF stores THEN g_cas + 1 ELSE g_cas
       /\ seen' = IF stores THEN seen \cup {item'[1]} ELSE seen
       /\ UNCHANGED <<asked, memQuits>>

\* discardValue, of all the bytes that are there, and of the last of them.
DiscardValue(s) ==
    /\ session[s].at = "discard"
    /\ IF session[s].got = 0 THEN session' = [session EXCEPT ![s].got = 1]
       ELSE Done(s, session[s].request, 0)
    /\ Keep /\ UNCHANGED <<asked, memQuits>>

\* onConnection, down and up again: the session is another one.
NewSession == [at |-> "new", request |-> NoRequestYet, got |-> 0, due |-> 0]
Reconnect(s) == /\ session' = [session EXCEPT ![s] = NewSession]
                /\ Keep /\ UNCHANGED <<asked, memQuits>>

MemInit == /\ session = [s \in MemSession |-> NewSession] /\ item = <<>> /\ g_cas = 0
           /\ asked = 0 /\ seen = {} /\ memQuits = FALSE

MemNext ==
    \E s \in MemSession :
        \/ \E line \in MemLine : ProcessRequest(s, line)
        \/ ReceiveByte(s) \/ \E good \in BOOLEAN : ReceiveEnd(s, good)
        \/ DiscardValue(s) \/ Reconnect(s)

-----------------------------------------------------------------------------
\* A number that gets shows names one value for ever, so that cas replaces what its
\* client has seen (MemcacheServer.cc:102, 125).
CasNamesValue ==
    /\ \A x, y \in seen : x.cas = y.cas => x = y
    /\ item # <<>> => item[1] \in seen

\* Between requests nothing is left of the last one, as processRequest asserts, and
\* each has had the one reply it asked for, or none (Session.cc:203, 308).
SessionsRight == \A s \in MemSession :
    /\ session[s].at = "new" => session[s].request = NoRequestYet
    /\ session[s].due = IF session[s].at = "receive" THEN Reply(session[s].request) ELSE 0

-----------------------------------------------------------------------------
(***************************************************************************)
(* The benchmark client of the memcached example: main() makes clients in   *)
(* the loops of a pool, waits until all are connected, sends the first      *)
(* request of each, and waits until all are done; a client sends the next   *)
(* request when the reply to the last is whole. The server stays up, and    *)
(* its replies come in pieces.                                              *)
(***************************************************************************)
CONSTANTS BenchClients,   \* bound: clients
          BenchRequests   \* bound: requests of a client

VARIABLES operation,  \* op_ of all clients: "get" | "set"
          bench,      \* of each client [conn, sent, acked, owed, wire, buffer, shut]: conn_ is
                      \* "new" | "up" | "down", owed are requests that are on their way
          connected, finished, \* the latches: what is left to count down
          ending,     \* clients whose loop has finished's countDown in its queue
          mainAt      \* main(): the client it sends for; 0 before, and after the last one

benchVars == <<operation, bench, connected, finished, ending, mainAt>>

BenchClient == 1 .. BenchClients

\* Replies: what is stored, a hit and a miss; the piece that ends each: a line for a set,
\* the word END for a get. Code that takes a line for the end of any reply.
RepliesTo(op) == IF op = "set" THEN {<<"stored">>} ELSE {<<"value", "data", "end">>, <<"end">>}
EndsAtLine(op, piece) == TRUE
EndsReply(op, piece) == op = "set" \/ piece = "end"

\* fill() and send().
SendsOne(b) == [b EXCEPT !.sent = @ + 1, !.owed = @ + 1]

\* onConnection, up and, after shutdown(), down.
BenchConnects(c) ==
    /\ bench[c].conn = "new"
    /\ bench' = [bench EXCEPT ![c].conn = "up"]
    /\ connected' = connected - 1
    /\ UNCHANGED <<operation, finished, ending, mainAt>>

BenchDisconnects(c) ==
    /\ bench[c].conn = "up" /\ bench[c].shut
    /\ bench' = [bench EXCEPT ![c].conn = "down"]
    /\ ending' = ending \cup {c}
    /\ UNCHANGED <<operation, connected, finished, mainAt>>

\* The functor that onConnection has queued.
CountsDown(c) ==
    /\ c \in ending /\ ending' = ending \ {c} /\ finished' = finished - 1
    /\ UNCHANGED <<operation, bench, connected, mainAt>>

\* onMessage: what is whole is counted, and followed by the next request; after the last
\* the connection is shut down.
SendsNext(b) == b.sent < BenchRequests
TakePiece(b, piece) ==
    IF ~EndsReply(operation, piece) THEN [b EXCEPT !.buffer = Append(@, piece)]
    ELSE LET taken == [b EXCEPT !.buffer = <<>>, !.acked = @ + 1]
         IN IF SendsNext(taken) THEN SendsOne(taken) ELSE taken

BenchMessage(c, n) ==
    LET b == bench[c]
        taken == FoldLeft(TakePiece, [b EXCEPT !.wire = SubSeq(@, n + 1, Len(@))],
                          SubSeq(b.wire, 1, n))
    IN /\ b.conn = "up" /\ n \in 1 .. Len(b.wire)
       /\ bench' = [bench EXCEPT ![c] = [taken EXCEPT !.shut = @ \/ taken.acked = BenchRequests]]
       /\ UNCHANGED <<operation, connected, finished, ending, mainAt>>

\* The server replies to a request.
BenchServer(c) ==
    /\ bench[c].owed > 0
    /\ \E reply \in RepliesTo(operation) :
          bench' = [bench EXCEPT ![c].owed = @ - 1, ![c].wire = @ \o reply]
    /\ UNCHANGED <<operation, connected, finished, ending, mainAt>>

\* main(): connected.wait(), then send() for one client after the other, while the
\* loops go on, then finished.wait().
BenchWaits == mainAt = 0 /\ connected = 0 /\ mainAt' = 1
              /\ UNCHANGED <<operation, bench, connected, finished, ending>>

BenchStarts ==
    /\ mainAt \in BenchClient /\ mainAt' = mainAt + 1
    /\ bench' = [bench EXCEPT ![mainAt] = SendsOne(@)]
    /\ UNCHANGED <<operation, connected, finished, ending>>

BenchFinishes == mainAt = BenchClients + 1 /\ finished = 0 /\ mainAt' = mainAt + 1
                 /\ UNCHANGED <<operation, bench, connected, finished, ending>>

NewBench == [conn |-> "new", sent |-> 0, acked |-> 0, owed |-> 0, wire |-> <<>>,
             buffer |-> <<>>, shut |-> FALSE]

BenchInit == /\ operation \in {"get", "set"} /\ bench = [c \in BenchClient |-> NewBench]
             /\ connected = BenchClients /\ finished = BenchClients
             /\ ending = {} /\ mainAt = 0

BenchNext ==
    \/ \E c \in BenchClient :
          \/ BenchConnects(c) \/ BenchDisconnects(c) \/ CountsDown(c) \/ BenchServer(c)
          \/ \E n \in 1 .. Len(bench[c].wire) : BenchMessage(c, n)
    \/ BenchWaits \/ BenchStarts \/ BenchFinishes

-----------------------------------------------------------------------------
\* A client has one request out at a time, what it counts was a whole reply, and it never
\* sends without a connection; when main() reads the clock, every client has had all its
\* replies and its loop no longer holds the latch (bench.cc:72, 122, 230).
BenchRight ==
    /\ \A c \in BenchClient : LET b == bench[c] IN
          /\ b.acked <= b.sent /\ b.sent <= b.acked + 1
          /\ b.sent = b.acked => b.wire = <<>> /\ b.buffer = <<>> /\ b.owed = 0
          /\ b.sent > b.acked => b.conn = "up" /\ ~b.shut
    /\ mainAt > BenchClients + 1 =>
          /\ ending = {}
          /\ \A c \in BenchClient : bench[c].acked = BenchRequests /\ bench[c].conn = "down"
=============================================================================
