----------------------------- MODULE TcpConnection -----------------------------
(***************************************************************************)
(* One TcpConnection in its loop: output through the socket and, what the   *)
(* kernel does not take, through outputBuffer_; input; the closing from     *)
(* either side; its channel in the epoll set as in EPollPoller. User code   *)
(* runs in the loop, between the callbacks of the connection, and in other  *)
(* threads, which test state_ before they queue a functor.                  *)
(***************************************************************************)
EXTENDS Integers, Sequences, SequencesExt

CONSTANTS
    Msg,       \* bound: the messages that are ever sent, each of two units
    Sender,    \* threads other than that of the loop
    Uses,      \* bound: what is called, [loop, thread, ends]: by user code in the loop,
               \* by other threads, and whether the peer ends the connection
    HighWater, \* highWaterMark_, in units
    MaxInput   \* bound: units that the peer sends

\* The calls that are made do not upset each other: a connection that the peer may end
\* is not closed by forceClose() from another thread, nor by one in the loop if it uses
\* stopRead() too, as a channel that asks for nothing returns to the epoll set.
ASSUME UsesAgree ==
    \A u \in Uses :
        u.ends => "forceClose" \notin u.thread /\ ("stop" \notin u.loop \/ "forceClose" \notin u.loop)

VARIABLES
    state,     \* state_, without the k
    reading,   \* reading_
    asks,      \* events_ of the channel
    place,     \* index_ of the channel: "new", "added", "deleted"
    output,    \* outputBuffer_: units
    tasks,     \* pendingFunctors_: <<function>> or <<function, argument>>
    round,     \* how many of them this round runs
    at,        \* where the loop is
    ready,     \* revents_ that are still to be handled
    busy,      \* per thread, the call that has tested state_: "send", "forceClose", "none"
    holds,     \* and the message it sends
    wire,      \* units the kernel took
    fin,       \* shutdownWrite
    inbox,     \* units the kernel holds for the connection
    peer,      \* "open", "fin" or "reset"
    accepted,  \* history: messages that sendInLoop took, in order
    lost,      \* history: messages that it dropped by faultError
    got,       \* history: units given to messageCallback
    sent,      \* history: units the peer has sent
    forced,    \* history: forceClose was called
    downs,     \* history: connectionCallback calls of a connection that is down
    use        \* one of Uses

tcpVars == <<state, reading, asks, place, output, tasks, round, at, ready, busy, holds, wire,
             fin, inbox, peer, accepted, lost, got, sent, forced, downs, use>>
channel == <<asks, place>>
looping == <<round, at, ready>>
out == <<output, wire, fin, accepted, lost>>
in == <<reading, inbox, got>>
threads == <<busy, holds>>
remote == <<peer, sent, use>>

InLoop == at \in {"events", "run"}
Units(m) == <<<<m, 1>>, <<m, 2>>>>
Used == ToSet(accepted) \cup lost \cup {t[2] : t \in {u \in ToSet(tasks) : u[1] = "send"}}
           \cup {holds[s] : s \in Sender}
Broken == peer = "reset" \/ fin

\* Channel::update with EPollPoller::updateChannel: a channel that is ignored and asks
\* for nothing again is put into the epoll set.
Update(ev) ==
    /\ asks' = ev
    /\ place' = IF place # "added" THEN "added" ELSE IF ev = {} THEN "deleted" ELSE "added"

-----------------------------------------------------------------------------
(* Output.                                                                  *)

\* The faulty shutdown that does not wait for the output.
FinAtOnce(writing) == fin' = TRUE

\* shutdownInLoop with its test.
FinAfter(writing) == fin' = (fin \/ ~ writing)

\* The faulty append that comes before what is still in the buffer.
AppendInFront(rest) == rest \o output

\* outputBuffer_.append
AppendOutput(rest) == output \o rest

\* The faulty send that leaves the rest to the next one.
SameEvents == asks

\* enableWriting
Writing == asks \cup {"out"}

\* What sendInLoop keeps after k units were written; the callbacks are queued.
Keep(m, k, queue) ==
    LET rest == SubSeq(Units(m), k + 1, 2)
        crosses == Len(output) < HighWater /\ Len(output) + Len(rest) >= HighWater
    IN  IF rest = <<>>
        THEN /\ tasks' = Append(queue, <<"writeComplete">>)
             /\ UNCHANGED <<output, channel>>
        ELSE /\ tasks' = IF crosses THEN Append(queue, <<"highWater">>) ELSE queue
             /\ output' = AppendOutput(rest)
             /\ IF "out" \in asks THEN UNCHANGED channel ELSE Update(Writing)

\* sendInLoop writes directly if nothing waits.
WritesDirectly == "out" \notin asks /\ output = <<>>

\* sendInLoop: a broken connection drops the message, or keeps it if the error is
\* not one of the two it knows.
SendInLoop(m, queue) ==
    \/ /\ state = "Disconnected"
       /\ tasks' = queue /\ UNCHANGED <<out, channel>>
    \/ /\ state # "Disconnected" /\ WritesDirectly /\ ~ Broken
       /\ \E k \in 0 .. 2 : wire' = wire \o SubSeq(Units(m), 1, k) /\ Keep(m, k, queue)
       /\ accepted' = Append(accepted, m) /\ UNCHANGED <<fin, lost>>
    \/ /\ state # "Disconnected" /\ WritesDirectly /\ Broken
       /\ lost' = lost \cup {m} /\ tasks' = queue
       /\ UNCHANGED <<output, wire, fin, accepted, channel>>
    \/ /\ state # "Disconnected" /\ ~ WritesDirectly
       /\ Keep(m, 0, queue)
       /\ accepted' = Append(accepted, m) /\ UNCHANGED <<wire, fin, lost>>

\* The faulty handleWrite that forgets a shutdown while it was writing.
DrainedOnly == UNCHANGED fin

\* handleWrite: the end of the output, when a shutdown may be waiting for it.
Drained == IF state = "Disconnecting" THEN FinAfter(FALSE) ELSE UNCHANGED fin

\* The faulty end of the output that goes on waiting.
StaysWriting == {}

\* disableWriting when the output is written.
Finished == {"out"}

HandleWrite ==
    /\ at = "events" /\ "out" \in ready /\ ready \cap {"in", "hup"} = {}
    /\ ready' = ready \ {"out"}
    /\ \/ /\ "out" \in asks /\ ~ Broken
          /\ \E k \in 1 .. Len(output) :
                /\ wire' = wire \o SubSeq(output, 1, k)
                /\ output' = SubSeq(output, k + 1, Len(output))
                /\ IF k = Len(output)
                   THEN /\ Update(asks \ Finished) /\ Drained
                        /\ tasks' = Append(tasks, <<"writeComplete">>)
                   ELSE UNCHANGED <<channel, fin, tasks>>
       \/ /\ "out" \notin asks \/ Broken
          /\ UNCHANGED <<wire, output, channel, fin, tasks>>
    /\ UNCHANGED <<state, in, round, at, threads, remote, accepted, lost, forced, downs>>

-----------------------------------------------------------------------------
(* Closing.                                                                 *)

\* handleClose, with closeCallback_: removeConnection and removeConnectionInLoop, which
\* queue connectDestroyed.
Close(queue) ==
    /\ state' = "Disconnected"
    /\ Update({})
    /\ downs' = downs + 1
    /\ tasks' = Append(queue, <<"connectDestroyed">>)

\* handleEventWithGuard: a hang-up without input.
HandleHup ==
    /\ at = "events" /\ "hup" \in ready
    /\ ready' = ready \ {"hup"} /\ Close(tasks)
    /\ UNCHANGED <<in, out, round, at, threads, remote, forced>>

\* The faulty reads that close as soon as the end is known, and never.
AtEndAtOnce == peer # "open"
NeverAtEnd == FALSE

\* readFd: 0 bytes at the end of the input.
AtEnd == inbox = 0 \/ peer = "reset"

\* handleRead: all of the input, its end, or an error that is only logged.
HandleRead ==
    /\ at = "events" /\ "in" \in ready
    /\ ready' = ready \ {"in"}
    /\ \/ /\ ~ AtEnd
          /\ got' = got + inbox /\ inbox' = 0 /\ UNCHANGED <<state, channel, downs, tasks>>
       \/ /\ AtEnd
          /\ Close(tasks) /\ UNCHANGED <<inbox, got>>
    /\ UNCHANGED <<reading, out, round, at, threads, remote, forced>>

-----------------------------------------------------------------------------
(* User code in the loop; runInLoop runs the function at once.              *)

UserSend(m) ==
    /\ InLoop /\ "send" \in use.loop /\ state = "Connected" /\ m \notin Used
    /\ SendInLoop(m, tasks)
    /\ UNCHANGED <<state, in, looping, threads, remote, forced, downs>>

UserShutdown ==
    /\ InLoop /\ "shutdown" \in use.loop /\ state = "Connected"
    /\ state' = "Disconnecting" /\ FinAfter("out" \in asks)
    /\ UNCHANGED <<in, channel, output, wire, accepted, lost, tasks, looping, threads, remote,
                   forced, downs>>

UserForceClose ==
    /\ InLoop /\ "forceClose" \in use.loop /\ state \in {"Connected", "Disconnecting"} /\ ~ forced
    /\ state' = "Disconnecting" /\ forced' = TRUE
    /\ tasks' = Append(tasks, <<"forceClose">>)
    /\ UNCHANGED <<in, out, channel, looping, threads, remote, downs>>

\* stopReadInLoop
UserStop ==
    /\ InLoop /\ "stop" \in use.loop /\ state \in {"Connected", "Disconnecting"}
    /\ reading \/ "in" \in asks
    /\ reading' = FALSE /\ Update(asks \ {"in"})
    /\ UNCHANGED <<inbox, got, state, out, tasks, looping, threads, remote, forced, downs>>

\* startReadInLoop
UserStart ==
    /\ InLoop /\ "start" \in use.loop /\ state \in {"Connected", "Disconnecting"}
    /\ ~ reading \/ "in" \notin asks
    /\ reading' = TRUE /\ Update(asks \cup {"in"})
    /\ UNCHANGED <<inbox, got, state, out, tasks, looping, threads, remote, forced, downs>>

-----------------------------------------------------------------------------
(* Other threads: the test of state_, then the rest of the call.            *)

TestSend(s, m) ==
    /\ busy[s] = "none" /\ "send" \in use.thread /\ state = "Connected" /\ m \notin Used
    /\ busy' = [busy EXCEPT ![s] = "send"] /\ holds' = [holds EXCEPT ![s] = m]
    /\ UNCHANGED <<state, in, out, channel, tasks, looping, remote, forced, downs>>

QueueSend(s) ==
    /\ busy[s] = "send"
    /\ busy' = [busy EXCEPT ![s] = "none"]
    /\ tasks' = Append(tasks, <<"send", holds[s]>>)
    /\ UNCHANGED <<state, in, out, channel, looping, holds, remote, forced, downs>>

TestForceClose(s) ==
    /\ busy[s] = "none" /\ "forceClose" \in use.thread /\ ~ forced
    /\ state \in {"Connected", "Disconnecting"}
    /\ busy' = [busy EXCEPT ![s] = "forceClose"] /\ forced' = TRUE
    /\ UNCHANGED <<state, in, out, channel, tasks, looping, holds, remote, downs>>

QueueForceClose(s) ==
    /\ busy[s] = "forceClose"
    /\ busy' = [busy EXCEPT ![s] = "none"] /\ state' = "Disconnecting"
    /\ tasks' = Append(tasks, <<"forceClose">>)
    /\ UNCHANGED <<in, out, channel, looping, holds, remote, forced, downs>>

-----------------------------------------------------------------------------
(* The loop and the peer.                                                   *)

\* What epoll reports; a hang-up whatever the channel asks for.
Readable == inbox > 0 \/ peer # "open"
Hup == peer = "reset" \/ (peer = "fin" /\ fin)
Reported == IF place # "added" THEN {}
            ELSE (IF Readable THEN asks \cap {"in"} ELSE {}) \cup (asks \cap {"out"})
                    \cup (IF Hup THEN {"hup"} ELSE {})

\* poll returns for the connection or for queued functors.
TcpPoll ==
    /\ at = "poll" /\ (Reported # {} \/ tasks # <<>>)
    /\ at' = "events"
    /\ ready' = IF "in" \in Reported THEN Reported \ {"hup"} ELSE Reported
    /\ UNCHANGED <<state, in, out, channel, tasks, round, threads, remote, forced, downs>>

TakeFunctors ==
    /\ at = "events" /\ ready = {}
    /\ at' = "run" /\ round' = Len(tasks)
    /\ UNCHANGED <<state, in, out, channel, tasks, ready, threads, remote, forced, downs>>

Takes(name) == at = "run" /\ round > 0 /\ Head(tasks)[1] = name /\ round' = round - 1
                  /\ UNCHANGED <<at, ready>>

\* The faulty functor that does not look at the state.
ClosesAlways == TRUE

\* forceCloseInLoop: whether the connection is still up.
StillUp == state \in {"Connected", "Disconnecting"}

\* The functors of doPendingFunctors.
ConnectEstablished ==
    /\ Takes("connectEstablished")
    /\ state' = "Connected" /\ Update({"in"}) /\ tasks' = Tail(tasks)
    /\ UNCHANGED <<in, out, threads, remote, forced, downs>>

RunSend ==
    /\ Takes("send")
    /\ SendInLoop(Head(tasks)[2], Tail(tasks))
    /\ UNCHANGED <<state, in, threads, remote, forced, downs>>

RunForceClose ==
    /\ Takes("forceClose")
    /\ IF StillUp THEN Close(Tail(tasks))
       ELSE tasks' = Tail(tasks) /\ UNCHANGED <<state, channel, downs>>
    /\ UNCHANGED <<in, out, threads, remote, forced>>

\* connectDestroyed of a connection that is down; then nothing refers to it.
RunDestroyed ==
    /\ Takes("connectDestroyed")
    /\ tasks' = Tail(tasks) /\ place' = "new"
    /\ UNCHANGED <<state, asks, in, out, threads, remote, forced, downs>>

\* writeCompleteCallback_ and highWaterMarkCallback_.
RunCallback ==
    /\ Takes("writeComplete") \/ Takes("highWater")
    /\ tasks' = Tail(tasks)
    /\ UNCHANGED <<state, in, out, channel, threads, remote, forced, downs>>

EndFunctors ==
    /\ at = "run" /\ round = 0
    /\ at' = "poll"
    /\ UNCHANGED <<state, in, out, channel, tasks, round, ready, threads, remote, forced, downs>>

PeerSends ==
    /\ peer = "open" /\ sent < MaxInput
    /\ sent' = sent + 1 /\ inbox' = inbox + 1
    /\ UNCHANGED <<state, reading, got, out, channel, tasks, looping, threads, peer, use, forced, downs>>

PeerEnds(how) ==
    /\ use.ends
    /\ peer = "open" \/ (peer = "fin" /\ how = "reset")
    /\ peer' = how
    /\ UNCHANGED <<state, in, out, channel, tasks, looping, threads, sent, use, forced, downs>>

-----------------------------------------------------------------------------
TcpInit ==
    /\ state = "Connecting" /\ reading = TRUE /\ asks = {} /\ place = "new"
    /\ output = <<>> /\ tasks = <<<<"connectEstablished">>>> /\ round = 0
    /\ at = "poll" /\ ready = {} /\ busy = [s \in Sender |-> "none"]
    /\ holds = [s \in Sender |-> 0] /\ wire = <<>> /\ fin = FALSE /\ inbox = 0
    /\ peer = "open" /\ accepted = <<>> /\ lost = {} /\ got = 0 /\ sent = 0
    /\ forced = FALSE /\ downs = 0 /\ use \in Uses

TcpLoop ==
    \/ TcpPoll \/ HandleHup \/ HandleRead \/ HandleWrite \/ TakeFunctors
    \/ ConnectEstablished \/ RunSend \/ RunForceClose \/ RunDestroyed \/ RunCallback
    \/ EndFunctors

TcpNext ==
    \/ TcpLoop \/ PeerSends \/ PeerEnds("fin") \/ PeerEnds("reset")
    \/ UserShutdown \/ UserForceClose \/ UserStop \/ UserStart
    \/ \E m \in Msg : UserSend(m) \/ \E s \in Sender : TestSend(s, m)
    \/ \E s \in Sender : QueueSend(s) \/ TestForceClose(s) \/ QueueForceClose(s)

TcpSpec == TcpInit /\ [][TcpNext]_tcpVars

\* The loop and the threads go on; the kernel takes something whenever it says so.
TcpFairness == WF_tcpVars(TcpLoop) /\ \A s \in Sender : WF_tcpVars(QueueSend(s))

-----------------------------------------------------------------------------
(* Correctness.                                                             *)

\* Type invariant; there is output if and only if the channel waits to write it,
\* until the connection is down.
TcpTypeOK ==
    /\ state \in {"Connecting", "Connected", "Disconnecting", "Disconnected"}
    /\ reading \in BOOLEAN /\ asks \subseteq {"in", "out"} /\ fin \in BOOLEAN
    /\ place \in {"new", "added", "deleted"} /\ at \in {"poll", "events", "run"}
    /\ round \in 0 .. Len(tasks) /\ ready \subseteq {"in", "out", "hup"}
    /\ state # "Disconnected" => ("out" \in asks <=> output # <<>>)

\* What the peer gets is what was sent, whole messages in the order of sendInLoop,
\* although it is written from three places; only the last may be incomplete.
StreamIntact ==
    wire \o output =
        [i \in 1 .. 2 * Len(accepted) |-> Units(accepted[(i + 1) \div 2])[IF i % 2 = 1 THEN 1 ELSE 2]]

\* The FIN comes after everything that sendInLoop had accepted before it: shutdown()
\* waits for the output, and a message that is lost came after the FIN or a reset.
FinIsLast == fin /\ state # "Disconnected" /\ peer # "reset" => output = <<>>

\* handleClose is run once: its assertion. connectionCallback_ and connectDestroyed
\* are run once with it.
CloseOnce == downs <= 1

\* Unless forceClose or a reset ends it, a connection is only closed when all that
\* the peer had sent was given to messageCallback.
InputComplete ==
    state = "Disconnected" /\ ~ forced /\ peer # "reset" => got = sent

\* A shutdown() is carried out, whatever was being written and sent meanwhile.
ShutdownHeeded == state = "Disconnecting" ~> (fin \/ state = "Disconnected")

\* What the connection could not write at once is written in the end.
OutputDrains == output # <<>> ~> (output = <<>> \/ peer # "open" \/ state = "Disconnected")

\* A connection that the peer has ended is destroyed; but one whose reading is stopped
\* has a channel that asks for nothing, and does not learn of it.
EndsDestroyed ==
    (peer # "open" /\ reading) ~> ((state = "Disconnected" /\ place = "new") \/ ~ reading)

=============================================================================
