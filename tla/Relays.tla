-------------------------------- MODULE Relays --------------------------------
(***************************************************************************)
(* The relays of muduo's examples. First one Tunnel of the TCP relay, the   *)
(* balancer or the SOCKS proxy: the connection of a user ("server", for the *)
(* relay is its server) is tied to a connection to a backend ("client").    *)
(* An iteration of the loop handles each channel once at most and then runs *)
(* the functors. Bytes are numbers, counted in each direction.              *)
(***************************************************************************)
EXTENDS Integers, SequencesExt, FiniteSetsExt, TLC

CONSTANTS ReadChunk,   \* bytes that one read takes
          TunnelMark,  \* the high water mark, 1 MiB
          MaxBytes,    \* bound: bytes sent by the user, and by the backend
          RequestLimit \* 128: a SOCKS request without an end

ASSUME TunnelLimits == ReadChunk \in Nat \ {0} /\ TunnelMark \in Nat \ {0}

VARIABLES tunnelForm,  \* "relay" | "balancer" | "socks"
          socksRequest,     \* what the user of the proxy asks for
          turn,        \* g_current of the balancer
          conn,        \* of each side "none" | "up" | "closing" | "down"
          reading,     \* its channel is registered for reading
          relayWire, relayInput, out,  \* bytes to read, in inputBuffer_, in outputBuffer_
          got,         \* bytes that the peer has taken
          sentBytes,   \* how many the peer has sent
          leaves,      \* the peer has closed its end
          onDrain,     \* writeCompleteCallback_ is set
          tied,        \* the context of the user's connection is the backend's
          holds,       \* clientConn_
          inTable,     \* g_tunnels has the tunnel
          bound,       \* the callbacks of client_ hold the tunnel
          functors, handled,
          crashed      \* a null pointer was followed, or an assertion failed

tunnelVars == <<tunnelForm, socksRequest, turn, conn, reading, relayWire, relayInput, out, got, sentBytes,
                leaves, onDrain, tied, holds, inTable, bound, functors, handled, crashed>>
peers == <<tunnelForm, socksRequest, sentBytes, leaves>>
members == <<tied, holds, inTable, bound, turn>>

Endpoint == {"server", "client"}
Other(s) == IF s = "server" THEN "client" ELSE "server"

TunnelAlive == inTable \/ bound

\* Version 4 and CONNECT; a host name, which is found; two ends.
Requests == {[v4 |-> v, named |-> n, found |-> f, ends |-> TRUE] : v, n, f \in BOOLEAN}
            \cup {[v4 |-> TRUE, named |-> FALSE, found |-> FALSE, ends |-> FALSE]}

\* A request is a head of eight bytes, a user id, for version 4a a host name; two 0 end them.
HeadBytes == -1
UserBytes == -2
HostBytes == -3
MoreBytes == -4
Asked(r) == IF ~r.ends THEN <<HeadBytes>> \o [i \in 1 .. RequestLimit |-> MoreBytes]
            ELSE IF r.named THEN <<HeadBytes, UserBytes, HostBytes>> ELSE <<HeadBytes, UserBytes>>

IsPayload(b) == b > 0
Payload(s) == SelectSeq(s, IsPayload)

-----------------------------------------------------------------------------
\* sendInLoop: with an empty buffer a part is written at once. The callbacks are queued.
SendNow(s, bytes) ==
    \E n \in 0 .. (IF out[s] = <<>> THEN Len(bytes) ELSE 0) :
        /\ got' = [got EXCEPT ![s] = @ \o SubSeq(bytes, 1, n)]
        /\ out' = [out EXCEPT ![s] = @ \o SubSeq(bytes, n + 1, Len(bytes))]
        /\ functors' = IF Len(out'[s]) >= TunnelMark /\ Len(out[s]) < TunnelMark
                         THEN Append(functors, [do |-> "high", side |-> s])
                       ELSE IF out'[s] = <<>> /\ bytes # <<>> /\ onDrain[s]
                         THEN Append(functors, [do |-> "drained", side |-> s])
                       ELSE functors

\* TcpConnection::send: a connection that is no longer up takes nothing.
SendOn(s, bytes) ==
    IF conn[s] = "up" THEN SendNow(s, bytes) ELSE UNCHANGED <<out, got, functors>>

\* TcpConnection::shutdown: the end is sent when the output is.
Shut(c, s) == IF c[s] = "up" THEN [c EXCEPT ![s] = "closing"] ELSE c

\* A peer sends a byte, or closes.
PeerSends(s) ==
    /\ sentBytes[s] < MaxBytes[s] /\ ~leaves[s] /\ ~crashed /\ conn[s] # "none"
    /\ sentBytes' = [sentBytes EXCEPT ![s] = @ + 1]
    /\ relayWire' = [relayWire EXCEPT ![s] = Append(@, sentBytes'[s])]
    /\ UNCHANGED <<tunnelForm, socksRequest, turn, conn, reading, relayInput, out, got, leaves, onDrain,
                   tied, holds, inTable, bound, functors, handled, crashed>>

PeerLeaves(s) ==
    /\ ~leaves[s] /\ ~crashed /\ conn[s] # "none"
    /\ leaves' = [leaves EXCEPT ![s] = TRUE]
    /\ UNCHANGED <<tunnelForm, socksRequest, turn, conn, reading, relayWire, relayInput, out, got, sentBytes,
                   onDrain, tied, holds, inTable, bound, functors, handled, crashed>>

-----------------------------------------------------------------------------
\* onServerConnection of the relay: nothing is read before the backend is there.
AcceptRelayed ==
    /\ tunnelForm = "relay" /\ turn' = turn
    /\ reading' = [reading EXCEPT !["server"] = FALSE]
    /\ inTable' = TRUE /\ bound' = TRUE

\* The balancer also takes the next backend.
AcceptBalanced ==
    /\ tunnelForm = "balancer" /\ turn' = (turn + 1) % 2
    /\ reading' = [reading EXCEPT !["server"] = FALSE]
    /\ inTable' = TRUE /\ bound' = TRUE

AcceptProxied ==
    /\ tunnelForm = "socks" /\ turn' = turn
    /\ reading' = [reading EXCEPT !["server"] = TRUE]
    /\ UNCHANGED <<inTable, bound>>

Accepted ==
    /\ conn["server"] = "none"
    /\ conn' = [conn EXCEPT !["server"] = "up"]
    /\ AcceptRelayed \/ AcceptBalanced \/ AcceptProxied
    /\ relayWire' = [relayWire EXCEPT !["server"] = IF tunnelForm = "socks" THEN Asked(socksRequest) ELSE <<>>]
    /\ UNCHANGED <<peers, relayInput, out, got, onDrain, tied, holds, functors, handled, crashed>>

\* Code that leaves in the buffer what came before the backend was there.
ForwardsNothing == <<>>
Forwarded == relayInput["server"]

\* onClientConnection, connected. The user may have gone: then a connection without a
\* channel is registered for reading.
TunnelBackendUp ==
    /\ bound /\ conn["client"] = "none" /\ ~crashed
    /\ conn' = [conn EXCEPT !["client"] = "up"]
    /\ reading' = [reading EXCEPT !["client"] = TRUE, !["server"] = TRUE]
    /\ tied' = TRUE /\ holds' = TRUE
    /\ SendNow("client", Forwarded)
    /\ relayInput' = [relayInput EXCEPT !["server"] = IF Forwarded = <<>> THEN @ ELSE <<>>]
    /\ UNCHANGED <<peers, relayWire, onDrain, inTable, bound, turn, handled, crashed>>

\* onServerMessage of the proxy, before there is a tunnel: as long as the request may go on
\* it waits; then it is refused, or the tunnel made and what follows the request kept.
Waits(b) ==
    /\ Len(b) <= RequestLimit
    /\ \/ Len(b) = 1 \/ b[2] # UserBytes
       \/ socksRequest.named /\ (Len(b) = 2 \/ b[3] # HostBytes)

Answers(b) ==
    IF Len(b) > RequestLimit THEN
        /\ conn' = Shut(conn, "server") /\ relayInput' = [relayInput EXCEPT !["server"] = b]
        /\ UNCHANGED <<inTable, bound>>
    ELSE IF Waits(b) THEN
        /\ relayInput' = [relayInput EXCEPT !["server"] = b]
        /\ UNCHANGED <<conn, inTable, bound>>
    ELSE IF socksRequest.v4 /\ (socksRequest.named => socksRequest.found) THEN
        /\ relayInput' = [relayInput EXCEPT !["server"] = Payload(b)]
        /\ inTable' = TRUE /\ bound' = TRUE /\ UNCHANGED conn
    ELSE
        /\ conn' = Shut(conn, "server") /\ relayInput' = [relayInput EXCEPT !["server"] = b]
        /\ UNCHANGED <<inTable, bound>>

TakenFrom(s) == SubSeq(relayWire[s], 1, Min({ReadChunk, Len(relayWire[s])}))
Readable(s) == s \notin handled /\ reading[s] /\ relayWire[s] # <<>> /\ ~crashed

\* A connection that is down and registered again: handleRead or handleClose asserts.
ReadDead(s) ==
    /\ s \notin handled /\ ~crashed /\ reading[s] /\ conn[s] = "down"
    /\ crashed' = TRUE
    /\ UNCHANGED <<peers, members, conn, reading, relayWire, relayInput, out, got, onDrain, functors, handled>>

ReadUser ==
    /\ Readable("server") /\ conn["server"] \in {"up", "closing"}
    /\ handled' = handled \cup {"server"}
    /\ relayWire' = [relayWire EXCEPT !["server"] = SubSeq(@, Len(TakenFrom("server")) + 1, Len(@))]
    /\ LET all == relayInput["server"] \o TakenFrom("server") IN
       \/ /\ ~inTable /\ tunnelForm = "socks"
          /\ Answers(all) /\ UNCHANGED <<out, got, functors>>
       \/ /\ inTable /\ tied /\ UNCHANGED <<conn, inTable, bound>>
          /\ SendOn("client", all)
          /\ relayInput' = [relayInput EXCEPT !["server"] = IF conn["client"] = "up" THEN <<>> ELSE all]
       \/ /\ inTable /\ ~tied /\ UNCHANGED <<conn, inTable, bound, out, got, functors>>
          /\ relayInput' = [relayInput EXCEPT !["server"] = all]
    /\ UNCHANGED <<peers, reading, onDrain, tied, holds, turn, crashed>>

\* onClientMessage, or the default callback of a tunnel that was torn down.
ReadBackend ==
    /\ Readable("client") /\ conn["client"] \in {"up", "closing"}
    /\ handled' = handled \cup {"client"}
    /\ relayWire' = [relayWire EXCEPT !["client"] = SubSeq(@, Len(TakenFrom("client")) + 1, Len(@))]
    /\ SendOn("server", relayInput["client"] \o TakenFrom("client"))
    /\ relayInput' = [relayInput EXCEPT !["client"] = IF conn["server"] = "up" THEN <<>> ELSE @ \o TakenFrom("client")]
    /\ UNCHANGED <<peers, members, conn, reading, onDrain, crashed>>

HandleOutput(s) ==
    /\ s \notin handled /\ out[s] # <<>> /\ conn[s] \in {"up", "closing"} /\ ~crashed
    /\ handled' = handled \cup {s}
    /\ \E n \in 1 .. Len(out[s]) :
          /\ got' = [got EXCEPT ![s] = @ \o SubSeq(out[s], 1, n)]
          /\ out' = [out EXCEPT ![s] = SubSeq(@, n + 1, Len(@))]
          /\ functors' = IF n = Len(out[s]) /\ onDrain[s]
                           THEN Append(functors, [do |-> "drained", side |-> s]) ELSE functors
    /\ UNCHANGED <<peers, members, conn, reading, relayWire, relayInput, onDrain, crashed>>

\* The end of the stream, or a hang-up seen while waiting to write.
EndpointCloses(s) ==
    /\ s \notin handled /\ leaves[s] /\ conn[s] \in {"up", "closing"} /\ ~crashed
    /\ (reading[s] /\ relayWire[s] = <<>>) \/ out[s] # <<>>
    /\ handled' = handled \cup {s}
    /\ reading' = [reading EXCEPT ![s] = FALSE]

\* onServerConnection, down: the backend's connection is shut down if it is there.
UserDown ==
    /\ EndpointCloses("server")
    /\ conn' = [IF inTable THEN Shut(conn, "client") ELSE conn EXCEPT !["server"] = "down"]
    /\ inTable' = FALSE
    /\ UNCHANGED <<peers, relayWire, relayInput, out, got, onDrain, tied, holds, bound, turn, functors, crashed>>

\* onClientConnection, down: teardown()
TunnelBackendDown ==
    /\ EndpointCloses("client")
    /\ conn' = [Shut(conn, "server") EXCEPT !["client"] = "down"]
    /\ tied' = FALSE /\ holds' = FALSE /\ bound' = FALSE
    /\ UNCHANGED <<peers, relayWire, relayInput, out, got, onDrain, inTable, turn, functors, crashed>>

-----------------------------------------------------------------------------
\* Code that stops reading although the output went out before the callback ran.
StopsAnyway(s) == TRUE

StillFull(s) == out[s] # <<>>

\* onHighWaterMark: the other side is not read until this one is written.
OnHighWaterMark(s) ==
    /\ crashed' = (~holds /\ (s = "client" \/ StillFull(s)))
    /\ IF StillFull(s) /\ ~crashed'
         THEN reading' = [reading EXCEPT ![Other(s)] = FALSE] /\ onDrain' = [onDrain EXCEPT ![s] = TRUE]
         ELSE UNCHANGED <<reading, onDrain>>

\* onWriteComplete
OnWriteComplete(s) ==
    /\ crashed' = ~holds
    /\ reading' = [reading EXCEPT ![Other(s)] = TRUE]
    /\ onDrain' = [onDrain EXCEPT ![s] = FALSE]

\* doPendingFunctors, of callbacks that hold the tunnel weakly.
RunTunnelFunctor ==
    /\ functors # <<>> /\ ~crashed
    /\ LET f == Head(functors) IN
       IF ~TunnelAlive THEN UNCHANGED <<reading, onDrain, crashed>>
       ELSE IF f.do = "high" THEN OnHighWaterMark(f.side) ELSE OnWriteComplete(f.side)
    /\ functors' = Tail(functors)
    /\ handled' = Endpoint      \* no event before the queue is empty
    /\ UNCHANGED <<peers, members, conn, relayWire, relayInput, out, got>>

NextIteration ==
    /\ functors = <<>> /\ handled # {} /\ handled' = {}
    /\ UNCHANGED <<peers, members, conn, reading, relayWire, relayInput, out, got, onDrain, functors, crashed>>

TunnelInit ==
    /\ tunnelForm \in {"relay", "balancer", "socks"}
    /\ socksRequest \in IF tunnelForm = "socks" THEN Requests ELSE {[v4 |-> TRUE]}
    /\ turn = 0 /\ conn = [s \in Endpoint |-> "none"] /\ reading = [s \in Endpoint |-> FALSE]
    /\ relayWire = [s \in Endpoint |-> <<>>] /\ relayInput = relayWire /\ out = relayWire /\ got = relayWire
    /\ sentBytes = [s \in Endpoint |-> 0] /\ leaves = [s \in Endpoint |-> FALSE]
    /\ onDrain = leaves /\ tied = FALSE /\ holds = FALSE /\ inTable = FALSE /\ bound = FALSE
    /\ functors = <<>> /\ handled = {} /\ crashed = FALSE

TunnelNext ==
    \/ \E s \in Endpoint : PeerSends(s) \/ PeerLeaves(s) \/ ReadDead(s) \/ HandleOutput(s)
    \/ Accepted \/ TunnelBackendUp \/ ReadUser \/ ReadBackend \/ UserDown \/ TunnelBackendDown
    \/ RunTunnelFunctor \/ NextIteration

\* What the loop does by itself once its peers take what they are sent.
TunnelLoop == RunTunnelFunctor \/ NextIteration \/ \E s \in Endpoint : HandleOutput(s)

-----------------------------------------------------------------------------
\* Through a tunnel the bytes of each direction arrive in order, once, and all of them
\* while both connections are up, those too that came with the request or before the
\* backend was there. What waits for a slow peer is limited, except for a user of the
\* proxy, who is read before there is a backend.
TunnelRight ==
    LET way(s) == Payload(got[s] \o out[s] \o relayInput[Other(s)] \o relayWire[Other(s)])
        numbers(n) == [i \in 1 .. n |-> i]
    IN  /\ \A s \in Endpoint : Payload(got[s]) = numbers(Len(got[s]))
        /\ ~crashed /\ (\A s \in Endpoint : conn[s] = "up")
             => \A s \in Endpoint : way(s) = numbers(sentBytes[Other(s)])
        /\ conn["client"] = "up" => relayInput["server"] = <<>>
        /\ \A s \in Endpoint : (s = "client" /\ tunnelForm = "socks")
                            \/ Len(out[s]) < TunnelMark + ReadChunk

\* A side that was stopped for the other's full buffer is read again once the peer has
\* taken the output, unless a connection ends.
ReadingResumes(s) == [asked |-> onDrain[s],
                      kept |-> ~onDrain[s] \/ crashed \/ \E q \in Endpoint : conn[q] = "down"]

-----------------------------------------------------------------------------
(***************************************************************************)
(* The RPC balancer, one of its threads: requests of clients go in turn to  *)
(* the backends that are up, under an id of the backend's session; an       *)
(* answer gets back the id of the client. The raw form writes the id into   *)
(* the frame and makes its checksum anew. A call is its client and its id.  *)
(***************************************************************************)
CONSTANTS RpcClient,
          Backends,      \* how many
          MaxRequested,  \* bound: calls of all clients
          MaxOutages     \* bound: how often a backend goes down

ASSUME BackendsGiven == Backends \in Nat \ {0}

VARIABLES raw,           \* balancer_raw
          clientIsUp, askedCalls, answersOf, \* of a client: connected; its calls; what it was sent
          backendUp, nextId, pending,   \* conn_, nextId_, outstandings_ of each session
          current,       \* PerThread::current
          forwarded, returning,  \* messages on their way to and from each backend
          outages,
          evenAt         \* history: nextId of each session when a backend last came or went

balancerVars == <<raw, clientIsUp, askedCalls, answersOf, backendUp, nextId, pending, current,
                  forwarded, returning, outages, evenAt>>

Backend == 0 .. Backends - 1

Frame(n, of) == [id |-> n, of |-> of, sum |-> n]

\* RawMessage::updateId, and set_id and the codec of the form that parses messages.
UpdateId(m, n) == IF raw THEN [m EXCEPT !.id = n, !.sum = n] ELSE Frame(n, m.of)

\* outstandings_[n] = r
Entered(table, n, r) == [k \in DOMAIN table \cup {n} |-> IF k = n THEN r ELSE table[k]]

\* BackendSession::send
SendToBackend(b, m, c) ==
    LET n == nextId[b] + 1
    IN  /\ nextId' = [nextId EXCEPT ![b] = n]
        /\ pending' = [pending EXCEPT ![b] = Entered(@, n, [origId |-> m.id, client |-> c])]
        /\ forwarded' = [forwarded EXCEPT ![b] = Append(@, UpdateId(m, n))]

\* onMessageT: from the current backend on the first that is up; if none is, the request
\* is dropped, and the turn has gone round.
Steps(n) == (current + n) % Backends

\* Code that stays with a backend while it is up, and the next turn.
StaysOn(n) == Steps(n)
NextTurn(n) == Steps(n + 1)

FirstUp == {n \in Backend : backendUp[Steps(n)] /\ \A k \in 0 .. n - 1 : ~backendUp[Steps(k)]}

OnRequest(c) ==
    /\ clientIsUp[c] /\ SumFunction(askedCalls) < MaxRequested
    /\ askedCalls' = [askedCalls EXCEPT ![c] = @ + 1]
    /\ IF FirstUp = {}
         THEN UNCHANGED <<nextId, pending, forwarded, current>>
         ELSE \E n \in FirstUp :
                /\ SendToBackend(Steps(n), Frame(askedCalls'[c], <<c, askedCalls'[c]>>), c)
                /\ current' = NextTurn(n)
    /\ UNCHANGED <<raw, clientIsUp, answersOf, backendUp, returning, outages, evenAt>>

\* A backend answers what it was asked, in any order; a wrong checksum is an error.
BackendAnswers(b) ==
    /\ \E i \in DOMAIN forwarded[b] :
          /\ returning' = [returning EXCEPT ![b] = Append(@, forwarded[b][i])]
          /\ forwarded' = [forwarded EXCEPT ![b] = RemoveAt(@, i)]
    /\ UNCHANGED <<raw, clientIsUp, askedCalls, answersOf, backendUp, nextId, pending, current,
                   outages, evenAt>>

\* Code that gives the answer under the id of the session.
KeepsId(m, r) == UpdateId(m, m.id)
Restored(m, r) == UpdateId(m, r.origId)

\* BackendSession::onMessageT: an answer for a client that has gone is dropped.
OnBackendAnswer(b) ==
    /\ returning[b] # <<>> /\ backendUp[b]
    /\ returning' = [returning EXCEPT ![b] = Tail(@)]
    /\ LET m == Head(returning[b]) IN
       IF m.id \in DOMAIN pending[b]
         THEN LET r == pending[b][m.id] IN
              /\ pending' = [pending EXCEPT ![b] = [n \in DOMAIN @ \ {m.id} |-> @[n]]]
              /\ answersOf' = IF clientIsUp[r.client]
                               THEN [answersOf EXCEPT ![r.client] = Append(@, Restored(m, r))]
                               ELSE answersOf
         ELSE UNCHANGED <<pending, answersOf>>
    /\ UNCHANGED <<raw, clientIsUp, askedCalls, backendUp, nextId, current, forwarded, outages,
                   evenAt>>

\* BackendSession::onConnection: what was pending is kept, and never answered.
BackendDownUp(b) ==
    /\ backendUp' = [backendUp EXCEPT ![b] = ~@]
    /\ outages < MaxOutages \/ ~backendUp[b]
    /\ outages' = IF backendUp[b] THEN outages + 1 ELSE outages
    /\ evenAt' = nextId
    /\ forwarded' = [forwarded EXCEPT ![b] = <<>>] /\ returning' = [returning EXCEPT ![b] = <<>>]
    /\ UNCHANGED <<raw, clientIsUp, askedCalls, answersOf, nextId, pending, current>>

RpcClientLeaves(c) ==
    /\ clientIsUp[c] /\ clientIsUp' = [clientIsUp EXCEPT ![c] = FALSE]
    /\ UNCHANGED <<raw, askedCalls, answersOf, backendUp, nextId, pending, current, forwarded,
                   returning, outages, evenAt>>

\* initPerThread: the first thread begins with the first backend.
BalancerInit ==
    /\ raw \in BOOLEAN /\ current = 0
    /\ clientIsUp = [c \in RpcClient |-> TRUE] /\ askedCalls = [c \in RpcClient |-> 0]
    /\ answersOf = [c \in RpcClient |-> <<>>]
    /\ backendUp = [b \in Backend |-> FALSE] /\ nextId = [b \in Backend |-> 0]
    /\ pending = [b \in Backend |-> <<>>] /\ forwarded = pending /\ returning = pending
    /\ outages = 0 /\ evenAt = nextId

BalancerNext ==
    \/ \E c \in RpcClient : OnRequest(c) \/ RpcClientLeaves(c)
    \/ \E b \in Backend : BackendAnswers(b) \/ OnBackendAnswer(b) \/ BackendDownUp(b)

BalancerSpec == BalancerInit /\ [][BalancerNext]_balancerVars

\* Every message on its way has its checksum, an answer reaches the client that asked,
\* under its own id and once; and what a backend that is up was asked is still pending.
BalancerRight ==
    /\ \A b \in Backend : \A m \in ToSet(forwarded[b]) \cup ToSet(returning[b]) :
          /\ m.sum = m.id /\ m.id \in DOMAIN pending[b]
          /\ m.of = <<pending[b][m.id].client, pending[b][m.id].origId>>
    /\ \A c \in RpcClient :
          /\ \A m \in ToSet(answersOf[c]) : m.of = <<c, m.id>> /\ m.sum = m.id
          /\ Cardinality(ToSet(answersOf[c])) = Len(answersOf[c])

\* While all backends are up they are asked in turn: since the last of them came, none
\* has been given two requests more than another.
TurnsTaken ==
    (\A b \in Backend : backendUp[b])
        => \A b, d \in Backend : nextId[b] - evenAt[b] <= nextId[d] - evenAt[d] + 1
=============================================================================
