------------------------------ MODULE Multiplexer ------------------------------
(***************************************************************************)
(* The multiplexer and the demultiplexer of muduo's examples: many clients  *)
(* share one connection, on which every packet has the id of its client;    *)
(* packets of the id 0 say which clients come and go. The multiplexer runs  *)
(* its clients in threads or, in its simple form, in its one loop. A packet *)
(* is [id, kind, of], of a client, which comes and sends data once. Data on *)
(* the way back is passed on as it comes and is left out.                   *)
(***************************************************************************)
EXTENDS Naturals, SequencesExt, FiniteSets, TLC

CONSTANTS MuxClient, kMaxConns,
          MaxLinks   \* bound: connections to the demultiplexer

ASSUME IdsAreNumbered == kMaxConns \in Nat

VARIABLES threaded,
          muxClient,    \* [at, id, era, sent]: id is the context of the connection, 0 if empty;
                        \* era the backend connection the id is of
          availIds, clientConns,
          backend,      \* backendConn_: a connection's number, or 0
          muxLink, muxLinks,  \* the TCP connection that is up, or 0; how many there were
          toDemux, toMux, \* packets on their way
          accepted, server, \* the last connection accepted; serverConn_, or 0
          socksConns,   \* id -> [of, conn, pending]
          demuxAborted, \* an assertion of the demultiplexer failed
          stale         \* a client of an earlier backend connection touched the ids

muxVars == <<threaded, muxClient, availIds, clientConns, backend, muxLink, muxLinks, toDemux,
             toMux, accepted, server, socksConns, demuxAborted, stale>>
muxSide == <<muxClient, availIds, clientConns, backend, stale>>
demuxSide == <<accepted, server, socksConns, demuxAborted>>

Ids == 1 .. kMaxConns
Packet(id, kind, c) == [id |-> id, kind |-> kind, of |-> c]

\* sendBackendPacket: nothing without a backend; lost if the connection is.
ToBackend(p) == toDemux' = IF backend # 0 /\ backend = muxLink THEN Append(toDemux, p) ELSE toDemux

\* In the simple form nothing comes between the two halves of a callback.
Begins == threaded \/ \A c \in MuxClient : muxClient[c].at \notin {"naming", "leaving"}

Touches(c) == stale' = (stale \/ (backend # 0 /\ muxClient[c].era # backend))

Without(f, keys) == [k \in DOMAIN f \ keys |-> f[k]]

\* onClientConnection: an id is taken under the lock, the demultiplexer told after it.
ClientUp(c) ==
    /\ muxClient[c].at = "away" /\ Begins
    /\ IF availIds = <<>>
         THEN /\ muxClient' = [muxClient EXCEPT ![c].at = "shut"]
              /\ UNCHANGED <<availIds, clientConns>>
         ELSE /\ muxClient' = [muxClient EXCEPT ![c] =
                                  [at |-> "naming", id |-> Head(availIds), era |-> backend, sent |-> FALSE]]
              /\ availIds' = Tail(availIds)
              /\ clientConns' = (Head(availIds) :> c) @@ clientConns
    /\ UNCHANGED <<threaded, backend, muxLink, muxLinks, toDemux, toMux, demuxSide, stale>>

SayUp(c) ==
    /\ muxClient[c].at = "naming"
    /\ ToBackend(Packet(0, "up", [client |-> c, id |-> muxClient[c].id]))
    /\ Touches(c) /\ muxClient' = [muxClient EXCEPT ![c].at = "open"]
    /\ UNCHANGED <<threaded, availIds, clientConns, backend, muxLink, muxLinks, toMux, demuxSide>>

\* onClientMessage; without an id the data is thrown away.
ClientData(c) ==
    /\ muxClient[c].at = "open" /\ ~muxClient[c].sent /\ Begins
    /\ ToBackend(Packet(muxClient[c].id, "data", c)) /\ Touches(c)
    /\ muxClient' = [muxClient EXCEPT ![c].sent = TRUE]
    /\ UNCHANGED <<threaded, availIds, clientConns, backend, muxLink, muxLinks, toMux,
                   demuxSide>>

\* The client's connection goes down: the demultiplexer is told, then the id is free.
\* Code that gives the id back first.
FreesFirst == <<"free", "say">>
SaysFirst == <<"say", "free">>

Leave(c, half) ==
    IF half = "say"
      THEN /\ ToBackend(Packet(0, "down", [client |-> c, id |-> muxClient[c].id]))
           /\ UNCHANGED <<availIds, clientConns>>
      ELSE /\ IF backend # 0
                THEN /\ availIds' = Append(availIds, muxClient[c].id)
                     /\ clientConns' = Without(clientConns, {muxClient[c].id})
                ELSE UNCHANGED <<availIds, clientConns>>
           /\ UNCHANGED toDemux

ClientDown(c) ==
    /\ muxClient[c].at \in {"open", "shut"} /\ Begins
    /\ IF muxClient[c].id = 0
         THEN /\ muxClient' = [muxClient EXCEPT ![c].at = "gone"]
              /\ UNCHANGED <<toDemux, availIds, clientConns, stale>>
         ELSE /\ muxClient' = [muxClient EXCEPT ![c].at = "leaving"]
              /\ Leave(c, SaysFirst[1]) /\ Touches(c)
    /\ UNCHANGED <<threaded, backend, muxLink, muxLinks, toMux, demuxSide>>

ClientLeaves(c) ==
    /\ muxClient[c].at = "leaving" /\ Leave(c, SaysFirst[2]) /\ Touches(c)
    /\ muxClient' = [muxClient EXCEPT ![c] = [at |-> "gone", id |-> 0, era |-> 0, sent |-> FALSE]]
    /\ UNCHANGED <<threaded, backend, muxLink, muxLinks, toMux, demuxSide>>

\* onBackendConnection; enableRetry() lets the client connect again, to a demultiplexer
\* that runs.
BackendUp ==
    /\ backend = 0 /\ ~demuxAborted /\ muxLinks < MaxLinks /\ Begins
    /\ muxLinks' = muxLinks + 1 /\ muxLink' = muxLinks' /\ backend' = muxLinks'
    /\ availIds' = availIds \o [i \in Ids |-> i]
    /\ UNCHANGED <<threaded, muxClient, clientConns, toDemux, toMux, demuxSide, stale>>

BackendDown ==
    /\ backend \notin {0, muxLink} /\ Begins /\ backend' = 0
    /\ availIds' = <<>> /\ clientConns' = <<>>
    /\ muxClient' = [c \in MuxClient |->
          IF muxClient[c].at = "open" /\ c \in {clientConns[i] : i \in DOMAIN clientConns}
          THEN [muxClient[c] EXCEPT !.at = "shut"] ELSE muxClient[c]]
    /\ UNCHANGED <<threaded, muxLink, muxLinks, toDemux, toMux, demuxSide, stale>>

LinkBreaks ==
    /\ muxLink # 0 /\ muxLink' = 0 /\ toDemux' = <<>> /\ toMux' = <<>>
    /\ UNCHANGED <<threaded, muxSide, muxLinks, demuxSide>>

\* sendToClient: the simple form heeds the commands of the id 0, the other drops them,
\* for no client has that id.
MuxPacket ==
    LET p == Head(toMux)
    IN /\ backend # 0 /\ backend = muxLink /\ toMux # <<>> /\ toMux' = Tail(toMux) /\ Begins
       /\ muxClient' = IF ~threaded /\ p.of.id \in DOMAIN clientConns
                         THEN [muxClient EXCEPT ![clientConns[p.of.id]].at = "shut"] ELSE muxClient
       /\ UNCHANGED <<threaded, availIds, clientConns, backend, muxLink, muxLinks, toDemux, demuxSide, stale>>

(***************************************************************************)
(* The demultiplexer.                                                       *)
(***************************************************************************)
\* onServerConnection: a second connection is shut down, but its packets are read.
ServerUp ==
    /\ muxLink # 0 /\ accepted < muxLink /\ ~demuxAborted /\ accepted' = muxLink
    /\ server' = IF server = 0 THEN muxLink ELSE server
    /\ UNCHANGED <<threaded, muxSide, muxLink, muxLinks, toDemux, toMux, socksConns, demuxAborted>>

\* The TcpClients go with their entries; one that is connected is closed, and its
\* connection callback looks for the entry.
ServerDown ==
    /\ server \notin {0, muxLink} /\ ~demuxAborted
    /\ server' = 0 /\ socksConns' = <<>>
    /\ demuxAborted' = \E i \in DOMAIN socksConns : socksConns[i].conn = "up"
    /\ UNCHANGED <<threaded, muxSide, muxLink, muxLinks, toDemux, toMux, accepted>>

\* doCommand and data: connected entries send it, others keep it until they are.
Obeyed(p, id) ==
    CASE p.kind = "up" -> (id :> [of |-> p.of.client, conn |-> "none", pending |-> <<>>]) @@ socksConns
      [] p.kind = "down" -> IF socksConns[id].conn = "none" THEN Without(socksConns, {id}) ELSE socksConns
      [] OTHER -> IF socksConns[id].conn = "none"
                    THEN [socksConns EXCEPT ![id].pending = Append(@, p.of)] ELSE socksConns

DemuxPacket ==
    LET p == Head(toDemux)
        id == IF p.id = 0 THEN p.of.id ELSE p.id
    IN /\ muxLink # 0 /\ accepted = muxLink /\ ~demuxAborted /\ toDemux # <<>> /\ toDemux' = Tail(toDemux)
       /\ demuxAborted' = (p.kind = "up" <=> id \in DOMAIN socksConns)
       /\ socksConns' = IF demuxAborted' THEN socksConns ELSE Obeyed(p, id)
       /\ UNCHANGED <<threaded, muxSide, muxLink, muxLinks, toMux, accepted, server>>

\* onSocksConnection: up, with what was pending sent; down, the entry stays while there
\* is a server connection to say so to.
SocksUp(i) ==
    /\ socksConns[i].conn = "none" /\ ~demuxAborted
    /\ socksConns' = [socksConns EXCEPT ![i].conn = "up", ![i].pending = <<>>]
    /\ UNCHANGED <<threaded, muxSide, muxLink, muxLinks, toDemux, toMux, accepted, server, demuxAborted>>

ToServer(p) == toMux' = IF server # 0 /\ server = muxLink THEN Append(toMux, p) ELSE toMux

SocksDown(i) ==
    /\ socksConns[i].conn = "up" /\ ~demuxAborted
    /\ IF server # 0 THEN socksConns' = [socksConns EXCEPT ![i].conn = "down"]
                          /\ ToServer(Packet(0, "disconnect", [client |-> socksConns[i].of, id |-> i]))
       ELSE socksConns' = Without(socksConns, {i}) /\ UNCHANGED toMux
    /\ UNCHANGED <<threaded, muxSide, muxLink, muxLinks, toDemux, accepted, server, demuxAborted>>

MuxInit ==
    /\ threaded \in BOOLEAN /\ muxClient = [c \in MuxClient |-> [at |-> "away", id |-> 0, era |-> 0, sent |-> FALSE]]
    /\ availIds = <<>> /\ clientConns = <<>> /\ backend = 0 /\ muxLink = 0 /\ muxLinks = 0
    /\ toDemux = <<>> /\ toMux = <<>> /\ accepted = 0 /\ server = 0 /\ socksConns = <<>>
    /\ demuxAborted = FALSE /\ stale = FALSE

MuxNext ==
    \/ \E c \in MuxClient : ClientUp(c) \/ SayUp(c) \/ ClientData(c) \/ ClientDown(c) \/ ClientLeaves(c)
    \/ BackendUp \/ BackendDown \/ LinkBreaks \/ MuxPacket
    \/ ServerUp \/ ServerDown \/ DemuxPacket
    \/ \E i \in DOMAIN socksConns : SocksUp(i) \/ SocksDown(i)

-----------------------------------------------------------------------------
Has(c, i) == muxClient[c].id = i /\ muxClient[c].era = backend

\* Until a client that has its id from a lost backend connection touches the ids again
\* (multiplexer.cc:186 gives such an id back, though it is free already or another's):
\* an id is free or of one client, and what is on its way or pending under an id comes
\* from the client that the demultiplexer was told of (multiplexer.cc:153, 170, 182).
IdsRight == backend # 0 /\ ~stale =>
    /\ IsInjective(availIds) /\ ToSet(availIds) \cap DOMAIN clientConns = {}
    /\ \A i \in DOMAIN clientConns : Has(clientConns[i], i)
    /\ \A c, d \in MuxClient : c # d /\ Has(c, muxClient[d].id) /\ Has(d, muxClient[d].id) /\ muxClient[d].id # 0
          => "leaving" \in {muxClient[c].at, muxClient[d].at}

\* Nor does an assertion of the demultiplexer fail before an id is used again, when the
\* entry of its last client is still there (demux.cc:128, 174), or before the server
\* connection is lost with clients on it (demux.cc:74, 159);
\* and what is pending in an entry is of its client.
PacketsRight == ~stale /\ muxLinks <= 1 =>
    /\ \A i \in DOMAIN socksConns : \A k \in DOMAIN socksConns[i].pending :
          socksConns[i].pending[k] = socksConns[i].of
    /\ demuxAborted => server = 0 \/ \E i \in DOMAIN socksConns : socksConns[i].conn # "none"
=============================================================================
