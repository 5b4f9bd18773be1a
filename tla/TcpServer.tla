------------------------------- MODULE TcpServer -------------------------------
(***************************************************************************)
(* muduo's TcpServer with its Acceptor and its EventLoopThreadPool: the map *)
(* of connections lives in the base loop (loop 0), connections live in the  *)
(* loops of the pool, and functors go between them. The server may be       *)
(* destroyed, in the base loop, with connections in any state.              *)
(***************************************************************************)
EXTENDS Integers, Sequences, FiniteSets

CONSTANTS
    Conn,     \* bound: the connections that are ever made
    MaxPool,  \* bound: threads of the pool; a server has 0 to MaxPool
    MaxFds    \* descriptors that the process may have

ASSUME PoolLimits == IsFiniteSet(Conn) /\ MaxPool \in Nat /\ MaxFds \in Nat \ {0}

VARIABLES
    pool,        \* numThreads_
    server,      \* "new", "started", "ending" in its destructor, or "gone"
    nextLoop,    \* next_
    waiting,     \* clients in the backlog of the listening socket
    idle,        \* idleFd_ is open
    others,      \* descriptors that other code has taken
    home,        \* per connection, its loop
    life,        \* per connection, state_, or "none" and "freed"
    listens,     \* connections whose channel asks for events
    connections, \* connections_
    queues,      \* per loop, the functors <<function, connection>>
    stopped,     \* loops of the pool that have ended
    misses,      \* history: removeConnectionInLoop found no entry
    astray,      \* history: a functor or a callback used a server that is gone
    halves       \* history: connections removed while their channel asked for events

serverVars == <<pool, server, nextLoop, waiting, idle, others, home, life, listens, connections,
                queues, stopped, misses, astray, halves>>
acceptor == <<waiting, idle, others>>
records == <<misses, astray, halves>>

LoopOf == 0 .. MaxPool
Up(c) == life[c] \in {"Connected", "Disconnecting"}
Made == {c \in Conn : life[c] # "none"}
Turns(l) == l \notin stopped /\ (l = 0 => server # "ending")
Fds == Cardinality({c \in Made : life[c] # "freed"}) + others + (IF idle THEN 1 ELSE 0)

-----------------------------------------------------------------------------
(* Accepting.                                                               *)

\* start(), the second time without effect: Acceptor::listen in the base loop.
ServerStart ==
    /\ server = "new" /\ server' = "started"
    /\ UNCHANGED <<pool, nextLoop, acceptor, home, life, listens, connections, queues, stopped, records>>

ClientCalls ==
    /\ server \in {"started", "ending"} /\ Cardinality(Made) + waiting < Cardinality(Conn)
    /\ waiting' = waiting + 1
    /\ UNCHANGED <<pool, server, nextLoop, idle, others, home, life, listens, connections, queues,
                   stopped, records>>

\* The faulty round robin that wraps one too late.
WrapLate(n) == IF n + 1 > pool THEN 0 ELSE n + 1

\* getNextLoop: next_ after n.
Wrap(n) == IF n + 1 >= pool THEN 0 ELSE n + 1

\* getNextLoop: the loop of the next connection.
NextLoop == IF pool = 0 THEN 0 ELSE nextLoop + 1

\* Acceptor::handleRead with newConnection.
Accept(c) ==
    /\ server = "started" /\ waiting > 0 /\ Fds < MaxFds /\ life[c] = "none"
    /\ waiting' = waiting - 1 /\ home' = [home EXCEPT ![c] = NextLoop]
    /\ nextLoop' = IF pool = 0 THEN nextLoop ELSE Wrap(nextLoop)
    /\ connections' = connections \cup {c}
    /\ IF NextLoop = 0
       THEN /\ life' = [life EXCEPT ![c] = "Connected"] /\ listens' = listens \cup {c}
            /\ UNCHANGED queues
       ELSE /\ life' = [life EXCEPT ![c] = "Connecting"]
            /\ queues' = [queues EXCEPT ![NextLoop] = Append(@, <<"connectEstablished", c>>)]
            /\ UNCHANGED listens
    /\ UNCHANGED <<pool, server, idle, others, stopped, records>>

\* The faulty answer to EMFILE that leaves the client in the backlog.
Refused == waiting

\* handleRead: the client that takes the spare descriptor is cut off.
CutOffOne == waiting - 1

\* Acceptor::handleRead with EMFILE: idleFd_ makes room to accept and close the client.
AcceptFull ==
    /\ server = "started" /\ waiting > 0 /\ Fds >= MaxFds /\ idle
    /\ waiting' = CutOffOne
    /\ UNCHANGED <<pool, server, nextLoop, idle, others, home, life, listens, connections, queues, stopped,
                   records>>

\* The same, when another thread takes the descriptor between the calls.
SpareStolen ==
    /\ server = "started" /\ waiting > 0 /\ Fds >= MaxFds /\ idle
    /\ idle' = FALSE /\ others' = others + 1
    /\ UNCHANGED <<pool, server, nextLoop, waiting, home, life, listens, connections, queues, stopped,
                   records>>

\* Acceptor::handleRead without idleFd_: a descriptor that is free becomes idleFd_.
Release ==
    /\ others > 0 /\ others' = others - 1
    /\ idle' = (idle \/ (server = "started" /\ waiting > 0))
    /\ UNCHANGED <<pool, server, nextLoop, waiting, home, life, listens, connections, queues, stopped,
                   records>>

-----------------------------------------------------------------------------
(* The life of a connection.                                                *)

\* shutdown() by the user, in the loop of the connection.
HalfClose(c) ==
    /\ life[c] = "Connected" /\ c \in listens /\ Turns(home[c])
    /\ life' = [life EXCEPT ![c] = "Disconnecting"]
    /\ UNCHANGED <<pool, server, nextLoop, acceptor, home, listens, connections, queues, stopped, records>>

\* The faulty removal that only forgets the connection.
DestroyNever(q, c) == q

\* removeConnectionInLoop: connectDestroyed is queued, even in the base loop, for c is
\* still handling an event there.
DestroyLater(q, c) == [q EXCEPT ![home[c]] = Append(@, <<"connectDestroyed", c>>)]

\* removeConnectionInLoop of c, with the queues in q.
RemoveInLoop(c, q) ==
    /\ connections' = connections \ {c}
    /\ misses' = IF c \in connections THEN misses ELSE misses + 1
    /\ queues' = DestroyLater(q, c)

\* removeConnection: whether runInLoop runs it at once.
InBase(c) == home[c] = 0

\* handleClose, with closeCallback_: removeConnection, which uses the server through a
\* raw pointer.
ConnectionCloses(c) ==
    /\ Up(c) /\ c \in listens /\ Turns(home[c])
    /\ life' = [life EXCEPT ![c] = "Disconnected"] /\ listens' = listens \ {c}
    /\ IF server = "gone" THEN astray' = TRUE /\ UNCHANGED <<connections, queues, misses>>
       ELSE /\ UNCHANGED astray
            /\ IF InBase(c) THEN RemoveInLoop(c, queues)
               ELSE /\ queues' = [queues EXCEPT ![0] = Append(@, <<"removeConnection", c>>)]
                    /\ UNCHANGED <<connections, misses>>
    /\ UNCHANGED <<pool, server, nextLoop, acceptor, home, stopped, halves>>

\* The faulty connectDestroyed that leaves a connected channel alone.
QuietNever(c) == FALSE

\* connectDestroyed: whether it still has to disable the channel.
Quiet(c) == life[c] = "Connected"

\* connectDestroyed; what refers to the connection goes.
Destroyed(c) ==
    /\ life' = [life EXCEPT ![c] = "freed"] /\ listens' = listens \ {c}
    /\ halves' = IF c \in listens /\ ~ Quiet(c) THEN halves \cup {<<c, life[c]>>} ELSE halves

\* doPendingFunctors of loop l, one at a time.
RunFunctor(l) ==
    /\ queues[l] # <<>> /\ Turns(l)
    /\ LET f == Head(queues[l]) c == f[2] rest == [queues EXCEPT ![l] = Tail(@)] IN
       \/ /\ f[1] = "connectEstablished"
          /\ life' = [life EXCEPT ![c] = "Connected"] /\ listens' = listens \cup {c}
          /\ queues' = rest /\ UNCHANGED <<connections, records>>
       \/ /\ f[1] = "removeConnection" /\ server # "gone"
          /\ RemoveInLoop(c, rest) /\ UNCHANGED <<life, listens, astray, halves>>
       \/ /\ f[1] = "removeConnection" /\ server = "gone"
          /\ astray' = TRUE /\ queues' = rest
          /\ UNCHANGED <<life, listens, connections, misses, halves>>
       \/ /\ f[1] = "connectDestroyed"
          /\ Destroyed(c) /\ queues' = rest /\ UNCHANGED <<connections, misses, astray>>
    /\ UNCHANGED <<pool, server, nextLoop, acceptor, home, stopped>>

-----------------------------------------------------------------------------
(* The end of the server.                                                   *)

\* ~TcpServer begins, in the base loop, which runs nothing else until it ends.
ServerDestroy ==
    /\ server = "started" /\ server' = "ending"
    /\ UNCHANGED <<pool, nextLoop, acceptor, home, life, listens, connections, queues, stopped, records>>

\* ~TcpServer: connectDestroyed of the next connection, in its loop: in the base loop at
\* once, as a functor in another.
DestroyNext(c) ==
    /\ server = "ending" /\ c \in connections /\ connections' = connections \ {c}
    /\ IF InBase(c) THEN Destroyed(c) /\ UNCHANGED queues
       ELSE queues' = DestroyLater(queues, c) /\ UNCHANGED <<life, listens, halves>>
    /\ UNCHANGED <<pool, server, nextLoop, acceptor, home, stopped, misses, astray>>

\* The faulty destructor that forgets the connections.
EmptiedAlways == TRUE

\* The loop of ~TcpServer has seen every connection.
Emptied == connections = {}

\* The members of the server go, the acceptor with its descriptors among them.
ServerGone ==
    /\ server = "ending" /\ Emptied
    /\ server' = "gone" /\ connections' = {} /\ waiting' = 0 /\ idle' = FALSE
    /\ UNCHANGED <<pool, nextLoop, others, home, life, listens, queues, stopped, records>>

\* ~EventLoopThread quits its loop, which may leave functors in the queue.
LoopEnds(l) ==
    /\ server = "gone" /\ l \in 1 .. pool /\ l \notin stopped
    /\ stopped' = stopped \cup {l}
    /\ UNCHANGED <<pool, server, nextLoop, acceptor, home, life, listens, connections, queues, records>>

-----------------------------------------------------------------------------
ServerInit ==
    /\ pool \in 0 .. MaxPool /\ server = "new" /\ nextLoop = 0 /\ waiting = 0 /\ idle = TRUE
    /\ others = 0 /\ home = [c \in Conn |-> 0] /\ life = [c \in Conn |-> "none"]
    /\ listens = {} /\ connections = {} /\ queues = [l \in LoopOf |-> <<>>] /\ stopped = {}
    /\ misses = 0 /\ astray = FALSE /\ halves = {}

Functors == \E l \in LoopOf : RunFunctor(l)
Accepts == AcceptFull \/ \E c \in Conn : Accept(c)
Ends == ServerGone \/ \E c \in Conn : DestroyNext(c)

ServerNext ==
    \/ Functors \/ Accepts \/ Ends \/ ServerStart \/ ClientCalls \/ SpareStolen \/ Release \/ ServerDestroy
    \/ \E c \in Conn : HalfClose(c) \/ ConnectionCloses(c)
    \/ \E l \in LoopOf : LoopEnds(l)

ServerSpec == ServerInit /\ [][ServerNext]_serverVars

\* Every loop goes on.
ServerFairness ==
    (\A l \in LoopOf : WF_serverVars(RunFunctor(l))) /\ WF_serverVars(Accepts) /\ WF_serverVars(Ends)

-----------------------------------------------------------------------------
(* Correctness.                                                             *)

\* Type invariant; while the server lives, its map holds the connections that are not
\* on their way out.
ServerTypeOK ==
    /\ pool \in 0 .. MaxPool /\ nextLoop \in 0 .. MaxPool /\ waiting \in 0 .. Cardinality(Conn)
    /\ home \in [Conn -> LoopOf] /\ connections \subseteq Conn /\ listens \subseteq Conn
    /\ idle \in BOOLEAN /\ others \in Nat
    /\ life \in [Conn -> {"none", "Connecting", "Connected", "Disconnecting", "Disconnected", "freed"}]
    /\ server = "started" => {c \in Conn : life[c] \in {"Connecting", "Connected", "Disconnecting"}}
                                \subseteq connections

\* The loops of a pool get the connections in turn: any two differ by one at most, and
\* each loop is one of the pool.
Balanced ==
    LET load(l) == Cardinality({c \in Made : home[c] = l})
        used == IF pool = 0 THEN {0} ELSE 1 .. pool
    IN  /\ \A c \in Made : home[c] \in used
        /\ \A l, k \in used : load(l) <= load(k) + 1

\* A connection is removed from the map once, by whichever of its own end and the
\* server's comes first: the assertion of removeConnectionInLoop; and with one loop no
\* callback uses a server that is gone (with a pool it may: "FIXME: unsafe").
RemovedOnce == misses = 0 /\ (pool = 0 => ~ astray)

\* A channel that is removed asks for no events, as Channel::remove asserts; but the
\* destructor forgets to disable that of a connection that was half closed.
RemovedIdle == \A h \in halves : h[2] = "Disconnecting" /\ server \in {"ending", "gone"}

\* With one loop, a server that is gone leaves no connection that could still call it.
NoneLeft == server = "gone" /\ pool = 0 => listens = {}

\* A connection that is down is freed; with a pool, as long as the server lives.
DownIsFreed ==
    \A c \in Conn : life[c] = "Disconnected" ~> (life[c] = "freed" \/ (server = "gone" /\ pool > 0))

\* With every descriptor in use, clients are cut off and not left in the backlog, where
\* they would wake the loop for ever; as long as nobody steals the spare descriptor.
NobodyWaits == waiting > 0 ~> (waiting = 0 \/ others > 0)

=============================================================================
