------------------------------ MODULE Connections ------------------------------
(***************************************************************************)
(* The connections of ulordcenter: CUCenter::onConnection and onTimer with  *)
(* what TcpServer, TcpConnection and EventLoop of muduo do around them.     *)
(* A loop runs one callback at a time: work[t] is what is left of it, cut   *)
(* where another thread may come between; queue[t] is pendingFunctors_.     *)
(* After undefined behaviour the model takes no further step.               *)
(***************************************************************************)
EXTENDS Integers, SequencesExt

CONSTANTS
    Conn,        \* the connections that will ever be made
    Arrivals,    \* bound: which of them, for each value of -thread
    Base,        \* the thread of main(): acceptor and onTimer
    IoThread,    \* the threads of the pool, if there is one
    IdleSeconds, \* idleSeconds_
    MaxStepped,  \* bound: how far the clock is set back in all
    None         \* end(), and no loop yet

ASSUME ThreadAssumption == Base \notin IoThread /\ IoThread # {}
ASSUME ArrivalAssumption == \A n \in DOMAIN Arrivals : n \in Int /\ Arrivals[n] \subseteq Conn
ASSUME IdleAssumption == IdleSeconds \in Nat /\ MaxStepped \in Nat
ASSUME NoConnAssumption == None \notin Conn

VARIABLES
    thread,   \* -thread
    loop,     \* loop_ of the connection
    state,    \* state_; "none" before the connection is made
    open,     \* its channel is enabled
    context,  \* setContext has been called
    age,      \* seconds since lastReceiveTime, counted up to AgeLimit
    list,     \* connectionList_
    inServer, \* connections_ of the TcpServer holds it
    force,    \* a forceClose timer of it is pending
    cut,      \* the codec has shut it down
    stepped,  \* how far the clock has been set back
    work,     \* what is left of the callback the thread is in
    queue     \* pendingFunctors_ of the thread's loop

config == <<thread, loop>>
entries == <<context, age, list>>
threads == <<work, queue>>
connVars == <<config, state, open, entries, inServer, force, cut, stepped, threads>>

Thread == {Base} \cup IoThread
AgeLimit == IdleSeconds + MaxStepped + 1
State == {"none", "Connecting", "Connected", "Disconnecting", "Disconnected"}
Up == {"Connected", "Disconnecting"}

\* The steps of callbacks, each about one connection.
ListOps == {"look", "next", "enlist", "erase"}
Ops == ListOps \cup {"connectEstablished", "onConnection", "setContext", "shutdown",
                     "delay", "delaySet", "shutdownInLoop", "forceCloseInLoop",
                     "handleClose", "removeConnection", "removeConnectionInLoop",
                     "connectDestroyed"}
Op(name, c) == [op |-> name, conn |-> c]
Idle(t) == work[t] = <<>>
At(t, name, c) == ~ Idle(t) /\ Head(work[t]) = Op(name, c)
Pending == UNION {ToSet(work[t]) \cup ToSet(queue[t]) : t \in Thread}

\* shutdownInLoop is bound to a raw this, and an iterator holds nothing.
Alive(c) ==
    \/ inServer[c]
    \/ \E o \in Pending : o.conn = c /\ o.op \notin {"shutdownInLoop", "look"}

\* -thread of 1 or less leaves the pool empty, and getNextLoop returns loop_.
Pooled == thread > 1
Loops == IF Pooled THEN IoThread ELSE {Base}

\* Where the entry of c is, which the iterators say.
Position(c) == CHOOSE i \in DOMAIN list : list[i] = c

\* The entry after that of c, or end().
After(c) == IF Position(c) = Len(list) THEN None ELSE list[Position(c) + 1]

-----------------------------------------------------------------------------
(* Undefined behaviour.                                                     *)

\* Two threads are about to use connectionList_, which no lock protects.
ListRace ==
    \E s, t \in Thread :
        /\ s # t /\ ~ Idle(s) /\ ~ Idle(t)
        /\ Head(work[s]).op \in ListOps
        /\ Head(work[t]).op \in ListOps

\* A position whose entry is gone is used, or an entry whose context is not set.
Dangling ==
    \E t \in Thread, c \in Conn :
        \/ /\ At(t, "look", c) \/ At(t, "next", c) \/ At(t, "erase", c)
           /\ c \notin ToSet(list)
        \/ At(t, "look", c) /\ Alive(c) /\ ~ context[c]

Undefined == ListRace \/ Dangling

-----------------------------------------------------------------------------
(* Callbacks and functors.                                                  *)

\* Thread t goes on with ops before what was left of its callback.
Continue(t, ops) == work' = [work EXCEPT ![t] = ops \o Tail(@)]

\* runInLoop of loop l, called by t: at once in its own thread.
RunInLoop(t, l, o) ==
    IF t = l THEN Continue(t, <<o>>) /\ UNCHANGED queue
             ELSE Continue(t, <<>>) /\ queue' = [queue EXCEPT ![l] = Append(@, o)]

\* doPendingFunctors: the next functor.
Take(t) ==
    /\ Idle(t) /\ queue[t] # <<>>
    /\ work' = [work EXCEPT ![t] = <<Head(queue[t])>>]
    /\ queue' = [queue EXCEPT ![t] = Tail(@)]
    /\ UNCHANGED <<config, state, open, entries, inServer, force, cut, stepped>>

\* newConnection: the acceptor has a socket, and a loop is chosen for it.
NewConnection(c, l) ==
    /\ Idle(Base) /\ c \in Arrivals[thread] /\ state[c] = "none" /\ l \in Loops
    /\ loop' = [loop EXCEPT ![c] = l]
    /\ state' = [state EXCEPT ![c] = "Connecting"]
    /\ inServer' = [inServer EXCEPT ![c] = TRUE]
    /\ LET o == Op("connectEstablished", c) IN
       IF l = Base THEN work' = [work EXCEPT ![Base] = <<o>>] /\ UNCHANGED queue
                   ELSE queue' = [queue EXCEPT ![l] = Append(@, o)] /\ UNCHANGED work
    /\ UNCHANGED <<thread, open, entries, force, cut, stepped>>

ConnectEstablished(t, c) ==
    /\ At(t, "connectEstablished", c)
    /\ state' = [state EXCEPT ![c] = "Connected"]
    /\ open' = [open EXCEPT ![c] = TRUE]
    /\ Continue(t, <<Op("onConnection", c)>>)
    /\ UNCHANGED <<config, entries, inServer, force, cut, stepped, queue>>

\* onConnection: whether the connection is up, and the time of a new entry.
OnConnection(t, c) ==
    /\ At(t, "onConnection", c)
    /\ IF state[c] = "Connected"
          THEN /\ age' = [age EXCEPT ![c] = 0]
               /\ Continue(t, <<Op("enlist", c), Op("setContext", c)>>)
          ELSE Continue(t, <<Op("erase", c)>>) /\ UNCHANGED age
    /\ UNCHANGED <<config, state, open, context, list, inServer, force, cut, stepped, queue>>

\* push_back, and the position of the new entry.
Enlist(t, c) ==
    /\ At(t, "enlist", c)
    /\ list' = Append(list, c)
    /\ Continue(t, <<>>)
    /\ UNCHANGED <<config, state, open, context, age, inServer, force, cut, stepped, queue>>

SetContext(t, c) ==
    /\ At(t, "setContext", c)
    /\ context' = [context EXCEPT ![c] = TRUE]
    /\ Continue(t, <<>>)
    /\ UNCHANGED <<config, state, open, age, list, inServer, force, cut, stepped, queue>>

EraseEntry(t, c) ==
    /\ At(t, "erase", c)
    /\ list' = RemoveAt(list, Position(c))
    /\ age' = [age EXCEPT ![c] = 0]
    /\ Continue(t, <<>>)
    /\ UNCHANGED <<config, state, open, context, inServer, force, cut, stepped, queue>>

-----------------------------------------------------------------------------
(* Closing: handleClose, and what follows it in both loops.                 *)

\* The peer closes: handleRead reads 0 bytes.
PeerCloses(c) ==
    /\ open[c] /\ Idle(loop[c])
    /\ work' = [work EXCEPT ![loop[c]] = <<Op("handleClose", c)>>]
    /\ UNCHANGED <<config, state, open, entries, inServer, force, cut, stepped, queue>>

\* The faulty handleClose that leaves the channel enabled.
CloseStillReading(t, c) ==
    /\ At(t, "handleClose", c)
    /\ state' = [state EXCEPT ![c] = "Disconnected"]
    /\ Continue(t, <<Op("onConnection", c), Op("removeConnection", c)>>)
    /\ UNCHANGED <<config, open, entries, inServer, force, cut, stepped, queue>>

HandleClose(t, c) ==
    /\ At(t, "handleClose", c)
    /\ state' = [state EXCEPT ![c] = "Disconnected"]
    /\ open' = [open EXCEPT ![c] = FALSE]
    /\ Continue(t, <<Op("onConnection", c), Op("removeConnection", c)>>)
    /\ UNCHANGED <<config, entries, inServer, force, cut, stepped, queue>>

\* The closeCallback goes through the base loop.
RemoveConnection(t, c) ==
    /\ At(t, "removeConnection", c)
    /\ RunInLoop(t, Base, Op("removeConnectionInLoop", c))
    /\ UNCHANGED <<config, state, open, entries, inServer, force, cut, stepped>>

\* The faulty removal that does not wait for what the loop has pending.
RemoveAtOnce(t, c) ==
    /\ At(t, "removeConnectionInLoop", c)
    /\ inServer' = [inServer EXCEPT ![c] = FALSE]
    /\ Continue(t, <<>>)
    /\ UNCHANGED <<config, state, open, entries, force, cut, stepped, queue>>

\* The server lets go of it; the last reference goes with connectDestroyed.
RemoveConnectionInLoop(t, c) ==
    /\ At(t, "removeConnectionInLoop", c)
    /\ inServer' = [inServer EXCEPT ![c] = FALSE]
    /\ Continue(t, <<>>)
    /\ queue' = [queue EXCEPT ![loop[c]] = Append(@, Op("connectDestroyed", c))]
    /\ UNCHANGED <<config, state, open, entries, force, cut, stepped>>

\* Steps that change nothing here: the half-close of the socket, and the removal
\* of a channel that is disabled already.
Nothing(t, c) ==
    /\ At(t, "shutdownInLoop", c) \/ At(t, "connectDestroyed", c)
    /\ Continue(t, <<>>)
    /\ UNCHANGED <<config, state, open, entries, inServer, force, cut, stepped, queue>>

-----------------------------------------------------------------------------
(* Shutting down: by the codec, by onTimer, by force.                       *)

\* The codec meets an invalid length and calls shutdown in the connection's loop.
InvalidLength(c) ==
    /\ open[c] /\ state[c] = "Connected" /\ Idle(loop[c])
    /\ work' = [work EXCEPT ![loop[c]] = <<Op("shutdown", c)>>]
    /\ cut' = [cut EXCEPT ![c] = TRUE]
    /\ UNCHANGED <<config, state, open, entries, inServer, force, stepped, queue>>

\* shutdown, after its test of state_.
Shutdown(t, c) ==
    /\ At(t, "shutdown", c)
    /\ state' = [state EXCEPT ![c] = "Disconnecting"]
    /\ RunInLoop(t, loop[c], Op("shutdownInLoop", c))
    /\ UNCHANGED <<config, open, entries, inServer, force, cut, stepped>>

\* The faulty delay that shuts down and leaves the rest to the peer.
DelayForgotten(t, c) ==
    /\ At(t, "delay", c)
    /\ Continue(t, <<>>)
    /\ UNCHANGED <<config, state, open, entries, inServer, force, cut, stepped, queue>>

\* forceCloseWithDelay: the test of state_.
Delay(t, c) ==
    /\ At(t, "delay", c)
    /\ Continue(t, IF state[c] \in Up THEN <<Op("delaySet", c)>> ELSE <<>>)
    /\ UNCHANGED <<config, state, open, entries, inServer, force, cut, stepped, queue>>

\* The faulty step that closes at once, under the feet of the walk.
CloseInWalk(t, c) ==
    /\ At(t, "delaySet", c)
    /\ Continue(t, <<Op("handleClose", c)>>)
    /\ UNCHANGED <<config, state, open, entries, inServer, force, cut, stepped, queue>>

\* forceCloseWithDelay: the timer, with a weak reference.
DelaySet(t, c) ==
    /\ At(t, "delaySet", c)
    /\ state' = [state EXCEPT ![c] = "Disconnecting"]
    /\ force' = [force EXCEPT ![c] = TRUE]
    /\ Continue(t, <<>>)
    /\ UNCHANGED <<config, open, entries, inServer, cut, stepped, queue>>

\* The timer: forceClose, if the connection is still there.
ForceClose(c) ==
    /\ force[c] /\ Idle(loop[c])
    /\ force' = [force EXCEPT ![c] = FALSE]
    /\ IF Alive(c) /\ state[c] \in Up
          THEN /\ state' = [state EXCEPT ![c] = "Disconnecting"]
               /\ queue' = [queue EXCEPT ![loop[c]] = Append(@, Op("forceCloseInLoop", c))]
          ELSE UNCHANGED <<state, queue>>
    /\ UNCHANGED <<config, open, entries, inServer, cut, stepped, work>>

ForceCloseInLoop(t, c) ==
    /\ At(t, "forceCloseInLoop", c)
    /\ Continue(t, IF state[c] \in Up THEN <<Op("handleClose", c)>> ELSE <<>>)
    /\ UNCHANGED <<config, state, open, entries, inServer, force, cut, stepped, queue>>

-----------------------------------------------------------------------------
(* onTimer, in the base loop: the walk over connectionList_.                *)

OnTimer ==
    /\ Idle(Base)
    /\ work' = [work EXCEPT ![Base] =
                    <<Op("look", IF list = <<>> THEN None ELSE Head(list))>>]
    /\ UNCHANGED <<config, state, open, entries, inServer, force, cut, stepped, queue>>

WalkEnds == At(Base, "look", None) /\ Continue(Base, <<>>) /\ UNCHANGED <<age, list>>

\* The faulty walk that ends at the first entry it has dealt with before.
CutOffFirst(c) == IF state[c] = "Connected"
                     THEN <<Op("shutdown", c), Op("delay", c), Op("next", c)>>
                     ELSE <<>>

\* What the walk does about an idle entry.
CutOff(c) == IF state[c] = "Connected"
                THEN <<Op("shutdown", c), Op("delay", c), Op("next", c)>>
                ELSE <<Op("next", c)>>

\* One entry: expired, idle, from the future, or young, which ends the walk.
WalkEntry(c) ==
    /\ At(Base, "look", c)
    /\ IF ~ Alive(c)
          THEN /\ list' = RemoveAt(list, Position(c))
               /\ Continue(Base, <<Op("look", After(c))>>)
               /\ UNCHANGED age
          ELSE /\ Continue(Base, IF age[c] > IdleSeconds THEN CutOff(c)
                                 ELSE IF age[c] < 0 THEN <<Op("next", c)>> ELSE <<>>)
               /\ age' = [age EXCEPT ![c] = IF @ < 0 THEN 0 ELSE @]
               /\ UNCHANGED list

WalkNext(c) ==
    /\ At(Base, "next", c)
    /\ Continue(Base, <<Op("look", After(c))>>)
    /\ UNCHANGED <<age, list>>

WalkStep ==
    /\ WalkEnds \/ \E c \in Conn : WalkEntry(c) \/ WalkNext(c)
    /\ UNCHANGED <<config, state, open, context, inServer, force, cut, stepped, queue>>

\* The clock, for the connections that have a time; the walk takes none.
Timed == {c \in Conn : c \in ToSet(list) \/ state[c] = "Connected"}
Walking == ~ Idle(Base) /\ Last(work[Base]).op \in {"look", "next"}

Tick ==
    /\ ~ Walking
    /\ age' = [c \in Conn |-> IF c \in Timed /\ age[c] < AgeLimit THEN age[c] + 1
                                                                  ELSE age[c]]
    /\ UNCHANGED <<config, state, open, context, list, inServer, force, cut, stepped, threads>>

StepBack ==
    /\ ~ Walking /\ stepped < MaxStepped
    /\ stepped' = stepped + 1
    /\ age' = [c \in Conn |-> IF c \in Timed THEN age[c] - 1 ELSE age[c]]
    /\ UNCHANGED <<config, state, open, context, list, inServer, force, cut, threads>>

-----------------------------------------------------------------------------
ConnInit ==
    /\ thread \in DOMAIN Arrivals
    /\ loop = [c \in Conn |-> None]
    /\ state = [c \in Conn |-> "none"]
    /\ open = [c \in Conn |-> FALSE]
    /\ context = [c \in Conn |-> FALSE]
    /\ age = [c \in Conn |-> 0]
    /\ list = <<>>
    /\ inServer = [c \in Conn |-> FALSE]
    /\ force = [c \in Conn |-> FALSE]
    /\ cut = [c \in Conn |-> FALSE]
    /\ stepped = 0
    /\ work = [t \in Thread |-> <<>>]
    /\ queue = [t \in Thread |-> <<>>]

\* The next step of the callback thread t is in.
Callback(t, c) ==
    \/ ConnectEstablished(t, c) \/ OnConnection(t, c) \/ Enlist(t, c) \/ SetContext(t, c)
    \/ EraseEntry(t, c) \/ HandleClose(t, c) \/ RemoveConnection(t, c)
    \/ RemoveConnectionInLoop(t, c) \/ Nothing(t, c) \/ Shutdown(t, c) \/ Delay(t, c)
    \/ DelaySet(t, c) \/ ForceCloseInLoop(t, c)

Works(t) == ~ Undefined /\ ((\E c \in Conn : Callback(t, c)) \/ (t = Base /\ WalkStep))
Takes(t) == ~ Undefined /\ Take(t)
Times    == ~ Undefined /\ OnTimer
Forces(c) == ~ Undefined /\ ForceClose(c)
Ticks    == ~ Undefined /\ Tick

\* What clients, the network and the administrator of the clock do.
Outside ==
    /\ ~ Undefined
    /\ \/ StepBack
       \/ \E c \in Conn : PeerCloses(c) \/ InvalidLength(c) \/ \E l \in Loops : NewConnection(c, l)

ConnNext ==
    \/ Times \/ Ticks \/ Outside
    \/ \E t \in Thread : Works(t) \/ Takes(t)
    \/ \E c \in Conn : Forces(c)

ConnSpec == ConnInit /\ [][ConnNext]_connVars

\* The base loop finishes its callbacks, and gets round to its timers and functors
\* whatever else it is given to do; between two passes of onTimer time goes on.
ConnFairness ==
    /\ SF_connVars(Ticks) /\ SF_connVars(Times)
    /\ WF_connVars(Works(Base)) /\ SF_connVars(Takes(Base))
    /\ \A c \in Conn : SF_connVars(Forces(c))

ConnFairSpec == ConnSpec /\ ConnFairness

-----------------------------------------------------------------------------
(* Correctness.                                                             *)

\* Type invariant; a channel that may call back belongs to a connection that the
\* server holds and that has a loop.
ConnTypeOK ==
    /\ thread \in DOMAIN Arrivals
    /\ loop \in [Conn -> Thread \cup {None}]
    /\ state \in [Conn -> State]
    /\ open \in [Conn -> BOOLEAN] /\ context \in [Conn -> BOOLEAN]
    /\ age \in [Conn -> - MaxStepped .. AgeLimit]
    /\ list \in Seq(Conn) /\ IsInjective(list)
    /\ inServer \in [Conn -> BOOLEAN] /\ force \in [Conn -> BOOLEAN]
    /\ cut \in [Conn -> BOOLEAN]
    /\ stepped \in 0 .. MaxStepped
    /\ \A c \in Conn : open[c] => inServer[c] /\ loop[c] \in Loops
    /\ \A t \in Thread :
          /\ work[t] \in Seq([op : Ops, conn : Conn \cup {None}])
          /\ queue[t] \in Seq([op : Ops, conn : Conn])

\* shutdown binds shutdownInLoop to a raw this (TcpConnection.cc asks in a FIXME
\* whether that is right): it never runs on a connection that is gone, because the
\* last reference waits behind it in the same queue.
RawThisLive ==
    \A o \in Pending : o.op = "shutdownInLoop" => Alive(o.conn)

\* With the pool empty everything happens in one loop, and what connectionList_
\* and the weak references rest on is true: no undefined behaviour, no entry of a
\* connection that is gone, nothing closed twice, nothing destroyed while open.
SingleLoopSafe ==
    ~ Pooled =>
        /\ ~ Undefined
        /\ \A c \in ToSet(list) : Alive(c)
        /\ \A c \in Conn :
              /\ At(Base, "handleClose", c) => state[c] \in Up
              /\ At(Base, "removeConnectionInLoop", c) => inServer[c]
              /\ ~ Alive(c) => state[c] \in {"none", "Disconnected"}

\* The step ends a pass of onTimer, at a young entry or at the end of the list.
PassEnds ==
    /\ ~ Idle(Base) /\ Head(work[Base]).op = "look" /\ work'[Base] = <<>>

\* onTimer stops at the first young entry, although a clock that was set back
\* leaves the list out of order: what it skips for that reason is at most as much
\* too old as the clock was set back.
IdleCut ==
    [][~ Pooled /\ PassEnds =>
         \A c \in ToSet(list) :
            state[c] = "Connected" => age[c] <= IdleSeconds + stepped]_connVars

Gone(c) == state[c] # "none" /\ ~ Alive(c) /\ c \notin ToSet(list)

\* A connection goes away in the end, however silent the peer, unless the codec
\* has shut it down: onTimer then takes it for one it has dealt with already.
EventuallyGone ==
    \A c \in Conn : (~ Pooled /\ state[c] = "Connected") ~> (Gone(c) \/ cut[c])

\* README.md of ulordcenter documents "thread : the server thread number, default
\* is 2": with that many, no two threads are in connectionList_ at once.
ListUnshared == ~ ListRace

\* What holds of the connections and the functors that refer to them.
ConnectionsSafe == ConnTypeOK /\ RawThisLive /\ SingleLoopSafe

=============================================================================
