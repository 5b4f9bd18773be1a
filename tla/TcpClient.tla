------------------------------- MODULE TcpClient -------------------------------
(***************************************************************************)
(* muduo's TcpClient and its Connector: attempts, retries with a growing    *)
(* delay, stop() and disconnect() from another thread while an attempt is   *)
(* under way, and the destructor, called in the loop. connect() is called   *)
(* once, as startInLoop asserts: a Connector that has connected or is about *)
(* to retry may not be started again.                                       *)
(***************************************************************************)
EXTENDS Integers, Sequences

CONSTANTS
    MaxDelay,  \* kMaxRetryDelayMs, where kInitRetryDelayMs is 1
    MaxFailed, \* bound: attempts that fail
    MaxClosed  \* bound: connections that the peer closes

ASSUME DelayLimits == MaxDelay \in Nat \ {0} /\ MaxFailed \in Nat /\ MaxClosed \in Nat

VARIABLES
    user,     \* what was called last: "new", "connect", "disconnect", "stop", "destroy"
    retries,  \* retry_
    wants,    \* connect_ of the client
    connect,  \* connect_ of the connector
    cstate,   \* state_ of the connector
    chan,     \* channel_: "none", "live", or "removed" until resetChannel
    timers,   \* retry timers that are pending, with the delay of each
    delay,    \* retryDelayMs_
    jobs,     \* pendingFunctors_
    left,     \* how many of them this round still runs; 0 among events
    conn,     \* connection_: "none", "up", "down" when shutdown() was called
    failed, closed, \* history: attempts and connections that failed
    again,    \* handleEvent has run handleError and has handleWrite to run
    gaveUp,   \* history: connect gave up
    cut,      \* history: disconnect() has shut a connection down
    dangling  \* history: a callback used the client after its destructor

clientVars == <<user, retries, wants, connect, cstate, chan, timers, delay, jobs, left, conn,
                failed, closed, again, gaveUp, cut, dangling>>
attempt == <<cstate, chan, timers, delay>>
ended == <<gaveUp, cut, dangling>>
counts == <<failed, closed, again, ended>>
calls == <<user, retries, wants, connect>>

\* The faulty delay that grows without a limit.
DoubledAlways(d) == 2 * d

\* retry: the next delay.
Doubled(d) == IF 2 * d < MaxDelay THEN 2 * d ELSE MaxDelay

\* The client has not been destroyed.
Alive == user # "destroy"

-----------------------------------------------------------------------------
(* Connector. Each operator says what becomes of the attempt.               *)

\* The faulty retry that gives up at the longest delay.
RetriesForAWhile(d) == connect /\ d < MaxDelay

\* retry: whether a timer is set.
Retries(d) == connect

\* retry
Retry(d) ==
    /\ cstate' = "Disconnected"
    /\ IF Retries(d) THEN timers' = Append(timers, d) /\ delay' = Doubled(d)
                  ELSE timers' = timers /\ delay' = d

\* The faulty startInLoop of a timer that was not cancelled.
StartsAlways(on) == TRUE

\* startInLoop: whether to connect.
Starts(on) == on

\* startInLoop and connect, while the timers in pending wait: the socket is
\* connecting, or fails at once, or with an error after which connect gives up.
Start(on, pending, d) ==
    \/ /\ ~ Starts(on)
       /\ timers' = pending /\ delay' = d /\ UNCHANGED <<cstate, chan, failed, gaveUp>>
    \/ /\ Starts(on) /\ cstate' = "Connecting" /\ chan' = "live"
       /\ timers' = pending /\ delay' = d /\ UNCHANGED <<failed, gaveUp>>
    \/ /\ Starts(on) /\ failed < MaxFailed /\ failed' = failed + 1 /\ cstate' = "Disconnected"
       /\ \/ /\ timers' = Append(pending, d) /\ delay' = Doubled(d) /\ UNCHANGED gaveUp
          \/ /\ timers' = pending /\ delay' = d /\ gaveUp' = TRUE
       /\ UNCHANGED chan

\* The events of one poll; an event that was set up in this iteration comes later.
Event == ~ again /\ left = 0 /\ "resetChannel" \notin {jobs[i] : i \in DOMAIN jobs}

\* A retry timer expires.
RetryTimer ==
    /\ Event /\ timers # <<>>
    /\ Start(connect, Tail(timers), delay)
    /\ UNCHANGED <<calls, jobs, left, conn, closed, again, cut, dangling>>

\* handleWrite with an error or a self connect, or handleError; the events may make
\* handleEvent run handleWrite after handleError.
AttemptFails ==
    /\ Event /\ cstate = "Connecting" /\ failed < MaxFailed
    /\ failed' = failed + 1 /\ again' \in BOOLEAN
    /\ chan' = "removed" /\ jobs' = Append(jobs, "resetChannel")
    /\ Retry(delay)
    /\ UNCHANGED <<calls, left, conn, closed, ended>>

\* The faulty handleWrite that takes the error for its own.
HandlesAlways == TRUE

\* handleWrite and handleError: whether the attempt is still under way.
Handles == cstate = "Connecting"

\* handleWrite after handleError.
WriteAfterError ==
    /\ again /\ again' = FALSE
    /\ IF Handles THEN Retry(delay) ELSE UNCHANGED <<cstate, timers, delay>>
    /\ UNCHANGED <<calls, chan, jobs, left, conn, failed, closed, ended>>

\* The faulty handleWrite that forgets to look at connect_.
KeepsAlways == TRUE

\* handleWrite: whether the connection is still wanted.
Keeps == connect

\* handleWrite of a socket that is connected, with newConnection of the client.
AttemptSucceeds ==
    /\ Event /\ cstate = "Connecting"
    /\ cstate' = "Connected"
    /\ chan' = "removed" /\ jobs' = Append(jobs, "resetChannel")
    /\ IF Keeps THEN conn' = "up" /\ dangling' = (dangling \/ ~ Alive)
                ELSE UNCHANGED <<conn, dangling>>
    /\ UNCHANGED <<calls, timers, delay, left, failed, closed, again, gaveUp, cut>>

\* stopInLoop
StopInLoop(rest) ==
    IF cstate = "Connecting"
    THEN chan' = "removed" /\ Retry(delay) /\ jobs' = Append(rest, "resetChannel")
    ELSE UNCHANGED attempt /\ jobs' = rest

TakeJobs ==
    /\ ~ again /\ left = 0 /\ jobs # <<>>
    /\ left' = Len(jobs)
    /\ UNCHANGED <<calls, attempt, jobs, conn, counts>>

RunJob ==
    /\ left > 0 /\ left' = left - 1
    /\ LET job == Head(jobs) rest == Tail(jobs) IN
       \/ /\ job = "startInLoop"
          /\ jobs' = rest /\ Start(connect, timers, delay)
       \/ /\ job = "stopInLoop" /\ StopInLoop(rest) /\ UNCHANGED <<failed, gaveUp>>
       \/ /\ job = "resetChannel"
          /\ jobs' = rest /\ chan' = "none" /\ UNCHANGED <<cstate, timers, delay, failed, gaveUp>>
    /\ UNCHANGED <<calls, conn, closed, again, cut, dangling>>

-----------------------------------------------------------------------------
(* TcpClient.                                                               *)

\* connect(): connect_ of both, and startInLoop in the loop.
ClientConnect ==
    /\ user = "new"
    /\ user' = "connect" /\ wants' = TRUE /\ connect' = TRUE
    /\ jobs' = Append(jobs, "startInLoop")
    /\ UNCHANGED <<retries, attempt, left, conn, counts>>

\* disconnect(): the connection is shut down, if there is one; an attempt goes on.
ClientDisconnect ==
    /\ user = "connect"
    /\ user' = "disconnect" /\ wants' = FALSE
    /\ conn' = IF conn = "up" THEN "down" ELSE conn
    /\ cut' = (conn = "up")
    /\ UNCHANGED <<retries, connect, attempt, jobs, left, failed, closed, again, gaveUp, dangling>>

\* stop(): a connection stays.
ClientStop ==
    /\ user \in {"connect", "disconnect"}
    /\ user' = "stop" /\ wants' = FALSE /\ connect' = FALSE
    /\ jobs' = Append(jobs, "stopInLoop")
    /\ UNCHANGED <<retries, attempt, left, conn, counts>>

\* stop() in the destructor.
StopsConnector == FALSE

\* The destructor, in the loop: the connection, if nothing else holds it, is closed by
\* force and no longer tells the client; otherwise the connector is stopped.
ClientDestroy ==
    /\ user \in {"connect", "disconnect", "stop"} /\ left = 0 /\ ~ again
    /\ user' = "destroy" /\ conn' = "none" /\ wants' = FALSE
    /\ IF conn # "none" THEN UNCHANGED <<connect, jobs>>
       ELSE connect' = StopsConnector /\ jobs' = Append(jobs, "stopInLoop")
    /\ UNCHANGED <<retries, attempt, left, counts>>

\* The faulty removeConnection that only looks at retry_.
ReconnectsAlways == retries

\* removeConnection: whether the client connects again.
Reconnects == retries /\ wants

\* removeConnection: the connection is down, by the peer or after the shutdown; with
\* restart of the connector.
ConnectionDown ==
    /\ Event /\ conn # "none"
    /\ conn = "up" => closed < MaxClosed
    /\ conn' = "none"
    /\ closed' = IF conn = "up" THEN closed + 1 ELSE closed
    /\ IF Reconnects THEN connect' = TRUE /\ Start(TRUE, timers, 1)
       ELSE UNCHANGED <<connect, attempt, failed, gaveUp>>
    /\ UNCHANGED <<user, retries, wants, jobs, left, again, cut, dangling>>

-----------------------------------------------------------------------------
ClientInit ==
    /\ user = "new" /\ retries \in BOOLEAN /\ wants = TRUE /\ connect = FALSE
    /\ cstate = "Disconnected" /\ chan = "none" /\ timers = <<>> /\ delay = 1
    /\ jobs = <<>> /\ left = 0 /\ conn = "none" /\ failed = 0 /\ closed = 0
    /\ again = FALSE /\ cut = FALSE /\ gaveUp = FALSE /\ dangling = FALSE

ClientLoop == RetryTimer \/ AttemptFails \/ WriteAfterError \/ AttemptSucceeds \/ TakeJobs \/ RunJob
ClientNext ==
    \/ ClientLoop \/ ConnectionDown
    \/ ClientConnect \/ ClientDisconnect \/ ClientStop \/ ClientDestroy

ClientSpec == ClientInit /\ [][ClientNext]_clientVars

\* The loop goes on; an attempt ends, and MaxFailed of them fail.
ClientFairness == WF_clientVars(ClientLoop) /\ WF_clientVars(conn = "down" /\ ConnectionDown)

-----------------------------------------------------------------------------
(* Correctness.                                                             *)

\* Type invariant; the channel exists while its socket is connecting (the assertions
\* of connecting and of the destructor).
ClientTypeOK ==
    /\ user \in {"new", "connect", "disconnect", "stop", "destroy"}
    /\ retries \in BOOLEAN /\ wants \in BOOLEAN /\ connect \in BOOLEAN
    /\ cstate \in {"Disconnected", "Connecting", "Connected"}
    /\ timers \in Seq(1 .. MaxDelay) /\ delay \in 1 .. MaxDelay
    /\ conn \in {"none", "up", "down"} /\ left \in 0 .. Len(jobs)
    /\ chan = "live" <=> cstate = "Connecting"
    /\ chan = "removed" <=> "resetChannel" \in {jobs[i] : i \in DOMAIN jobs}

\* There is one attempt at a time: an attempt under way, a retry that waits and a
\* connection exclude each other, however stop() and failures come together.
OneAttempt ==
    Len(timers) + (IF cstate = "Connecting" THEN 1 ELSE 0) + (IF conn = "none" THEN 0 ELSE 1) <= 1

\* No callback of the connector or of a connection reaches a client that has been
\* destroyed, although the connector outlives it and both are bound to a raw this.
NoneDangling == ~ dangling

\* Once stopInLoop has run no attempt is under way and none is begun, by a timer that
\* stop() has not cancelled or by a connection that ends later.
StopFinal ==
    user \in {"stop", "destroy"} /\ "stopInLoop" \notin {jobs[i] : i \in DOMAIN jobs}
        => cstate # "Connecting"

\* A connection that disconnect() has shut down is not made again, although the
\* connector is not told; but an attempt that disconnect() finds goes on.
DisconnectFinal == cut => conn # "up"

\* While nobody calls stop() or disconnect(), a client that is not connected tries
\* until it is or an error is taken for fatal, with no attempt forgotten between the timers, the functors and the
\* events of the socket; after a connection that was lost, if it is to retry.
Persists ==
    (user = "connect" /\ conn = "none" /\ (closed = 0 \/ retries))
        ~> (conn = "up" \/ user # "connect" \/ gaveUp)

=============================================================================
