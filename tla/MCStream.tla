------------------------------- MODULE MCStream -------------------------------
(***************************************************************************)
(* A connection, its buffer, a server and a client side by side: in a        *)
(* behaviour one of them runs and the others stand still.                    *)
(***************************************************************************)
EXTENDS TcpConnection, Buffer, TcpServer, TcpClient

Use(loop, thread, ends) == [loop |-> loop, thread |-> thread, ends |-> ends]

\* The calls that do not upset each other.
MCUses == {Use({"send", "shutdown", "forceClose"}, {"send"}, TRUE),
           Use({"send", "shutdown", "stop", "start"}, {}, TRUE),
           Use({"stop"}, {"forceClose"}, FALSE)}

VARIABLE part

vars == <<part, tcpVars, bufferVars, serverVars, clientVars>>

Only(p, A, others_) == part = p /\ A /\ UNCHANGED <<part, others_>>

Init == /\ part \in {"connection", "buffer", "server", "client"}
        /\ TcpInit /\ BufferInit /\ ServerInit /\ ClientInit
        /\ part # "connection" => use = CHOOSE u \in Uses : TRUE
        /\ part # "server" => pool = 0
        /\ part # "client" => retries

Next ==
    \/ Only("connection", TcpNext, <<bufferVars, serverVars, clientVars>>)
    \/ Only("buffer", BufferNext, <<tcpVars, serverVars, clientVars>>)
    \/ Only("server", ServerNext, <<tcpVars, bufferVars, clientVars>>)
    \/ Only("client", ClientNext, <<tcpVars, bufferVars, serverVars>>)

\* The fairness of the part that runs: that of its Fairness.
Spec ==
    /\ Init /\ [][Next]_vars
    /\ WF_vars(Only("connection", TcpLoop, <<bufferVars, serverVars, clientVars>>))
    /\ \A s \in Sender :
          WF_vars(Only("connection", QueueSend(s), <<bufferVars, serverVars, clientVars>>))
    /\ \A l \in LoopOf :
          WF_vars(Only("server", RunFunctor(l), <<tcpVars, bufferVars, clientVars>>))
    /\ WF_vars(Only("server", Accepts, <<tcpVars, bufferVars, clientVars>>))
    /\ WF_vars(Only("server", Ends, <<tcpVars, bufferVars, clientVars>>))
    /\ WF_vars(Only("client", ClientLoop, <<tcpVars, bufferVars, serverVars>>))
    /\ WF_vars(Only("client", conn = "down" /\ ConnectionDown, <<tcpVars, bufferVars, serverVars>>))

-----------------------------------------------------------------------------
\* What holds of a connection at any time: nothing is lost, doubled or out of order in
\* either direction, and it is closed once.
TcpSafe == TcpTypeOK /\ StreamIntact /\ FinIsLast /\ CloseOnce /\ InputComplete

\* What holds of the ends of connections: the server shares them out, removes each once
\* and leaves none behind; the client makes one attempt at a time, and none for those
\* who have stopped it.
EndsSafe == /\ ServerTypeOK /\ Balanced /\ RemovedOnce /\ RemovedIdle /\ NoneLeft
            /\ ClientTypeOK /\ OneAttempt /\ NoneDangling /\ StopFinal /\ DisconnectFinal

\* Output drains, shutdowns are heeded, what is down is freed, clients get in or are
\* cut off, and a client persists.
StreamGoesOn == /\ ShutdownHeeded /\ OutputDrains /\ EndsDestroyed
                /\ DownIsFreed /\ NobodyWaits /\ Persists

=============================================================================
