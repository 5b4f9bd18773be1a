------------------------------ MODULE MCDialogue ------------------------------
(***************************************************************************)
(* The two exchanges side by side: messages between ulordcenter and its      *)
(* peers (bytes of four values, headers of two), and calls to the database,  *)
(* whose limits are small enough as they are. One of them runs.              *)
(***************************************************************************)
EXTENDS Dialogue, MySQLSession

\* Requests of both formats and both types, one that cannot be deserialised, one
\* of unknown type, one of no format, and an empty message.
MCPayload == {<<1, 2, 3>>, <<2, 2, 3>>, <<1, 3>>, <<1, 2, 0>>, <<3, 3>>, <<2>>, <<>>}

\* A length of -1, and one above MaxLen.
MCBadHeader == {<<3, 3>>, <<1, 0>>}

VARIABLE part

vars == <<part, dialogueVars, sessionVars>>

Peers(A) == part = "peers" /\ A /\ UNCHANGED <<part, sessionVars>>
Database(A) == part = "database" /\ A /\ UNCHANGED <<part, dialogueVars>>

Init ==
    /\ DialogueInit /\ SessionInit
    /\ \/ part = "peers" /\ up
       \/ part = "database" /\ ~ tool /\ ~ polls

Next == Peers(DialogueNext) \/ Database(SessionNext)

\* DialogueFairness and the fairness of SessionFairSpec.
Spec ==
    /\ Init /\ [][Next]_vars
    /\ WF_vars(Peers(Handle)) /\ WF_vars(Peers(Receive)) /\ WF_vars(Peers(IdleClose))
    /\ WF_vars(Peers(RecvSome)) /\ WF_vars(Peers(RecvNone)) /\ WF_vars(Peers(Tick))
    /\ WF_vars(Database(CallStep))

\* Neither end of a connection waits for ever for what the other has sent, and every call
\* to the database ends, however its connection breaks.
ExchangesEnd == DialogueEnds /\ CallReturns
=============================================================================
