----------------------------- MODULE MessageStream -----------------------------
(***************************************************************************)
(* What the length codec promises of a connection: the messages that the    *)
(* peer sent are handed on one by one, in order, each as it was, up to the  *)
(* first one whose length is invalid.                                       *)
(***************************************************************************)
EXTENDS Integers, Sequences

CONSTANTS
    Payload, \* the messages that a peer may send
    Invalid, \* a header with an invalid length
    MaxSent  \* bound: messages on one connection

ASSUME PayloadAssumption == Invalid \notin Payload
ASSUME SentAssumption == MaxSent \in Nat

VARIABLES
    sent,     \* what the peer has sent
    delivered \* what messageCallback_ has been called with

streamVars == <<sent, delivered>>

StreamInit == sent = <<>> /\ delivered = <<>>

\* The peer sends a message.
Send(m) ==
    /\ Len(sent) < MaxSent
    /\ sent' = Append(sent, m)
    /\ UNCHANGED delivered

\* Nothing up to and including the n-th message is invalid.
ValidUpTo(n) == \A i \in 1 .. n : sent[i] # Invalid

\* The next message is handed on.
Deliver ==
    /\ Len(delivered) < Len(sent)
    /\ ValidUpTo(Len(delivered) + 1)
    /\ delivered' = Append(delivered, sent[Len(delivered) + 1])
    /\ UNCHANGED sent

StreamNext == Deliver \/ \E m \in Payload \cup {Invalid} : Send(m)

StreamSpec == StreamInit /\ [][StreamNext]_streamVars

=============================================================================
