-------------------------------- MODULE Dialogue --------------------------------
(***************************************************************************)
(* One connection: the codec, CUCenter::onStringMessage and HandlerMsg at   *)
(* one end, and at the other a node that sends what it likes, or MSTRequest *)
(* of the tools, which asks once and takes the answer with one recv().      *)
(* The format of a request is known by its length alone, and the answer is  *)
(* in the same format.                                                      *)
(***************************************************************************)
EXTENDS LengthCodec

CONSTANTS
    RequestLen,    \* -requestlen: a boost archive
    RequestLenNew, \* -requestlennew: a CDataStream
    KeyCount,      \* keys in the answer to MST_QUEST_KEY
    RecvLen,       \* mstnd_iReqBufLen: bytes of one recv()
    Timeout        \* mstnd_iReqMsgTimeout

ASSUME DialogueAssumption ==
    /\ RequestLen # RequestLenNew /\ RequestLenNew > 0 /\ RequestLen > 0
    /\ RequestLen \in Byte /\ RequestLenNew \in Byte
    /\ KeyCount \in Nat /\ KeyCount + 2 <= MaxLen /\ RecvLen \in Nat /\ Timeout \in Nat

VARIABLES
    tool,    \* the peer is MSTRequest
    polls,   \* its socket does not block
    out,     \* bytes on their way to it
    client,  \* where it is
    waited,  \* GetTime() - nTimeLast, up to Timeout
    result,  \* strResult
    closed   \* the connection is closed: "idle" by onTimer, "lost" by anything else

clientVars == <<client, waited, result>>
dialogueVars == <<streamVars, codecVars, tool, polls, out, clientVars, closed>>

\* The fields of a request: its type, and whether it can be deserialised.
QuestType(p) == p[1]
MST_QUEST_ONE == 1
MST_QUEST_KEY == 2
Sound(p) == p[Len(p)] # 0

Sized(p) == Len(p) \in {RequestLen, RequestLenNew}
Answerable(p) ==
    Sized(p) /\ Sound(p) /\ QuestType(p) \in {MST_QUEST_ONE, MST_QUEST_KEY}

\* The answer names its type and its format; a list of keys has a byte per key.
Answer(p) ==
    <<QuestType(p), Len(p)>>
      \o (IF QuestType(p) = MST_QUEST_KEY THEN [i \in 1 .. KeyCount |-> 0] ELSE <<>>)

-----------------------------------------------------------------------------
(* The server.                                                              *)

\* onStringMessage: a length of neither format and an unknown type are ignored;
\* UnSerializeBoost, tried on what is no archive, cuts at places that a request
\* does not have, and no one catches what substr throws.
OnStringMessage(p) ==
    /\ closed' = IF Len(p) = RequestLen /\ ~ Sound(p) THEN "lost" ELSE closed
    /\ out' = IF tool /\ Answerable(p) THEN out \o Encode(Answer(p)) ELSE out

Handle ==
    /\ closed = "no"
    /\ \/ DeliverFrame /\ OnStringMessage(delivered'[Len(delivered')])
       \/ (RefuseFrame \/ AwaitMore) /\ UNCHANGED <<closed, out>>
    /\ UNCHANGED <<tool, polls, clientVars>>

Receive ==
    /\ closed = "no"
    /\ \E k \in 1 .. Len(wire) : Arrive(k)
    /\ UNCHANGED <<tool, polls, out, clientVars, closed>>

\* onTimer of the server, long after the last byte.
IdleClose ==
    /\ closed = "no" /\ wire = <<>> /\ ~ handling
    /\ closed' = "idle"
    /\ UNCHANGED <<streamVars, codecVars, tool, polls, out, clientVars>>

\* The connection breaks, an end of it dies, or onTimer is too early.
Lose ==
    /\ closed = "no"
    /\ closed' = "lost"
    /\ UNCHANGED <<streamVars, codecVars, tool, polls, out, clientVars>>

-----------------------------------------------------------------------------
(* The peer.                                                                *)

NodeSends ==
    /\ ~ tool /\ closed = "no"
    /\ (\E p \in Payload : PeerSends(p)) \/ (\E b \in BadHeader : PeerSendsBad(b))
    /\ UNCHANGED <<tool, polls, out, clientVars, closed>>

\* MSTRequest: connect and send.
Ask ==
    /\ tool /\ client = "start" /\ closed = "no"
    /\ \E p \in Payload : Answerable(p) /\ PeerSends(p)
    /\ client' = "waiting"
    /\ waited' = 0
    /\ UNCHANGED <<tool, polls, out, result, closed>>

\* It cannot connect, or send at once all there is to send.
AskFails ==
    /\ tool /\ client = "start"
    /\ client' = "failed"
    /\ UNCHANGED <<streamVars, codecVars, tool, polls, out, waited, result, closed>>

\* msglen, from a buffer that was cleared before.
MsgLen(got) == HeaderValue(IF Len(got) = 1 THEN got \o <<0>> ELSE got)

\* The faulty client that takes what has come of a longer answer.
FitsPart(got) == Len(got) > HeaderLen /\ MsgLen(got) >= Len(got) - HeaderLen

Fits(got) == MsgLen(got) = Len(got) - HeaderLen

\* recv returns: first the timeout, then the length.
RecvSome ==
    /\ client = "waiting"
    /\ \E k \in 1 .. Len(out) :
          LET got == SubSeq(out, 1, k) IN
          /\ k <= RecvLen
          /\ out' = SubSeq(out, k + 1, Len(out))
          /\ IF waited < Timeout /\ Fits(got)
                THEN client' = "ok" /\ result' = SubSeq(got, HeaderLen + 1, k)
                ELSE client' = "failed" /\ UNCHANGED result
    /\ UNCHANGED <<streamVars, codecVars, tool, polls, waited, closed>>

\* recv returns nothing: the socket does not block, or the connection is closed.
NothingToRecv ==
    /\ client = "waiting"
    /\ polls \/ closed = "lost" \/ (closed = "idle" /\ out = <<>>)

\* The faulty loop that measures each recv() by itself.
RecvNoneRestarts ==
    /\ NothingToRecv
    /\ waited' = 0
    /\ UNCHANGED <<streamVars, codecVars, tool, polls, out, client, result, closed>>

\* It goes on until the timeout.
RecvNone ==
    /\ NothingToRecv
    /\ waited >= Timeout
    /\ client' = "failed"
    /\ UNCHANGED <<streamVars, codecVars, tool, polls, out, waited, result, closed>>

Tick ==
    /\ client = "waiting" /\ waited < Timeout
    /\ waited' = waited + 1
    /\ UNCHANGED <<streamVars, codecVars, tool, polls, out, client, result, closed>>

-----------------------------------------------------------------------------
DialogueInit ==
    /\ CodecInit
    /\ tool \in BOOLEAN /\ polls \in BOOLEAN
    /\ out = <<>> /\ client = "start" /\ waited = 0 /\ result = <<>> /\ closed = "no"

DialogueNext ==
    \/ Handle \/ Receive \/ IdleClose \/ Lose
    \/ NodeSends \/ Ask \/ AskFails \/ RecvSome \/ RecvNone \/ Tick

\* The network delivers, both ends go on, and the server closes what is idle.
DialogueFairness ==
    /\ WF_dialogueVars(Handle) /\ WF_dialogueVars(Receive) /\ WF_dialogueVars(IdleClose)
    /\ WF_dialogueVars(RecvSome) /\ WF_dialogueVars(RecvNone) /\ WF_dialogueVars(Tick)

DialogueSpec == DialogueInit /\ [][DialogueNext]_dialogueVars /\ DialogueFairness

-----------------------------------------------------------------------------
(* Correctness.                                                             *)

\* Type invariant; what is handed on are messages, whole and unchanged.
DialogueTypeOK ==
    /\ sent \in Seq(Payload \cup {Invalid}) /\ delivered \in Seq(Payload)
    /\ wire \in Seq(Byte) /\ buf \in Seq(Byte) /\ out \in Seq(Byte)
    /\ handling \in BOOLEAN /\ shut \in BOOLEAN
    /\ tool \in BOOLEAN /\ polls \in BOOLEAN
    /\ client \in {"start", "waiting", "ok", "failed"}
    /\ waited \in 0 .. Timeout
    /\ result \in Seq(Byte)
    /\ closed \in {"no", "idle", "lost"}

\* However the stream is cut, onMessage implements MessageStream: it hands on what
\* was sent, in order, and nothing from an invalid length on.
ImplementsStream == StreamSpec

\* What MSTRequest returns is the whole answer to the request it sent, although it
\* takes the first segment for the message; parts of an answer are refused.
WholeAnswerOnly ==
    client = "ok" => Len(sent) = 1 /\ result = Answer(sent[1])

\* MSTRequest returns: with an answer, or because the wait is over, also when its
\* recv() blocks and the server has nothing to say before it closes the connection.
ClientReturns == client = "waiting" ~> client \in {"ok", "failed"}

\* Every message before an invalid length is handed on, however many a segment
\* holds, and even if nothing comes after it, unless the connection is lost.
MessagesHeard ==
    \A n \in 1 .. MaxSent :
        (Len(sent) >= n /\ ValidUpTo(n)) ~> (Len(delivered) >= n \/ closed = "lost")

\* What holds of the two ends at any time.
DialogueSafe == DialogueTypeOK /\ WholeAnswerOnly

\* Neither end waits for ever for what the other has sent.
DialogueEnds == ClientReturns /\ MessagesHeard

=============================================================================
