------------------------------ MODULE LengthCodec ------------------------------
(***************************************************************************)
(* LengthHeaderCodec of ulordcenter: messages with a length in front, over  *)
(* a byte stream that arrives in segments of any size. The header has two   *)
(* bytes instead of four, and a byte Radix values.                          *)
(***************************************************************************)
EXTENDS MessageStream

CONSTANTS
    Radix,     \* values of a byte
    MaxLen,    \* the largest length that is taken, 65536 in the code
    BadHeader  \* the headers with an invalid length that a peer may send

HeaderLen == 2
Byte == 0 .. Radix - 1

VARIABLES
    wire,     \* bytes on their way to the server
    buf,      \* inputBuffer_
    handling, \* onMessage is running
    shut      \* conn->shutdown() has been called

codecVars == <<wire, buf, handling, shut>>

\* networkToHost32: big endian, two's complement.
HeaderValue(b) ==
    LET v == b[1] * Radix + b[2]
    IN  IF 2 * v >= Radix * Radix THEN v - Radix * Radix ELSE v

\* send: hostToNetwork32 of the length before the message.
Encode(p) == <<Len(p) \div Radix, Len(p) % Radix>> \o p

\* The faulty test that takes a negative length for a short one.
TooLong(n) == n > MaxLen

InvalidLength(n) == n > MaxLen \/ n < 0

ASSUME CodecAssumption ==
    /\ Radix \in Nat /\ Radix > 1 /\ MaxLen \in Nat /\ 2 * MaxLen < Radix * Radix
    /\ \A p \in Payload : p \in Seq(Byte) /\ Len(p) <= MaxLen
    /\ \A b \in BadHeader : b \in Byte \X Byte /\ HeaderValue(b) \notin 0 .. MaxLen

CodecInit ==
    StreamInit /\ wire = <<>> /\ buf = <<>> /\ handling = FALSE /\ shut = FALSE

-----------------------------------------------------------------------------
\* The peer writes a frame.
PeerSends(p) ==
    /\ Send(p)
    /\ wire' = wire \o Encode(p)
    /\ UNCHANGED <<buf, handling, shut>>

\* The peer writes a header that no message can have.
PeerSendsBad(b) ==
    /\ Send(Invalid)
    /\ wire' = wire \o b
    /\ UNCHANGED <<buf, handling, shut>>

\* handleRead: some bytes are there, and onMessage is called.
Arrive(k) ==
    /\ ~ handling
    /\ k \in 1 .. Len(wire)
    /\ buf' = buf \o SubSeq(wire, 1, k)
    /\ wire' = SubSeq(wire, k + 1, Len(wire))
    /\ handling' = TRUE
    /\ UNCHANGED <<streamVars, shut>>

\* The while loop of onMessage: what it sees in the buffer.
HasHeader == Len(buf) >= HeaderLen
FrameLen == HeaderValue(SubSeq(buf, 1, HeaderLen))

HasFrame == Len(buf) >= FrameLen + HeaderLen

\* The faulty step that copies the message before it retrieves the header.
DeliverUnskipped ==
    /\ handling /\ HasHeader /\ ~ InvalidLength(FrameLen) /\ HasFrame
    /\ delivered' = Append(delivered, SubSeq(buf, 1, FrameLen))
    /\ buf' = SubSeq(buf, HeaderLen + FrameLen + 1, Len(buf))
    /\ UNCHANGED <<sent, wire, handling, shut>>

\* The faulty loop that is an if.
DeliverOne ==
    /\ handling /\ HasHeader /\ ~ InvalidLength(FrameLen) /\ HasFrame
    /\ delivered' = Append(delivered, SubSeq(buf, HeaderLen + 1, HeaderLen + FrameLen))
    /\ buf' = SubSeq(buf, HeaderLen + FrameLen + 1, Len(buf))
    /\ handling' = FALSE
    /\ UNCHANGED <<sent, wire, shut>>

\* A whole message: messageCallback_, and retrieve.
DeliverFrame ==
    /\ handling /\ HasHeader /\ ~ InvalidLength(FrameLen) /\ HasFrame
    /\ delivered' = Append(delivered, SubSeq(buf, HeaderLen + 1, HeaderLen + FrameLen))
    /\ buf' = SubSeq(buf, HeaderLen + FrameLen + 1, Len(buf))
    /\ UNCHANGED <<sent, wire, handling, shut>>

\* An invalid length: shutdown and break; the header stays where it is.
RefuseFrame ==
    /\ handling /\ HasHeader /\ InvalidLength(FrameLen)
    /\ shut' = TRUE
    /\ handling' = FALSE
    /\ UNCHANGED <<streamVars, wire, buf>>

\* Part of a header or of a message: the loop ends until more arrives.
AwaitMore ==
    /\ handling
    /\ HasHeader => ~ InvalidLength(FrameLen) /\ ~ HasFrame
    /\ handling' = FALSE
    /\ UNCHANGED <<streamVars, wire, buf, shut>>

=============================================================================
