---------------------------- MODULE DialogueProofs ----------------------------
(***************************************************************************)
(* Dialogue for messages, bytes and limits of any size: onMessage hands on   *)
(* what was sent, however the stream is cut, and MSTRequest returns nothing  *)
(* but a whole answer.                                                      *)
(*                                                                         *)
(* What is in the buffer and on the wire is always the frames of what was    *)
(* sent and is not handed on yet, one after the other: the invariant says    *)
(* that there is a way to divide it so, with where each frame ends.          *)
(***************************************************************************)
EXTENDS Dialogue, MySQLSession, TLAPS

-----------------------------------------------------------------------------
(* Frames.                                                                  *)

LEMMA DivMod ==
    ASSUME NEW n \in Nat, NEW r \in Nat, r > 1
    PROVE  n \div r \in Nat /\ n % r \in 0 .. r - 1 /\ n = (n \div r) * r + (n % r)
OBVIOUS

\* What is less than half of the square of r has a quotient that is less than r.
LEMMA SmallQuotient ==
    ASSUME NEW q \in Nat, NEW m \in Nat, NEW r \in Nat, 2 * (q * r + m) < r * r
    PROVE  q < r
<1>1. SUFFICES ASSUME q >= r
               PROVE  FALSE
  OBVIOUS
<1>2. q * r >= r * r
  BY <1>1
<1> QED
  BY <1>2

\* Two bytes are a number, and the header of a length is that length.
LEMMA HeaderIsInt == \A b \in Byte \X Byte : HeaderValue(b) \in Int
BY CodecAssumption DEF Byte, HeaderValue

LEMMA EncodeIsFrame ==
    ASSUME NEW p \in Seq(Byte), Len(p) <= MaxLen
    PROVE  /\ Encode(p) \in Seq(Byte)
           /\ Len(Encode(p)) = HeaderLen + Len(p)
           /\ HeaderValue(<<Encode(p)[1], Encode(p)[2]>>) = Len(p)
           /\ \A j \in 1 .. Len(p) : Encode(p)[HeaderLen + j] = p[j]
<1> DEFINE q == Len(p) \div Radix
           m == Len(p) % Radix
<1>1. Radix \in Nat /\ Radix > 1 /\ MaxLen \in Nat /\ 2 * MaxLen < Radix * Radix
  BY CodecAssumption
<1>2. q \in Nat /\ m \in 0 .. Radix - 1 /\ Len(p) = q * Radix + m
  <2>1. Len(p) \in Nat
    OBVIOUS
  <2> HIDE DEF q, m
  <2>2. q \in Nat /\ m \in 0 .. Radix - 1 /\ Len(p) = q * Radix + m
    BY <1>1, <2>1, DivMod DEF q, m
  <2> QED
    BY <2>2
<1>3. 2 * (q * Radix + m) < Radix * Radix
  BY <1>1, <1>2
<1>4. q < Radix
  BY <1>1, <1>2, <1>3, SmallQuotient
<1>5. q \in Byte /\ m \in Byte
  BY <1>1, <1>2, <1>4 DEF Byte
<1>6. Encode(p) = <<q, m>> \o p
  BY DEF Encode
<1> HIDE DEF q, m
<1>7. <<q, m>> \in Seq(Byte)
  BY <1>5
<1>8. HeaderValue(<<q, m>>) = Len(p)
  BY <1>1, <1>2, <1>3 DEF HeaderValue
<1>9. Encode(p)[1] = q /\ Encode(p)[2] = m
  BY <1>6, <1>7
<1>10. Encode(p) \in Seq(Byte) /\ Len(Encode(p)) = 2 + Len(p)
  BY <1>6, <1>7
<1>11. \A j \in 1 .. Len(p) : Encode(p)[2 + j] = p[j]
  BY <1>6, <1>7
<1> QED
  BY <1>8, <1>9, <1>10, <1>11 DEF HeaderLen

LEMMA FirstTwo ==
    ASSUME NEW b \in Seq(Byte), Len(b) >= 2
    PROVE  SubSeq(b, 1, 2) = <<b[1], b[2]>>
<1> DEFINE t == SubSeq(b, 1, 2)
<1>1. t \in Seq(Byte) /\ Len(t) = 2 /\ t[1] = b[1] /\ t[2] = b[2]
  OBVIOUS
<1> HIDE DEF t
<1>2. t = <<t[1], t[2]>>
  BY <1>1
<1> QED
  BY <1>1, <1>2 DEF t

\* f is the frame of message m, or a header that no message has.
IsFrame(m, f) ==
    \/ m \in Payload /\ f = Encode(m)
    \/ m = Invalid /\ f \in BadHeader

LEMMA FrameIsBytes ==
    ASSUME NEW m, NEW f, IsFrame(m, f)
    PROVE  f \in Seq(Byte) /\ Len(f) >= HeaderLen
<1>1. CASE m \in Payload /\ f = Encode(m)
  <2>1. m \in Seq(Byte) /\ Len(m) <= MaxLen
    BY <1>1, CodecAssumption
  <2>2. Encode(m) \in Seq(Byte) /\ Len(Encode(m)) = HeaderLen + Len(m)
    BY <2>1, EncodeIsFrame
  <2>3. Len(m) \in Nat
    BY <2>1
  <2> QED
    BY <1>1, <2>2, <2>3 DEF HeaderLen
<1>2. CASE f \in BadHeader
  <2>1. f \in Byte \X Byte
    BY <1>2, CodecAssumption
  <2>2. PICK x \in Byte, y \in Byte : f = <<x, y>>
    BY <2>1
  <2> QED
    BY <2>2 DEF HeaderLen
<1> QED
  BY <1>1, <1>2 DEF IsFrame

-----------------------------------------------------------------------------
(* The stream, divided into frames.                                         *)

\* Byte k of what is in the buffer and on the wire.
StreamAt(b, w, k) == IF k <= Len(b) THEN b[k] ELSE w[k - Len(b)]
StreamLen(b, w) == Len(b) + Len(w)

\* Of the messages s the first d are handed on, and b and w are the frames of the others:
\* frame[i], which ends at end[i].
Divides(s, d, b, w, frame, end) ==
    LET left == Len(s) - d IN
    /\ frame \in [1 .. left -> Seq(Byte)] /\ end \in [0 .. left -> Nat]
    /\ end[0] = 0 /\ end[left] = StreamLen(b, w)
    /\ \A i, j \in 0 .. left : i <= j => end[i] <= end[j]
    /\ \A i \in 1 .. left :
          /\ IsFrame(s[d + i], frame[i])
          /\ end[i] = end[i - 1] + Len(frame[i])
          /\ \A j \in 1 .. Len(frame[i]) : StreamAt(b, w, end[i - 1] + j) = frame[i][j]

Divided(s, d, b, w) == \E frame, end : Divides(s, d, b, w, frame, end)

\* c is what is left of b without its first m bytes.
Leaves(b, m, c) ==
    /\ b \in Seq(Byte) /\ c \in Seq(Byte) /\ m \in Nat /\ m <= Len(b)
    /\ Len(c) = Len(b) - m /\ \A j \in 1 .. Len(b) - m : c[j] = b[m + j]

\* When m bytes are taken out of the buffer, byte k of what is left was byte m + k.
LEMMA StreamRest ==
    ASSUME NEW b, NEW m, NEW c, Leaves(b, m, c), NEW w, NEW k \in Nat \ {0}
    PROVE  StreamAt(c, w, k) = StreamAt(b, w, m + k)
<1>1. /\ Len(b) \in Nat /\ Len(c) \in Nat /\ m \in Nat /\ m <= Len(b) /\ Len(c) = Len(b) - m
      /\ \A j \in 1 .. Len(b) - m : c[j] = b[m + j]
  BY DEF Leaves
<1>2. CASE k <= Len(c)
  <2>1. k \in 1 .. Len(b) - m /\ m + k <= Len(b)
    BY <1>1, <1>2
  <2> QED
    BY <1>1, <1>2, <2>1 DEF StreamAt
<1>3. CASE ~ (k <= Len(c))
  <2>1. ~ (m + k <= Len(b)) /\ k - Len(c) = (m + k) - Len(b)
    BY <1>1, <1>3
  <2>2. StreamAt(c, w, k) = w[k - Len(c)] /\ StreamAt(b, w, m + k) = w[(m + k) - Len(b)]
    BY <1>3, <2>1 DEF StreamAt
  <2> QED
    BY <2>1, <2>2
<1> QED
  BY <1>2, <1>3

\* A frame that is written comes last.
LEMMA FrameWritten ==
    ASSUME NEW M, NEW s \in Seq(M), NEW d \in Nat, d <= Len(s), NEW b \in Seq(Byte),
           NEW w \in Seq(Byte), Divided(s, d, b, w), NEW m \in M, NEW f, IsFrame(m, f)
    PROVE  Divided(Append(s, m), d, b, w \o f)
<1>1. PICK frame, end : Divides(s, d, b, w, frame, end)
  BY DEF Divided
<1> DEFINE left == Len(s) - d
           frame2 == [i \in 1 .. left + 1 |-> IF i <= left THEN frame[i] ELSE f]
           end2 == [i \in 0 .. left + 1 |-> IF i <= left THEN end[i]
                                            ELSE StreamLen(b, w) + Len(f)]
<1>2. f \in Seq(Byte) /\ Len(f) \in Nat
  BY FrameIsBytes
<1>3. left \in Nat /\ Len(Append(s, m)) - d = left + 1
  OBVIOUS
<1>4. Len(b) \in Nat /\ Len(w) \in Nat /\ Len(w \o f) = Len(w) + Len(f)
  BY <1>2
<1>5. /\ frame \in [1 .. left -> Seq(Byte)] /\ end \in [0 .. left -> Nat]
      /\ end[0] = 0 /\ end[left] = Len(b) + Len(w)
      /\ \A i, j \in 0 .. left : i <= j => end[i] <= end[j]
  BY <1>1 DEF Divides, StreamLen
<1>6. \A i \in 1 .. left :
          /\ IsFrame(s[d + i], frame[i])
          /\ end[i] = end[i - 1] + Len(frame[i])
          /\ \A j \in 1 .. Len(frame[i]) : StreamAt(b, w, end[i - 1] + j) = frame[i][j]
  BY <1>1 DEF Divides
<1>7. \A i \in 1 .. left : Append(s, m)[d + i] = s[d + i]
  OBVIOUS
<1>8. Append(s, m)[d + (left + 1)] = m
  OBVIOUS
<1>9. \A k \in 1 .. Len(b) + Len(w) : StreamAt(b, w \o f, k) = StreamAt(b, w, k)
  BY <1>2, <1>4 DEF StreamAt
<1>10. \A j \in 1 .. Len(f) : StreamAt(b, w \o f, Len(b) + Len(w) + j) = f[j]
  BY <1>2, <1>4 DEF StreamAt
<1> HIDE DEF left
<1>11. frame2 \in [1 .. left + 1 -> Seq(Byte)] /\ end2 \in [0 .. left + 1 -> Nat]
  BY <1>2, <1>3, <1>4, <1>5 DEF StreamLen
<1>12. end2[0] = 0 /\ end2[left + 1] = StreamLen(b, w \o f)
  BY <1>3, <1>4, <1>5 DEF StreamLen
<1>13. ASSUME NEW i \in 0 .. left + 1, NEW j \in 0 .. left + 1, i <= j
       PROVE  end2[i] <= end2[j]
  <2>1. CASE j <= left
    BY <1>3, <1>5, <1>13, <2>1
  <2>2. CASE j = left + 1 /\ i <= left
    <3>1. end[i] <= end[left] /\ end[i] \in Nat
      BY <1>3, <1>5, <2>2
    <3> QED
      BY <1>2, <1>3, <1>4, <1>5, <2>2, <3>1 DEF StreamLen
  <2>3. CASE i = left + 1
    BY <1>2, <1>3, <1>4, <1>13, <2>3 DEF StreamLen
  <2> QED
    BY <1>3, <2>1, <2>2, <2>3
<1>14. ASSUME NEW i \in 1 .. left + 1
       PROVE  /\ IsFrame(Append(s, m)[d + i], frame2[i])
              /\ end2[i] = end2[i - 1] + Len(frame2[i])
              /\ \A j \in 1 .. Len(frame2[i]) :
                    StreamAt(b, w \o f, end2[i - 1] + j) = frame2[i][j]
  <2>1. CASE i <= left
    <3>1. i \in 1 .. left
      BY <1>3, <2>1
    <3>2. frame2[i] = frame[i] /\ end2[i] = end[i] /\ end2[i - 1] = end[i - 1]
      BY <1>3, <3>1
    <3>3. /\ IsFrame(s[d + i], frame[i]) /\ end[i] = end[i - 1] + Len(frame[i])
          /\ Append(s, m)[d + i] = s[d + i]
      BY <1>6, <1>7, <3>1
    <3>4. end[i - 1] \in Nat /\ end[i] \in Nat /\ end[i] <= Len(b) + Len(w)
      BY <1>3, <1>5, <3>1
    <3>5. frame[i] \in Seq(Byte)
      BY <1>5, <3>1
    <3>6. ASSUME NEW j \in 1 .. Len(frame[i])
          PROVE  StreamAt(b, w \o f, end[i - 1] + j) = frame[i][j]
      <4>1. Len(frame[i]) \in Nat
        BY <3>5
      <4>2. end[i - 1] + j \in 1 .. Len(b) + Len(w)
        <5>1. end[i] = end[i - 1] + Len(frame[i])
          BY <3>3
        <5>2. Len(b) + Len(w) \in Nat
          BY <1>4
        <5> QED
          BY <3>4, <4>1, <5>1, <5>2
      <4>3. StreamAt(b, w, end[i - 1] + j) = frame[i][j]
        BY <1>6, <3>1
      <4> QED
        BY <1>9, <4>2, <4>3
    <3> QED
      BY <3>2, <3>3, <3>6
  <2>2. CASE i = left + 1
    <3>1. frame2[i] = f /\ end2[i] = Len(b) + Len(w) + Len(f)
      BY <1>3, <2>2 DEF StreamLen
    <3>2. end2[i - 1] = Len(b) + Len(w)
      BY <1>3, <1>5, <2>2 DEF StreamLen
    <3>3. IsFrame(Append(s, m)[d + i], frame2[i])
      BY <1>8, <2>2, <3>1
    <3>4. \A j \in 1 .. Len(frame2[i]) :
             StreamAt(b, w \o f, end2[i - 1] + j) = frame2[i][j]
      BY <1>10, <3>1, <3>2
    <3> HIDE DEF frame2, end2
    <3>5. end2[i] = end2[i - 1] + Len(frame2[i])
      BY <3>1, <3>2
    <3> QED
      BY <3>3, <3>4, <3>5
  <2> HIDE DEF frame2, end2
  <2> QED
    BY <1>3, <2>1, <2>2
<1> HIDE DEF frame2, end2
<1>15. Divides(Append(s, m), d, b, w \o f, frame2, end2)
  BY <1>3, <1>11, <1>12, <1>13, <1>14 DEF Divides
<1> QED
  BY <1>15 DEF Divided

\* Bytes that arrive do not move.
LEMMA BytesMoved ==
    ASSUME NEW M, NEW s \in Seq(M), NEW d \in Nat, d <= Len(s), NEW b \in Seq(Byte),
           NEW w \in Seq(Byte), Divided(s, d, b, w), NEW k \in 1 .. Len(w)
    PROVE  Divided(s, d, b \o SubSeq(w, 1, k), SubSeq(w, k + 1, Len(w)))
<1> DEFINE c == b \o SubSeq(w, 1, k)
           v == SubSeq(w, k + 1, Len(w))
<1>1. Len(c) = Len(b) + k /\ Len(v) = Len(w) - k
  OBVIOUS
<1>2. StreamLen(c, v) = StreamLen(b, w)
  <2>1. Len(b) \in Nat /\ Len(w) \in Nat
    OBVIOUS
  <2> HIDE DEF c, v
  <2> QED
    BY <1>1, <2>1 DEF StreamLen
<1>3. \A n \in 1 .. Len(b) + Len(w) : StreamAt(c, v, n) = StreamAt(b, w, n)
  BY <1>1 DEF StreamAt
<1>4. PICK frame, end : Divides(s, d, b, w, frame, end)
  BY DEF Divided
<1> HIDE DEF c, v
<1>5. ASSUME NEW i \in 1 .. Len(s) - d, NEW j \in 1 .. Len(frame[i])
      PROVE  StreamAt(c, v, end[i - 1] + j) = frame[i][j]
  <2> DEFINE left == Len(s) - d
  <2>1. frame[i] \in Seq(Byte) /\ end[i - 1] \in Nat /\ end[left] = Len(b) + Len(w)
        /\ end[i] \in Nat /\ end[i] <= end[left] /\ left \in Int
    <3>1. frame \in [1 .. left -> Seq(Byte)] /\ end \in [0 .. left -> Nat]
          /\ end[left] = Len(b) + Len(w) /\ \A x, y \in 0 .. left : x <= y => end[x] <= end[y]
      BY <1>4 DEF Divides, StreamLen
    <3>2. left \in Nat
      OBVIOUS
    <3> HIDE DEF left
    <3>3. i \in 1 .. left
      BY DEF left
    <3> QED
      BY <3>1, <3>2, <3>3
  <2>2. Len(frame[i]) \in Nat
    BY <2>1
  <2>3. end[i] = end[i - 1] + Len(frame[i]) /\ StreamAt(b, w, end[i - 1] + j) = frame[i][j]
    BY <1>4 DEF Divides
  <2>4. end[i - 1] + j \in 1 .. Len(b) + Len(w)
    <3>1. \A e, l, n \in Nat : e + l <= n => \A x \in 1 .. l : e + x \in 1 .. n
      OBVIOUS
    <3>2. Len(b) + Len(w) \in Nat
      OBVIOUS
    <3>3. end[i - 1] + Len(frame[i]) <= Len(b) + Len(w)
      BY <2>1, <2>3
    <3> QED
      BY <2>1, <2>2, <3>1, <3>2, <3>3
  <2> QED
    BY <1>3, <2>3, <2>4
<1>6. Divides(s, d, c, v, frame, end)
  BY <1>2, <1>4, <1>5 DEF Divides
<1> QED
  BY <1>6 DEF Divided, c, v

\* The first frame, when all of it is in the buffer, is that of the next message; without
\* it the rest is divided as before.
LEMMA FrameTaken ==
    ASSUME NEW M, NEW s \in Seq(M), NEW d \in Nat, d <= Len(s), NEW b \in Seq(Byte),
           NEW w \in Seq(Byte), Divided(s, d, b, w), Len(b) >= HeaderLen, NEW n \in Nat,
           n = HeaderValue(SubSeq(b, 1, HeaderLen)), n <= MaxLen, Len(b) >= n + HeaderLen
    PROVE  /\ d < Len(s) /\ s[d + 1] \in Payload
           /\ SubSeq(b, HeaderLen + 1, HeaderLen + n) = s[d + 1]
           /\ Divided(s, d + 1, SubSeq(b, HeaderLen + n + 1, Len(b)), w)
<1> DEFINE left == Len(s) - d
           p == s[d + 1]
           c == SubSeq(b, HeaderLen + n + 1, Len(b))
<1>1. PICK frame, end : Divides(s, d, b, w, frame, end)
  BY DEF Divided
<1> DEFINE frame2 == [i \in 1 .. left - 1 |-> frame[i + 1]]
           end2 == [i \in 0 .. left - 1 |-> end[i + 1] - end[1]]
<1>2. /\ frame \in [1 .. left -> Seq(Byte)] /\ end \in [0 .. left -> Nat]
      /\ end[0] = 0 /\ end[left] = Len(b) + Len(w)
      /\ \A i, j \in 0 .. left : i <= j => end[i] <= end[j]
  BY <1>1 DEF Divides, StreamLen
<1>3. \A i \in 1 .. left :
          /\ IsFrame(s[d + i], frame[i])
          /\ end[i] = end[i - 1] + Len(frame[i])
          /\ \A j \in 1 .. Len(frame[i]) : StreamAt(b, w, end[i - 1] + j) = frame[i][j]
  BY <1>1 DEF Divides
<1>4. left \in Nat /\ left >= 1
  <2>1. left \in Nat
    OBVIOUS
  <2>2. end[left] >= 2
    BY <1>2 DEF HeaderLen
  <2> QED
    BY <1>2, <2>1, <2>2
<1>5. 1 \in 1 .. left /\ 1 - 1 = 0
  BY <1>4
<1>6. /\ IsFrame(p, frame[1]) /\ frame[1] \in Seq(Byte) /\ Len(frame[1]) >= 2
      /\ end[1] = Len(frame[1])
  <2>1. IsFrame(p, frame[1]) /\ end[1] = end[0] + Len(frame[1])
    BY <1>3, <1>5
  <2>2. frame[1] \in Seq(Byte) /\ Len(frame[1]) >= 2
    BY <2>1, FrameIsBytes DEF HeaderLen
  <2>3. Len(frame[1]) \in Nat
    BY <2>2
  <2> QED
    BY <1>2, <2>1, <2>2, <2>3
<1>7. \A j \in 1 .. Len(frame[1]) : j <= Len(b) => b[j] = frame[1][j]
  <2>1. \A j \in 1 .. Len(frame[1]) : StreamAt(b, w, 0 + j) = frame[1][j]
    BY <1>2, <1>3, <1>5
  <2> QED
    BY <1>6, <2>1 DEF StreamAt
<1>8. SubSeq(b, 1, HeaderLen) = <<frame[1][1], frame[1][2]>>
  <2>1. b[1] = frame[1][1] /\ b[2] = frame[1][2]
    BY <1>6, <1>7 DEF HeaderLen
  <2>2. SubSeq(b, 1, 2) = <<b[1], b[2]>>
    <3>1. Len(b) >= 2
      BY DEF HeaderLen
    <3> QED
      BY <3>1, FirstTwo
  <2> QED
    BY <2>1, <2>2 DEF HeaderLen
<1>9. frame[1] \notin BadHeader
  <2>1. SUFFICES ASSUME frame[1] \in BadHeader
                 PROVE  FALSE
    OBVIOUS
  <2>2. frame[1] \in Byte \X Byte /\ HeaderValue(frame[1]) \notin 0 .. MaxLen
    BY <2>1, CodecAssumption
  <2>3. frame[1] = <<frame[1][1], frame[1][2]>>
    BY <2>2
  <2>4. n \in 0 .. MaxLen
    BY CodecAssumption
  <2> QED
    BY <1>8, <2>2, <2>3, <2>4
<1>10. p \in Payload /\ frame[1] = Encode(p)
  BY <1>6, <1>9 DEF IsFrame
<1>11. /\ p \in Seq(Byte) /\ n = Len(p) /\ Len(frame[1]) = 2 + n
       /\ \A j \in 1 .. Len(p) : frame[1][2 + j] = p[j]
  <2>1. p \in Seq(Byte) /\ Len(p) <= MaxLen
    BY <1>10, CodecAssumption
  <2> HIDE DEF p, left, c, frame2, end2
  <2>2. HeaderValue(<<frame[1][1], frame[1][2]>>) = Len(p)
    BY <1>10, <2>1, EncodeIsFrame
  <2>3. Len(frame[1]) = HeaderLen + Len(p)
        /\ \A j \in 1 .. Len(p) : frame[1][HeaderLen + j] = p[j]
    <3>1. Len(Encode(p)) = HeaderLen + Len(p)
          /\ \A j \in 1 .. Len(p) : Encode(p)[HeaderLen + j] = p[j]
      BY <2>1, EncodeIsFrame
    <3> QED
      BY <1>10, <3>1
  <2> QED
    BY <1>8, <2>1, <2>2, <2>3 DEF HeaderLen
<1>12. SubSeq(b, HeaderLen + 1, HeaderLen + n) = p
  <2> HIDE DEF p, left, c, frame2, end2
  <2>1. \A j \in 1 .. n : b[2 + j] = p[j]
    <3>1. \A j \in 1 .. n : 2 + j \in 1 .. 2 + n /\ 2 + j <= Len(b)
      BY DEF HeaderLen
    <3> QED
      BY <1>7, <1>11, <3>1
  <2>2. SubSeq(b, 2 + 1, 2 + n) \in Seq(Byte) /\ Len(SubSeq(b, 2 + 1, 2 + n)) = n
        /\ \A j \in 1 .. n : SubSeq(b, 2 + 1, 2 + n)[j] = b[2 + j]
    BY DEF HeaderLen
  <2> QED
    BY <1>11, <2>1, <2>2 DEF HeaderLen
<1>13. c \in Seq(Byte) /\ Len(c) = Len(b) - (2 + n)
       /\ \A j \in 1 .. Len(b) - (2 + n) : c[j] = b[2 + n + j]
  BY DEF HeaderLen
<1>14. \A k \in 1 .. (Len(b) + Len(w)) - (2 + n) : StreamAt(c, w, k) = StreamAt(b, w, 2 + n + k)
  <2> HIDE DEF c
  <2> DEFINE m == 2 + n
  <2>1. m \in Nat /\ m <= Len(b)
    BY DEF HeaderLen
  <2>2. Len(c) = Len(b) - m /\ \A j \in 1 .. Len(b) - m : c[j] = b[m + j]
    BY <1>13
  <2> HIDE DEF m
  <2>3. Leaves(b, m, c)
    BY <1>13, <2>1, <2>2 DEF Leaves
  <2>4. \A k \in 1 .. (Len(b) + Len(w)) - m : k \in Nat \ {0}
    BY <2>1
  <2>5. \A k \in Nat \ {0} : StreamAt(c, w, k) = StreamAt(b, w, m + k)
    BY <2>3, StreamRest
  <2>6. \A k \in 1 .. (Len(b) + Len(w)) - m : StreamAt(c, w, k) = StreamAt(b, w, m + k)
    BY <2>4, <2>5, Zenon
  <2> QED
    BY <2>6 DEF m
<1>15. end[1] = 2 + n
  BY <1>6, <1>11
<1> HIDE DEF c, p
<1>16. Len(s) - (d + 1) = left - 1
  OBVIOUS
<1> HIDE DEF left
<1>17. \A i \in 1 .. left - 1 : i + 1 \in 1 .. left /\ i + 1 - 1 = i /\ i \in 1 .. left
  BY <1>4
<1>18. frame2 \in [1 .. left - 1 -> Seq(Byte)]
  BY <1>2, <1>17
<1>19. \A i \in 0 .. left - 1 : end[i + 1] \in Nat /\ end[i + 1] >= end[1] /\ end[1] \in Nat
  BY <1>2, <1>4
<1>20. end2 \in [0 .. left - 1 -> Nat]
  BY <1>19
<1>21. end2[0] = 0 /\ end2[left - 1] = StreamLen(c, w)
  <2>1. 0 \in 0 .. left - 1 /\ left - 1 \in 0 .. left - 1 /\ left - 1 + 1 = left /\ 0 + 1 = 1
    BY <1>4
  <2>2. end2[0] = end[1] - end[1] /\ end2[left - 1] = end[left] - end[1]
    BY <2>1
  <2>3. end[1] \in Int /\ end[left] = Len(b) + Len(w)
    BY <1>2, <1>15 DEF StreamLen
  <2>4. Len(c) + Len(w) = Len(b) + Len(w) - (2 + n)
    BY <1>13
  <2>5. end[1] - end[1] = 0 /\ end[left] - end[1] = Len(c) + Len(w)
    <3> DEFINE x == end[1]  y == end[left]  z == Len(b) + Len(w)  l == Len(c) + Len(w)
    <3>1. x \in Int /\ y = z
      BY <2>3
    <3>2. x = 2 + n
      BY <1>15
    <3>3. z \in Int /\ l = z - (2 + n)
      BY <2>4
    <3> HIDE DEF x, y, z, l
    <3>4. x - x = 0 /\ y - x = l
      BY <3>1, <3>2, <3>3
    <3> QED
      BY <3>4 DEF x, y, l
  <2> HIDE DEF end2
  <2> QED
    BY <2>2, <2>5 DEF StreamLen
<1>22. \A i, j \in 0 .. left - 1 : i <= j => end2[i] <= end2[j]
  <2>1. \A i, j \in 0 .. left - 1 : i <= j => end[i + 1] <= end[j + 1]
    BY <1>2, <1>4
  <2> QED
    BY <1>19, <2>1
<1>23. ASSUME NEW i \in 1 .. left - 1
       PROVE  /\ IsFrame(s[d + 1 + i], frame2[i])
              /\ end2[i] = end2[i - 1] + Len(frame2[i])
              /\ \A j \in 1 .. Len(frame2[i]) :
                    StreamAt(c, w, end2[i - 1] + j) = frame2[i][j]
  <2>1. frame2[i] = frame[i + 1] /\ end2[i] = end[i + 1] - end[1] /\ end2[i - 1] = end[i] - end[1]
    BY <1>4, <1>17
  <2>2. /\ IsFrame(s[d + (i + 1)], frame[i + 1])
        /\ end[i + 1] = end[i] + Len(frame[i + 1])
        /\ \A j \in 1 .. Len(frame[i + 1]) : StreamAt(b, w, end[i] + j) = frame[i + 1][j]
    BY <1>3, <1>17
  <2>3. d + 1 + i = d + (i + 1)
    OBVIOUS
  <2>4. /\ end[i] \in Nat /\ end[i] >= end[1] /\ end[1] \in Nat /\ end[i + 1] \in Nat
        /\ end[i + 1] <= Len(b) + Len(w) /\ Len(frame[i + 1]) \in Nat
    <3>1. end[i] \in Nat /\ end[i] >= end[1] /\ end[1] \in Nat
      BY <1>2, <1>4, <1>17
    <3>2. end[i + 1] \in Nat /\ end[i + 1] <= Len(b) + Len(w)
      BY <1>2, <1>4, <1>17
    <3>3. frame[i + 1] \in Seq(Byte)
      BY <1>2, <1>17
    <3> QED
      BY <3>1, <3>2, <3>3
  <2>5. ASSUME NEW j \in 1 .. Len(frame[i + 1])
        PROVE  StreamAt(c, w, end[i] - end[1] + j) = frame[i + 1][j]
    <3>1. \A e, f, l, m, x \in Nat : e >= f /\ e + l <= m /\ x \in 1 .. l
             => e - f + x \in 1 .. m - f /\ f + (e - f + x) = e + x
      OBVIOUS
    <3>2. Len(b) + Len(w) \in Nat /\ j \in Nat /\ end[i] + Len(frame[i + 1]) <= Len(b) + Len(w)
      <4>1. end[i] + Len(frame[i + 1]) = end[i + 1] /\ end[i + 1] <= Len(b) + Len(w)
        BY <2>2, <2>4
      <4>2. Len(b) + Len(w) \in Nat /\ j \in Nat
        BY <2>4
      <4> QED
        BY <4>1, <4>2
    <3>3. end[i] - end[1] + j \in 1 .. (Len(b) + Len(w)) - end[1]
          /\ end[1] + (end[i] - end[1] + j) = end[i] + j
      <4> DEFINE x == end[i]  y == end[1]  l == Len(frame[i + 1])  m == Len(b) + Len(w)
      <4>1. x \in Nat /\ y \in Nat /\ l \in Nat /\ m \in Nat /\ x >= y /\ x + l <= m
            /\ j \in 1 .. l /\ j \in Nat
        BY <2>4, <3>2
      <4> HIDE DEF x, y, l, m
      <4>2. x - y + j \in 1 .. m - y /\ y + (x - y + j) = x + j
        BY <3>1, <4>1
      <4> QED
        BY <4>2 DEF x, y, l, m
    <3>4. StreamAt(c, w, end[i] - end[1] + j) = StreamAt(b, w, end[1] + (end[i] - end[1] + j))
      BY <1>14, <1>15, <3>3
    <3> QED
      BY <2>2, <3>3, <3>4
  <2> HIDE DEF frame2, end2
  <2>6. IsFrame(s[d + 1 + i], frame2[i])
    BY <2>1, <2>2, <2>3
  <2>7. end2[i] = end2[i - 1] + Len(frame2[i])
    <3> DEFINE x == end[i]  y == end[1]  z == end[i + 1]  l == Len(frame[i + 1])
    <3>1. x \in Nat /\ y \in Nat /\ z \in Nat /\ l \in Nat /\ z = x + l
      BY <2>2, <2>4
    <3> HIDE DEF x, y, z, l
    <3>2. z - y = (x - y) + l
      BY <3>1
    <3>3. end[i + 1] - end[1] = (end[i] - end[1]) + Len(frame[i + 1])
      BY <3>2 DEF x, y, z, l
    <3> QED
      BY <2>1, <3>3
  <2>8. \A j \in 1 .. Len(frame2[i]) : StreamAt(c, w, end2[i - 1] + j) = frame2[i][j]
    BY <2>1, <2>5
  <2> QED
    BY <2>6, <2>7, <2>8
<1> HIDE DEF frame2, end2
<1>24. Divides(s, d + 1, c, w, frame2, end2)
  BY <1>16, <1>18, <1>20, <1>21, <1>22, <1>23 DEF Divides
<1>25. Divided(s, d + 1, c, w)
  BY <1>24 DEF Divided
<1>26. d < Len(s)
  BY <1>4 DEF left
<1> QED
  BY <1>10, <1>12, <1>25, <1>26 DEF c, p

-----------------------------------------------------------------------------
(* The server: what is sent and what is handed on.                          *)

\* What has been handed on was sent, in this order, and the rest is on its way.
StreamInv ==
    /\ sent \in Seq(Payload \cup {Invalid}) /\ delivered \in Seq(Payload)
    /\ wire \in Seq(Byte) /\ buf \in Seq(Byte)
    /\ Len(delivered) <= Len(sent)
    /\ \A i \in 1 .. Len(delivered) : delivered[i] = sent[i]
    /\ Divided(sent, Len(delivered), buf, wire)

LEMMA StreamInvInit == CodecInit => StreamInv
<1> SUFFICES ASSUME CodecInit
             PROVE  StreamInv
  OBVIOUS
<1>1. sent = <<>> /\ delivered = <<>> /\ wire = <<>> /\ buf = <<>>
  BY DEF CodecInit, StreamInit
<1> DEFINE frame == [i \in 1 .. 0 |-> <<>>]
           end == [i \in 0 .. 0 |-> 0]
<1>2. Divides(<<>>, 0, <<>>, <<>>, frame, end)
  BY DEF Divides, StreamLen
<1> HIDE DEF frame, end
<1>3. Divided(<<>>, 0, <<>>, <<>>)
  BY <1>2 DEF Divided
<1> QED
  BY <1>1, <1>3 DEF StreamInv

LEMMA PeerSendsKeeps ==
    ASSUME StreamInv, \/ \E p \in Payload : PeerSends(p)
                      \/ \E b \in BadHeader : PeerSendsBad(b)
    PROVE  StreamInv'
<1>1. PICK m, f :
          /\ m \in Payload \cup {Invalid} /\ IsFrame(m, f) /\ Send(m)
          /\ wire' = wire \o f /\ UNCHANGED buf
  <2>1. CASE \E p \in Payload : PeerSends(p)
    <3>1. PICK p \in Payload : PeerSends(p)
      BY <2>1
    <3>2. IsFrame(p, Encode(p)) /\ Send(p) /\ wire' = wire \o Encode(p) /\ UNCHANGED buf
      BY <3>1 DEF PeerSends, IsFrame
    <3> QED
      BY <3>2
  <2>2. CASE \E b \in BadHeader : PeerSendsBad(b)
    <3>1. PICK b \in BadHeader : PeerSendsBad(b)
      BY <2>2
    <3>2. IsFrame(Invalid, b) /\ Send(Invalid) /\ wire' = wire \o b /\ UNCHANGED buf
      BY <3>1 DEF PeerSendsBad, IsFrame
    <3> QED
      BY <3>2
  <2> QED
    BY <2>1, <2>2
<1>2. sent' = Append(sent, m) /\ UNCHANGED <<delivered, buf>> /\ wire' = wire \o f
  BY <1>1 DEF Send
<1>3. f \in Seq(Byte)
  BY <1>1, FrameIsBytes
<1>4. Len(delivered) \in Nat
  BY DEF StreamInv
<1>5. Divided(Append(sent, m), Len(delivered), buf, wire \o f)
  BY <1>1, <1>4, FrameWritten DEF StreamInv
<1>6. Divided(sent, Len(delivered), buf, wire)'
  BY <1>2, <1>5
<1>7. /\ sent' \in Seq(Payload \cup {Invalid}) /\ delivered' \in Seq(Payload)
      /\ wire' \in Seq(Byte) /\ buf' \in Seq(Byte)
  <2>1. m \in Payload \cup {Invalid}
    BY <1>1
  <2> QED
    BY <1>2, <1>3, <2>1 DEF StreamInv
<1>8. Len(delivered') <= Len(sent') /\ \A i \in 1 .. Len(delivered') : delivered'[i] = sent'[i]
  BY <1>2 DEF StreamInv
<1> QED
  BY <1>6, <1>7, <1>8 DEF StreamInv

LEMMA ArriveKeeps ==
    ASSUME StreamInv, NEW k, Arrive(k)
    PROVE  StreamInv'
<1>1. /\ k \in 1 .. Len(wire) /\ buf' = buf \o SubSeq(wire, 1, k)
      /\ wire' = SubSeq(wire, k + 1, Len(wire)) /\ UNCHANGED <<sent, delivered>>
  BY DEF Arrive, streamVars
<1>2. Len(delivered) \in Nat
  BY DEF StreamInv
<1>3. Divided(sent, Len(delivered), buf \o SubSeq(wire, 1, k), SubSeq(wire, k + 1, Len(wire)))
  BY <1>1, <1>2, BytesMoved DEF StreamInv
<1>4. Divided(sent, Len(delivered), buf, wire)'
  BY <1>1, <1>3
<1>5. buf' \in Seq(Byte) /\ wire' \in Seq(Byte)
  BY <1>1 DEF StreamInv
<1> QED
  BY <1>1, <1>4, <1>5 DEF StreamInv

\* The length of a frame is a number when there is a header.
LEMMA FrameLenIsInt ==
    ASSUME StreamInv, HasHeader
    PROVE  FrameLen \in Int
<1>1. buf \in Seq(Byte) /\ Len(buf) >= 2
  BY DEF StreamInv, HasHeader, HeaderLen
<1>2. <<buf[1], buf[2]>> \in Byte \X Byte
  BY <1>1
<1>3. SubSeq(buf, 1, 2) = <<buf[1], buf[2]>>
  BY <1>1, FirstTwo
<1>4. FrameLen = HeaderValue(SubSeq(buf, 1, 2))
  BY DEF FrameLen, HeaderLen
<1> QED
  BY <1>2, <1>3, <1>4, HeaderIsInt

\* What onMessage hands on is the next message that was sent.
LEMMA DeliverIsNext ==
    ASSUME StreamInv, DeliverFrame
    PROVE  /\ StreamInv'
           /\ Len(delivered) < Len(sent) /\ sent[Len(delivered) + 1] \in Payload
           /\ delivered' = Append(delivered, sent[Len(delivered) + 1])
<1> DEFINE d == Len(delivered)
<1>1. HasHeader /\ ~ InvalidLength(FrameLen) /\ HasFrame
      /\ delivered' = Append(delivered, SubSeq(buf, HeaderLen + 1, HeaderLen + FrameLen))
      /\ buf' = SubSeq(buf, HeaderLen + FrameLen + 1, Len(buf)) /\ UNCHANGED <<sent, wire>>
  BY DEF DeliverFrame
<1>2. FrameLen \in Nat /\ FrameLen <= MaxLen
  BY <1>1, FrameLenIsInt, CodecAssumption DEF InvalidLength
<1>3. /\ d \in Nat /\ Len(buf) >= HeaderLen /\ Len(buf) >= FrameLen + HeaderLen
      /\ FrameLen = HeaderValue(SubSeq(buf, 1, HeaderLen))
  BY <1>1 DEF StreamInv, HasHeader, HasFrame, FrameLen
<1> HIDE DEF d
<1>4. /\ sent \in Seq(Payload \cup {Invalid}) /\ buf \in Seq(Byte) /\ wire \in Seq(Byte)
      /\ d <= Len(sent) /\ Divided(sent, d, buf, wire)
  BY DEF StreamInv, d
<1>5. /\ d < Len(sent) /\ sent[d + 1] \in Payload
      /\ SubSeq(buf, HeaderLen + 1, HeaderLen + FrameLen) = sent[d + 1]
      /\ Divided(sent, d + 1, SubSeq(buf, HeaderLen + FrameLen + 1, Len(buf)), wire)
  BY <1>2, <1>3, <1>4, FrameTaken
<1>6. delivered' = Append(delivered, sent[d + 1])
  BY <1>1, <1>5
<1>7. Len(delivered') = d + 1 /\ delivered' \in Seq(Payload)
      /\ \A i \in 1 .. Len(delivered') : delivered'[i] = sent'[i]
  <2>1. delivered \in Seq(Payload) /\ d = Len(delivered) /\ UNCHANGED sent
        /\ \A i \in 1 .. d : delivered[i] = sent[i]
    BY <1>1 DEF StreamInv, d
  <2>2. Len(delivered') = d + 1 /\ delivered' \in Seq(Payload)
        /\ delivered'[d + 1] = sent[d + 1] /\ \A i \in 1 .. d : delivered'[i] = delivered[i]
    BY <1>5, <1>6, <2>1
  <2>3. \A i \in 1 .. d + 1 : i \in 1 .. d \/ i = d + 1
    BY <1>3
  <2> QED
    BY <2>1, <2>2, <2>3
<1>8. buf' \in Seq(Byte) /\ wire' \in Seq(Byte) /\ sent' \in Seq(Payload \cup {Invalid})
      /\ d + 1 <= Len(sent')
  <2>1. buf' \in Seq(Byte)
    <3>1. HeaderLen + FrameLen + 1 \in 1 .. Len(buf) + 1
      BY <1>2, <1>3, <1>4 DEF HeaderLen
    <3>2. \A k \in 1 .. Len(buf) + 1 : SubSeq(buf, k, Len(buf)) \in Seq(Byte)
      BY <1>4
    <3> QED
      BY <1>1, <3>1, <3>2
  <2> QED
    BY <1>1, <1>3, <1>4, <1>5, <2>1
<1>9. Divided(sent, Len(delivered), buf, wire)'
  BY <1>1, <1>5, <1>7
<1>10. StreamInv'
  BY <1>7, <1>8, <1>9 DEF StreamInv
<1> QED
  BY <1>5, <1>6, <1>10 DEF d

\* Every step of the dialogue keeps the invariant and is one of MessageStream.
LEMMA StreamStep ==
    ASSUME StreamInv, [DialogueNext]_dialogueVars
    PROVE  StreamInv' /\ [StreamNext]_streamVars
<1>1. ASSUME UNCHANGED <<sent, delivered, wire, buf>>
      PROVE  StreamInv' /\ UNCHANGED streamVars
  BY <1>1 DEF StreamInv, streamVars
<1>2. CASE Handle
  <2>1. CASE DeliverFrame
    <3>1. StreamInv' /\ delivered' = Append(delivered, sent[Len(delivered) + 1])
          /\ Len(delivered) < Len(sent) /\ sent[Len(delivered) + 1] \in Payload
      BY <2>1, DeliverIsNext
    <3>2. ValidUpTo(Len(delivered) + 1)
      <4>1. ASSUME NEW i \in 1 .. Len(delivered) + 1
            PROVE  sent[i] \in Payload
        <5>1. CASE i <= Len(delivered)
          BY <5>1 DEF StreamInv
        <5>2. CASE i = Len(delivered) + 1
          BY <3>1, <5>2
        <5>3. Len(delivered) \in Nat
          BY DEF StreamInv
        <5> QED
          BY <5>1, <5>2, <5>3
      <4> QED
        BY <4>1, PayloadAssumption DEF ValidUpTo
    <3>3. UNCHANGED sent
      BY <2>1 DEF DeliverFrame
    <3> QED
      BY <3>1, <3>2, <3>3 DEF StreamNext, Deliver
  <2>2. CASE RefuseFrame \/ AwaitMore
    BY <1>1, <2>2 DEF RefuseFrame, AwaitMore, streamVars
  <2> QED
    BY <1>2, <2>1, <2>2 DEF Handle
<1>3. CASE Receive
  <2>1. PICK k \in 1 .. Len(wire) : Arrive(k)
    BY <1>3 DEF Receive
  <2> QED
    BY <2>1, ArriveKeeps DEF Arrive
<1>4. CASE NodeSends \/ Ask
  <2>1. \/ \E p \in Payload : PeerSends(p)
        \/ \E b \in BadHeader : PeerSendsBad(b)
    BY <1>4 DEF NodeSends, Ask
  <2>2. \E m \in Payload \cup {Invalid} : Send(m)
    BY <2>1 DEF PeerSends, PeerSendsBad
  <2> QED
    BY <2>1, <2>2, PeerSendsKeeps DEF StreamNext
<1>5. CASE IdleClose \/ Lose \/ AskFails \/ RecvSome \/ RecvNone \/ Tick
  BY <1>1, <1>5 DEF IdleClose, Lose, AskFails, RecvSome, RecvNone, Tick, codecVars, streamVars
<1>6. CASE UNCHANGED dialogueVars
  BY <1>1, <1>6 DEF dialogueVars, codecVars, streamVars
<1> QED
  BY <1>2, <1>3, <1>4, <1>5, <1>6 DEF DialogueNext

\* However the stream is cut, and whatever the peer sends: onMessage hands on the
\* messages that were sent, whole, in order, and none from an invalid length on.
THEOREM StreamKept == DialogueSpec => ImplementsStream
<1>1. DialogueInit => StreamInit /\ StreamInv
  BY StreamInvInit DEF DialogueInit, CodecInit
<1>2. StreamInv /\ [DialogueNext]_dialogueVars => StreamInv' /\ [StreamNext]_streamVars
  BY StreamStep
<1> QED
  BY <1>1, <1>2, PTL DEF DialogueSpec, ImplementsStream, StreamSpec

-----------------------------------------------------------------------------
(* The client: what it takes for the answer.                                *)

\* An answer can be encoded, and is not empty.
LEMMA AnswerIsMessage ==
    ASSUME NEW p \in Payload, Answerable(p)
    PROVE  Answer(p) \in Seq(Byte) /\ Len(Answer(p)) <= MaxLen
<1>1. p \in Seq(Byte) /\ Len(p) \in Byte /\ Len(p) > 0 /\ KeyCount \in Nat /\ KeyCount + 2 <= MaxLen
  BY CodecAssumption, DialogueAssumption DEF Answerable, Sized
<1>2. QuestType(p) \in Byte /\ 0 \in Byte
  BY <1>1, CodecAssumption DEF QuestType, Byte
<1>3. <<QuestType(p), Len(p)>> \in Seq(Byte)
  BY <1>1, <1>2
<1>4. [i \in 1 .. KeyCount |-> 0] \in Seq(Byte) /\ Len([i \in 1 .. KeyCount |-> 0]) = KeyCount
  BY <1>1, <1>2
<1>5. CASE QuestType(p) = MST_QUEST_KEY
  <2> DEFINE keys == [i \in 1 .. KeyCount |-> 0]
             two == <<QuestType(p), Len(p)>>
  <2>1. Answer(p) = two \o keys
    BY <1>5 DEF Answer
  <2>2. Len(two) = 2
    OBVIOUS
  <2> HIDE DEF keys, two
  <2> QED
    BY <1>1, <1>3, <1>4, <2>1, <2>2 DEF keys, two
<1>6. CASE QuestType(p) # MST_QUEST_KEY
  <2>1. Answer(p) = <<QuestType(p), Len(p)>> \o <<>>
    BY <1>6 DEF Answer
  <2>2. <<QuestType(p), Len(p)>> \o <<>> = <<QuestType(p), Len(p)>>
    BY <1>3
  <2>3. Len(<<QuestType(p), Len(p)>>) = 2
    OBVIOUS
  <2>4. 2 <= MaxLen
    BY <1>1, CodecAssumption
  <2> QED
    BY <1>3, <2>1, <2>2, <2>3, <2>4
<1> QED
  BY <1>5, <1>6

\* A first part of a frame that has the length it says is all of it: one byte never is.
LEMMA FitsIsWhole ==
    ASSUME NEW p \in Seq(Byte), Len(p) <= MaxLen, NEW k \in 1 .. Len(Encode(p)),
           Fits(SubSeq(Encode(p), 1, k))
    PROVE  k = HeaderLen + Len(p) /\ SubSeq(SubSeq(Encode(p), 1, k), HeaderLen + 1, k) = p
<1> DEFINE e == Encode(p)
           got == SubSeq(e, 1, k)
<1>1. /\ e \in Seq(Byte) /\ Len(e) = 2 + Len(p) /\ HeaderValue(<<e[1], e[2]>>) = Len(p)
      /\ \A j \in 1 .. Len(p) : e[2 + j] = p[j]
  BY EncodeIsFrame DEF HeaderLen
<1> HIDE DEF e
<1>2. got \in Seq(Byte) /\ Len(got) = k /\ \A j \in 1 .. k : got[j] = e[j]
  BY <1>1 DEF e
<1>3. MsgLen(got) = k - 2
  BY <1>2 DEF Fits, HeaderLen, e
<1>4. k # 1
  <2>1. SUFFICES ASSUME k = 1
                 PROVE  FALSE
    OBVIOUS
  <2> DEFINE x == e[1]
  <2>2. x \in Nat /\ Radix \in Nat /\ Radix > 1 /\ x < Radix
    BY <1>1, CodecAssumption DEF Byte
  <2>3. HeaderValue(<<x, 0>>) = -1
    <3> HIDE DEF got
    <3>1. got = <<x>>
      BY <1>2, <2>1
    <3> HIDE DEF x
    <3> DEFINE t == <<x>> \o <<0>>
    <3>2. t = <<x, 0>>
      <4>1. <<x>> \in Seq(Nat) /\ <<0>> \in Seq(Nat) /\ Len(<<x>>) = 1 /\ Len(<<0>>) = 1
        BY <2>2
      <4>2. t \in Seq(Nat) /\ Len(t) = 2 /\ t[1] = x /\ t[2] = 0
        BY <4>1
      <4> HIDE DEF t
      <4>3. t = <<t[1], t[2]>>
        BY <4>2
      <4> QED
        BY <4>2, <4>3
    <3>3. MsgLen(got) = HeaderValue(got \o <<0>>)
      BY <1>2, <2>1 DEF MsgLen
    <3>4. MsgLen(got) = -1
      BY <1>3, <2>1
    <3> QED
      BY <3>1, <3>2, <3>3, <3>4
  <2> HIDE DEF x, got
  <2>4. HeaderValue(<<x, 0>>) = IF 2 * (x * Radix + 0) >= Radix * Radix
                                THEN (x * Radix + 0) - Radix * Radix ELSE x * Radix + 0
    BY DEF HeaderValue
  <2>5. x * Radix >= 0 /\ x * Radix \in Int /\ Radix * Radix \in Int
    BY <2>2
  <2>6. x * Radix - Radix * Radix = -1
    BY <2>3, <2>4, <2>5
  <2>7. (Radix - x) * Radix = 1
    BY <2>2, <2>6
  <2>8. Radix - x >= 1 /\ (Radix - x) * Radix >= Radix
    BY <2>2
  <2> QED
    BY <2>2, <2>7, <2>8
<1>5. k >= 2 /\ got[1] = e[1] /\ got[2] = e[2]
  BY <1>2, <1>4
<1> HIDE DEF got
<1>6. MsgLen(got) = Len(p)
  <2>1. MsgLen(got) = HeaderValue(got)
    BY <1>2, <1>4 DEF MsgLen
  <2>2. HeaderValue(got) = HeaderValue(<<got[1], got[2]>>)
    BY DEF HeaderValue
  <2> QED
    BY <1>1, <1>5, <2>1, <2>2
<1>7. k = 2 + Len(p)
  BY <1>3, <1>6
<1>8. SubSeq(got, 3, k) = p
  <2>1. SubSeq(got, 3, k) \in Seq(Byte) /\ Len(SubSeq(got, 3, k)) = Len(p)
        /\ \A j \in 1 .. Len(p) : SubSeq(got, 3, k)[j] = got[2 + j]
    BY <1>2, <1>7
  <2>2. \A j \in 1 .. Len(p) : got[2 + j] = p[j]
    <3>1. \A j \in 1 .. Len(p) : 2 + j \in 1 .. k
      BY <1>1, <1>7
    <3> QED
      BY <1>1, <1>2, <1>4, <3>1
  <2> QED
    BY <2>1, <2>2
<1> QED
  BY <1>7, <1>8 DEF HeaderLen, got, e

\* What a client that waits has before it: nothing, or the answer to its request.
ClientInv ==
    /\ handling \in BOOLEAN /\ shut \in BOOLEAN /\ tool \in BOOLEAN /\ polls \in BOOLEAN
    /\ client \in {"start", "waiting", "ok", "failed"} /\ closed \in {"no", "idle", "lost"}
    /\ waited \in 0 .. Timeout
    /\ out \in Seq(Byte) /\ result \in Seq(Byte)
    /\ ~ tool => client = "start"
    /\ tool /\ client = "start" => sent = <<>> /\ out = <<>>
    /\ tool /\ sent # <<>> => Len(sent) = 1 /\ sent[1] \in Payload /\ Answerable(sent[1])
    /\ client = "waiting" => /\ sent # <<>>
                             /\ delivered = <<>> => out = <<>>
                             /\ delivered # <<>> => out = Encode(Answer(sent[1]))
    /\ WholeAnswerOnly

LEMMA ClientInvInit == DialogueInit => ClientInv
<1> SUFFICES ASSUME DialogueInit
             PROVE  ClientInv
  OBVIOUS
<1>1. waited \in 0 .. Timeout
  BY DialogueAssumption DEF DialogueInit
<1>2. handling \in BOOLEAN /\ shut \in BOOLEAN /\ tool \in BOOLEAN /\ polls \in BOOLEAN
  BY DEF DialogueInit, CodecInit
<1> QED
  BY <1>1, <1>2 DEF DialogueInit, CodecInit, StreamInit, ClientInv, WholeAnswerOnly

LEMMA ClientInvNext == StreamInv /\ ClientInv /\ [DialogueNext]_dialogueVars => ClientInv'
<1> SUFFICES ASSUME StreamInv, ClientInv, [DialogueNext]_dialogueVars
             PROVE  ClientInv'
  OBVIOUS
<1>1. CASE Handle
  <2>1. CASE DeliverFrame /\ OnStringMessage(delivered'[Len(delivered')])
    <3> DEFINE m == sent[Len(delivered) + 1]
    <3>1. /\ Len(delivered) < Len(sent) /\ m \in Payload
          /\ delivered' = Append(delivered, m)
      BY <2>1, DeliverIsNext
    <3>2. delivered'[Len(delivered')] = m
      BY <3>1 DEF StreamInv
    <3>3. UNCHANGED <<sent, handling, shut, tool, polls, client, waited, result>>
      BY <1>1, <2>1 DEF Handle, DeliverFrame, clientVars
    <3>4. closed' \in {"no", "idle", "lost"}
          /\ out' = IF tool /\ Answerable(m) THEN out \o Encode(Answer(m)) ELSE out
      BY <2>1, <3>2 DEF OnStringMessage, ClientInv
    <3>5. Answerable(m) => Encode(Answer(m)) \in Seq(Byte)
      BY <3>1, AnswerIsMessage, EncodeIsFrame
    <3>6. out' \in Seq(Byte)
      BY <3>4, <3>5 DEF ClientInv
    <3>7. delivered' # <<>> /\ sent # <<>>
      BY <3>1 DEF StreamInv
    <3>8. ASSUME client = "waiting"
          PROVE  out' = Encode(Answer(sent[1]))
      <4>1. tool /\ Len(sent) = 1 /\ Answerable(sent[1])
        BY <3>7, <3>8 DEF ClientInv
      <4>2. delivered = <<>> /\ m = sent[1]
        BY <3>1, <4>1 DEF StreamInv
      <4>3. out = <<>>
        BY <3>8, <4>2 DEF ClientInv
      <4> QED
        BY <3>4, <3>5, <4>1, <4>2, <4>3
    <3>9. client = "start" /\ tool => FALSE
      BY <3>7 DEF ClientInv
    <3> HIDE DEF m
    <3> QED
      BY <3>3, <3>4, <3>6, <3>7, <3>8, <3>9 DEF ClientInv, WholeAnswerOnly
  <2>2. CASE (RefuseFrame \/ AwaitMore) /\ UNCHANGED <<closed, out>>
    BY <1>1, <2>2 DEF Handle, RefuseFrame, AwaitMore, ClientInv, WholeAnswerOnly, streamVars,
                      clientVars
  <2> QED
    BY <1>1, <2>1, <2>2 DEF Handle
<1>2. CASE Receive
  BY <1>2 DEF Receive, Arrive, ClientInv, WholeAnswerOnly, streamVars, clientVars
<1>3. CASE IdleClose \/ Lose
  BY <1>3 DEF IdleClose, Lose, ClientInv, WholeAnswerOnly, streamVars, codecVars, clientVars
<1>4. CASE NodeSends
  <2>1. /\ ~ tool
        /\ UNCHANGED <<delivered, handling, shut, tool, polls, out, client, waited, result, closed>>
    BY <1>4 DEF NodeSends, PeerSends, PeerSendsBad, Send, clientVars
  <2> QED
    BY <2>1 DEF ClientInv, WholeAnswerOnly
<1>5. CASE Ask
  <2>1. PICK p \in Payload : Answerable(p) /\ PeerSends(p)
    BY <1>5 DEF Ask
  <2>2. /\ tool /\ sent = <<>> /\ out = <<>> /\ sent' = Append(sent, p)
        /\ client' = "waiting" /\ waited' = 0
        /\ UNCHANGED <<delivered, handling, shut, tool, polls, out, result, closed>>
    BY <1>5, <2>1 DEF Ask, PeerSends, Send, ClientInv
  <2>3. sent' = <<p>> /\ delivered = <<>>
    BY <2>2 DEF StreamInv
  <2>4. sent'[1] = p /\ Len(sent') = 1 /\ sent' # <<>>
    BY <2>3
  <2> QED
    BY <2>1, <2>2, <2>3, <2>4, DialogueAssumption DEF ClientInv, WholeAnswerOnly
<1>6. CASE AskFails
  BY <1>6 DEF AskFails, ClientInv, WholeAnswerOnly, streamVars, codecVars
<1>7. CASE RecvSome
  <2>1. PICK k \in 1 .. Len(out) :
          /\ out' = SubSeq(out, k + 1, Len(out))
          /\ IF waited < Timeout /\ Fits(SubSeq(out, 1, k))
                THEN client' = "ok" /\ result' = SubSeq(SubSeq(out, 1, k), HeaderLen + 1, k)
                ELSE client' = "failed" /\ UNCHANGED result
    BY <1>7 DEF RecvSome
  <2>2. /\ client = "waiting"
        /\ UNCHANGED <<sent, delivered, handling, shut, tool, polls, waited, closed>>
    BY <1>7 DEF RecvSome, streamVars, codecVars
  <2>3. tool /\ sent # <<>> /\ Len(sent) = 1 /\ sent[1] \in Payload /\ Answerable(sent[1])
    BY <2>2 DEF ClientInv
  <2>4. out \in Seq(Byte) /\ out # <<>>
    BY <2>1 DEF ClientInv
  <2>5. out = Encode(Answer(sent[1]))
    BY <2>2, <2>4 DEF ClientInv
  <2>6. out' \in Seq(Byte)
    BY <2>1, <2>4
  <2>7. CASE client' = "ok"
    <3>1. Fits(SubSeq(out, 1, k)) /\ result' = SubSeq(SubSeq(out, 1, k), HeaderLen + 1, k)
      BY <2>1, <2>7
    <3>2. Answer(sent[1]) \in Seq(Byte) /\ Len(Answer(sent[1])) <= MaxLen
      BY <2>3, AnswerIsMessage
    <3>3. result' = Answer(sent[1])
      BY <2>5, <3>1, <3>2, FitsIsWhole
    <3> QED
      BY <2>2, <2>3, <2>6, <2>7, <3>2, <3>3 DEF ClientInv, WholeAnswerOnly
  <2>8. CASE client' = "failed" /\ UNCHANGED result
    BY <2>2, <2>3, <2>6, <2>8 DEF ClientInv, WholeAnswerOnly
  <2> QED
    BY <2>1, <2>7, <2>8
<1>8. CASE RecvNone
  BY <1>8 DEF RecvNone, NothingToRecv, ClientInv, WholeAnswerOnly, streamVars, codecVars
<1>9. CASE Tick
  BY <1>9, DialogueAssumption
     DEF Tick, ClientInv, WholeAnswerOnly, streamVars, codecVars
<1>10. CASE UNCHANGED dialogueVars
  BY <1>10 DEF dialogueVars, streamVars, codecVars, clientVars, ClientInv, WholeAnswerOnly
<1> QED
  BY <1>1, <1>2, <1>3, <1>4, <1>5, <1>6, <1>7, <1>8, <1>9, <1>10 DEF DialogueNext

\* For messages and answers of any size: MSTRequest returns the whole answer to what it
\* asked or fails, although it takes what one recv() gives it for the message.
THEOREM AnswersWhole == DialogueSpec => []DialogueSafe
<1>1. DialogueInit => StreamInv /\ ClientInv
  BY StreamInvInit, ClientInvInit DEF DialogueInit
<1>2. StreamInv /\ ClientInv /\ [DialogueNext]_dialogueVars => (StreamInv /\ ClientInv)'
  BY StreamStep, ClientInvNext
<1>3. StreamInv /\ ClientInv => DialogueSafe
  BY DEF StreamInv, ClientInv, DialogueSafe, DialogueTypeOK
<1> QED
  BY <1>1, <1>2, <1>3, PTL DEF DialogueSpec

-----------------------------------------------------------------------------
(* Calls to the database, for any number of repeats and pings: their types,   *)
(* the settings of the session a statement runs in, and that the calls keep   *)
(* the promises of Statement.                                                *)

\* The call is at step k, or in an open() that leads there.
At(k) == pc = k \/ (pc \in {"connect", "charset", "zone"} /\ back = k)

\* Where the call is says what its counters can be.
CountersAgree ==
    /\ At("ping") \/ At("reping") => attempts = 0
    /\ pc \in {"execute", "recover"} => attempts <= MaxRetry
    /\ At("query") => applied < attempts
    /\ pc = "store" => applied > 0

\* open() is done with every connection that it leaves open.
SettingsAgree ==
    /\ pc = "connect" => conn = "null"
    /\ pc = "zone" /\ conn = "open" => "charset" \in prepared
    /\ pc \in {"ping", "reping", "execute", "query"} /\ conn = "open"
       => prepared = Setting

SessionInv == SessionTypeOK /\ CountersAgree /\ SettingsAgree

\* The invariant holds when the program starts.
LEMMA SessionInvInit == SessionInit => SessionInv
BY LimitAssumption DEF SessionInit, SessionInv, SessionTypeOK, CountersAgree, SettingsAgree,
   At, Pc, Done, Report, Setting

\* Every step of a call, and of the world around it, keeps the invariant.
LEMMA SessionInvNext == SessionInv /\ [SessionNext]_sessionVars => SessionInv'
<1> SUFFICES ASSUME SessionInv, [SessionNext]_sessionVars
             PROVE  SessionInv'
    OBVIOUS
<1> USE LimitAssumption
<1> USE DEF SessionInv, SessionTypeOK, CountersAgree, SettingsAgree, At, Pc, Done, Report,
            Setting
<1>1. CASE Connect /\ UNCHANGED up
      BY <1>1 DEF Connect
<1>2. CASE ConnectFails /\ UNCHANGED up
      BY <1>2 DEF ConnectFails
<1>3. CASE (SetCharset \/ SetZone) /\ UNCHANGED up
      BY <1>3 DEF SetCharset, SetZone, Sets
<1>4. CASE Ping /\ UNCHANGED up
      BY <1>4 DEF Ping
<1>5. CASE (PingFails \/ RepingFails) /\ UNCHANGED up
  <2>1. CASE PingFails
        BY <1>5, <2>1 DEF PingFails, Opens
  <2>2. CASE RepingFails /\ pings < MaxPing
    <3>1. /\ pc = "reping" /\ pc' = "ping" /\ conn' = "broken"
          /\ pings' = pings + 1 /\ pings' \in 0 .. MaxPing
          BY <2>2 DEF RepingFails
    <3>2. /\ attempts' = 0 /\ applied' = 0
          /\ UNCHANGED <<back, prepared, call, up>>
          BY <1>5, <2>2, <3>1 DEF RepingFails
    <3>3. QED
          BY <3>1, <3>2
  <2>3. CASE RepingFails /\ ~ (pings < MaxPing)
        BY <1>5, <2>3 DEF RepingFails, Returns
  <2>4. QED
        BY <1>5, <2>1, <2>2, <2>3
<1>6. CASE NullHandle /\ UNCHANGED up
      BY <1>6 DEF NullHandle, Returns
<1>7. CASE Execute /\ UNCHANGED up
  <2>1. attempts' = attempts + 1 /\ attempts' \in 1 .. MaxRetry + 1
        BY <1>7 DEF Execute
  <2>2. applied' = applied /\ applied' < attempts'
        BY <1>7, <2>1 DEF Execute
  <2>3. CASE conn = "null"
        BY <1>7, <2>1, <2>2, <2>3 DEF Execute, Opens
  <2>4. CASE conn # "null"
    <3>1. /\ pc = "execute" /\ pc' = "query"
          /\ UNCHANGED <<back, conn, prepared, pings, call, up>>
          BY <1>7, <2>4 DEF Execute
    <3>2. QED
          BY <2>1, <2>2, <3>1
  <2>5. QED
        BY <2>3, <2>4
<1>8. CASE Answered /\ UNCHANGED up
      BY <1>8 DEF Answered, Returns
<1>9. CASE (AnswerLost \/ Gone) /\ UNCHANGED up
  <2>1. applied' \in 0 .. attempts /\ UNCHANGED <<attempts, pings, call>>
        BY <1>9 DEF AnswerLost, Gone
  <2>2. CASE attempts <= MaxRetry
        BY <1>9, <2>1, <2>2 DEF AnswerLost, Gone, NetworkError
  <2>3. CASE ~ (attempts <= MaxRetry)
        BY <1>9, <2>1, <2>3 DEF AnswerLost, Gone, NetworkError, Returns
  <2>4. QED
        BY <2>2, <2>3
<1>10. CASE (Rejected \/ Recover \/ Store \/ StoreLost) /\ UNCHANGED up
      BY <1>10 DEF Rejected, Recover, Store, StoreLost, Returns
<1>11. ASSUME NEW k \in {"update", "select"}, Begin(k), UNCHANGED up
       PROVE  SessionInv'
      BY <1>11 DEF Begin, Opens
<1>12. CASE Break \/ GoDown \/ ComeUp
      BY <1>12 DEF Break, GoDown, ComeUp, callVars
<1>13. CASE UNCHANGED sessionVars
      BY <1>13 DEF sessionVars, callVars
<1>14. QED
      BY <1>1, <1>2, <1>3, <1>4, <1>5, <1>6, <1>7, <1>8, <1>9, <1>10, <1>11, <1>12,
         <1>13 DEF SessionNext, CallStep

LEMMA SessionInvariant == SessionSpec => []SessionInv
<1>1. SessionInit => SessionInv
      BY SessionInvInit
<1>2. SessionInv /\ [SessionNext]_sessionVars => SessionInv'
      BY SessionInvNext
<1>3. QED
      BY <1>1, <1>2, PTL DEF SessionSpec

-----------------------------------------------------------------------------
\* The type invariant, with the bounds of IsDBOnline and execute() on what a call
\* tries and on how often the server runs its statement.
THEOREM SessionType == SessionSpec => []SessionTypeOK
<1>1. SessionInv => SessionTypeOK
      BY DEF SessionInv
<1>2. QED
      BY <1>1, SessionInvariant, PTL

\* The server runs statements only in a session in which open() has set the
\* character set and the time zone.
THEOREM PreparedAlways == SessionSpec => StatementPrepared
<1>1. SessionInv /\ [SessionNext]_sessionVars
      => [applied' = applied + 1 => prepared = Setting]_sessionVars
  <2> SUFFICES ASSUME SessionInv, SessionNext, applied' = applied + 1
               PROVE  prepared = Setting
      BY DEF SessionInv
  <2>1. applied \in Nat
      BY LimitAssumption DEF SessionInv, SessionTypeOK
  <2>2. Answered \/ AnswerLost
      BY <2>1 DEF SessionNext, CallStep, Connect, ConnectFails, SetCharset, SetZone, Ping,
         PingFails, RepingFails, NullHandle, Execute, Gone, Rejected, Recover, Store,
         StoreLost, Begin, Break, GoDown, ComeUp, callVars
  <2>3. QED
      BY <2>2 DEF SessionInv, SettingsAgree, Answered, AnswerLost
<1>2. QED
      BY <1>1, SessionInvariant, PTL DEF SessionSpec, StatementPrepared

-----------------------------------------------------------------------------
\* A call begins as a call of Statement does.
LEMMA PromiseInit == SessionInit => Promise!StatementInit
BY DEF SessionInit, Promise!StatementInit, Done, Report

\* Every step of the session is a step of Statement or none that it sees: only
\* Answered and AnswerLost run the statement, and what they run is within the
\* bound because the call was at "query".
LEMMA PromiseNext ==
    SessionInv /\ [SessionNext]_sessionVars
    => [Promise!Call \/ Promise!Apply \/ Promise!Finish]_(Promise!statementVars)
<1> SUFFICES ASSUME SessionInv, [SessionNext]_sessionVars
             PROVE  [Promise!Call \/ Promise!Apply \/ Promise!Finish]_(Promise!statementVars)
    OBVIOUS
<1> USE LimitAssumption
<1> DEFINE phase == IF pc \in Done THEN pc ELSE "running"
<1> USE DEF Done, Report
<1>1. ASSUME phase' = phase, applied' = applied
      PROVE  UNCHANGED Promise!statementVars
      BY <1>1 DEF Promise!statementVars
<1>2. CASE Connect \/ SetCharset \/ SetZone
      BY <1>1, <1>2 DEF Connect, SetCharset, SetZone, SessionInv, SessionTypeOK
<1>3. CASE ConnectFails \/ Ping \/ PingFails \/ Execute \/ Recover
      BY <1>1, <1>3 DEF ConnectFails, Ping, PingFails, Execute, Recover, Opens, SessionInv,
         SessionTypeOK
<1>4. CASE RepingFails
  <2>1. pc = "reping" /\ pc' \in {"ping", "false"} /\ applied' = applied
        BY <1>4 DEF RepingFails, Returns
  <2>2. CASE pc' = "ping"
        BY <1>1, <2>1, <2>2
  <2>3. CASE pc' = "false"
        BY <2>1, <2>3 DEF Promise!Finish, Promise!Report
  <2>4. QED
        BY <2>1, <2>2, <2>3
<1>5. CASE NullHandle \/ Rejected
      BY <1>5 DEF NullHandle, Rejected, Returns, Promise!Finish, Promise!Report
<1>6. CASE Store \/ StoreLost
  <2>1. pc = "store" /\ pc' \in {"true", "empty"} /\ applied' = applied
        BY <1>6 DEF Store, StoreLost, Returns
  <2>2. applied > 0
        BY <2>1 DEF SessionInv, CountersAgree
  <2>3. QED
        BY <2>1, <2>2 DEF Promise!Finish, Promise!Report
<1>7. CASE Answered \/ AnswerLost
  <2>1. pc = "query" /\ applied' = applied + 1
        BY <1>7 DEF Answered, AnswerLost
  <2>2. pc' \in {"store", "true", "recover", "false"}
        BY <1>7 DEF Answered, AnswerLost, NetworkError, Returns
  <2>3. applied <= MaxRetry
        BY <2>1 DEF SessionInv, SessionTypeOK, CountersAgree, At
  <2>4. QED
        BY <2>1, <2>2, <2>3 DEF Promise!Apply
<1>8. CASE Gone
  <2>1. pc = "query" /\ pc' \in {"recover", "false"} /\ applied' = applied
        BY <1>8 DEF Gone, NetworkError, Returns
  <2>2. CASE pc' = "recover"
        BY <1>1, <2>1, <2>2
  <2>3. CASE pc' = "false"
        BY <2>1, <2>3 DEF Promise!Finish, Promise!Report
  <2>4. QED
        BY <2>1, <2>2, <2>3
<1>9. ASSUME NEW k \in {"update", "select"}, Begin(k)
      PROVE  Promise!Call
      BY <1>9 DEF Begin, Opens, Promise!Call
<1>10. CASE Break \/ GoDown \/ ComeUp \/ UNCHANGED sessionVars
      BY <1>1, <1>10 DEF Break, GoDown, ComeUp, sessionVars, callVars
<1>11. QED
      BY <1>2, <1>3, <1>4, <1>5, <1>6, <1>7, <1>8, <1>9, <1>10 DEF SessionNext, CallStep

\* A call of CUlordDb keeps the promises of Statement, whatever the limits, the
\* network and the database are.
THEOREM SessionKeepsPromise == SessionSpec => ImplementsStatement
BY PromiseInit, PromiseNext, SessionInvariant, PTL
   DEF SessionSpec, ImplementsStatement, Promise!StatementSpec
=============================================================================
