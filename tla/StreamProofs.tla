----------------------------- MODULE StreamProofs -----------------------------
(***************************************************************************)
(* A buffer of any size, for writes of any length; a server with any number *)
(* of loops, a client with any delays, and a connection with any messages    *)
(* and threads: each part by an inductive invariant of its own, since one    *)
(* part runs and the others stand still.                                     *)
(***************************************************************************)
EXTENDS MCStream, FiniteSetTheorems, SequenceTheorems, TLAPS

\* Cells c with the indices r and w hold q, and there is room to prepend.
Holds(c, r, w, q) ==
    /\ c \in Seq(Byte) /\ r \in Nat /\ w \in Nat /\ q \in Seq(Byte)
    /\ r <= w /\ w <= Len(c) /\ kCheapPrepend <= Len(c)
    /\ Len(q) = w - r
    /\ \A k \in 1 .. Len(q) : c[r + k] = q[k]

BufferInv == Holds(cells, readerIndex, writerIndex, content)

LEMMA WrittenCells ==
    ASSUME NEW c \in Seq(Byte), NEW w \in Nat, NEW data \in Seq(Byte)
    PROVE  /\ Written(c, w, data) \in Seq(Byte) /\ Len(Written(c, w, data)) = Len(c)
           /\ \A i \in 1 .. Len(c) : i <= w \/ i > w + Len(data) => Written(c, w, data)[i] = c[i]
           /\ \A k \in 1 .. Len(data) : w + k <= Len(c) => Written(c, w, data)[w + k] = data[k]
<1> DEFINE x == Written(c, w, data)
<1>1. Len(c) \in Nat /\ DOMAIN c = 1 .. Len(c) /\ Len(data) \in Nat
  OBVIOUS
<1>2. x = [i \in 1 .. Len(c) |-> IF i \in w + 1 .. w + Len(data) THEN data[i - w] ELSE c[i]]
  BY <1>1 DEF Written
<1>3. \A i \in 1 .. Len(c) : c[i] \in Byte
  OBVIOUS
<1>4. \A i \in w + 1 .. w + Len(data) : data[i - w] \in Byte
  <2>1. \A i \in w + 1 .. w + Len(data) : i - w \in 1 .. Len(data)
    BY <1>1
  <2> QED
    BY <2>1
<1> HIDE DEF x
<1>5. x \in [1 .. Len(c) -> Byte]
  BY <1>2, <1>3, <1>4
<1>6. x \in Seq(Byte) /\ Len(x) = Len(c)
  BY <1>1, <1>5
<1>7. \A i \in 1 .. Len(c) : i <= w \/ i > w + Len(data) => x[i] = c[i]
  BY <1>1, <1>2
<1>8. \A k \in 1 .. Len(data) : w + k <= Len(c) => x[w + k] = data[k]
  <2>1. \A k \in 1 .. Len(data) : w + k \in w + 1 .. w + Len(data) /\ w + k - w = k
                                  /\ w + k >= 1
    BY <1>1
  <2> QED
    BY <1>1, <1>2, <2>1
<1> QED
  BY <1>6, <1>7, <1>8 DEF x

LEMMA NewCellsAreBytes ==
    ASSUME NEW n \in Nat
    PROVE  NewCells(n) \in Seq(Byte) /\ Len(NewCells(n)) = n
<1>1. Stale \in Byte
  BY BufferAssumption DEF Stale
<1> QED
  BY <1>1 DEF NewCells

\* What is in the cells stays in them when there is made room for more.
LEMMA RoomKeeps ==
    ASSUME NEW c, NEW w, NEW q, Holds(c, readerIndex, w, q), NEW len \in Nat
    PROVE  LET r == Room(c, w, len)
           IN  Holds(r.cells, r.reader, r.writer, q) /\ r.writer + len <= Len(r.cells)
<1> DEFINE r == Room(c, w, len)
<1>1. /\ c \in Seq(Byte) /\ readerIndex \in Nat /\ w \in Nat /\ q \in Seq(Byte)
      /\ readerIndex <= w /\ w <= Len(c) /\ kCheapPrepend <= Len(c)
      /\ Len(q) = w - readerIndex
      /\ \A k \in 1 .. Len(q) : c[readerIndex + k] = q[k]
  BY DEF Holds
<1>2. kCheapPrepend \in Nat /\ Len(c) \in Nat
  BY <1>1, BufferAssumption
<1>3. CASE Len(c) - w >= len
  <2>1. r = [cells |-> c, reader |-> readerIndex, writer |-> w]
    BY <1>3 DEF Room
  <2> QED
    BY <1>1, <1>2, <1>3, <2>1 DEF Holds
<1>4. CASE ~ (Len(c) - w >= len) /\ Moves(Len(c) - w, len)
  <2> DEFINE b == Between(c, readerIndex, w)
             x == Written(c, kCheapPrepend, b)
  <2>1. r = [cells |-> x, reader |-> kCheapPrepend, writer |-> kCheapPrepend + w - readerIndex]
    BY <1>4 DEF Room
  <2>2. (Len(c) - w) + readerIndex >= len + kCheapPrepend
    BY <1>4 DEF Moves
  <2>3. b \in Seq(Byte) /\ Len(b) = w - readerIndex
        /\ \A k \in 1 .. w - readerIndex : b[k] = c[readerIndex + k]
    BY <1>1, <1>2 DEF Between
  <2> HIDE DEF b
  <2>4. x \in Seq(Byte) /\ Len(x) = Len(c)
        /\ \A k \in 1 .. Len(b) : kCheapPrepend + k <= Len(c) => x[kCheapPrepend + k] = b[k]
    BY <1>1, <1>2, <2>3, WrittenCells
  <2> HIDE DEF x
  <2>5. \A k \in 1 .. Len(q) : x[kCheapPrepend + k] = q[k]
    <3>1. \A k \in 1 .. Len(q) : k \in 1 .. Len(b) /\ k \in 1 .. w - readerIndex
                                 /\ kCheapPrepend + k <= Len(c)
      BY <1>1, <1>2, <2>2, <2>3
    <3> QED
      BY <1>1, <2>3, <2>4, <3>1
  <2>6. kCheapPrepend + w - readerIndex \in Nat /\ kCheapPrepend <= kCheapPrepend + w - readerIndex
        /\ kCheapPrepend + w - readerIndex + len <= Len(c)
        /\ Len(q) = (kCheapPrepend + w - readerIndex) - kCheapPrepend
    BY <1>1, <1>2, <2>2
  <2> QED
    BY <1>1, <1>2, <2>1, <2>4, <2>5, <2>6 DEF Holds
<1>5. CASE ~ (Len(c) - w >= len) /\ ~ Moves(Len(c) - w, len)
  <2> DEFINE n == w + len - Len(c)
             x == c \o NewCells(n)
  <2>1. r = [cells |-> x, reader |-> readerIndex, writer |-> w]
    BY <1>5 DEF Room
  <2>2. n \in Nat
    BY <1>1, <1>2, <1>5
  <2>3. NewCells(n) \in Seq(Byte) /\ Len(NewCells(n)) = n
    BY <2>2, NewCellsAreBytes
  <2>4. x \in Seq(Byte) /\ Len(x) = w + len /\ \A i \in 1 .. Len(c) : x[i] = c[i]
    BY <1>1, <1>2, <2>3
  <2> HIDE DEF x, n
  <2>5. \A k \in 1 .. Len(q) : x[readerIndex + k] = q[k]
    <3>1. \A k \in 1 .. Len(q) : readerIndex + k \in 1 .. Len(c)
      BY <1>1, <1>2
    <3> QED
      BY <1>1, <2>4, <3>1
  <2>6. w <= Len(x) /\ kCheapPrepend <= Len(x)
    BY <1>1, <1>2, <1>5, <2>4
  <2> QED
    BY <1>1, <1>2, <2>1, <2>4, <2>5, <2>6 DEF Holds
<1> QED
  BY <1>3, <1>4, <1>5

\* What is written behind q makes it longer.
LEMMA WriteBehind ==
    ASSUME NEW c, NEW r, NEW w, NEW q, Holds(c, r, w, q), NEW data \in Seq(Byte),
           w + Len(data) <= Len(c)
    PROVE  Holds(Written(c, w, data), r, w + Len(data), q \o data)
<1> DEFINE x == Written(c, w, data)
<1>1. /\ c \in Seq(Byte) /\ r \in Nat /\ w \in Nat /\ q \in Seq(Byte)
      /\ r <= w /\ w <= Len(c) /\ kCheapPrepend <= Len(c)
      /\ Len(q) = w - r
      /\ \A k \in 1 .. Len(q) : c[r + k] = q[k]
  BY DEF Holds
<1>2. /\ x \in Seq(Byte) /\ Len(x) = Len(c)
      /\ \A i \in 1 .. Len(c) : i <= w \/ i > w + Len(data) => x[i] = c[i]
      /\ \A k \in 1 .. Len(data) : w + k <= Len(c) => x[w + k] = data[k]
  BY <1>1, WrittenCells
<1> HIDE DEF x
<1>q. q \in Seq(Byte)
  BY <1>1
<1>3. Len(data) \in Nat /\ q \o data \in Seq(Byte) /\ Len(q \o data) = Len(q) + Len(data)
  BY <1>q
<1>4. ASSUME NEW k \in 1 .. Len(q) + Len(data)
      PROVE  x[r + k] = (q \o data)[k]
  <2>1. CASE k <= Len(q)
    <3>1. k \in 1 .. Len(q) /\ r + k \in 1 .. Len(c) /\ r + k <= w
      BY <1>1, <2>1
    <3>2. (q \o data)[k] = q[k]
      BY <1>1, <3>1
    <3> QED
      BY <1>1, <1>2, <3>1, <3>2
  <2>2. CASE k > Len(q)
    <3> DEFINE j == k - Len(q)
    <3>1. j \in 1 .. Len(data) /\ r + k = w + j /\ w + j <= Len(c)
      <4> DEFINE lq == Len(q)  ld == Len(data)  lc == Len(c)
      <4>1. /\ lq \in Nat /\ ld \in Nat /\ lc \in Nat /\ r \in Nat /\ w \in Nat /\ k \in 1 .. lq + ld
            /\ lq = w - r /\ w + ld <= lc /\ k > lq
        BY <1>1, <1>3, <2>2
      <4> HIDE DEF lq, ld, lc
      <4>2. k - lq \in 1 .. ld /\ r + k = w + (k - lq) /\ w + (k - lq) <= lc
        BY <4>1
      <4> QED
        BY <4>2 DEF lq, ld, lc
    <3>2. (q \o data)[k] = data[j]
      <4>1. k \in 1 .. Len(q) + Len(data) /\ ~ (k <= Len(q))
        BY <1>1, <1>3, <2>2
      <4> QED
        BY <1>q, <4>1, ConcatProperties
    <3> HIDE DEF j
    <3> QED
      BY <1>2, <3>1, <3>2
  <2> QED
    BY <1>1, <1>3, <2>1, <2>2
<1> QED
  BY <1>1, <1>2, <1>3, <1>4 DEF Holds, x

\* append: what was there, and behind it what is written.
LEMMA Appends ==
    ASSUME NEW c, NEW w, NEW q, Holds(c, readerIndex, w, q), NEW data \in Seq(Byte),
           AppendAt(c, w, data)
    PROVE  Holds(cells', readerIndex', writerIndex', q \o data)
<1> DEFINE r == Room(c, w, Len(data))
<1>1. Len(data) \in Nat
  OBVIOUS
<1>2. Holds(r.cells, r.reader, r.writer, q) /\ r.writer + Len(data) <= Len(r.cells)
  BY <1>1, RoomKeeps
<1>3. /\ cells' = Written(r.cells, r.writer, data)
      /\ readerIndex' = r.reader /\ writerIndex' = r.writer + Len(data)
  BY DEF AppendAt
<1> HIDE DEF r
<1> QED
  BY <1>2, <1>3, WriteBehind

LEMMA DataAreBytes ==
    ASSUME NEW n \in Nat, NEW data \in Data(n)
    PROVE  data \in Seq(Byte) /\ Len(data) = n
BY DEF Data

\* readFd: what fits in the vector is written there, and the rest is appended.
LEMMA Reads ==
    ASSUME BufferInv, NEW data \in Seq(Byte), ReadFd(data)
    PROVE  BufferInv'
<1> DEFINE room == Len(cells) - writerIndex
<1>1. Holds(cells, readerIndex, writerIndex, content)
  BY DEF BufferInv
<1>2. /\ cells \in Seq(Byte) /\ readerIndex \in Nat /\ writerIndex \in Nat
      /\ content \in Seq(Byte) /\ writerIndex <= Len(cells)
  BY <1>1 DEF Holds
<1>3. Len(cells) \in Nat /\ Len(data) \in Nat
  BY <1>2
<1>4. content' = content \o data
  BY DEF ReadFd
<1>5. CASE Len(data) <= room
  <2>1. /\ cells' = Written(cells, writerIndex, data)
        /\ writerIndex' = writerIndex + Len(data) /\ readerIndex' = readerIndex
    BY <1>5 DEF ReadFd
  <2>2. writerIndex + Len(data) <= Len(cells)
    BY <1>2, <1>3, <1>5
  <2> QED
    BY <1>1, <1>4, <2>1, <2>2, WriteBehind DEF BufferInv
<1>6. CASE ~ (Len(data) <= room)
  <2> DEFINE first == SubSeq(data, 1, room)
             rest == SubSeq(data, room + 1, Len(data))
             x == Written(cells, writerIndex, first)
  <2>1. AppendAt(x, Len(cells), rest)
    BY <1>6 DEF ReadFd, Filled
  <2>2. room \in Nat /\ room <= Len(data)
    BY <1>2, <1>3, <1>6
  <2>3. first \in Seq(Byte) /\ Len(first) = room
    BY <1>3, <2>2
  <2>4. rest \in Seq(Byte)
    BY <1>3, <2>2
  <2>5. first \o rest = data
    <3>1. room \in 1 - 1 .. Len(data) /\ Len(data) \in room .. Len(data) /\ 1 \in 1 .. Len(data) + 1
      BY <1>3, <2>2
    <3> HIDE DEF room
    <3>2. first \o rest = SubSeq(data, 1, Len(data))
      BY <1>3, <2>2, <3>1, ConcatAdjacentSubSeq
    <3> QED
      BY <3>2, SubSeqFull
  <2>6. writerIndex + Len(first) = Len(cells) /\ writerIndex + Len(first) <= Len(cells)
    BY <1>2, <1>3, <2>3
  <2> HIDE DEF first, rest
  <2>7. Holds(x, readerIndex, writerIndex + Len(first), content \o first)
    BY <1>1, <2>3, <2>6, WriteBehind
  <2> HIDE DEF x
  <2>8. Holds(cells', readerIndex', writerIndex', (content \o first) \o rest)
    BY <2>1, <2>4, <2>6, <2>7, Appends
  <2>9. (content \o first) \o rest = content \o (first \o rest)
    <3>1. content \in Seq(Byte) /\ first \in Seq(Byte) /\ rest \in Seq(Byte)
      BY <1>2, <2>3, <2>4
    <3> QED
      BY <3>1, ConcatAssociative
  <2> QED
    BY <1>4, <2>5, <2>8, <2>9 DEF BufferInv
<1> QED
  BY <1>5, <1>6

\* prepend: what is written before the content is read first.
LEMMA Prepends ==
    ASSUME BufferInv, NEW data \in Seq(Byte), BufferPrepend(data)
    PROVE  BufferInv'
<1> DEFINE n == Len(data)
           r == readerIndex - n
<1>1. /\ cells \in Seq(Byte) /\ readerIndex \in Nat /\ writerIndex \in Nat
      /\ content \in Seq(Byte) /\ readerIndex <= writerIndex /\ writerIndex <= Len(cells)
      /\ kCheapPrepend <= Len(cells) /\ Len(content) = writerIndex - readerIndex
      /\ \A k \in 1 .. Len(content) : cells[readerIndex + k] = content[k]
  BY DEF BufferInv, Holds
<1>2. n \in Nat /\ n <= readerIndex /\ readerIndex' = r /\ writerIndex' = writerIndex
      /\ cells' = Written(cells, r, data) /\ content' = data \o content
  BY DEF BufferPrepend
<1>3. r \in Nat /\ r + n = readerIndex /\ r <= writerIndex
  BY <1>1, <1>2
<1>4. Len(cells) \in Nat
  BY <1>1
<1>w. cells \in Seq(Byte)
  BY <1>1
<1> HIDE DEF r
<1>5. /\ cells' \in Seq(Byte) /\ Len(cells') = Len(cells)
      /\ \A i \in 1 .. Len(cells) : i <= r \/ i > r + n => cells'[i] = cells[i]
      /\ \A k \in 1 .. n : r + k <= Len(cells) => cells'[r + k] = data[k]
  BY <1>w, <1>2, <1>3, WrittenCells
<1>6. content \in Seq(Byte)
  BY <1>1
<1>7. content' \in Seq(Byte) /\ Len(content') = n + Len(content)
  BY <1>2, <1>6
<1>8. Len(content') = writerIndex - r
  <2>1. Len(content) = writerIndex - readerIndex /\ Len(content') = n + Len(content)
    BY <1>1, <1>7
  <2>2. r = readerIndex - n
    BY DEF r
  <2> QED
    BY <1>1, <1>2, <1>3, <2>1, <2>2
<1>9. ASSUME NEW k \in 1 .. Len(content') PROVE cells'[r + k] = content'[k]
  <2>1. k \in Nat /\ k >= 1 /\ k <= writerIndex - r
    BY <1>1, <1>2, <1>3, <1>8
  <2>2. CASE k <= n
    <3>1. k \in 1 .. n /\ r + k <= Len(cells)
      BY <1>1, <1>2, <1>3, <1>4, <2>1, <2>2
    <3>2. content'[k] = data[k]
      BY <1>2, <1>6, <3>1
    <3> QED
      BY <1>5, <3>1, <3>2
  <2>3. CASE k > n
    <3> DEFINE j == k - n
    <3>0. Len(content) = writerIndex - readerIndex /\ r = readerIndex - n
          /\ readerIndex \in Nat /\ writerIndex \in Nat /\ writerIndex <= Len(cells)
      BY <1>1 DEF r
    <3>1. j \in 1 .. Len(content) /\ r + k = readerIndex + j /\ r + k \in 1 .. Len(cells)
          /\ r + k > r + n
      BY <3>0, <1>2, <1>3, <1>4, <2>1, <2>3
    <3>2. content'[k] = content[j]
      BY <1>2, <1>6, <1>7, <2>1, <2>3
    <3> HIDE DEF j, n
    <3>3. cells'[r + k] = cells[r + k]
      BY <1>5, <3>1
    <3> QED
      BY <1>1, <3>1, <3>2, <3>3
  <2> QED
    BY <1>2, <2>1, <2>2, <2>3
<1>a. r <= writerIndex' /\ writerIndex' <= Len(cells') /\ kCheapPrepend <= Len(cells')
  BY <1>1, <1>2, <1>3, <1>5
<1>b. Len(content') = writerIndex' - readerIndex' /\ writerIndex' \in Nat /\ readerIndex' \in Nat
  BY <1>1, <1>2, <1>3, <1>8
<1> QED
  BY <1>2, <1>5, <1>7, <1>9, <1>a, <1>b DEF BufferInv, Holds

\* retrieve: an empty buffer starts again with the room to prepend.
LEMMA Retrieves ==
    ASSUME BufferInv, NEW n, Retrieve(n)
    PROVE  BufferInv'
<1>1. /\ cells \in Seq(Byte) /\ readerIndex \in Nat /\ writerIndex \in Nat
      /\ content \in Seq(Byte) /\ readerIndex <= writerIndex /\ writerIndex <= Len(cells)
      /\ kCheapPrepend <= Len(cells) /\ Len(content) = writerIndex - readerIndex
      /\ \A k \in 1 .. Len(content) : cells[readerIndex + k] = content[k]
  BY DEF BufferInv, Holds
<1>2. /\ n \in 1 .. writerIndex - readerIndex /\ cells' = cells
      /\ content' = SubSeq(content, n + 1, Len(content))
  BY DEF Retrieve, ReadableBytes
<1>3. n \in Nat /\ n >= 1 /\ n <= Len(content) /\ kCheapPrepend \in Nat
  BY <1>1, <1>2, BufferAssumption
<1>4. content \in Seq(Byte)
  BY <1>1
<1>5. content' \in Seq(Byte) /\ Len(content') = Len(content) - n
  BY <1>2, <1>3, <1>4
<1>6. \A k \in 1 .. Len(content) - n : content'[k] = content[n + k]
  BY <1>2, <1>3, <1>4
<1>7. CASE n < ReadableBytes
  <2>1. readerIndex' = readerIndex + n /\ writerIndex' = writerIndex
    BY <1>7 DEF Retrieve
  <2>2. ASSUME NEW k \in 1 .. Len(content') PROVE cells'[readerIndex' + k] = content'[k]
    <3>1. k \in 1 .. Len(content) - n
      BY <1>5
    <3>2. n + k \in 1 .. Len(content) /\ readerIndex' + k = readerIndex + (n + k)
      BY <1>1, <1>3, <2>1, <3>1
    <3>3. cells[readerIndex + (n + k)] = content[n + k]
      BY <1>1, <3>2
    <3> QED
      BY <1>2, <1>6, <3>1, <3>2, <3>3
  <2>3. /\ readerIndex' \in Nat /\ readerIndex' <= writerIndex'
        /\ Len(content') = writerIndex' - readerIndex'
    BY <1>1, <1>3, <1>5, <2>1
  <2> QED
    BY <1>1, <1>2, <1>5, <2>1, <2>2, <2>3 DEF BufferInv, Holds
<1>8. CASE ~ (n < ReadableBytes)
  <2>1. readerIndex' = kCheapPrepend /\ writerIndex' = kCheapPrepend
    BY <1>8 DEF Retrieve
  <2>2. n = Len(content)
    BY <1>1, <1>3, <1>8 DEF ReadableBytes
  <2>3. Len(content') = 0
    BY <1>3, <1>5, <2>2
  <2>4. \A k \in 1 .. Len(content') : cells'[readerIndex' + k] = content'[k]
    BY <2>3
  <2>5. Len(content') = writerIndex' - readerIndex'
    BY <1>3, <2>1, <2>3
  <2>6. readerIndex' <= writerIndex' /\ writerIndex' <= Len(cells')
    BY <1>1, <1>2, <1>3, <2>1
  <2> QED
    BY <1>1, <1>2, <1>3, <1>5, <2>1, <2>4, <2>5, <2>6 DEF BufferInv, Holds
<1> QED
  BY <1>7, <1>8

LEMMA Unwrites ==
    ASSUME BufferInv, NEW n, Unwrite(n)
    PROVE  BufferInv'
<1>1. /\ cells \in Seq(Byte) /\ readerIndex \in Nat /\ writerIndex \in Nat
      /\ content \in Seq(Byte) /\ readerIndex <= writerIndex /\ writerIndex <= Len(cells)
      /\ kCheapPrepend <= Len(cells) /\ Len(content) = writerIndex - readerIndex
      /\ \A k \in 1 .. Len(content) : cells[readerIndex + k] = content[k]
  BY DEF BufferInv, Holds
<1>2. /\ n \in 1 .. writerIndex - readerIndex /\ cells' = cells
      /\ readerIndex' = readerIndex /\ writerIndex' = writerIndex - n
      /\ content' = SubSeq(content, 1, Len(content) - n)
  BY DEF Unwrite, ReadableBytes
<1>3. n \in Nat /\ n >= 1 /\ n <= Len(content)
  BY <1>1, <1>2
<1>4. content \in Seq(Byte)
  BY <1>1
<1>5. content' \in Seq(Byte) /\ Len(content') = Len(content) - n
  BY <1>2, <1>3, <1>4
<1>6. \A k \in 1 .. Len(content) - n : content'[k] = content[k]
  BY <1>2, <1>3, <1>4
<1>7. \A k \in 1 .. Len(content') : cells'[readerIndex' + k] = content'[k]
  <2>1. \A k \in 1 .. Len(content') : k \in 1 .. Len(content) /\ k \in 1 .. Len(content) - n
    BY <1>3, <1>4, <1>5
  <2> QED
    BY <1>1, <1>2, <1>6, <2>1
<1>8. /\ writerIndex' \in Nat /\ readerIndex' <= writerIndex' /\ writerIndex' <= Len(cells')
      /\ Len(content') = writerIndex' - readerIndex'
  <2>1. Len(cells) \in Nat
    BY <1>1
  <2> QED
    BY <1>1, <1>2, <1>3, <1>5, <2>1
<1> QED
  BY <1>1, <1>2, <1>5, <1>7, <1>8 DEF BufferInv, Holds

\* shrink: the content is the same in other cells.
LEMMA Shrinks ==
    ASSUME BufferInv, NEW reserve \in Nat, Shrink(reserve)
    PROVE  BufferInv'
<1> DEFINE n == IF kInitialSize >= ReadableBytes + reserve THEN kInitialSize
                ELSE ReadableBytes + reserve
           b == Between(cells, readerIndex, writerIndex)
           c == NewCells(kCheapPrepend + n)
<1>1. /\ cells \in Seq(Byte) /\ readerIndex \in Nat /\ writerIndex \in Nat
      /\ content \in Seq(Byte) /\ readerIndex <= writerIndex /\ writerIndex <= Len(cells)
      /\ kCheapPrepend <= Len(cells) /\ Len(content) = writerIndex - readerIndex
      /\ \A k \in 1 .. Len(content) : cells[readerIndex + k] = content[k]
  BY DEF BufferInv, Holds
<1>2. /\ cells' = Written(c, kCheapPrepend, b) /\ content' = content
      /\ readerIndex' = kCheapPrepend /\ writerIndex' = kCheapPrepend + ReadableBytes
  BY DEF Shrink
<1>3. ReadableBytes = Len(content) /\ ReadableBytes \in Nat
  BY <1>1 DEF ReadableBytes
<1>4. kCheapPrepend \in Nat /\ kInitialSize \in Nat
  BY BufferAssumption
<1>5. n \in Nat /\ n >= Len(content)
  BY <1>3, <1>4
<1> HIDE DEF n
<1>n. kCheapPrepend + n \in Nat
  BY <1>4, <1>5
<1>6. c \in Seq(Byte) /\ Len(c) = kCheapPrepend + n
  BY <1>n, NewCellsAreBytes
<1>w. cells \in Seq(Byte)
  BY <1>1
<1>7. b \in Seq(Byte)
  BY <1>1, <1>w DEF Between
<1>8. Len(b) = Len(content)
  BY <1>1, <1>w DEF Between
<1>9. \A k \in 1 .. Len(content) : b[k] = cells[readerIndex + k]
  BY <1>1, <1>w DEF Between
<1> HIDE DEF b, c
<1>a. /\ cells' \in Seq(Byte) /\ Len(cells') = Len(c)
      /\ \A k \in 1 .. Len(b) : kCheapPrepend + k <= Len(c) => cells'[kCheapPrepend + k] = b[k]
  BY <1>2, <1>4, <1>6, <1>7, WrittenCells
<1>b. \A k \in 1 .. Len(content) : cells'[kCheapPrepend + k] = content[k]
  <2>1. \A k \in 1 .. Len(content) : kCheapPrepend + k <= Len(c)
    BY <1>3, <1>4, <1>5, <1>6
  <2> QED
    BY <1>1, <1>8, <1>9, <1>a, <2>1
<1>c. /\ readerIndex' \in Nat /\ writerIndex' \in Nat /\ readerIndex' <= writerIndex'
      /\ writerIndex' <= Len(cells') /\ kCheapPrepend <= Len(cells')
      /\ Len(content') = writerIndex' - readerIndex'
  BY <1>2, <1>3, <1>4, <1>5, <1>6, <1>a
<1> QED
  BY <1>1, <1>2, <1>a, <1>b, <1>c DEF BufferInv, Holds

LEMMA BufferStarts == BufferInit => BufferInv
<1> SUFFICES ASSUME BufferInit PROVE BufferInv
  OBVIOUS
<1>1. kCheapPrepend \in Nat /\ kCheapPrepend + kInitialSize \in Nat
      /\ kCheapPrepend <= kCheapPrepend + kInitialSize
  BY BufferAssumption
<1>2. cells \in Seq(Byte) /\ Len(cells) = kCheapPrepend + kInitialSize
  BY <1>1, NewCellsAreBytes DEF BufferInit
<1>3. content \in Seq(Byte) /\ Len(content) = 0
  BY DEF BufferInit
<1>4. readerIndex = kCheapPrepend /\ writerIndex = kCheapPrepend
  BY DEF BufferInit
<1>5. Len(content) = writerIndex - readerIndex
  BY <1>1, <1>3, <1>4
<1>6. \A k \in 1 .. Len(content) : cells[readerIndex + k] = content[k]
  BY <1>3
<1> QED
  BY <1>1, <1>2, <1>3, <1>4, <1>5, <1>6 DEF BufferInv, Holds

\* Every operation of a buffer keeps what it holds.
LEMMA BufferSteps == BufferInv /\ BufferNext => BufferInv'
<1> SUFFICES ASSUME BufferInv, BufferNext PROVE BufferInv'
  OBVIOUS
<1>1. ASSUME NEW n \in 1 .. MaxWrite, NEW data \in Data(n),
             BufferAppend(data) \/ ReadFd(data) \/ BufferPrepend(data)
      PROVE  BufferInv'
  <2>0. n \in Nat
    BY BufferAssumption
  <2>1. data \in Seq(Byte)
    BY <2>0, DataAreBytes
  <2>2. CASE BufferAppend(data)
    <3>1. AppendAt(cells, writerIndex, data) /\ content' = content \o data
      BY <2>2 DEF BufferAppend
    <3> QED
      BY <2>1, <3>1, Appends DEF BufferInv
  <2>3. CASE ReadFd(data)
    BY <2>1, <2>3, Reads
  <2>4. CASE BufferPrepend(data)
    BY <2>1, <2>4, Prepends
  <2> QED
    BY <1>1, <2>2, <2>3, <2>4
<1>2. ASSUME NEW n \in 1 .. MaxContent, Retrieve(n) \/ Unwrite(n)
      PROVE  BufferInv'
  BY <1>2, Retrieves, Unwrites
<1>3. ASSUME NEW reserve \in 0 .. 1, Shrink(reserve)
      PROVE  BufferInv'
  <2>1. reserve \in Nat
    OBVIOUS
  <2> QED
    BY <1>3, <2>1, Shrinks
<1> QED
  BY <1>1, <1>2, <1>3 DEF BufferNext

\* What a buffer holds is what was written and not read, and what is moved in it goes
\* to the front.
LEMMA BufferHolds == BufferInv => BufferSafe
<1> SUFFICES ASSUME BufferInv PROVE BufferSafe
  OBVIOUS
<1>1. /\ cells \in Seq(Byte) /\ readerIndex \in Nat /\ writerIndex \in Nat
      /\ content \in Seq(Byte) /\ readerIndex <= writerIndex /\ writerIndex <= Len(cells)
      /\ kCheapPrepend <= Len(cells) /\ Len(content) = writerIndex - readerIndex
      /\ \A k \in 1 .. Len(content) : cells[readerIndex + k] = content[k]
  BY DEF BufferInv, Holds
<1>2. Len(cells) \in Nat /\ cells \in Seq(Byte) /\ content \in Seq(Byte)
  BY <1>1
<1>3. BufferTypeOK
  BY <1>1, <1>2 DEF BufferTypeOK
<1>4. BufferIsQueue
  <2> DEFINE b == Between(cells, readerIndex, writerIndex)
  <2>1. b \in Seq(Byte)
    BY <1>1, <1>2 DEF Between
  <2>2. Len(b) = Len(content)
    BY <1>1, <1>2 DEF Between
  <2>3. \A k \in 1 .. Len(content) : b[k] = cells[readerIndex + k]
    BY <1>1, <1>2 DEF Between
  <2> HIDE DEF b
  <2>4. b \in [1 .. Len(content) -> Byte] /\ content \in [1 .. Len(content) -> Byte]
    BY <1>2, <2>1, <2>2
  <2>5. b = content
    BY <1>1, <2>3, <2>4
  <2> QED
    BY <2>5 DEF BufferIsQueue, b
<1>5. MovesForward
  <2> SUFFICES ASSUME NEW n \in 1 .. MaxWrite, Len(cells) - writerIndex < n,
                      Moves(Len(cells) - writerIndex, n)
               PROVE  readerIndex > kCheapPrepend
    BY DEF MovesForward
  <2>1. (Len(cells) - writerIndex) + readerIndex >= n + kCheapPrepend
    BY DEF Moves
  <2>2. n \in Int /\ kCheapPrepend \in Int
    BY BufferAssumption
  <2> QED
    BY <1>1, <1>2, <2>1, <2>2
<1> QED
  BY <1>3, <1>4, <1>5 DEF BufferSafe

\* BufferSafe holds at any time of the buffer, whatever part of the composition runs.
THEOREM BufferKept == Spec => []BufferSafe
<1>1. Init => BufferInv
  BY BufferStarts DEF Init
<1>2. BufferInv /\ [Next]_vars => BufferInv'
  <2> SUFFICES ASSUME BufferInv, [Next]_vars PROVE BufferInv'
    OBVIOUS
  <2>1. ASSUME UNCHANGED bufferVars PROVE BufferInv'
    BY <2>1 DEF BufferInv, bufferVars
  <2>2. CASE Only("connection", TcpNext, <<bufferVars, serverVars, clientVars>>)
    <3>1. UNCHANGED bufferVars
      BY <2>2 DEF Only
    <3> QED
      BY <2>1, <3>1
  <2>3. CASE Only("buffer", BufferNext, <<tcpVars, serverVars, clientVars>>)
    BY <2>3, BufferSteps DEF Only
  <2>4. CASE Only("server", ServerNext, <<tcpVars, bufferVars, clientVars>>)
    <3>1. UNCHANGED bufferVars
      BY <2>4 DEF Only
    <3> QED
      BY <2>1, <3>1
  <2>5. CASE Only("client", ClientNext, <<tcpVars, bufferVars, serverVars>>)
    <3>1. UNCHANGED bufferVars
      BY <2>5 DEF Only
    <3> QED
      BY <2>1, <3>1
  <2>6. CASE UNCHANGED vars
    <3>1. UNCHANGED bufferVars
      BY <2>6 DEF vars
    <3> QED
      BY <2>1, <3>1
  <2> QED
    BY <2>2, <2>3, <2>4, <2>5, <2>6 DEF Next
<1>3. BufferInv => BufferSafe
  BY BufferHolds
<1>4. Spec => Init /\ [][Next]_vars
  BY PTL DEF Spec
<1> QED
  BY <1>1, <1>2, <1>3, <1>4, PTL

-----------------------------------------------------------------------------
(* The server.                                                              *)

Functor == {"connectEstablished", "removeConnection", "connectDestroyed"} \X Conn
Lives == {"none", "Connecting", "Connected", "Disconnecting", "Disconnected", "freed"}
\* The map of connections is kept, until the destructor begins to empty it.
Serves == server \in {"new", "started"}
Load(l) == Cardinality({c \in Made : home[c] = l})

ServerTypes ==
    /\ pool \in 0 .. MaxPool /\ nextLoop \in 0 .. MaxPool /\ (pool > 0 => nextLoop < pool)
    /\ waiting \in 0 .. Cardinality(Conn) /\ others \in Nat
    /\ idle \in BOOLEAN /\ server \in {"new", "started", "ending", "gone"}
    /\ home \in [Conn -> LoopOf] /\ connections \subseteq Conn /\ listens \subseteq Conn
    /\ life \in [Conn -> Lives]
    /\ queues \in [LoopOf -> Seq(Functor)]

\* What a functor that waits in loop l says of its connection.
Right(l, f) ==
    /\ life[f[2]] # "none"
    /\ f[1] # "connectDestroyed" => pool > 0
    /\ f[1] = "removeConnection" => l = 0
    /\ Serves => /\ f[1] = "connectEstablished" => life[f[2]] = "Connecting"
                 /\ f[1] # "connectEstablished" => life[f[2]] = "Disconnected"
                 /\ f[1] # "connectEstablished" => (f[2] \in connections <=> f[1] = "removeConnection")

\* A functor put into a queue, and taken from one.
AppendTo(Q, l, f) == [Q EXCEPT ![l] = Append(@, f)]
Advance(Q, l) == [Q EXCEPT ![l] = Tail(@)]
In(Q, l, f) == \E i \in DOMAIN Q[l] : Q[l][i] = f
Waits(l, f) == In(queues, l, f)
QueuesRight == \A l \in LoopOf, f \in Functor : Waits(l, f) => Right(l, f)

\* No functor waits twice.
Distinct(Q) == \A l, k \in LoopOf : \A i \in DOMAIN Q[l], j \in DOMAIN Q[k] :
                   Q[l][i] = Q[k][j] => l = k /\ i = j
OnlyOnce == Serves => Distinct(queues)

\* What the map, the lives of connections and their channels say of each other.
MapRight ==
    /\ \A c \in connections : life[c] # "none"
    /\ \A c \in Conn : life[c] \in {"Connecting", "Connected", "Disconnecting"} /\ Serves => c \in connections
    /\ \A c \in listens : Up(c)
    /\ pool = 0 => listens \subseteq connections
    /\ server = "gone" => connections = {}
    /\ \A c \in Made : home[c] \in (IF pool = 0 THEN {0} ELSE 1 .. pool)

\* The pool has been gone through q times, and up to nextLoop once more.
Turn == pool > 0 => \E q \in Nat : \A l \in 1 .. pool : Load(l) = q + (IF l <= nextLoop THEN 1 ELSE 0)

ServerInv == /\ ServerTypes /\ QueuesRight /\ OnlyOnce /\ MapRight /\ Turn /\ RemovedOnce /\ RemovedIdle

-----------------------------------------------------------------------------
LEMMA Appended ==
    ASSUME NEW Q \in [LoopOf -> Seq(Functor)], NEW l \in LoopOf, NEW f \in Functor, NEW R,
           R = [Q EXCEPT ![l] = Append(@, f)]
    PROVE  /\ R \in [LoopOf -> Seq(Functor)]
           /\ \A k \in LoopOf : \A i \in DOMAIN R[k] :
                 \/ i \in DOMAIN Q[k] /\ R[k][i] = Q[k][i]
                 \/ k = l /\ i = Len(Q[l]) + 1 /\ R[k][i] = f
<1>1. R \in [LoopOf -> Seq(Functor)]
  OBVIOUS
<1>2. ASSUME NEW k \in LoopOf, NEW i \in DOMAIN R[k]
      PROVE  \/ i \in DOMAIN Q[k] /\ R[k][i] = Q[k][i]
             \/ k = l /\ i = Len(Q[l]) + 1 /\ R[k][i] = f
  <2>1. CASE k # l
    BY <2>1
  <2>2. CASE k = l
    <3> DEFINE s == Q[l]
    <3>1. s \in Seq(Functor) /\ R[k] = Append(s, f)
      BY <2>2
    <3> HIDE DEF s
    <3>2. Len(R[k]) = Len(s) + 1 /\ \A j \in 1 .. Len(s) + 1 :
             R[k][j] = IF j <= Len(s) THEN s[j] ELSE f
      <4>1. Len(Append(s, f)) = Len(s) + 1
        BY <3>1, AppendProperties
      <4>2. \A j \in 1 .. Len(s) + 1 : Append(s, f)[j] = IF j <= Len(s) THEN s[j] ELSE f
        BY <3>1, AppendProperties
      <4> QED
        BY <3>1, <4>1, <4>2
    <3>3. i \in 1 .. Len(s) + 1 /\ DOMAIN s = 1 .. Len(s) /\ Len(s) \in Nat
      BY <3>1, <3>2
    <3>4. CASE i <= Len(s)
      BY <2>2, <3>2, <3>3, <3>4 DEF s
    <3>5. CASE i > Len(s)
      BY <2>2, <3>2, <3>3, <3>5 DEF s
    <3> QED
      BY <3>3, <3>4, <3>5
  <2> QED
    BY <2>1, <2>2
<1> QED
  BY <1>1, <1>2

LEMMA Advanced ==
    ASSUME NEW Q \in [LoopOf -> Seq(Functor)], NEW l \in LoopOf, Q[l] # <<>>, NEW R,
           R = [Q EXCEPT ![l] = Tail(@)]
    PROVE  /\ R \in [LoopOf -> Seq(Functor)] /\ Head(Q[l]) \in Functor
           /\ 1 \in DOMAIN Q[l] /\ Q[l][1] = Head(Q[l])
           /\ \A k \in LoopOf \ {l} : R[k] = Q[k]
           /\ \A i \in DOMAIN R[l] : i + 1 \in DOMAIN Q[l] /\ R[l][i] = Q[l][i + 1] /\ i \in Nat \ {0}
<1> DEFINE s == Q[l]
<1>1. s \in Seq(Functor) /\ s # <<>> /\ R[l] = Tail(s)
  OBVIOUS
<1>2. \A k \in LoopOf \ {l} : R[k] = Q[k]
  OBVIOUS
<1>3. Tail(s) \in Seq(Functor)
  BY <1>1
<1>4. R \in [LoopOf -> Seq(Functor)]
  BY <1>3 DEF s
<1> HIDE DEF s
<1>5. Head(s) \in Functor /\ 1 \in DOMAIN s /\ s[1] = Head(s)
  BY <1>1
<1>6. \A i \in DOMAIN Tail(s) : i + 1 \in DOMAIN s /\ Tail(s)[i] = s[i + 1] /\ i \in Nat \ {0}
  <2>1. DOMAIN s = 1 .. Len(s) /\ DOMAIN Tail(s) = 1 .. Len(s) - 1 /\ Len(s) \in Nat \ {0}
    BY <1>1
  <2>2. \A i \in 1 .. Len(s) - 1 : Tail(s)[i] = s[i + 1]
    BY <1>1
  <2> QED
    BY <2>1, <2>2
<1> QED
  BY <1>1, <1>2, <1>4, <1>5, <1>6 DEF s

LEMMA DistinctAppended ==
    ASSUME NEW Q \in [LoopOf -> Seq(Functor)], NEW l \in LoopOf, NEW f \in Functor, Distinct(Q),
           \A k \in LoopOf : \A i \in DOMAIN Q[k] : Q[k][i] # f, NEW R,
           R = [Q EXCEPT ![l] = Append(@, f)]
    PROVE  Distinct(R)
<1>1. \A k \in LoopOf : \A i \in DOMAIN R[k] :
                 \/ i \in DOMAIN Q[k] /\ R[k][i] = Q[k][i]
                 \/ k = l /\ i = Len(Q[l]) + 1 /\ R[k][i] = f
  BY Appended
<1>2. SUFFICES ASSUME NEW a \in LoopOf, NEW b \in LoopOf, NEW i \in DOMAIN R[a], NEW j \in DOMAIN R[b],
                      R[a][i] = R[b][j]
               PROVE  a = b /\ i = j
  BY DEF Distinct
<1> QED
  BY <1>1, <1>2 DEF Distinct

LEMMA DistinctAdvanced ==
    ASSUME NEW Q \in [LoopOf -> Seq(Functor)], NEW l \in LoopOf, Q[l] # <<>>, Distinct(Q), NEW R,
           R = [Q EXCEPT ![l] = Tail(@)]
    PROVE  Distinct(R) /\ \A k \in LoopOf : \A i \in DOMAIN R[k] : R[k][i] # Head(Q[l])
<1>1. /\ 1 \in DOMAIN Q[l] /\ Q[l][1] = Head(Q[l])
      /\ \A k \in LoopOf \ {l} : R[k] = Q[k]
      /\ \A i \in DOMAIN R[l] : i + 1 \in DOMAIN Q[l] /\ R[l][i] = Q[l][i + 1] /\ i \in Nat \ {0}
  BY Advanced
<1>2. ASSUME NEW k \in LoopOf, NEW i \in DOMAIN R[k] PROVE R[k][i] # Head(Q[l])
  <2>1. CASE k = l
    BY <1>1, <2>1 DEF Distinct
  <2>2. CASE k # l
    BY <1>1, <2>2 DEF Distinct
  <2> QED
    BY <2>1, <2>2
<1>3. ASSUME NEW a \in LoopOf, NEW b \in LoopOf, NEW i \in DOMAIN R[a], NEW j \in DOMAIN R[b],
             R[a][i] = R[b][j]
      PROVE  a = b /\ i = j
  <2>1. CASE a = l /\ b = l
    <3>1. i + 1 = j + 1
      BY <1>1, <1>3, <2>1 DEF Distinct
    <3> QED
      BY <1>1, <2>1, <3>1
  <2>2. CASE a = l /\ b # l
    BY <1>1, <1>3, <2>2 DEF Distinct
  <2>3. CASE a # l /\ b = l
    BY <1>1, <1>3, <2>3 DEF Distinct
  <2>4. CASE a # l /\ b # l
    BY <1>1, <1>3, <2>4 DEF Distinct
  <2> QED
    BY <2>1, <2>2, <2>3, <2>4
<1> QED
  BY <1>2, <1>3 DEF Distinct

-----------------------------------------------------------------------------
LEMMA ServerStarts == ServerInit => ServerInv
<1> SUFFICES ASSUME ServerInit PROVE ServerInv
  OBVIOUS
<1> USE DEF ServerInit, LoopOf
<1>1. MaxPool \in Nat /\ IsFiniteSet(Conn) /\ Cardinality(Conn) \in Nat
  BY PoolLimits, FS_CardinalityType
<1>2. Made = {}
  BY DEF Made
<1>3. ServerTypes
  <2>1. <<>> \in Seq(Functor)
    OBVIOUS
  <2>2. queues \in [LoopOf -> Seq(Functor)]
    BY <2>1
  <2>3. waiting \in 0 .. Cardinality(Conn) /\ 0 \in 0 .. MaxPool /\ (pool > 0 => nextLoop < pool)
    BY <1>1
  <2>4. life \in [Conn -> Lives]
    BY DEF Lives
  <2> QED
    BY <1>1, <2>2, <2>3, <2>4 DEF ServerTypes
<1>4. QueuesRight /\ OnlyOnce
  BY DEF QueuesRight, OnlyOnce, Distinct, Waits, In
<1>5. MapRight
  BY <1>2 DEF MapRight, Serves
<1>6. Turn
  <2>1. \A l \in 1 .. pool : Load(l) = 0
    BY <1>2, FS_EmptySet DEF Load
  <2>2. \A l \in 1 .. pool : ~ l <= nextLoop
    BY <1>1
  <2>3. \A l \in 1 .. pool : Load(l) = 0 + (IF l <= nextLoop THEN 1 ELSE 0)
    BY <2>1, <2>2
  <2> QED
    BY <2>3 DEF Turn
<1> QED
  BY <1>3, <1>4, <1>5, <1>6 DEF ServerInv, RemovedOnce, RemovedIdle

\* Steps that leave the connections alone.
LEMMA ServerRests ==
    ASSUME ServerInv,
           UNCHANGED <<pool, nextLoop, home, life, listens, connections, queues, misses, astray, halves>>,
           Serves' => Serves, server' = "gone" => server = "gone",
           server \in {"ending", "gone"} => server' \in {"ending", "gone"},
           server' \in {"new", "started", "ending", "gone"},
           waiting' \in 0 .. Cardinality(Conn), idle' \in BOOLEAN, others' \in Nat
    PROVE  ServerInv'
<1> USE DEF ServerInv
<1>1. Conn' = Conn /\ MaxPool' = MaxPool /\ LoopOf' = LoopOf
  BY DEF LoopOf
<1>2. ServerTypes'
  BY DEF ServerTypes, LoopOf
<1>3. \A l, f : Right(l, f) => Right(l, f)'
  BY DEF Right
<1>4. QueuesRight'
  BY <1>3 DEF QueuesRight, LoopOf, Waits
<1>5. OnlyOnce'
  BY DEF OnlyOnce, Distinct, LoopOf
<1>6. MapRight'
  BY DEF MapRight, Up, Made
<1>7. Turn'
  BY DEF Turn, Load, Made
<1> QED
  BY <1>2, <1>4, <1>5, <1>6, <1>7 DEF RemovedOnce, RemovedIdle

LEMMA ServerStands == ServerInv /\ UNCHANGED serverVars => ServerInv'
<1> SUFFICES ASSUME ServerInv, UNCHANGED serverVars PROVE ServerInv'
  OBVIOUS
<1>1. UNCHANGED <<server, waiting, idle, others, pool, nextLoop, home, life, listens, connections,
                  queues, misses, astray, halves>>
  BY DEF serverVars
<1>2. waiting' \in 0 .. Cardinality(Conn) /\ idle' \in BOOLEAN /\ others' \in Nat
      /\ server' \in {"new", "started", "ending", "gone"}
  BY <1>1 DEF ServerInv, ServerTypes
<1>3. Serves' => Serves
  BY <1>1 DEF Serves
<1> QED
  BY <1>1, <1>2, <1>3, ServerRests

LEMMA MadeCount ==
    /\ IsFiniteSet(Made) /\ Cardinality(Made) \in Nat /\ Cardinality(Conn) \in Nat
    /\ \A l : IsFiniteSet({c \in Made : home[c] = l}) /\ Load(l) \in Nat
<1>1. IsFiniteSet(Conn)
  BY PoolLimits
<1>2. \A S \in SUBSET Conn : IsFiniteSet(S) /\ Cardinality(S) \in Nat
  BY <1>1, FS_Subset, FS_CardinalityType
<1>3. Made \in SUBSET Conn /\ \A l : {c \in Made : home[c] = l} \in SUBSET Conn
  BY DEF Made
<1> QED
  BY <1>1, <1>2, <1>3, FS_CardinalityType DEF Load

LEMMA QuietSteps ==
    ASSUME ServerInv,
           \/ ServerStart \/ ClientCalls \/ AcceptFull \/ SpareStolen \/ Release \/ ServerDestroy
           \/ \E l \in LoopOf : LoopEnds(l)
    PROVE  ServerInv'
<1> USE DEF acceptor, records
<1>1. ServerTypes
  BY DEF ServerInv
<1>2. waiting \in 0 .. Cardinality(Conn) /\ others \in Nat /\ Cardinality(Conn) \in Nat /\ Cardinality(Made) \in Nat
  BY <1>1, MadeCount DEF ServerTypes
<1>3. CASE ServerStart
  BY <1>1, <1>3, ServerRests DEF ServerStart, ServerTypes, Serves
<1>4. CASE ClientCalls
  <2>1. waiting' \in 0 .. Cardinality(Conn)
    BY <1>2, <1>4 DEF ClientCalls
  <2> QED
    BY <1>1, <1>4, <2>1, ServerRests DEF ClientCalls, ServerTypes, Serves
<1>5. CASE AcceptFull
  <2>1. waiting' \in 0 .. Cardinality(Conn)
    BY <1>2, <1>5 DEF AcceptFull, CutOffOne
  <2> QED
    BY <1>1, <1>5, <2>1, ServerRests DEF AcceptFull, ServerTypes, Serves
<1>6. CASE SpareStolen
  <2>1. others' \in Nat
    BY <1>2, <1>6 DEF SpareStolen
  <2> QED
    BY <1>1, <1>6, <2>1, ServerRests DEF SpareStolen, ServerTypes, Serves
<1>7. CASE Release
  <2>1. others' \in Nat /\ idle' \in BOOLEAN
    BY <1>1, <1>2, <1>7 DEF Release, ServerTypes
  <2> QED
    BY <1>1, <1>7, <2>1, ServerRests DEF Release, ServerTypes, Serves
<1>8. CASE ServerDestroy
  BY <1>1, <1>8, ServerRests DEF ServerDestroy, ServerTypes, Serves
<1>9. CASE \E l \in LoopOf : LoopEnds(l)
  BY <1>1, <1>9, ServerRests DEF LoopEnds, ServerTypes, Serves
<1> QED
  BY <1>3, <1>4, <1>5, <1>6, <1>7, <1>8, <1>9

LEMMA AcceptStep ==
    ASSUME ServerInv, NEW c \in Conn, Accept(c)
    PROVE  ServerInv'
<1> USE DEF acceptor, records
<1> DEFINE f == <<"connectEstablished", c>>
<1>1. ServerTypes /\ QueuesRight /\ OnlyOnce /\ MapRight /\ Turn /\ RemovedOnce /\ RemovedIdle
  BY DEF ServerInv
<1>2. /\ pool \in 0 .. MaxPool /\ nextLoop \in 0 .. MaxPool /\ (pool > 0 => nextLoop < pool)
      /\ MaxPool \in Nat /\ pool' = pool /\ server = "started" /\ server' = server /\ Serves /\ Serves'
      /\ life[c] = "none" /\ connections' = connections \cup {c} /\ home' = [home EXCEPT ![c] = NextLoop]
      /\ UNCHANGED <<misses, astray, halves>>
  BY <1>1, PoolLimits DEF Accept, ServerTypes, Serves
<1>3. /\ NextLoop \in LoopOf /\ (pool = 0 <=> NextLoop = 0) /\ (pool > 0 => NextLoop \in 1 .. pool)
      /\ NextLoop = IF pool = 0 THEN 0 ELSE nextLoop + 1
  BY <1>2 DEF NextLoop, LoopOf
<1>4. f \in Functor
  BY DEF Functor
<1>5. \A k \in LoopOf : \A i \in DOMAIN queues[k] : queues[k][i] # f
  BY <1>1, <1>2, <1>4 DEF QueuesRight, Right, Waits, In, f
<1>6. \/ pool = 0 /\ queues' = queues /\ life' = [life EXCEPT ![c] = "Connected"] /\ listens' = listens \cup {c}
      \/ /\ pool > 0 /\ queues' = [queues EXCEPT ![NextLoop] = Append(@, f)]
         /\ life' = [life EXCEPT ![c] = "Connecting"] /\ listens' = listens
  BY <1>2, <1>3 DEF Accept
<1> HIDE DEF f
<1>7. /\ queues' \in [LoopOf -> Seq(Functor)]
      /\ \A k \in LoopOf : \A i \in DOMAIN queues'[k] :
            \/ i \in DOMAIN queues[k] /\ queues'[k][i] = queues[k][i]
            \/ pool > 0 /\ queues'[k][i] = f /\ life'[c] = "Connecting"
      /\ Distinct(queues')
  <2>1. queues \in [LoopOf -> Seq(Functor)] /\ Distinct(queues) /\ life \in [Conn -> Lives]
    BY <1>1, <1>2 DEF ServerTypes, OnlyOnce
  <2>2. CASE pool = 0
    BY <1>6, <2>1, <2>2
  <2>3. CASE pool > 0
    <3>1. queues' = [queues EXCEPT ![NextLoop] = Append(@, f)] /\ life'[c] = "Connecting"
      BY <1>2, <1>6, <2>1, <2>3
    <3>2. Distinct(queues')
      BY <1>3, <1>4, <1>5, <2>1, <3>1, DistinctAppended
    <3> QED
      BY <1>3, <1>4, <2>1, <2>3, <3>1, <3>2, Appended
  <2> QED
    BY <1>2, <2>2, <2>3
<1>8. \A d \in Conn : d # c => life'[d] = life[d] /\ home'[d] = home[d]
  BY <1>1, <1>2, <1>6 DEF ServerTypes
<1>9. life'[c] \in {"Connecting", "Connected"} /\ home'[c] = NextLoop /\ (pool = 0 => life'[c] = "Connected")
  BY <1>1, <1>2, <1>6 DEF ServerTypes
<1>10. ServerTypes'
  <2>1. nextLoop' \in 0 .. MaxPool /\ (pool > 0 => nextLoop' < pool)
    BY <1>2 DEF Accept, Wrap
  <2>2. waiting' \in 0 .. Cardinality(Conn)
    BY <1>1, MadeCount DEF Accept, ServerTypes
  <2>3. idle' \in BOOLEAN /\ others' \in Nat
    BY <1>1 DEF Accept, ServerTypes
  <2>4. life' \in [Conn -> Lives]
    BY <1>1, <1>6 DEF ServerTypes, Lives
  <2>5. home' \in [Conn -> LoopOf] /\ connections' \subseteq Conn /\ listens' \subseteq Conn
    BY <1>1, <1>2, <1>3, <1>6 DEF ServerTypes
  <2> QED
    BY <1>2, <1>7, <2>1, <2>2, <2>3, <2>4, <2>5 DEF ServerTypes, LoopOf
<1>11. QueuesRight'
  <2> SUFFICES ASSUME NEW l \in LoopOf, NEW g \in Functor, Waits(l, g)' PROVE Right(l, g)'
    BY DEF QueuesRight, LoopOf
  <2>1. CASE Waits(l, g)
    <3>1. Right(l, g) /\ g[2] \in Conn
      BY <1>1, <2>1 DEF QueuesRight, Functor
    <3>2. g[2] # c
      BY <1>2, <3>1 DEF Right
    <3> QED
      BY <1>2, <1>8, <3>1, <3>2 DEF Right
  <2>2. CASE pool > 0 /\ g = f /\ life'[c] = "Connecting"
    <3>1. g[1] = "connectEstablished" /\ g[2] = c
      BY <2>2 DEF f
    <3> QED
      BY <1>2, <2>2, <3>1 DEF Right
  <2> QED
    BY <1>7, <2>1, <2>2 DEF Waits, In
<1>12. OnlyOnce'
  BY <1>7 DEF OnlyOnce, Distinct, LoopOf
<1>13. Made' = Made \cup {c} /\ c \notin Made
  BY <1>2, <1>8, <1>9 DEF Made
<1>14. MapRight'
  <2>1. \A d \in connections' : life'[d] # "none"
    BY <1>1, <1>2, <1>8, <1>9 DEF MapRight, ServerTypes
  <2>2. \A d \in Conn : life'[d] \in {"Connecting", "Connected", "Disconnecting"} /\ Serves' => d \in connections'
    BY <1>1, <1>2, <1>8 DEF MapRight
  <2>3. \A d \in listens' : Up(d)'
    BY <1>1, <1>2, <1>6, <1>8, <1>9 DEF MapRight, Up, ServerTypes
  <2>4. pool' = 0 => listens' \subseteq connections'
    BY <1>1, <1>2, <1>6 DEF MapRight
  <2>5. \A d \in Made' : home'[d] \in (IF pool' = 0 THEN {0} ELSE 1 .. pool')
    BY <1>1, <1>2, <1>3, <1>8, <1>9, <1>13 DEF MapRight, Made
  <2> QED
    BY <1>2, <2>1, <2>2, <2>3, <2>4, <2>5 DEF MapRight
<1>15. Turn'
  <2> SUFFICES ASSUME pool > 0
               PROVE  \E q \in Nat : \A l \in 1 .. pool : Load(l)' = q + (IF l <= nextLoop' THEN 1 ELSE 0)
    BY <1>2 DEF Turn
  <2>1. PICK q \in Nat : \A l \in 1 .. pool : Load(l) = q + (IF l <= nextLoop THEN 1 ELSE 0)
    BY <1>1 DEF Turn
  <2>2. \A l \in 1 .. pool : Load(l)' = IF l = nextLoop + 1 THEN Load(l) + 1 ELSE Load(l)
    <3> SUFFICES ASSUME NEW l \in 1 .. pool PROVE Load(l)' = IF l = nextLoop + 1 THEN Load(l) + 1 ELSE Load(l)
      OBVIOUS
    <3> DEFINE S == {d \in Made : home[d] = l}
               T == {d \in Made' : home'[d] = l}
    <3>1. Load(l) = Cardinality(S) /\ Load(l)' = Cardinality(T) /\ IsFiniteSet(S)
      BY MadeCount DEF Load
    <3>2. CASE l = nextLoop + 1
      <4>1. T = S \cup {c} /\ c \notin S
        BY <1>2, <1>3, <1>8, <1>9, <1>13, <3>2 DEF Made
      <4> HIDE DEF S, T
      <4>2. Cardinality(T) = Cardinality(S) + 1
        BY <3>1, <4>1, FS_AddElement
      <4> QED
        BY <3>1, <3>2, <4>2
    <3>3. CASE l # nextLoop + 1
      <4>1. T = S
        BY <1>2, <1>3, <1>8, <1>9, <1>13, <3>3 DEF Made
      <4> QED
        BY <3>1, <3>3, <4>1
    <3> QED
      BY <3>2, <3>3
  <2>3. nextLoop' = IF nextLoop + 1 >= pool THEN 0 ELSE nextLoop + 1
    BY <1>2 DEF Accept, Wrap
  <2>4. CASE nextLoop + 1 >= pool
    <3>1. PICK p \in Nat : p = q + 1
      OBVIOUS
    <3>2. \A l \in 1 .. pool : Load(l)' = p + (IF l <= nextLoop' THEN 1 ELSE 0)
      BY <1>2, <2>1, <2>2, <2>3, <2>4, <3>1
    <3> QED
      BY <3>2
  <2>5. CASE nextLoop + 1 < pool
    <3>1. \A l \in 1 .. pool : Load(l)' = q + (IF l <= nextLoop' THEN 1 ELSE 0)
      BY <1>2, <2>1, <2>2, <2>3, <2>5
    <3> QED
      BY <3>1
  <2> QED
    BY <1>2, <2>4, <2>5
<1> QED
  BY <1>1, <1>2, <1>10, <1>11, <1>12, <1>14, <1>15 DEF ServerInv, RemovedOnce, RemovedIdle

LEMMA InAppended ==
    ASSUME NEW Q \in [LoopOf -> Seq(Functor)], NEW l \in LoopOf, NEW f \in Functor, NEW R,
           R = AppendTo(Q, l, f)
    PROVE  /\ R \in [LoopOf -> Seq(Functor)]
           /\ \A k \in LoopOf, g \in Functor : In(R, k, g) => In(Q, k, g) \/ (k = l /\ g = f)
           /\ Distinct(Q) /\ (\A k \in LoopOf : ~ In(Q, k, f)) => Distinct(R)
<1>1. R \in [LoopOf -> Seq(Functor)] /\ \A k \in LoopOf : \A i \in DOMAIN R[k] :
                 \/ i \in DOMAIN Q[k] /\ R[k][i] = Q[k][i]
                 \/ k = l /\ i = Len(Q[l]) + 1 /\ R[k][i] = f
  BY Appended DEF AppendTo
<1>2. ASSUME Distinct(Q), \A k \in LoopOf : ~ In(Q, k, f) PROVE Distinct(R)
  <2>1. \A k \in LoopOf : \A i \in DOMAIN Q[k] : Q[k][i] # f
    BY <1>2 DEF In
  <2> QED
    BY <1>2, <2>1, DistinctAppended DEF AppendTo
<1> QED
  BY <1>1, <1>2 DEF In

LEMMA InAdvanced ==
    ASSUME NEW Q \in [LoopOf -> Seq(Functor)], NEW l \in LoopOf, Q[l] # <<>>, NEW R,
           R = Advance(Q, l)
    PROVE  /\ R \in [LoopOf -> Seq(Functor)] /\ Head(Q[l]) \in Functor /\ In(Q, l, Head(Q[l]))
           /\ \A k \in LoopOf, g \in Functor : In(R, k, g) => In(Q, k, g)
           /\ Distinct(Q) => Distinct(R) /\ \A k \in LoopOf : ~ In(R, k, Head(Q[l]))
<1>1. /\ R \in [LoopOf -> Seq(Functor)] /\ Head(Q[l]) \in Functor
      /\ 1 \in DOMAIN Q[l] /\ Q[l][1] = Head(Q[l])
      /\ \A k \in LoopOf \ {l} : R[k] = Q[k]
      /\ \A i \in DOMAIN R[l] : i + 1 \in DOMAIN Q[l] /\ R[l][i] = Q[l][i + 1] /\ i \in Nat \ {0}
  BY Advanced DEF Advance
<1>2. ASSUME NEW k \in LoopOf, NEW g \in Functor, In(R, k, g) PROVE In(Q, k, g)
  <2>1. CASE k = l
    BY <1>1, <1>2, <2>1 DEF In
  <2>2. CASE k # l
    BY <1>1, <1>2, <2>2 DEF In
  <2> QED
    BY <2>1, <2>2
<1>3. Distinct(Q) => Distinct(R) /\ \A k \in LoopOf : \A i \in DOMAIN R[k] : R[k][i] # Head(Q[l])
  BY DistinctAdvanced DEF Advance
<1> QED
  BY <1>1, <1>2, <1>3 DEF In

\* No step makes or unmakes a connection but Accept.
LEMMA TurnKept ==
    ASSUME Turn, UNCHANGED <<pool, nextLoop, home>>, Made' = Made
    PROVE  Turn'
  BY DEF Turn, Load

LEMMA PairsEqual ==
    \A f, g \in Functor : f[1] = g[1] /\ f[2] = g[2] => f = g
  BY DEF Functor

\* Nothing waits for a connection that is up.
LEMMA NoneForUp ==
    ASSUME ServerInv, Serves, NEW c \in Conn, Up(c), NEW l \in LoopOf, NEW f \in Functor, Waits(l, f)
    PROVE  f[2] # c
  BY DEF ServerInv, QueuesRight, Right, Up, Functor

LEMMA HalfCloseStep ==
    ASSUME ServerInv, NEW c \in Conn, HalfClose(c)
    PROVE  ServerInv'
<1> USE DEF acceptor, records
<1>1. ServerTypes /\ QueuesRight /\ OnlyOnce /\ MapRight /\ Turn /\ RemovedOnce /\ RemovedIdle
  BY DEF ServerInv
<1>2. /\ life[c] = "Connected" /\ life' = [life EXCEPT ![c] = "Disconnecting"] /\ c \in listens
      /\ UNCHANGED <<pool, server, nextLoop, acceptor, home, listens, connections, queues, stopped, records>>
  BY DEF HalfClose
<1>3. /\ life'[c] = "Disconnecting" /\ \A d \in Conn : d # c => life'[d] = life[d]
      /\ life' \in [Conn -> Lives]
  BY <1>1, <1>2 DEF ServerTypes, Lives
<1>4. ServerTypes'
  BY <1>1, <1>2, <1>3 DEF ServerTypes, LoopOf
<1>5. QueuesRight'
  <2> SUFFICES ASSUME NEW l \in LoopOf, NEW g \in Functor, Waits(l, g) PROVE Right(l, g)'
    BY <1>2 DEF QueuesRight, LoopOf, Waits
  <2>1. Right(l, g) /\ g[2] \in Conn
    BY <1>1 DEF QueuesRight, Functor
  <2>2. Serves => g[2] # c
    BY <1>2, NoneForUp DEF Up
  <2> QED
    BY <1>2, <1>3, <2>1, <2>2 DEF Right, Serves
<1>6. OnlyOnce'
  BY <1>1, <1>2 DEF OnlyOnce, Distinct, LoopOf, Serves
<1>7. Made' = Made
  BY <1>2, <1>3 DEF Made
<1>8. MapRight'
  BY <1>1, <1>2, <1>3, <1>7 DEF MapRight, Up, Serves, ServerTypes
<1>9. Turn'
  BY <1>1, <1>2, <1>7, TurnKept
<1> QED
  BY <1>1, <1>2, <1>4, <1>5, <1>6, <1>8, <1>9 DEF ServerInv, RemovedOnce, RemovedIdle

LEMMA CloseStep ==
    ASSUME ServerInv, NEW c \in Conn, ConnectionCloses(c)
    PROVE  ServerInv'
<1> USE DEF acceptor, records
<1>1. ServerTypes /\ QueuesRight /\ OnlyOnce /\ MapRight /\ Turn /\ RemovedOnce /\ RemovedIdle
  BY DEF ServerInv
<1>2. /\ Up(c) /\ c \in listens /\ life' = [life EXCEPT ![c] = "Disconnected"] /\ listens' = listens \ {c}
      /\ UNCHANGED <<pool, server, nextLoop, acceptor, home, stopped, halves>>
  BY DEF ConnectionCloses
<1>3. /\ life'[c] = "Disconnected" /\ \A d \in Conn : d # c => life'[d] = life[d]
      /\ life' \in [Conn -> Lives]
  BY <1>1, <1>2 DEF ServerTypes, Lives
<1>4. Made' = Made /\ c \in Made
  BY <1>2, <1>3 DEF Made, Up
<1>5. Turn'
  BY <1>1, <1>2, <1>4, TurnKept
<1>6. queues \in [LoopOf -> Seq(Functor)] /\ 0 \in LoopOf /\ home[c] \in LoopOf
      /\ pool \in Nat /\ (pool = 0 => home[c] = 0) /\ (pool > 0 => home[c] # 0)
  <2>1. home[c] \in (IF pool = 0 THEN {0} ELSE 1 .. pool)
    BY <1>1, <1>4 DEF MapRight
  <2> QED
    BY <1>1, <2>1, PoolLimits DEF ServerTypes, LoopOf
<1>7. \A l \in LoopOf, g \in Functor : Serves /\ Waits(l, g) => g[2] # c
  BY <1>2, NoneForUp
<1>8. \A l \in LoopOf, g \in Functor : Waits(l, g) /\ connections' \in {connections, connections \ {c}} => Right(l, g)'
  <2> SUFFICES ASSUME NEW l \in LoopOf, NEW g \in Functor, Waits(l, g),
                      connections' \in {connections, connections \ {c}}
               PROVE  Right(l, g)'
    OBVIOUS
  <2>1. Right(l, g) /\ g[2] \in Conn /\ (Serves => g[2] # c)
    BY <1>1, <1>7 DEF QueuesRight, Functor
  <2>2. Serves' = Serves /\ pool' = pool
    BY <1>2 DEF Serves
  <2>3. life'[g[2]] # "none"
    BY <1>3, <2>1 DEF Right
  <2>4. Serves => life'[g[2]] = life[g[2]] /\ (g[2] \in connections' <=> g[2] \in connections)
    BY <1>3, <2>1
  <2> QED
    BY <2>1, <2>2, <2>3, <2>4 DEF Right
<1>9. /\ \A d \in Conn : life'[d] \in {"Connecting", "Connected", "Disconnecting"} =>
            d # c /\ life[d] = life'[d]
      /\ \A d \in Conn : life[d] # "none" => life'[d] # "none"
      /\ \A d \in listens' : Up(d)'
  <2>1. \A d \in listens' : d \in Conn /\ d # c /\ Up(d)
    BY <1>1, <1>2 DEF MapRight, ServerTypes
  <2> QED
    BY <1>3, <2>1 DEF Up
<1>10. CASE server = "gone"
  <2>1. astray' = TRUE /\ UNCHANGED <<connections, queues, misses>>
    BY <1>10 DEF ConnectionCloses
  <2>2. pool # 0
    BY <1>1, <1>2, <1>10 DEF MapRight
  <2>3. QueuesRight' /\ OnlyOnce'
    BY <1>8, <2>1, <1>10, <1>2 DEF QueuesRight, Waits, OnlyOnce, Serves, LoopOf
  <2>4. MapRight'
    BY <1>1, <1>2, <1>4, <1>9, <1>10, <2>1, <2>2 DEF MapRight, Serves, ServerTypes
  <2>5. ServerTypes'
    BY <1>1, <1>2, <1>3, <2>1 DEF ServerTypes, LoopOf
  <2> QED
    BY <1>1, <1>2, <1>5, <2>1, <2>2, <2>3, <2>4, <2>5 DEF ServerInv, RemovedOnce, RemovedIdle
<1>11. CASE server # "gone" /\ InBase(c)
  <2> DEFINE f == <<"connectDestroyed", c>>
  <2>1. Serves /\ c \in connections /\ home[c] = 0 /\ Serves'
    <3>1. Serves
      BY <1>1, <1>11 DEF ServerTypes, Serves, ConnectionCloses, Turns, InBase
    <3> QED
      BY <1>1, <1>2, <1>11, <3>1 DEF MapRight, Up, InBase, Serves
  <2>2. /\ connections' = connections \ {c} /\ misses' = misses /\ astray' = astray
        /\ queues' = [queues EXCEPT ![home[c]] = Append(@, f)]
    BY <1>11, <2>1 DEF ConnectionCloses, RemoveInLoop, DestroyLater
  <2>3. f \in Functor /\ f[1] = "connectDestroyed" /\ f[2] = c
    BY DEF Functor
  <2> HIDE DEF f
  <2>4. \A k \in LoopOf : ~ In(queues, k, f)
    BY <1>7, <2>1, <2>3 DEF Waits
  <2>5. /\ queues' \in [LoopOf -> Seq(Functor)] /\ Distinct(queues')
        /\ \A k \in LoopOf, g \in Functor : In(queues', k, g) => In(queues, k, g) \/ g = f
    <3>1. Distinct(queues)
      BY <1>1, <2>1 DEF OnlyOnce
    <3>2. queues' = AppendTo(queues, home[c], f)
      BY <2>2 DEF AppendTo
    <3> DEFINE R == queues'  h == home[c]
    <3>3. R = AppendTo(queues, h, f) /\ h \in LoopOf /\ f \in Functor /\ queues \in [LoopOf -> Seq(Functor)]
      BY <1>6, <2>3, <3>2
    <3> HIDE DEF R, h
    <3>4. R \in [LoopOf -> Seq(Functor)]
      BY <3>3, InAppended
    <3>5. \A k \in LoopOf, g \in Functor : In(R, k, g) => In(queues, k, g) \/ (k = h /\ g = f)
      BY <3>3, InAppended
    <3>6. Distinct(queues) /\ (\A k \in LoopOf : ~ In(queues, k, f)) => Distinct(R)
      BY <3>3, InAppended
    <3> QED
      BY <2>4, <3>1, <3>4, <3>5, <3>6 DEF R
  <2>6. \A l : Right(l, f)'
    BY <1>3, <2>2, <2>3 DEF Right
  <2>7. QueuesRight' /\ OnlyOnce'
    <3>1. \A l \in LoopOf, g \in Functor : In(queues', l, g) => Right(l, g)'
      BY <1>8, <2>2, <2>5, <2>6 DEF Waits
    <3> QED
      BY <2>5, <3>1 DEF QueuesRight, Waits, OnlyOnce, LoopOf, Distinct
  <2>8. MapRight'
    BY <1>1, <1>2, <1>4, <1>9, <1>11, <2>1, <2>2 DEF MapRight, Serves, ServerTypes
  <2>9. ServerTypes'
    BY <1>1, <1>2, <1>3, <2>2, <2>5 DEF ServerTypes, LoopOf
  <2> QED
    BY <1>1, <1>2, <1>5, <2>2, <2>7, <2>8, <2>9 DEF ServerInv, RemovedOnce, RemovedIdle
<1>12. CASE server # "gone" /\ ~ InBase(c)
  <2> DEFINE f == <<"removeConnection", c>>
  <2>1. pool > 0
    BY <1>6, <1>12 DEF InBase
  <2>2. /\ connections' = connections /\ misses' = misses /\ astray' = astray
        /\ queues' = [queues EXCEPT ![0] = Append(@, f)]
    BY <1>12 DEF ConnectionCloses
  <2>3. f \in Functor /\ f[1] = "removeConnection" /\ f[2] = c
    BY DEF Functor
  <2> HIDE DEF f
  <2>4. Serves => \A k \in LoopOf : ~ In(queues, k, f)
    BY <1>7, <2>3 DEF Waits
  <2>5. /\ queues' \in [LoopOf -> Seq(Functor)] /\ (Serves => Distinct(queues'))
        /\ \A k \in LoopOf, g \in Functor : In(queues', k, g) => In(queues, k, g) \/ (k = 0 /\ g = f)
    <3>1. Serves => Distinct(queues)
      BY <1>1 DEF OnlyOnce
    <3>2. queues' = AppendTo(queues, 0, f)
      BY <2>2 DEF AppendTo
    <3> DEFINE R == queues'  h == 0
    <3>3. R = AppendTo(queues, h, f) /\ h \in LoopOf /\ f \in Functor /\ queues \in [LoopOf -> Seq(Functor)]
      BY <1>6, <2>3, <3>2, PoolLimits DEF LoopOf
    <3> HIDE DEF R, h
    <3>4. R \in [LoopOf -> Seq(Functor)]
      BY <3>3, InAppended
    <3>5. \A k \in LoopOf, g \in Functor : In(R, k, g) => In(queues, k, g) \/ (k = h /\ g = f)
      BY <3>3, InAppended
    <3>6. Distinct(queues) /\ (\A k \in LoopOf : ~ In(queues, k, f)) => Distinct(R)
      BY <3>3, InAppended
    <3> QED
      BY <2>4, <3>1, <3>4, <3>5, <3>6 DEF R, h
  <2>6. Right(0, f)'
    <3>1. Serves => c \in connections
      BY <1>1, <1>2 DEF MapRight, Up
    <3> QED
      BY <1>2, <1>3, <2>1, <2>2, <2>3, <3>1 DEF Right, Serves
  <2>7. QueuesRight' /\ OnlyOnce'
    <3>1. QueuesRight'
      <4> SUFFICES ASSUME NEW l \in LoopOf, NEW g \in Functor, In(queues', l, g) PROVE Right(l, g)'
        BY DEF QueuesRight, Waits, LoopOf, Functor
      <4>1. In(queues, l, g) => Right(l, g)'
        BY <1>8, <2>2 DEF Waits
      <4> QED
        BY <2>5, <2>6, <4>1
    <3>2. Serves' => Serves
      BY <1>2 DEF Serves
    <3> QED
      BY <2>5, <3>1, <3>2 DEF OnlyOnce
  <2>8. MapRight'
    BY <1>1, <1>2, <1>4, <1>9, <1>12, <2>1, <2>2 DEF MapRight, Serves, ServerTypes
  <2>9. ServerTypes'
    BY <1>1, <1>2, <1>3, <2>2, <2>5 DEF ServerTypes, LoopOf
  <2> QED
    BY <1>1, <1>2, <1>5, <2>2, <2>7, <2>8, <2>9 DEF ServerInv, RemovedOnce, RemovedIdle
<1> QED
  BY <1>10, <1>11, <1>12

LEMMA EstablishStep ==
    ASSUME ServerInv, NEW l \in LoopOf, queues[l] # <<>>, NEW c, c = Head(queues[l])[2],
           Head(queues[l])[1] = "connectEstablished",
           life' = [life EXCEPT ![c] = "Connected"], listens' = listens \cup {c},
           queues' = Advance(queues, l),
           UNCHANGED <<pool, server, nextLoop, acceptor, home, stopped, connections, records>>
    PROVE  ServerInv'
<1> USE DEF acceptor, records
<1> DEFINE f == Head(queues[l])
<1>1. ServerTypes /\ QueuesRight /\ OnlyOnce /\ MapRight /\ Turn /\ RemovedOnce /\ RemovedIdle
  BY DEF ServerInv
<1>2. queues \in [LoopOf -> Seq(Functor)]
  BY <1>1 DEF ServerTypes
<1>3. /\ queues' \in [LoopOf -> Seq(Functor)] /\ f \in Functor /\ In(queues, l, f)
      /\ \A k \in LoopOf, g \in Functor : In(queues', k, g) => In(queues, k, g)
      /\ Distinct(queues) => Distinct(queues') /\ \A k \in LoopOf : ~ In(queues', k, f)
  BY <1>2, InAdvanced
<1>4. Right(l, f) /\ c \in Conn
  BY <1>1, <1>3 DEF QueuesRight, Waits, Functor
<1>5. /\ life'[c] = "Connected" /\ \A d \in Conn : d # c => life'[d] = life[d]
      /\ life' \in [Conn -> Lives]
  BY <1>1, <1>4 DEF ServerTypes, Lives
<1>6. pool > 0 /\ life[c] # "none" /\ (Serves => life[c] = "Connecting")
  BY <1>4 DEF Right
<1>7. Made' = Made
  BY <1>5, <1>6 DEF Made
<1>8. QueuesRight' /\ OnlyOnce'
  <2>1. ASSUME NEW k \in LoopOf, NEW g \in Functor, In(queues', k, g) PROVE Right(k, g)'
    <3>1. Right(k, g) /\ g[2] \in Conn
      BY <1>1, <1>3, <2>1 DEF QueuesRight, Waits, Functor
    <3>2. Serves => g # f
      BY <1>1, <1>3, <2>1 DEF OnlyOnce
    <3>3. Serves => g[2] # c
      BY <1>3, <1>6, <3>1, <3>2, PairsEqual DEF Right
    <3> QED
      BY <1>5, <3>1, <3>3 DEF Right, Serves
  <2> QED
    BY <1>1, <1>3, <2>1 DEF QueuesRight, Waits, OnlyOnce, LoopOf, Distinct, Serves
<1>9. MapRight'
  <2>1. Serves => c \in connections
    BY <1>1, <1>4, <1>6 DEF MapRight
  <2> QED
    BY <1>1, <1>4, <1>5, <1>6, <1>7, <2>1 DEF MapRight, Up, Serves, ServerTypes
<1>10. ServerTypes'
  BY <1>1, <1>3, <1>4, <1>5 DEF ServerTypes, LoopOf
<1>11. Turn'
  BY <1>1, <1>7, TurnKept
<1> QED
  BY <1>1, <1>8, <1>9, <1>10, <1>11 DEF ServerInv, RemovedOnce, RemovedIdle

LEMMA RemoveStep ==
    ASSUME ServerInv, NEW l \in LoopOf, queues[l] # <<>>, NEW c, c = Head(queues[l])[2],
           Head(queues[l])[1] = "removeConnection", Turns(l), server # "gone",
           RemoveInLoop(c, Advance(queues, l)),
           UNCHANGED <<pool, server, nextLoop, acceptor, home, stopped, life, listens, astray, halves>>
    PROVE  ServerInv'
<1> USE DEF acceptor
<1> DEFINE f == Head(queues[l])  rest == Advance(queues, l)  d == <<"connectDestroyed", c>>
<1>1. ServerTypes /\ QueuesRight /\ OnlyOnce /\ MapRight /\ Turn /\ RemovedOnce /\ RemovedIdle
  BY DEF ServerInv
<1>2. queues \in [LoopOf -> Seq(Functor)] /\ home \in [Conn -> LoopOf]
  BY <1>1 DEF ServerTypes
<1>3. /\ rest \in [LoopOf -> Seq(Functor)] /\ f \in Functor /\ In(queues, l, f)
      /\ \A k \in LoopOf, g \in Functor : In(rest, k, g) => In(queues, k, g)
      /\ Distinct(queues) => Distinct(rest) /\ \A k \in LoopOf : ~ In(rest, k, f)
  BY <1>2, InAdvanced
<1>4. Right(l, f) /\ c \in Conn
  BY <1>1, <1>3 DEF QueuesRight, Waits, Functor
<1>5. /\ Serves /\ Serves' /\ pool > 0 /\ life[c] = "Disconnected" /\ c \in connections
  <2>1. l = 0
    BY <1>4 DEF Right
  <2>2. Serves
    BY <1>1, <2>1 DEF Serves, ServerTypes, Turns
  <2> QED
    BY <1>4, <2>2 DEF Right, Serves
<1>6. /\ connections' = connections \ {c} /\ misses' = misses
      /\ queues' = AppendTo(rest, home[c], d)
  BY <1>5 DEF RemoveInLoop, DestroyLater, AppendTo
<1>7. d \in Functor /\ d[1] = "connectDestroyed" /\ d[2] = c /\ home[c] \in LoopOf
  BY <1>2, <1>4 DEF Functor
<1> HIDE DEF f, rest, d
<1>8. \A k \in LoopOf, g \in Functor : In(rest, k, g) => Right(k, g) /\ g[2] \in Conn /\ g[2] # c
  <2> SUFFICES ASSUME NEW k \in LoopOf, NEW g \in Functor, In(rest, k, g)
               PROVE  Right(k, g) /\ g[2] \in Conn /\ g[2] # c
    OBVIOUS
  <2>1. Right(k, g) /\ g[2] \in Conn
    BY <1>1, <1>3 DEF QueuesRight, Waits, Functor
  <2>2. g # f
    BY <1>1, <1>3, <1>5 DEF OnlyOnce
  <2>3. f[1] = "removeConnection" /\ f[2] = c
    BY DEF f
  <2>4. g[2] = c => g[1] = "removeConnection"
    BY <1>5, <2>1 DEF Right
  <2> QED
    BY <1>3, <2>1, <2>2, <2>3, <2>4, PairsEqual
<1>9. \A k \in LoopOf : ~ In(rest, k, d)
  BY <1>7, <1>8
<1>10. /\ queues' \in [LoopOf -> Seq(Functor)] /\ Distinct(queues')
       /\ \A k \in LoopOf, g \in Functor : In(queues', k, g) => In(rest, k, g) \/ g = d
  <2>1. Distinct(rest)
    BY <1>1, <1>3, <1>5 DEF OnlyOnce
  <2> QED
    <3> DEFINE q == queues'  h == home[c]
    <3>1. q = AppendTo(rest, h, d) /\ h \in LoopOf /\ d \in Functor /\ rest \in [LoopOf -> Seq(Functor)]
      BY <1>3, <1>6, <1>7
    <3> HIDE DEF q, h
    <3>2. /\ q \in [LoopOf -> Seq(Functor)]
          /\ \A k \in LoopOf, g \in Functor : In(q, k, g) => In(rest, k, g) \/ (k = h /\ g = d)
          /\ Distinct(rest) /\ (\A k \in LoopOf : ~ In(rest, k, d)) => Distinct(q)
      <4>1. q \in [LoopOf -> Seq(Functor)]
        BY <3>1, InAppended
      <4>2. \A k \in LoopOf, g \in Functor : In(q, k, g) => In(rest, k, g) \/ (k = h /\ g = d)
        <5> SUFFICES ASSUME NEW k \in LoopOf, NEW g \in Functor, In(q, k, g)
                     PROVE  In(rest, k, g) \/ (k = h /\ g = d)
          OBVIOUS
        <5> HIDE <1>3
        <5> QED
          BY <3>1, InAppended
      <4>3. Distinct(rest) /\ (\A k \in LoopOf : ~ In(rest, k, d)) => Distinct(q)
        BY <3>1, InAppended
      <4> QED
        BY <4>1, <4>2, <4>3
    <3> QED
      BY <1>9, <2>1, <3>2 DEF q
<1>11. QueuesRight' /\ OnlyOnce'
  <2>1. ASSUME NEW k \in LoopOf, NEW g \in Functor, In(queues', k, g) PROVE Right(k, g)'
    <3>1. CASE In(rest, k, g)
      BY <1>5, <1>6, <1>8, <3>1 DEF Right
    <3>2. CASE g = d
      BY <1>5, <1>6, <1>7, <3>2 DEF Right
    <3> QED
      BY <1>10, <2>1, <3>1, <3>2
  <2> QED
    BY <1>10, <2>1 DEF QueuesRight, Waits, OnlyOnce, LoopOf, Distinct
<1>12. Made' = Made
  BY DEF Made
<1>13. MapRight'
  BY <1>1, <1>5, <1>6, <1>12 DEF MapRight, Up, Serves, ServerTypes
<1>14. ServerTypes'
  BY <1>1, <1>6, <1>10 DEF ServerTypes, LoopOf
<1>15. Turn'
  BY <1>1, <1>12, TurnKept
<1> QED
  BY <1>1, <1>6, <1>11, <1>13, <1>14, <1>15 DEF ServerInv, RemovedOnce, RemovedIdle

LEMMA AstrayStep ==
    ASSUME ServerInv, NEW l \in LoopOf, queues[l] # <<>>, Head(queues[l])[1] = "removeConnection",
           server = "gone", astray' = TRUE, queues' = Advance(queues, l),
           UNCHANGED <<pool, server, nextLoop, acceptor, home, stopped, life, listens, connections,
                       misses, halves>>
    PROVE  ServerInv'
<1> USE DEF acceptor
<1> DEFINE f == Head(queues[l])
<1>1. ServerTypes /\ QueuesRight /\ OnlyOnce /\ MapRight /\ Turn /\ RemovedOnce /\ RemovedIdle
  BY DEF ServerInv
<1>2. queues \in [LoopOf -> Seq(Functor)]
  BY <1>1 DEF ServerTypes
<1>3. /\ queues' \in [LoopOf -> Seq(Functor)] /\ f \in Functor /\ In(queues, l, f)
      /\ \A k \in LoopOf, g \in Functor : In(queues', k, g) => In(queues, k, g)
  BY <1>2, InAdvanced
<1>4. pool > 0
  BY <1>1, <1>3 DEF QueuesRight, Waits, Right
<1>5. \A k, g : Right(k, g)' <=> Right(k, g)
  BY DEF Right, Serves
<1>6. QueuesRight' /\ OnlyOnce'
  BY <1>1, <1>3, <1>5 DEF QueuesRight, Waits, OnlyOnce, LoopOf, Serves
<1>7. Made' = Made
  BY DEF Made
<1>8. MapRight'
  BY <1>1, <1>7 DEF MapRight, Up, Serves
<1>9. ServerTypes'
  BY <1>1, <1>3 DEF ServerTypes, LoopOf
<1>10. Turn'
  BY <1>1, <1>7, TurnKept
<1> QED
  BY <1>1, <1>4, <1>6, <1>8, <1>9, <1>10 DEF ServerInv, RemovedOnce, RemovedIdle

\* connectDestroyed, when nothing waits any more for the connection while the server serves.
LEMMA DestroyedKeeps ==
    ASSUME ServerInv, NEW c \in Conn, Destroyed(c), life[c] # "none",
           Serves => life[c] = "Disconnected"
    PROVE  /\ life' \in [Conn -> Lives] /\ life'[c] = "freed"
           /\ \A d \in Conn : d # c => life'[d] = life[d]
           /\ listens' = listens \ {c} /\ Made' = Made
           /\ \A d \in listens' : Up(d)'
           /\ server \notin {"ending", "gone"} => halves' = halves
           /\ \A h \in halves' : h[2] = "Disconnecting"
<1>1. ServerTypes /\ MapRight /\ RemovedIdle
  BY DEF ServerInv
<1>2. /\ life' \in [Conn -> Lives] /\ life'[c] = "freed" /\ listens' = listens \ {c}
      /\ \A d \in Conn : d # c => life'[d] = life[d]
  BY <1>1 DEF Destroyed, ServerTypes, Lives
<1>3. Made' = Made
  BY <1>2 DEF Made
<1>4. \A d \in listens' : Up(d)'
  BY <1>1, <1>2 DEF MapRight, Up, ServerTypes
<1>5. c \in listens => Up(c)
  BY <1>1 DEF MapRight
<1>6. Serves => halves' = halves
  BY <1>5 DEF Destroyed, Up
<1>7. \A h \in halves' : h[2] = "Disconnecting"
  <2>1. \A h \in halves : h[2] = "Disconnecting"
    BY <1>1 DEF RemovedIdle
  <2>2. c \in listens /\ ~ Quiet(c) => <<c, life[c]>>[2] = "Disconnecting"
    BY <1>5 DEF Quiet, Up
  <2> QED
    BY <2>1, <2>2 DEF Destroyed
<1> QED
  BY <1>1, <1>2, <1>3, <1>4, <1>6, <1>7 DEF ServerTypes, Serves

LEMMA DestroyedStep ==
    ASSUME ServerInv, NEW l \in LoopOf, queues[l] # <<>>, NEW c, c = Head(queues[l])[2],
           Head(queues[l])[1] = "connectDestroyed", Destroyed(c), queues' = Advance(queues, l),
           UNCHANGED <<pool, server, nextLoop, acceptor, home, stopped, connections, misses, astray>>
    PROVE  ServerInv'
<1> USE DEF acceptor
<1> DEFINE f == Head(queues[l])
<1>1. ServerTypes /\ QueuesRight /\ OnlyOnce /\ MapRight /\ Turn /\ RemovedOnce /\ RemovedIdle
  BY DEF ServerInv
<1>2. queues \in [LoopOf -> Seq(Functor)]
  BY <1>1 DEF ServerTypes
<1>3. /\ queues' \in [LoopOf -> Seq(Functor)] /\ f \in Functor /\ In(queues, l, f)
      /\ \A k \in LoopOf, g \in Functor : In(queues', k, g) => In(queues, k, g)
      /\ Distinct(queues) => Distinct(queues') /\ \A k \in LoopOf : ~ In(queues', k, f)
  BY <1>2, InAdvanced
<1>4. Right(l, f) /\ c \in Conn
  BY <1>1, <1>3 DEF QueuesRight, Waits, Functor
<1>5. life[c] # "none" /\ (Serves => life[c] = "Disconnected" /\ c \notin connections)
  BY <1>4 DEF Right
<1>6. /\ life' \in [Conn -> Lives] /\ life'[c] = "freed"
      /\ \A d \in Conn : d # c => life'[d] = life[d]
      /\ listens' = listens \ {c} /\ Made' = Made
      /\ \A d \in listens' : Up(d)'
      /\ server \notin {"ending", "gone"} => halves' = halves
      /\ \A h \in halves' : h[2] = "Disconnecting"
  BY <1>4, <1>5, DestroyedKeeps
<1>7. QueuesRight' /\ OnlyOnce'
  <2>1. ASSUME NEW k \in LoopOf, NEW g \in Functor, In(queues', k, g) PROVE Right(k, g)'
    <3>1. Right(k, g) /\ g[2] \in Conn
      BY <1>1, <1>3, <2>1 DEF QueuesRight, Waits, Functor
    <3>2. Serves => g # f
      BY <1>1, <1>3, <2>1 DEF OnlyOnce
    <3>3. Serves => g[2] # c
      BY <1>3, <1>5, <3>1, <3>2, PairsEqual DEF Right, Functor
    <3>4. life'[g[2]] # "none"
      BY <1>6, <3>1 DEF Right
    <3>5. Serves => life'[g[2]] = life[g[2]]
      BY <1>6, <3>1, <3>3
    <3> QED
      BY <3>1, <3>4, <3>5 DEF Right, Serves
  <2> QED
    BY <1>1, <1>3, <2>1 DEF QueuesRight, Waits, OnlyOnce, LoopOf, Distinct, Serves
<1>8. MapRight'
  BY <1>1, <1>4, <1>5, <1>6 DEF MapRight, Serves, ServerTypes
<1>9. ServerTypes'
  BY <1>1, <1>3, <1>6 DEF ServerTypes, LoopOf
<1>10. Turn'
  BY <1>1, <1>6, TurnKept
<1> QED
  BY <1>1, <1>6, <1>7, <1>8, <1>9, <1>10 DEF ServerInv, RemovedOnce, RemovedIdle

LEMMA FunctorStep ==
    ASSUME ServerInv, NEW l \in LoopOf, RunFunctor(l)
    PROVE  ServerInv'
<1> USE DEF acceptor, records
<1> DEFINE f == Head(queues[l])  c == f[2]
<1>1. queues[l] # <<>> /\ Turns(l) /\ UNCHANGED <<pool, server, nextLoop, acceptor, home, stopped>>
  BY DEF RunFunctor
<1>2. \/ /\ f[1] = "connectEstablished"
         /\ life' = [life EXCEPT ![c] = "Connected"] /\ listens' = listens \cup {c}
         /\ queues' = Advance(queues, l) /\ UNCHANGED <<connections, records>>
      \/ /\ f[1] = "removeConnection" /\ server # "gone"
         /\ RemoveInLoop(c, Advance(queues, l)) /\ UNCHANGED <<life, listens, astray, halves>>
      \/ /\ f[1] = "removeConnection" /\ server = "gone"
         /\ astray' = TRUE /\ queues' = Advance(queues, l)
         /\ UNCHANGED <<life, listens, connections, misses, halves>>
      \/ /\ f[1] = "connectDestroyed"
         /\ Destroyed(c) /\ queues' = Advance(queues, l) /\ UNCHANGED <<connections, misses, astray>>
  BY DEF RunFunctor, Advance
<1> QED
  BY <1>1, <1>2, EstablishStep, RemoveStep, AstrayStep, DestroyedStep

LEMMA DestroyNextStep ==
    ASSUME ServerInv, NEW c \in Conn, DestroyNext(c)
    PROVE  ServerInv'
<1> USE DEF acceptor
<1>1. ServerTypes /\ QueuesRight /\ OnlyOnce /\ MapRight /\ Turn /\ RemovedOnce /\ RemovedIdle
  BY DEF ServerInv
<1>2. /\ server = "ending" /\ c \in connections /\ connections' = connections \ {c}
      /\ UNCHANGED <<pool, server, nextLoop, acceptor, home, stopped, misses, astray>>
      /\ ~ Serves /\ ~ Serves'
  BY DEF DestroyNext, Serves
<1>3. life[c] # "none" /\ c \in Made
  BY <1>1, <1>2 DEF MapRight, Made
<1>4. queues \in [LoopOf -> Seq(Functor)] /\ home[c] \in LoopOf /\ (pool = 0 => home[c] = 0)
  BY <1>1, <1>3 DEF ServerTypes, MapRight
<1>5. CASE InBase(c)
  <2>1. Destroyed(c) /\ queues' = queues
    BY <1>5 DEF DestroyNext
  <2>2. /\ life' \in [Conn -> Lives] /\ life'[c] = "freed"
        /\ \A d \in Conn : d # c => life'[d] = life[d]
        /\ listens' = listens \ {c} /\ Made' = Made
        /\ \A d \in listens' : Up(d)'
        /\ \A h \in halves' : h[2] = "Disconnecting"
    BY <1>2, <1>3, <2>1, DestroyedKeeps
  <2>3. QueuesRight' /\ OnlyOnce'
    <3>1. \A l \in LoopOf, g \in Functor : In(queues, l, g) => Right(l, g)'
      BY <1>1, <1>2, <2>2 DEF QueuesRight, Waits, Right, Functor
    <3> QED
      BY <1>2, <2>1, <3>1 DEF QueuesRight, Waits, OnlyOnce, LoopOf
  <2>4. MapRight'
    BY <1>1, <1>2, <1>3, <2>2 DEF MapRight, ServerTypes
  <2>5. ServerTypes'
    BY <1>1, <1>2, <2>1, <2>2 DEF ServerTypes, LoopOf
  <2>6. Turn'
    BY <1>1, <1>2, <2>2, TurnKept
  <2> QED
    BY <1>1, <1>2, <2>2, <2>3, <2>4, <2>5, <2>6 DEF ServerInv, RemovedOnce, RemovedIdle
<1>6. CASE ~ InBase(c)
  <2> DEFINE d == <<"connectDestroyed", c>>
  <2>1. queues' = AppendTo(queues, home[c], d) /\ UNCHANGED <<life, listens, halves>> /\ pool # 0
    BY <1>4, <1>6 DEF DestroyNext, DestroyLater, AppendTo, InBase
  <2>2. d \in Functor /\ d[1] = "connectDestroyed" /\ d[2] = c
    BY DEF Functor
  <2> HIDE DEF d
  <2>3. /\ queues' \in [LoopOf -> Seq(Functor)]
        /\ \A k \in LoopOf, g \in Functor : In(queues', k, g) => In(queues, k, g) \/ g = d
    <3> DEFINE R == queues'  h == home[c]
    <3>1. R = AppendTo(queues, h, d) /\ h \in LoopOf /\ d \in Functor /\ queues \in [LoopOf -> Seq(Functor)]
      BY <1>4, <2>1, <2>2
    <3> HIDE DEF R, h
    <3>2. R \in [LoopOf -> Seq(Functor)]
      BY <3>1, InAppended
    <3>3. \A k \in LoopOf, g \in Functor : In(R, k, g) => In(queues, k, g) \/ (k = h /\ g = d)
      BY <3>1, InAppended
    <3> QED
      BY <3>2, <3>3 DEF R
  <2>4. QueuesRight' /\ OnlyOnce'
    <3>1. \A l \in LoopOf, g \in Functor : In(queues, l, g) => Right(l, g)'
      BY <1>1, <1>2, <2>1 DEF QueuesRight, Waits, Right
    <3>2. \A l : Right(l, d)'
      BY <1>2, <1>3, <2>1, <2>2 DEF Right
    <3> QED
      BY <1>2, <2>3, <3>1, <3>2 DEF QueuesRight, Waits, OnlyOnce, LoopOf
  <2>5. Made' = Made
    BY <2>1 DEF Made
  <2>6. MapRight'
    BY <1>1, <1>2, <2>1, <2>5 DEF MapRight, Up
  <2>7. ServerTypes'
    BY <1>1, <1>2, <2>1, <2>3 DEF ServerTypes, LoopOf
  <2>8. Turn'
    BY <1>1, <1>2, <2>5, TurnKept
  <2> QED
    BY <1>1, <1>2, <2>1, <2>4, <2>6, <2>7, <2>8 DEF ServerInv, RemovedOnce, RemovedIdle
<1> QED
  BY <1>5, <1>6

LEMMA GoneStep ==
    ASSUME ServerInv, ServerGone
    PROVE  ServerInv'
<1> USE DEF records
<1>1. ServerTypes /\ QueuesRight /\ OnlyOnce /\ MapRight /\ Turn /\ RemovedOnce /\ RemovedIdle
  BY DEF ServerInv
<1>2. /\ server = "ending" /\ connections = {} /\ server' = "gone" /\ connections' = connections
      /\ waiting' = 0 /\ idle' = FALSE
      /\ UNCHANGED <<pool, nextLoop, others, home, life, listens, queues, stopped, records>>
      /\ ~ Serves /\ ~ Serves'
  BY DEF ServerGone, Emptied, Serves
<1>3. \A l, g : Right(l, g) => Right(l, g)'
  BY <1>2 DEF Right
<1>4. QueuesRight' /\ OnlyOnce'
  BY <1>1, <1>2, <1>3 DEF QueuesRight, Waits, OnlyOnce, LoopOf
<1>5. Made' = Made
  BY <1>2 DEF Made
<1>6. MapRight'
  BY <1>1, <1>2, <1>5 DEF MapRight, Up
<1>7. ServerTypes'
  <2>1. waiting' \in 0 .. Cardinality(Conn)
    BY <1>2, MadeCount
  <2> QED
    BY <1>1, <1>2, <2>1 DEF ServerTypes, LoopOf
<1>8. Turn'
  BY <1>1, <1>2, <1>5, TurnKept
<1> QED
  BY <1>1, <1>2, <1>4, <1>6, <1>7, <1>8 DEF ServerInv, RemovedOnce, RemovedIdle

LEMMA ServerSteps == ServerInv /\ ServerNext => ServerInv'
<1> SUFFICES ASSUME ServerInv, ServerNext PROVE ServerInv'
  OBVIOUS
<1>1. CASE Functors
  BY <1>1, FunctorStep DEF Functors
<1>2. CASE Accepts
  BY <1>2, AcceptStep, QuietSteps DEF Accepts
<1>3. CASE Ends
  BY <1>3, DestroyNextStep, GoneStep DEF Ends
<1>4. CASE ServerStart \/ ClientCalls \/ SpareStolen \/ Release \/ ServerDestroy
  BY <1>4, QuietSteps
<1>5. CASE \E c \in Conn : HalfClose(c) \/ ConnectionCloses(c)
  BY <1>5, HalfCloseStep, CloseStep
<1>6. CASE \E l \in LoopOf : LoopEnds(l)
  BY <1>6, QuietSteps
<1> QED
  BY <1>1, <1>2, <1>3, <1>4, <1>5, <1>6 DEF ServerNext

LEMMA ServerHolds ==
    ServerInv => ServerTypeOK /\ Balanced /\ RemovedOnce /\ RemovedIdle /\ NoneLeft
<1> SUFFICES ASSUME ServerInv PROVE ServerTypeOK /\ Balanced /\ RemovedOnce /\ RemovedIdle /\ NoneLeft
  OBVIOUS
<1>1. ServerTypes /\ MapRight /\ Turn /\ RemovedOnce /\ RemovedIdle
  BY DEF ServerInv
<1>2. ServerTypeOK
  BY <1>1 DEF ServerTypes, ServerTypeOK, MapRight, Serves, Lives
<1>3. NoneLeft
  BY <1>1 DEF NoneLeft, MapRight
<1>4. Balanced
  <2>1. \A c \in Made : home[c] \in IF pool = 0 THEN {0} ELSE 1 .. pool
    BY <1>1 DEF MapRight
  <2>2. \A l, k \in IF pool = 0 THEN {0} ELSE 1 .. pool : Load(l) <= Load(k) + 1
    <3>1. CASE pool = 0
      <4>1. Load(0) \in Nat
        BY MadeCount
      <4> QED
        BY <3>1, <4>1
    <3>2. CASE pool # 0
      <4>1. PICK q \in Nat : \A l \in 1 .. pool : Load(l) = q + (IF l <= nextLoop THEN 1 ELSE 0)
        BY <1>1, <3>2, PoolLimits DEF Turn, ServerTypes
      <4>2. \A l \in 1 .. pool : Load(l) \in {q, q + 1}
        BY <4>1
      <4> QED
        BY <3>2, <4>2
    <3> QED
      BY <3>1, <3>2
  <2> QED
    BY <2>1, <2>2 DEF Balanced, Load
<1> QED
  BY <1>1, <1>2, <1>3, <1>4

-----------------------------------------------------------------------------
(* The client.                                                              *)

\* What waits in the loop; only stopInLoop may wait twice.
Jobs == {"startInLoop", "stopInLoop", "resetChannel"}
Has(s, x) == \E i \in DOMAIN s : s[i] = x
Single(s) == \A i, j \in DOMAIN s : s[i] = s[j] /\ s[i] # "stopInLoop" => i = j

ClientTypes ==
    /\ user \in {"new", "connect", "disconnect", "stop", "destroy"}
    /\ retries \in BOOLEAN /\ wants \in BOOLEAN /\ connect \in BOOLEAN /\ again \in BOOLEAN
    /\ cstate \in {"Disconnected", "Connecting", "Connected"} /\ delay \in 1 .. MaxDelay
    /\ conn \in {"none", "up", "down"} /\ chan \in {"none", "live", "removed"}

TimersRight == timers = <<>> \/ \E d \in 1 .. MaxDelay : timers = <<d>>

\* At most one of a timer, an attempt and a connection.
Exclusive ==
    /\ timers # <<>> => cstate # "Connecting" /\ conn = "none"
    /\ cstate = "Connecting" => conn = "none"

\* The jobs that wait fit the attempt, its channel and what the user did.
JobsRight ==
    /\ jobs \in Seq(Jobs) /\ Single(jobs) /\ left \in 0 .. Len(jobs)
    /\ chan = "live" <=> cstate = "Connecting"
    /\ chan = "removed" <=> Has(jobs, "resetChannel")
    /\ again => cstate = "Disconnected" /\ left = 0
    /\ user = "new" => jobs = <<>>
    /\ user = "new" \/ Has(jobs, "startInLoop") =>
           timers = <<>> /\ cstate = "Disconnected" /\ conn = "none" /\ chan = "none"

\* What was stopped stays stopped.
UserRight ==
    /\ user \in {"disconnect", "stop", "destroy"} => ~ wants
    /\ user \in {"new", "stop"} => ~ connect
    /\ user = "destroy" => conn = "none"
    /\ user = "destroy" /\ connect => /\ timers = <<>> /\ cstate # "Connecting"
                                      /\ ~ Has(jobs, "startInLoop")
    /\ user \in {"stop", "destroy"} /\ ~ Has(jobs, "stopInLoop") => cstate # "Connecting"
    /\ cut => /\ user \in {"disconnect", "stop", "destroy"} /\ conn # "up" /\ cstate # "Connecting"
              /\ timers = <<>> /\ ~ Has(jobs, "startInLoop")
    /\ ~ dangling

ClientInv == ClientTypes /\ TimersRight /\ Exclusive /\ JobsRight /\ UserRight

-----------------------------------------------------------------------------
LEMMA JobAdded ==
    ASSUME NEW s \in Seq(Jobs), NEW x \in Jobs
    PROVE  /\ Append(s, x) \in Seq(Jobs) /\ Len(Append(s, x)) = Len(s) + 1 /\ Len(s) \in Nat
           /\ \A y : Has(Append(s, x), y) <=> Has(s, y) \/ y = x
           /\ Single(s) /\ (x = "stopInLoop" \/ ~ Has(s, x)) => Single(Append(s, x))
<1> DEFINE t == Append(s, x)
<1>1. /\ t \in Seq(Jobs) /\ Len(t) = Len(s) + 1 /\ Len(s) \in Nat
      /\ DOMAIN t = 1 .. Len(s) + 1 /\ DOMAIN s = 1 .. Len(s)
      /\ \A i \in 1 .. Len(s) : t[i] = s[i]
      /\ t[Len(s) + 1] = x
  BY AppendProperties
<1> DEFINE n == Len(s)
<1> HIDE DEF t, n
<1>2. n \in Nat /\ DOMAIN t = 1 .. n + 1 /\ DOMAIN s = 1 .. n /\ t[n + 1] = x /\ \A i \in 1 .. n : t[i] = s[i]
  BY <1>1 DEF n
<1>3. \A i : i \in 1 .. n + 1 <=> i \in 1 .. n \/ i = n + 1
  BY <1>2
<1>4. \A y : Has(t, y) <=> Has(s, y) \/ y = x
  BY <1>2, <1>3 DEF Has
<1>5. ASSUME Single(s), x = "stopInLoop" \/ ~ Has(s, x) PROVE Single(t)
  BY <1>2, <1>3, <1>5 DEF Single, Has
<1> QED
  BY <1>1, <1>4, <1>5 DEF t

LEMMA JobTaken ==
    ASSUME NEW s \in Seq(Jobs), s # <<>>
    PROVE  /\ Tail(s) \in Seq(Jobs) /\ Len(Tail(s)) = Len(s) - 1 /\ Len(s) \in Nat \ {0} /\ Head(s) \in Jobs
           /\ \A y : Has(s, y) <=> Has(Tail(s), y) \/ y = Head(s)
           /\ Single(s) => Single(Tail(s))
           /\ Single(s) /\ Head(s) # "stopInLoop" => ~ Has(Tail(s), Head(s))
<1> DEFINE t == Tail(s)  n == Len(s)
<1>1. /\ t \in Seq(Jobs) /\ n \in Nat \ {0} /\ Len(t) = n - 1 /\ Head(s) \in Jobs /\ Head(s) = s[1]
      /\ DOMAIN t = 1 .. n - 1 /\ DOMAIN s = 1 .. n
      /\ \A i \in 1 .. n - 1 : t[i] = s[i + 1]
  BY HeadTailProperties
<1> HIDE DEF t, n
<1>2. \A i : i \in 1 .. n - 1 => i + 1 \in 1 .. n /\ i + 1 # 1 /\ i \in Int
  BY <1>1
<1>3. \A i : i \in 1 .. n => i = 1 \/ (i - 1 \in 1 .. n - 1 /\ i = (i - 1) + 1)
  BY <1>1
<1>4. 1 \in 1 .. n
  BY <1>1
<1>5. \A y : Has(s, y) <=> Has(t, y) \/ y = Head(s)
  <2>1. \A y : Has(t, y) => Has(s, y)
    BY <1>1, <1>2 DEF Has
  <2>2. \A y : Has(s, y) => Has(t, y) \/ y = Head(s)
    <3> SUFFICES ASSUME NEW i \in 1 .. n, i # 1 PROVE Has(t, s[i])
      BY <1>1 DEF Has
    <3> QED
      BY <1>1, <1>3 DEF Has
  <2> QED
    BY <1>1, <1>4, <2>1, <2>2 DEF Has
<1>6. ASSUME Single(s) PROVE Single(t)
  <2> SUFFICES ASSUME NEW i \in 1 .. n - 1, NEW j \in 1 .. n - 1, t[i] = t[j], t[i] # "stopInLoop" PROVE i = j
    BY <1>1 DEF Single
  <2>1. i + 1 = j + 1
    BY <1>1, <1>2, <1>6 DEF Single
  <2> QED
    BY <1>2, <2>1
<1>7. ASSUME Single(s), Head(s) # "stopInLoop" PROVE ~ Has(t, Head(s))
  BY <1>1, <1>2, <1>4, <1>7 DEF Single, Has
<1> QED
  BY <1>1, <1>5, <1>6, <1>7 DEF t, n

LEMMA DelayGrows ==
    \A d \in 1 .. MaxDelay : Doubled(d) \in 1 .. MaxDelay /\ 1 \in 1 .. MaxDelay
  BY DelayLimits DEF Doubled

\* An attempt that begins when nothing waits and none is under way.
LEMMA Starting ==
    ASSUME ClientTypes, cstate # "Connecting", NEW on \in BOOLEAN, NEW d \in 1 .. MaxDelay,
           NEW pending, pending = <<>>, Start(on, pending, d)
    PROVE  /\ delay' \in 1 .. MaxDelay /\ TimersRight'
           /\ cstate' \in {"Disconnected", "Connecting", "Connected"}
           /\ timers' # <<>> => cstate' = "Disconnected"
           /\ cstate' = "Connecting" => chan' = "live"
           /\ cstate' # "Connecting" => chan' = chan
           /\ ~ on => timers' = <<>> /\ cstate' = cstate
<1>1. \A e : Append(<<>>, e) = <<e>> /\ <<e>> # <<>>
  OBVIOUS
<1>2. CASE ~ Starts(on)
  BY <1>2 DEF Start, Starts, ClientTypes, TimersRight
<1>3. CASE Starts(on) /\ cstate' = "Connecting" /\ chan' = "live" /\ timers' = pending /\ delay' = d
  BY <1>3 DEF Starts, ClientTypes, TimersRight
<1>4. CASE /\ Starts(on) /\ cstate' = "Disconnected" /\ chan' = chan
           /\ timers' = Append(pending, d) /\ delay' = Doubled(d)
  <2>1. timers' = <<d>> /\ delay' \in 1 .. MaxDelay
    BY <1>1, <1>4, DelayGrows
  <2> QED
    BY <1>4, <2>1 DEF Starts, ClientTypes, TimersRight
<1>5. CASE Starts(on) /\ cstate' = "Disconnected" /\ chan' = chan /\ timers' = pending /\ delay' = d
  BY <1>5 DEF Starts, ClientTypes, TimersRight
<1> QED
  BY <1>2, <1>3, <1>4, <1>5 DEF Start

LEMMA Retrying ==
    ASSUME ClientTypes, timers = <<>>, Retry(delay)
    PROVE  /\ delay' \in 1 .. MaxDelay /\ TimersRight' /\ cstate' = "Disconnected"
           /\ timers' # <<>> => connect
<1>1. \A e : Append(<<>>, e) = <<e>> /\ <<e>> # <<>>
  OBVIOUS
<1>2. delay \in 1 .. MaxDelay /\ Doubled(delay) \in 1 .. MaxDelay
  BY DelayGrows DEF ClientTypes
<1>3. CASE connect
  <2>1. timers' = <<delay>> /\ delay' = Doubled(delay)
    BY <1>1, <1>3 DEF Retry, Retries
  <2> QED
    BY <1>2, <1>3, <2>1 DEF Retry, TimersRight
<1>4. CASE ~ connect
  BY <1>2, <1>4 DEF Retry, Retries, TimersRight
<1> QED
  BY <1>3, <1>4

LEMMA EventMeans ==
    ASSUME ClientInv, Event
    PROVE  ~ again /\ left = 0 /\ ~ Has(jobs, "resetChannel") /\ chan # "removed"
  BY DEF Event, Has, ClientInv, JobsRight

LEMMA ClientStarts == ClientInit => ClientInv
<1> SUFFICES ASSUME ClientInit PROVE ClientInv
  OBVIOUS
<1>1. jobs \in Seq(Jobs) /\ Single(jobs) /\ left \in 0 .. Len(jobs) /\ \A x : ~ Has(jobs, x)
  BY DEF ClientInit, Single, Has
<1>2. delay \in 1 .. MaxDelay
  BY DelayLimits DEF ClientInit
<1> QED
  BY <1>1, <1>2 DEF ClientInit, ClientInv, ClientTypes, TimersRight, Exclusive, JobsRight, UserRight

LEMMA RetryTimerStep == ASSUME ClientInv, RetryTimer PROVE ClientInv'
<1>1. ~ again /\ left = 0 /\ ~ Has(jobs, "resetChannel") /\ chan # "removed"
  BY EventMeans DEF RetryTimer
<1>2. ClientTypes /\ TimersRight /\ Exclusive /\ JobsRight /\ UserRight
  BY DEF ClientInv
<1>3. timers # <<>> /\ cstate # "Connecting" /\ conn = "none"
  BY <1>2 DEF RetryTimer, Exclusive
<1>4. Tail(timers) = <<>>
  <2>1. PICK d \in 1 .. MaxDelay : timers = <<d>>
    BY <1>2, <1>3 DEF TimersRight
  <2> QED
    BY <2>1
<1>5. Start(connect, Tail(timers), delay)
      /\ UNCHANGED <<user, retries, wants, connect, jobs, left, conn, closed, again, cut, dangling>>
  BY DEF RetryTimer, calls
<1>6. /\ delay' \in 1 .. MaxDelay /\ TimersRight'
      /\ cstate' \in {"Disconnected", "Connecting", "Connected"}
      /\ timers' # <<>> => cstate' = "Disconnected"
      /\ cstate' = "Connecting" => chan' = "live"
      /\ cstate' # "Connecting" => chan' = chan
      /\ ~ connect => timers' = <<>> /\ cstate' = cstate
  <2>1. connect \in BOOLEAN /\ delay \in 1 .. MaxDelay
    BY <1>2 DEF ClientTypes
  <2> QED
    BY <1>2, <1>3, <1>4, <1>5, <2>1, Starting
<1>7. ClientTypes'
  BY <1>2, <1>5, <1>6 DEF ClientTypes
<1>8. Exclusive'
  BY <1>3, <1>5, <1>6 DEF Exclusive
<1>9. JobsRight'
  BY <1>1, <1>2, <1>3, <1>5, <1>6 DEF JobsRight, ClientTypes
<1>10. UserRight'
  BY <1>2, <1>3, <1>5, <1>6 DEF UserRight
<1> QED
  BY <1>6, <1>7, <1>8, <1>9, <1>10 DEF ClientInv

LEMMA AttemptFailsStep == ASSUME ClientInv, AttemptFails PROVE ClientInv'
<1>1. ~ again /\ left = 0 /\ ~ Has(jobs, "resetChannel") /\ chan # "removed"
  BY EventMeans DEF AttemptFails
<1>2. ClientTypes /\ TimersRight /\ Exclusive /\ JobsRight /\ UserRight
  BY DEF ClientInv
<1>3. cstate = "Connecting" /\ timers = <<>> /\ conn = "none" /\ ~ Has(jobs, "startInLoop") /\ user # "new"
  BY <1>2 DEF AttemptFails, Exclusive, JobsRight
<1>4. /\ again' \in BOOLEAN /\ chan' = "removed" /\ jobs' = Append(jobs, "resetChannel") /\ Retry(delay)
      /\ UNCHANGED <<user, retries, wants, connect, left, conn, closed, cut, dangling>>
  BY DEF AttemptFails, calls, ended
<1>5. delay' \in 1 .. MaxDelay /\ TimersRight' /\ cstate' = "Disconnected" /\ (timers' # <<>> => connect)
  BY <1>2, <1>3, <1>4, Retrying
<1>6. /\ jobs' \in Seq(Jobs) /\ Len(jobs') = Len(jobs) + 1 /\ Len(jobs) \in Nat
      /\ \A y : Has(jobs', y) <=> Has(jobs, y) \/ y = "resetChannel"
      /\ Single(jobs')
  BY <1>1, <1>2, <1>4, JobAdded DEF JobsRight, Jobs
<1>7. ClientTypes'
  BY <1>2, <1>4, <1>5 DEF ClientTypes
<1>8. Exclusive'
  BY <1>3, <1>4, <1>5 DEF Exclusive
<1>9. JobsRight'
  BY <1>1, <1>2, <1>3, <1>4, <1>5, <1>6 DEF JobsRight
<1>10. UserRight'
  BY <1>2, <1>3, <1>4, <1>5, <1>6 DEF UserRight
<1> QED
  BY <1>5, <1>7, <1>8, <1>9, <1>10 DEF ClientInv

LEMMA WriteAfterErrorStep == ASSUME ClientInv, WriteAfterError PROVE ClientInv'
<1>1. ClientTypes /\ TimersRight /\ Exclusive /\ JobsRight /\ UserRight
  BY DEF ClientInv
<1>2. again /\ cstate # "Connecting"
  BY <1>1 DEF WriteAfterError, JobsRight
<1>3. /\ again' = FALSE
      /\ UNCHANGED <<user, retries, wants, connect, cstate, timers, delay, chan, jobs, left, conn, cut, dangling>>
  BY <1>2 DEF WriteAfterError, Handles, calls, ended
<1> QED
  BY <1>1, <1>3 DEF ClientInv, ClientTypes, TimersRight, Exclusive, JobsRight, UserRight

LEMMA AttemptSucceedsStep == ASSUME ClientInv, AttemptSucceeds PROVE ClientInv'
<1>1. ~ again /\ left = 0 /\ ~ Has(jobs, "resetChannel") /\ chan # "removed"
  BY EventMeans DEF AttemptSucceeds
<1>2. ClientTypes /\ TimersRight /\ Exclusive /\ JobsRight /\ UserRight
  BY DEF ClientInv
<1>3. cstate = "Connecting" /\ timers = <<>> /\ conn = "none" /\ ~ Has(jobs, "startInLoop") /\ user # "new" /\ ~ cut
  BY <1>2 DEF AttemptSucceeds, Exclusive, JobsRight, UserRight
<1>4. /\ chan' = "removed" /\ jobs' = Append(jobs, "resetChannel") /\ cstate' = "Connected"
      /\ UNCHANGED <<user, retries, wants, connect, timers, delay, left, again, cut>>
      /\ conn' \in {"none", "up"} /\ (conn' = "up" => connect)
  BY <1>3 DEF AttemptSucceeds, calls, Keeps
<1>5. ~ dangling' /\ (user = "destroy" => conn' = "none")
  BY <1>2, <1>3 DEF AttemptSucceeds, Keeps, UserRight, Alive
<1>6. /\ jobs' \in Seq(Jobs) /\ Len(jobs') = Len(jobs) + 1 /\ Len(jobs) \in Nat
      /\ \A y : Has(jobs', y) <=> Has(jobs, y) \/ y = "resetChannel"
      /\ Single(jobs')
  BY <1>1, <1>2, <1>4, JobAdded DEF JobsRight, Jobs
<1>7. ClientTypes' /\ TimersRight'
  BY <1>2, <1>4 DEF ClientTypes, TimersRight
<1>8. Exclusive'
  BY <1>3, <1>4 DEF Exclusive
<1>9. JobsRight'
  BY <1>1, <1>2, <1>3, <1>4, <1>6 DEF JobsRight
<1>10. UserRight'
  BY <1>2, <1>3, <1>4, <1>5, <1>6 DEF UserRight
<1> QED
  BY <1>7, <1>8, <1>9, <1>10 DEF ClientInv

LEMMA RunJobStep == ASSUME ClientInv, RunJob PROVE ClientInv'
<1>1. ClientTypes /\ TimersRight /\ Exclusive /\ JobsRight /\ UserRight
  BY DEF ClientInv
<1> DEFINE rest == Tail(jobs)
<1>2. /\ left' = left - 1 /\ left > 0
      /\ UNCHANGED <<user, retries, wants, connect, conn, closed, again, cut, dangling>>
  BY DEF RunJob, calls
<1>3. jobs \in Seq(Jobs) /\ left \in 0 .. Len(jobs) /\ jobs # <<>> /\ left \in Nat
  <2>1. jobs \in Seq(Jobs) /\ left \in 0 .. Len(jobs) /\ Len(jobs) \in Nat
    BY <1>1 DEF JobsRight
  <2>2. Len(jobs) # 0
    BY <1>2, <2>1
  <2> QED
    BY <2>1, <2>2
<1>4. ~ again
  BY <1>1, <1>2 DEF JobsRight
<1>5. /\ rest \in Seq(Jobs) /\ Len(rest) = Len(jobs) - 1 /\ Len(jobs) \in Nat \ {0} /\ Head(jobs) \in Jobs
      /\ \A y : Has(jobs, y) <=> Has(rest, y) \/ y = Head(jobs)
      /\ Single(rest)
      /\ Head(jobs) # "stopInLoop" => ~ Has(rest, Head(jobs))
  BY <1>1, <1>3, JobTaken DEF JobsRight
<1>6. left' \in 0 .. Len(rest) /\ left' \in 0 .. Len(rest) + 1
  BY <1>2, <1>3, <1>5
<1>7. user # "new"
  BY <1>1, <1>3 DEF JobsRight
<1> HIDE DEF rest
<1>8. CASE Head(jobs) = "startInLoop" /\ jobs' = rest /\ Start(connect, timers, delay)
  <2>1. timers = <<>> /\ cstate = "Disconnected" /\ conn = "none" /\ chan = "none" /\ ~ Has(jobs, "resetChannel")
    BY <1>1, <1>5, <1>8 DEF JobsRight
  <2>2. /\ delay' \in 1 .. MaxDelay /\ TimersRight'
        /\ cstate' \in {"Disconnected", "Connecting", "Connected"}
        /\ timers' # <<>> => cstate' = "Disconnected"
        /\ cstate' = "Connecting" => chan' = "live"
        /\ cstate' # "Connecting" => chan' = chan
        /\ ~ connect => timers' = <<>> /\ cstate' = cstate
    <3>1. connect \in BOOLEAN /\ delay \in 1 .. MaxDelay
      BY <1>1 DEF ClientTypes
    <3> QED
      BY <1>1, <1>8, <2>1, <3>1, Starting
  <2>3. ClientTypes'
    BY <1>1, <1>2, <2>1, <2>2 DEF ClientTypes
  <2>4. Exclusive'
    BY <1>2, <2>1, <2>2 DEF Exclusive
  <2>5. JobsRight'
    BY <1>1, <1>2, <1>4, <1>5, <1>6, <1>7, <1>8, <2>1, <2>2 DEF JobsRight
  <2>6. UserRight'
    BY <1>1, <1>2, <1>5, <1>8, <2>1, <2>2 DEF UserRight
  <2> QED
    BY <2>2, <2>3, <2>4, <2>5, <2>6 DEF ClientInv
<1>9. CASE Head(jobs) = "stopInLoop" /\ cstate = "Connecting" /\ StopInLoop(rest)
  <2>1. /\ chan' = "removed" /\ Retry(delay) /\ jobs' = Append(rest, "resetChannel")
        /\ chan = "live" /\ timers = <<>> /\ conn = "none"
        /\ ~ Has(jobs, "resetChannel") /\ ~ Has(jobs, "startInLoop")
    BY <1>1, <1>9 DEF StopInLoop, JobsRight, Exclusive
  <2>2. delay' \in 1 .. MaxDelay /\ TimersRight' /\ cstate' = "Disconnected" /\ (timers' # <<>> => connect)
    BY <1>1, <2>1, Retrying
  <2>3. /\ jobs' \in Seq(Jobs) /\ Len(jobs') = Len(rest) + 1
        /\ \A y : Has(jobs', y) <=> Has(rest, y) \/ y = "resetChannel"
        /\ Single(jobs')
    BY <1>5, <2>1, JobAdded DEF Jobs
  <2>4. ClientTypes'
    BY <1>1, <1>2, <2>1, <2>2 DEF ClientTypes
  <2>5. Exclusive'
    BY <1>2, <2>1, <2>2 DEF Exclusive
  <2>6. JobsRight'
    BY <1>1, <1>2, <1>4, <1>5, <1>6, <1>7, <2>1, <2>2, <2>3 DEF JobsRight
  <2>7. UserRight'
    BY <1>1, <1>2, <1>5, <1>9, <2>1, <2>2, <2>3 DEF UserRight
  <2> QED
    BY <2>2, <2>4, <2>5, <2>6, <2>7 DEF ClientInv
<1>10. CASE Head(jobs) = "stopInLoop" /\ cstate # "Connecting" /\ StopInLoop(rest)
  <2>1. UNCHANGED <<cstate, chan, timers, delay>> /\ jobs' = rest
    BY <1>10 DEF StopInLoop, attempt
  <2>2. ClientTypes' /\ TimersRight' /\ Exclusive'
    BY <1>1, <1>2, <2>1 DEF ClientTypes, TimersRight, Exclusive
  <2>3. JobsRight'
    BY <1>1, <1>2, <1>4, <1>5, <1>6, <1>7, <1>10, <2>1 DEF JobsRight
  <2>4. UserRight'
    BY <1>1, <1>2, <1>5, <1>10, <2>1 DEF UserRight
  <2> QED
    BY <2>2, <2>3, <2>4 DEF ClientInv
<1>11. CASE Head(jobs) = "resetChannel" /\ jobs' = rest /\ chan' = "none" /\ UNCHANGED <<cstate, timers, delay>>
  <2>1. chan = "removed" /\ cstate # "Connecting" /\ ~ Has(jobs, "startInLoop")
    BY <1>1, <1>5, <1>11 DEF JobsRight
  <2>2. ClientTypes' /\ TimersRight' /\ Exclusive'
    BY <1>1, <1>2, <1>11 DEF ClientTypes, TimersRight, Exclusive
  <2>3. JobsRight'
    BY <1>1, <1>2, <1>4, <1>5, <1>6, <1>7, <1>11, <2>1 DEF JobsRight
  <2>4. UserRight'
    BY <1>1, <1>2, <1>5, <1>11, <2>1 DEF UserRight
  <2> QED
    BY <2>2, <2>3, <2>4 DEF ClientInv
<1> QED
  BY <1>8, <1>9, <1>10, <1>11 DEF RunJob, rest

LEMMA UserSteps ==
    ASSUME ClientInv, TakeJobs \/ ClientConnect \/ ClientDisconnect \/ ClientStop \/ ClientDestroy
    PROVE  ClientInv'
<1>1. ClientTypes /\ TimersRight /\ Exclusive /\ JobsRight /\ UserRight
  BY DEF ClientInv
<1> USE DEF calls, attempt, counts, ended
<1>2. jobs \in Seq(Jobs) /\ Len(jobs) \in Nat /\ left \in 0 .. Len(jobs) /\ left \in 0 .. Len(jobs) + 1
      /\ Len(jobs) \in 0 .. Len(jobs)
  BY <1>1 DEF JobsRight
<1>3. /\ Append(jobs, "startInLoop") \in Seq(Jobs)
      /\ Len(Append(jobs, "startInLoop")) = Len(jobs) + 1
      /\ \A y : Has(Append(jobs, "startInLoop"), y) <=> Has(jobs, y) \/ y = "startInLoop"
      /\ ~ Has(jobs, "startInLoop") => Single(Append(jobs, "startInLoop"))
  BY <1>1, <1>2, JobAdded DEF JobsRight, Jobs
<1>4. /\ Append(jobs, "stopInLoop") \in Seq(Jobs)
      /\ Len(Append(jobs, "stopInLoop")) = Len(jobs) + 1
      /\ \A y : Has(Append(jobs, "stopInLoop"), y) <=> Has(jobs, y) \/ y = "stopInLoop"
      /\ Single(Append(jobs, "stopInLoop"))
  BY <1>1, <1>2, JobAdded DEF JobsRight, Jobs
<1>5. CASE TakeJobs
  BY <1>1, <1>2, <1>5 DEF TakeJobs, ClientInv, ClientTypes, TimersRight, Exclusive, JobsRight, UserRight
<1>6. CASE ClientConnect
  <2>2. ~ Has(jobs, "startInLoop")
    BY <1>1, <1>6 DEF ClientConnect, JobsRight, Has
  <2>3. /\ user = "new" /\ user' = "connect" /\ wants' = TRUE /\ connect' = TRUE
        /\ jobs' = Append(jobs, "startInLoop")
        /\ UNCHANGED <<retries, cstate, chan, timers, delay, left, conn, again, cut, dangling>>
    BY <1>6 DEF ClientConnect
  <2>4. ClientTypes' /\ TimersRight' /\ Exclusive'
    BY <1>1, <2>3 DEF ClientTypes, TimersRight, Exclusive
  <2>5. JobsRight'
    BY <1>1, <1>2, <1>3, <2>2, <2>3 DEF JobsRight
  <2>6. UserRight'
    BY <1>1, <2>3 DEF UserRight
  <2> QED
    BY <2>4, <2>5, <2>6 DEF ClientInv
<1>7. CASE ClientDisconnect
  <2>1. /\ user = "connect" /\ user' = "disconnect" /\ wants' = FALSE
        /\ conn' = (IF conn = "up" THEN "down" ELSE conn) /\ cut' = (conn = "up")
        /\ UNCHANGED <<retries, connect, cstate, chan, timers, delay, jobs, left, again, dangling>>
    BY <1>7 DEF ClientDisconnect
  <2>2. ClientTypes' /\ TimersRight' /\ Exclusive'
    BY <1>1, <2>1 DEF ClientTypes, TimersRight, Exclusive
  <2>3. JobsRight'
    BY <1>1, <2>1 DEF JobsRight
  <2>4. UserRight'
    BY <1>1, <2>1 DEF UserRight, Exclusive, JobsRight
  <2> QED
    BY <2>2, <2>3, <2>4 DEF ClientInv
<1>8. CASE ClientStop
  <2>1. /\ user \in {"connect", "disconnect"} /\ user' = "stop" /\ wants' = FALSE /\ connect' = FALSE
        /\ jobs' = Append(jobs, "stopInLoop")
        /\ UNCHANGED <<retries, cstate, chan, timers, delay, left, conn, again, cut, dangling>>
    BY <1>8 DEF ClientStop
  <2>2. ClientTypes' /\ TimersRight' /\ Exclusive'
    BY <1>1, <2>1 DEF ClientTypes, TimersRight, Exclusive
  <2>3. JobsRight'
    BY <1>1, <1>2, <1>4, <2>1 DEF JobsRight
  <2>4. UserRight'
    BY <1>1, <1>4, <2>1 DEF UserRight
  <2> QED
    BY <2>2, <2>3, <2>4 DEF ClientInv
<1>9. CASE ClientDestroy
  <2>1. /\ user \in {"connect", "disconnect", "stop"} /\ left = 0 /\ ~ again
        /\ user' = "destroy" /\ conn' = "none" /\ wants' = FALSE
        /\ UNCHANGED <<retries, cstate, chan, timers, delay, left, again, cut, dangling>>
        /\ \/ conn # "none" /\ connect' = connect /\ jobs' = jobs
           \/ conn = "none" /\ connect' = FALSE /\ jobs' = Append(jobs, "stopInLoop")
    BY <1>9 DEF ClientDestroy, StopsConnector
  <2>2. ClientTypes' /\ TimersRight' /\ Exclusive'
    BY <1>1, <2>1 DEF ClientTypes, TimersRight, Exclusive
  <2>3. JobsRight'
    BY <1>1, <1>2, <1>4, <2>1 DEF JobsRight
  <2>4. UserRight'
    BY <1>1, <1>4, <2>1 DEF UserRight, Exclusive, JobsRight
  <2> QED
    BY <2>2, <2>3, <2>4 DEF ClientInv
<1> QED
  BY <1>5, <1>6, <1>7, <1>8, <1>9

LEMMA ConnectionDownStep == ASSUME ClientInv, ConnectionDown PROVE ClientInv'
<1>1. ~ again /\ left = 0 /\ ~ Has(jobs, "resetChannel") /\ chan # "removed"
  BY EventMeans DEF ConnectionDown
<1>2. ClientTypes /\ TimersRight /\ Exclusive /\ JobsRight /\ UserRight
  BY DEF ClientInv
<1>3. conn # "none" /\ timers = <<>> /\ cstate # "Connecting" /\ ~ Has(jobs, "startInLoop")
      /\ user # "new" /\ user # "destroy"
  BY <1>2 DEF ConnectionDown, Exclusive, JobsRight, UserRight
<1>4. conn' = "none" /\ UNCHANGED <<user, retries, wants, jobs, left, again, cut, dangling>>
  BY DEF ConnectionDown
<1>5. CASE Reconnects
  <2>1. connect' = TRUE /\ Start(TRUE, timers, 1) /\ user = "connect"
    BY <1>2, <1>3, <1>5 DEF ConnectionDown, Reconnects, UserRight, ClientTypes
  <2>2. /\ delay' \in 1 .. MaxDelay /\ TimersRight'
        /\ cstate' \in {"Disconnected", "Connecting", "Connected"}
        /\ timers' # <<>> => cstate' = "Disconnected"
        /\ cstate' = "Connecting" => chan' = "live"
        /\ cstate' # "Connecting" => chan' = chan
    <3>1. 1 \in 1 .. MaxDelay /\ TRUE \in BOOLEAN
      BY DelayLimits
    <3> QED
      BY <1>2, <1>3, <2>1, <3>1, Starting
  <2>3. ClientTypes'
    BY <1>2, <1>4, <2>1, <2>2 DEF ClientTypes
  <2>4. Exclusive'
    BY <1>4, <2>2 DEF Exclusive
  <2>5. JobsRight'
    BY <1>1, <1>2, <1>3, <1>4, <2>2 DEF JobsRight, ClientTypes
  <2>6. UserRight'
    BY <1>2, <1>4, <2>1 DEF UserRight
  <2> QED
    BY <2>2, <2>3, <2>4, <2>5, <2>6 DEF ClientInv
<1>6. CASE ~ Reconnects
  <2>1. UNCHANGED <<connect, cstate, chan, timers, delay>>
    BY <1>6 DEF ConnectionDown, attempt
  <2>2. ClientTypes' /\ TimersRight' /\ Exclusive' /\ JobsRight' /\ UserRight'
    BY <1>2, <1>3, <1>4, <2>1 DEF ClientTypes, TimersRight, Exclusive, JobsRight, UserRight
  <2> QED
    BY <2>2 DEF ClientInv
<1> QED
  BY <1>5, <1>6

LEMMA ClientSteps == ClientInv /\ ClientNext => ClientInv'
  BY RetryTimerStep, AttemptFailsStep, WriteAfterErrorStep, AttemptSucceedsStep, RunJobStep, UserSteps,
     ConnectionDownStep DEF ClientNext, ClientLoop

LEMMA ClientHolds ==
    ClientInv => ClientTypeOK /\ OneAttempt /\ NoneDangling /\ StopFinal /\ DisconnectFinal
<1> SUFFICES ASSUME ClientInv PROVE ClientTypeOK /\ OneAttempt /\ NoneDangling /\ StopFinal /\ DisconnectFinal
  OBVIOUS
<1>1. ClientTypes /\ TimersRight /\ Exclusive /\ JobsRight /\ UserRight
  BY DEF ClientInv
<1>2. timers \in Seq(1 .. MaxDelay) /\ Len(timers) = (IF timers = <<>> THEN 0 ELSE 1)
  <2>1. CASE timers = <<>>
    BY <2>1
  <2>2. ASSUME NEW d \in 1 .. MaxDelay, timers = <<d>>
        PROVE  timers \in Seq(1 .. MaxDelay) /\ Len(timers) = 1 /\ timers # <<>>
    BY <2>2
  <2> QED
    BY <1>1, <2>1, <2>2 DEF TimersRight
<1>3. \A x : x \in {jobs[i] : i \in DOMAIN jobs} <=> Has(jobs, x)
  BY DEF Has
<1>4. ClientTypeOK
  BY <1>1, <1>2, <1>3 DEF ClientTypes, JobsRight, ClientTypeOK
<1>5. OneAttempt
  BY <1>1, <1>2 DEF Exclusive, OneAttempt
<1> QED
  BY <1>1, <1>3, <1>4, <1>5 DEF UserRight, NoneDangling, StopFinal, DisconnectFinal

LEMMA ClientRests == ClientInv /\ UNCHANGED clientVars => ClientInv'
<1> SUFFICES ASSUME ClientInv, UNCHANGED clientVars PROVE ClientInv'
  OBVIOUS
<1> QED
  BY DEF clientVars, ClientInv, ClientTypes, TimersRight, Exclusive, JobsRight, UserRight

-----------------------------------------------------------------------------
(* The connection.                                                          *)

\* Messages, their units and the functors of a connection; 0 is that of a thread that has
\* not sent any.
Sendable == Msg \cup {0}
Unit == Sendable \X {1, 2}
Names == {"connectEstablished", "forceClose", "connectDestroyed", "writeComplete", "highWater"}
Task == {<<n>> : n \in Names} \cup {<<"send", m>> : m \in Sendable}
\* A functor n waits in s, and one is among the first k.
Queued(s, n) == \E i \in DOMAIN s : s[i][1] = n
Due(s, n, k) == \E i \in DOMAIN s : s[i][1] = n /\ i <= k
Risen == state \in {"Connected", "Disconnecting"}

TcpTypes ==
    /\ state \in {"Connecting", "Connected", "Disconnecting", "Disconnected"}
    /\ at \in {"poll", "events", "run"} /\ place \in {"new", "added", "deleted"}
    /\ peer \in {"open", "fin", "reset"}
    /\ reading \in BOOLEAN /\ fin \in BOOLEAN /\ forced \in BOOLEAN
    /\ asks \subseteq {"in", "out"} /\ ready \subseteq {"in", "out", "hup"}
    /\ output \in Seq(Unit) /\ wire \in Seq(Unit) /\ accepted \in Seq(Sendable)
    /\ inbox \in Nat /\ got \in Nat /\ sent \in Nat /\ got + inbox = sent
    /\ busy \in [Sender -> {"none", "send", "forceClose"}] /\ holds \in [Sender -> Sendable]
    /\ use \in Uses

\* The channel asks for what the connection needs, and is in the epoll set if it asks.
ChannelRight ==
    /\ state = "Connecting" => asks = {} /\ place = "new" /\ reading /\ output = <<>> /\ ready = {}
    /\ Risen => /\ place = IF asks = {} THEN "deleted" ELSE "added"
                /\ reading <=> "in" \in asks
                /\ "stop" \notin use.loop => reading
                /\ "out" \in asks <=> output # <<>>
    /\ state = "Disconnected" => asks = {}

\* Each functor that waits fits the state; a connection that is down, of which the epoll
\* set still knows, is removed before the loop polls again.
TasksRight ==
    /\ tasks \in Seq(Task) /\ round \in 0 .. Len(tasks)
    /\ Queued(tasks, "connectEstablished") => state = "Connecting"
    /\ state = "Connecting" => tasks = <<<<"connectEstablished">>>> /\ \A s \in Sender : busy[s] = "none"
    /\ Queued(tasks, "connectDestroyed") => state = "Disconnected"
    /\ use.ends /\ state = "Disconnected" /\ place = "added" =>
          /\ at # "poll" /\ Queued(tasks, "connectDestroyed")
          /\ at = "run" => Due(tasks, "connectDestroyed", round)

\* What poll has reported is so, and a hang-up is handled only after a reset.
ReadyRight ==
    /\ ready # {} => at = "events"
    /\ peer # "open" => use.ends
    /\ "in" \in ready => /\ inbox > 0 \/ peer # "open"
                         /\ use.ends => state # "Disconnected"
    /\ "hup" \in ready => peer = "reset" /\ "in" \notin ready /\ state # "Disconnected"

\* A thread that is about to force the connection down is the only one, and will find it up.
ForcedRight ==
    /\ forced => "forceClose" \in use.loop \cup use.thread
    /\ Queued(tasks, "forceClose") => forced
    /\ \A s \in Sender : busy[s] = "forceClose" =>
          /\ forced /\ ~ Queued(tasks, "forceClose") /\ Risen /\ ~ use.ends
          /\ \A r \in Sender : busy[r] = "forceClose" => r = s

\* The connection goes down once; by the peer only after its input was read.
EndRight ==
    /\ downs = IF state = "Disconnected" THEN 1 ELSE 0
    /\ state = "Disconnected" /\ ~ forced /\ peer # "reset" => got = sent /\ peer = "fin"

TcpInv == /\ TcpTypes /\ ChannelRight /\ TasksRight /\ ReadyRight /\ ForcedRight /\ EndRight
          /\ StreamIntact /\ FinIsLast

-----------------------------------------------------------------------------
LEMMA TaskAdded ==
    ASSUME NEW s \in Seq(Task), NEW x \in Task, NEW t, t = Append(s, x)
    PROVE  /\ t \in Seq(Task) /\ Len(t) = Len(s) + 1 /\ Len(s) \in Nat
           /\ \A n : Queued(t, n) <=> Queued(s, n) \/ x[1] = n
           /\ \A n, k : Due(s, n, k) => Due(t, n, k)
<1>1. /\ t \in Seq(Task) /\ Len(t) = Len(s) + 1 /\ Len(s) \in Nat
      /\ DOMAIN t = 1 .. Len(s) + 1 /\ DOMAIN s = 1 .. Len(s)
      /\ \A i \in 1 .. Len(s) : t[i] = s[i]
      /\ t[Len(s) + 1] = x
  BY AppendProperties
<1> DEFINE m == Len(s)
<1> HIDE DEF m
<1>2. /\ m \in Nat /\ DOMAIN t = 1 .. m + 1 /\ DOMAIN s = 1 .. m /\ t[m + 1] = x
      /\ \A i \in 1 .. m : t[i] = s[i]
  BY <1>1 DEF m
<1>3. \A i : i \in 1 .. m + 1 <=> i \in 1 .. m \/ i = m + 1
  BY <1>2
<1>4. \A n : Queued(t, n) <=> Queued(s, n) \/ x[1] = n
  BY <1>2, <1>3 DEF Queued
<1>5. \A n, k : Due(s, n, k) => Due(t, n, k)
  BY <1>2, <1>3 DEF Due
<1> QED
  BY <1>1, <1>4, <1>5

LEMMA TaskTaken ==
    ASSUME NEW s \in Seq(Task), s # <<>>, NEW t, t = Tail(s)
    PROVE  /\ t \in Seq(Task) /\ Len(t) = Len(s) - 1 /\ Len(s) \in Nat \ {0} /\ Head(s) \in Task
           /\ \A n : Queued(s, n) <=> Queued(t, n) \/ Head(s)[1] = n
           /\ \A n : \A k \in Int : Due(s, n, k) /\ Head(s)[1] # n => Due(t, n, k - 1)
           /\ \A n : Queued(s, n) <=> Due(s, n, Len(s))
<1> DEFINE m == Len(s)
<1>1. /\ t \in Seq(Task) /\ m \in Nat \ {0} /\ Len(t) = m - 1 /\ Head(s) \in Task /\ Head(s) = s[1]
      /\ DOMAIN t = 1 .. m - 1 /\ DOMAIN s = 1 .. m
      /\ \A i \in 1 .. m - 1 : t[i] = s[i + 1]
  BY HeadTailProperties
<1> HIDE DEF m
<1>2. \A i : i \in 1 .. m - 1 => i + 1 \in 1 .. m /\ i + 1 # 1 /\ i \in Int
  BY <1>1
<1>3. \A i : i \in 1 .. m => i = 1 \/ (i - 1 \in 1 .. m - 1 /\ i = (i - 1) + 1)
  BY <1>1
<1>4. 1 \in 1 .. m
  BY <1>1
<1>5. \A i \in 1 .. m : i # 1 => t[i - 1] = s[i] /\ i - 1 \in 1 .. m - 1 /\ i \in Int
  BY <1>1, <1>3
<1>6. ASSUME NEW n PROVE Queued(s, n) <=> Queued(t, n) \/ Head(s)[1] = n
  <2>1. Queued(t, n) => Queued(s, n)
    BY <1>1, <1>2 DEF Queued
  <2>2. Queued(s, n) => Queued(t, n) \/ Head(s)[1] = n
    BY <1>1, <1>5 DEF Queued
  <2> QED
    BY <1>1, <1>4, <2>1, <2>2 DEF Queued
<1>7. ASSUME NEW n, NEW k \in Int, Due(s, n, k), Head(s)[1] # n PROVE Due(t, n, k - 1)
  <2>1. PICK i \in 1 .. m : s[i][1] = n /\ i <= k
    BY <1>1, <1>7 DEF Due
  <2>2. i # 1
    BY <1>1, <1>7, <2>1
  <2>3. t[i - 1] = s[i] /\ i - 1 \in 1 .. m - 1 /\ i \in Int
    BY <1>5, <2>2
  <2>4. i - 1 <= k - 1
    BY <2>1, <2>3
  <2> QED
    BY <1>1, <2>1, <2>3, <2>4 DEF Due
<1>8. ASSUME NEW n PROVE Queued(s, n) <=> Due(s, n, m)
  <2>1. \A i \in 1 .. m : i <= m
    BY <1>1
  <2> QED
    BY <1>1, <2>1 DEF Queued, Due
<1> QED
  BY <1>1, <1>6, <1>7, <1>8 DEF m

LEMMA TaskKinds ==
    /\ \A n \in Names : <<n>> \in Task /\ <<n>>[1] = n
    /\ \A m \in Sendable : <<"send", m>> \in Task /\ <<"send", m>>[1] = "send" /\ <<"send", m>>[2] = m
    /\ \A t \in Task : t[1] = "send" => t[2] \in Sendable
<1>1. \A n \in Names : <<n>> \in Task /\ <<n>>[1] = n /\ n # "send"
  BY DEF Task, Names
<1>2. \A m \in Sendable : <<"send", m>> \in Task /\ <<"send", m>>[1] = "send" /\ <<"send", m>>[2] = m
  BY DEF Task
<1>3. ASSUME NEW t \in Task, t[1] = "send" PROVE t[2] \in Sendable
  BY <1>1, <1>3 DEF Task
<1> QED
  BY <1>1, <1>2, <1>3

\* The units that the messages in acc are.
Stream(acc) ==
    [i \in 1 .. 2 * Len(acc) |-> Units(acc[(i + 1) \div 2])[IF i % 2 = 1 THEN 1 ELSE 2]]

LEMMA UnitsAre ==
    ASSUME NEW m \in Sendable
    PROVE  Units(m) \in Seq(Unit) /\ Len(Units(m)) = 2
<1>1. <<m, 1>> \in Unit /\ <<m, 2>> \in Unit
  BY DEF Unit
<1> DEFINE a == <<m, 1>>  b == <<m, 2>>
<1>2. a \in Unit /\ b \in Unit /\ Units(m) = <<a, b>>
  BY <1>1 DEF Units
<1> HIDE DEF a, b
<1>3. <<a, b>> \in Seq(Unit)
  BY <1>2
<1>4. Len(<<a, b>>) = 2
  OBVIOUS
<1> QED
  BY <1>2, <1>3, <1>4

\* Written in two parts, a sequence of units is what it was.
LEMMA InTwo ==
    ASSUME NEW q \in Seq(Unit), NEW k \in 0 .. Len(q)
    PROVE  /\ SubSeq(q, 1, k) \in Seq(Unit) /\ SubSeq(q, k + 1, Len(q)) \in Seq(Unit)
           /\ SubSeq(q, 1, k) \o SubSeq(q, k + 1, Len(q)) = q
           /\ SubSeq(q, k + 1, Len(q)) = <<>> <=> k = Len(q)
<1> DEFINE n == Len(q)
<1>1. n \in Nat /\ k \in Int /\ k + 1 \in Int /\ n \in Int /\ k <= n /\ k >= 0 /\ 1 \in Int
  OBVIOUS
<1>2. \A i \in 1 .. n : q[i] \in Unit
  OBVIOUS
<1>3. SubSeq(q, 1, n) = q
  BY SubSeqFull
<1> HIDE DEF n
<1>4. (\A i \in 1 .. k : q[i] \in Unit) /\ (\A i \in k + 1 .. n : q[i] \in Unit)
  BY <1>1, <1>2
<1>5. SubSeq(q, 1, k) \in Seq(Unit)
  BY <1>1, <1>4, SubSeqProperties
<1>6. /\ SubSeq(q, k + 1, n) \in Seq(Unit)
      /\ Len(SubSeq(q, k + 1, n)) = IF k + 1 <= n THEN n - (k + 1) + 1 ELSE 0
  BY <1>1, <1>4, SubSeqProperties
<1>7. SubSeq(q, 1, k) \o SubSeq(q, k + 1, n) = SubSeq(q, 1, n)
  <2>1. 1 \in 1 .. Len(q) + 1 /\ k \in 1 - 1 .. Len(q) /\ n \in k .. Len(q)
    BY <1>1 DEF n
  <2> QED
    BY <2>1, ConcatAdjacentSubSeq
<1>8. SubSeq(q, k + 1, n) = <<>> <=> k = n
  <2>1. CASE k = n
    BY <1>1, <2>1, SubSeqEmpty
  <2>2. CASE k # n
    <3>1. Len(SubSeq(q, k + 1, n)) # 0
      BY <1>1, <1>6, <2>2
    <3>2. Len(<<>>) = 0
      OBVIOUS
    <3> QED
      BY <2>2, <3>1, <3>2
  <2> QED
    BY <2>1, <2>2
<1> QED
  BY <1>3, <1>5, <1>6, <1>7, <1>8 DEF n

LEMMA StreamGrows ==
    ASSUME NEW acc \in Seq(Sendable), NEW m \in Sendable
    PROVE  Stream(Append(acc, m)) = Stream(acc) \o Units(m)
<1> DEFINE n == Len(acc)  x == Append(acc, m)
<1>1. n \in Nat /\ Len(x) = n + 1 /\ x[n + 1] = m /\ \A j \in 1 .. n : x[j] = acc[j]
  BY AppendProperties
<1> HIDE DEF n, x
<1> DEFINE at1(s, i) == Units(s[(i + 1) \div 2])[IF i % 2 = 1 THEN 1 ELSE 2]
<1>2. Stream(x) = [i \in 1 .. 2 * (n + 1) |-> at1(x, i)] /\ Stream(acc) = [i \in 1 .. 2 * n |-> at1(acc, i)]
  BY <1>1 DEF Stream, n
<1>3. \A i \in 1 .. 2 * n : (i + 1) \div 2 \in 1 .. n
  BY <1>1
<1>4. \A i \in 1 .. 2 * n : at1(x, i) = at1(acc, i)
  BY <1>1, <1>3
<1>5. at1(x, 2 * n + 1) = <<m, 1>> /\ at1(x, 2 * n + 2) = <<m, 2>>
  <2>1. ((2 * n + 1) + 1) \div 2 = n + 1 /\ (2 * n + 1) % 2 = 1
    BY <1>1
  <2>2. ((2 * n + 2) + 1) \div 2 = n + 1 /\ (2 * n + 2) % 2 = 0
    BY <1>1
  <2> QED
    BY <1>1, <2>1, <2>2 DEF Units
<1> HIDE DEF at1
<1> DEFINE k == 2 * n  p == Stream(acc)  q == Units(m)
<1>6. k \in Nat /\ 2 * (n + 1) = k + 2 /\ 2 * n + 1 = k + 1 /\ 2 * n + 2 = k + 2
  BY <1>1
<1>7. DOMAIN p = 1 .. k /\ q = <<<<m, 1>>, <<m, 2>>>> /\ Len(q) = 2 /\ q[1] = <<m, 1>> /\ q[2] = <<m, 2>>
  BY <1>2 DEF Units
<1>8. Len(p) = k
  BY <1>2, <1>6
<1>9. p \o q = [i \in 1 .. k + 2 |-> IF i <= k THEN p[i] ELSE q[i - k]]
  <2>1. p \in Seq({p[i] : i \in 1 .. k})
    <3>1. p \in [1 .. k -> {p[i] : i \in 1 .. k}]
      BY <1>2, <1>7
    <3> QED
      BY <1>6, <3>1
  <2>2. q \in Seq({<<m, 1>>, <<m, 2>>})
    BY <1>7
  <2> QED
    BY <1>7, <1>8 DEF p, q
<1> HIDE DEF k, p, q
<1>10. \A i \in 1 .. k + 2 : at1(x, i) = IF i <= k THEN p[i] ELSE q[i - k]
  <2> SUFFICES ASSUME NEW i \in 1 .. k + 2 PROVE at1(x, i) = IF i <= k THEN p[i] ELSE q[i - k]
    OBVIOUS
  <2>1. CASE i <= k
    BY <1>2, <1>4, <1>6, <2>1 DEF p, k
  <2>2. CASE i = k + 1
    BY <1>5, <1>6, <1>7, <2>2
  <2>3. CASE i = k + 2
    BY <1>5, <1>6, <1>7, <2>3
  <2> QED
    BY <1>6, <2>1, <2>2, <2>3
<1> QED
  BY <1>2, <1>6, <1>9, <1>10 DEF x, p, q

LEMMA Joining ==
    /\ \A p, q \in Seq(Unit) : p \o q \in Seq(Unit) /\ (p \o q = <<>> <=> p = <<>> /\ q = <<>>)
    /\ \A p, q, r \in Seq(Unit) : (p \o q) \o r = p \o (q \o r)
    /\ \A p \in Seq(Unit) : p \o <<>> = p
<1>1. \A p, q \in Seq(Unit) : p \o q \in Seq(Unit)
  BY ConcatProperties
<1>2. \A p, q \in Seq(Unit) : p \o q = <<>> <=> p = <<>> /\ q = <<>>
  BY ConcatEqualIffEmpty
<1>3. \A p, q, r \in Seq(Unit) : (p \o q) \o r = p \o (q \o r)
  BY ConcatAssociative
<1>4. \A p \in Seq(Unit) : p \o <<>> = p
  BY ConcatEmptySeq
<1> QED
  BY <1>1, <1>2, <1>3, <1>4

LEMMA Associates ==
    ASSUME NEW p \in Seq(Unit), NEW q \in Seq(Unit), NEW r \in Seq(Unit)
    PROVE  (p \o q) \o r = p \o (q \o r)
BY ConcatAssociative

\* What sendInLoop keeps of a message of which k units were written.
LEMMA Keeping ==
    ASSUME NEW m \in Sendable, NEW k \in 0 .. 2, NEW queue \in Seq(Task), Keep(m, k, queue),
           output \in Seq(Unit), "out" \in asks <=> output # <<>>, asks \subseteq {"in", "out"}
    PROVE  /\ output' = output \o SubSeq(Units(m), k + 1, 2) /\ output' \in Seq(Unit)
           /\ k = 0 \/ output = <<>> => ("out" \in asks' <=> output' # <<>>)
           /\ \/ asks' = asks /\ place' = place
              \/ asks' = asks \cup {"out"} /\ place' = "added"
           /\ tasks' = queue \/ \E n \in {"writeComplete", "highWater"} : tasks' = Append(queue, <<n>>)
<1> DEFINE rest == SubSeq(Units(m), k + 1, 2)
<1>1. /\ rest \in Seq(Unit) /\ (rest = <<>> <=> k = 2)
  <2> DEFINE u == Units(m)
  <2>1. u \in Seq(Unit) /\ Len(u) = 2
    BY UnitsAre
  <2> HIDE DEF u
  <2>2. SubSeq(u, k + 1, Len(u)) \in Seq(Unit) /\ (SubSeq(u, k + 1, Len(u)) = <<>> <=> k = Len(u))
    BY <2>1, InTwo
  <2> QED
    BY <2>1, <2>2 DEF u
<1> HIDE DEF rest
<1>2. output \o rest \in Seq(Unit) /\ output \o <<>> = output /\ (output \o rest = <<>> => rest = <<>>)
  BY <1>1, Joining
<1>3. CASE rest = <<>>
  <2>1. tasks' = Append(queue, <<"writeComplete">>) /\ output' = output /\ asks' = asks /\ place' = place
    BY <1>3 DEF Keep, channel, rest
  <2>2. output' = output \o rest /\ output' \in Seq(Unit)
    BY <1>2, <1>3, <2>1
  <2> QED
    BY <2>1, <2>2 DEF rest
<1>4. CASE rest # <<>>
  <2>1. /\ tasks' = Append(queue, <<"highWater">>) \/ tasks' = queue
        /\ output' = output \o rest
        /\ IF "out" \in asks THEN asks' = asks /\ place' = place
           ELSE asks' = asks \cup {"out"} /\ place' = "added"
    <3>1. asks \cup {"out"} # {}
      OBVIOUS
    <3> QED
      BY <1>4, <3>1 DEF Keep, channel, AppendOutput, Update, Writing, rest
  <2>2. output' # <<>> /\ "out" \in asks' /\ output' \in Seq(Unit)
    BY <1>2, <1>4, <2>1
  <2>3. tasks' = queue \/ \E n \in {"writeComplete", "highWater"} : tasks' = Append(queue, <<n>>)
    BY <2>1
  <2> QED
    BY <2>1, <2>2, <2>3 DEF rest
<1> QED
  BY <1>3, <1>4 DEF rest

LEMMA Sending ==
    ASSUME TcpTypes, ChannelRight, StreamIntact, FinIsLast, state # "Connecting",
           NEW m \in Sendable, NEW queue \in Seq(Task), SendInLoop(m, queue),
           state' = state, peer' = peer
    PROVE  /\ output' \in Seq(Unit) /\ wire' \in Seq(Unit) /\ accepted' \in Seq(Sendable) /\ fin' = fin
           /\ StreamIntact' /\ FinIsLast'
           /\ Risen => ("out" \in asks' <=> output' # <<>>)
           /\ \/ asks' = asks /\ place' = place
              \/ Risen /\ asks' = asks \cup {"out"} /\ place' = "added"
           /\ tasks' = queue \/ \E n \in {"writeComplete", "highWater"} : tasks' = Append(queue, <<n>>)
<1>1. /\ output \in Seq(Unit) /\ wire \in Seq(Unit) /\ accepted \in Seq(Sendable)
      /\ asks \subseteq {"in", "out"}
  BY DEF TcpTypes
<1>2. wire \o output = Stream(accepted)
  BY DEF StreamIntact, Stream
<1>3. CASE state = "Disconnected"
  <2>1. tasks' = queue /\ UNCHANGED <<output, wire, fin, accepted, asks, place>>
    BY <1>3 DEF SendInLoop, out, channel
  <2> QED
    BY <1>1, <1>3, <2>1 DEF StreamIntact, FinIsLast, Risen
<1>4. CASE state # "Disconnected"
  <2>1. Risen /\ ("out" \in asks <=> output # <<>>)
    BY <1>4 DEF Risen, ChannelRight, TcpTypes
  <2>2. Units(m) \in Seq(Unit) /\ Len(Units(m)) = 2
    BY UnitsAre
  <2>3. Append(accepted, m) \in Seq(Sendable) /\ Stream(Append(accepted, m)) = (wire \o output) \o Units(m)
    BY <1>1, <1>2, StreamGrows
  <2>4. CASE /\ WritesDirectly /\ ~ Broken
             /\ \E k \in 0 .. 2 : wire' = wire \o SubSeq(Units(m), 1, k) /\ Keep(m, k, queue)
             /\ accepted' = Append(accepted, m) /\ UNCHANGED <<fin, lost>>
    <3>1. PICK k \in 0 .. 2 : wire' = wire \o SubSeq(Units(m), 1, k) /\ Keep(m, k, queue)
      BY <2>4
    <3>2. output = <<>>
      BY <2>4 DEF WritesDirectly
    <3> DEFINE a == SubSeq(Units(m), 1, k)  b == SubSeq(Units(m), k + 1, 2)
    <3>3. a \in Seq(Unit) /\ b \in Seq(Unit) /\ a \o b = Units(m)
      BY <2>2, InTwo
    <3>4. /\ output' = output \o b /\ output' \in Seq(Unit)
          /\ "out" \in asks' <=> output' # <<>>
          /\ \/ asks' = asks /\ place' = place
             \/ asks' = asks \cup {"out"} /\ place' = "added"
          /\ tasks' = queue \/ \E n \in {"writeComplete", "highWater"} : tasks' = Append(queue, <<n>>)
      BY <1>1, <2>1, <3>1, <3>2, Keeping
    <3> HIDE DEF a, b
    <3>5. output' = b /\ wire \o output = wire
      BY <1>1, <3>2, <3>3, <3>4, ConcatEmptySeq
    <3>6. wire' = wire \o a
      BY <3>1 DEF a
    <3>7. wire' \in Seq(Unit) /\ wire' \o output' = wire \o (a \o b)
      <4>1. wire \o a \in Seq(Unit) /\ (wire \o a) \o b = wire \o (a \o b)
        <5> DEFINE w == wire
        <5>1. w \in Seq(Unit) /\ a \in Seq(Unit) /\ b \in Seq(Unit)
          BY <1>1, <3>3
        <5> HIDE DEF w
        <5>2. w \o a \in Seq(Unit)
          BY <5>1, Joining
        <5>3. (w \o a) \o b = w \o (a \o b)
          BY <5>1, Associates
        <5> QED
          BY <5>2, <5>3 DEF w
      <4> QED
        BY <3>5, <3>6, <4>1
    <3>8. wire' \o output' = Stream(accepted')
      BY <2>3, <2>4, <3>3, <3>5, <3>7
    <3>9. FinIsLast'
      BY <2>4 DEF FinIsLast, Broken
    <3> QED
      BY <1>1, <2>1, <2>3, <2>4, <3>4, <3>7, <3>8, <3>9 DEF StreamIntact, Stream
  <2>5. CASE /\ WritesDirectly /\ Broken /\ tasks' = queue /\ UNCHANGED <<output, wire, fin, accepted, channel>>
    BY <1>1, <2>1, <2>5 DEF StreamIntact, FinIsLast, channel
  <2>6. CASE /\ ~ WritesDirectly /\ Keep(m, 0, queue)
             /\ accepted' = Append(accepted, m) /\ UNCHANGED <<wire, fin, lost>>
    <3>1. SubSeq(Units(m), 1, 2) = Units(m)
      BY <2>2, SubSeqFull
    <3>2. /\ output' = output \o SubSeq(Units(m), 0 + 1, 2) /\ output' \in Seq(Unit)
          /\ "out" \in asks' <=> output' # <<>>
          /\ \/ asks' = asks /\ place' = place
             \/ asks' = asks \cup {"out"} /\ place' = "added"
          /\ tasks' = queue \/ \E n \in {"writeComplete", "highWater"} : tasks' = Append(queue, <<n>>)
      <4>1. 0 \in 0 .. 2
        OBVIOUS
      <4> QED
        BY <1>1, <2>1, <2>6, <4>1, Keeping
    <3>3. output' = output \o Units(m)
      <4>1. 0 + 1 = 1
        OBVIOUS
      <4> QED
        BY <3>1, <3>2, <4>1
    <3>4. wire' \o output' = (wire \o output) \o Units(m)
      <4>1. wire' = wire
        BY <2>6
      <4>2. (wire \o output) \o Units(m) = wire \o (output \o Units(m))
        BY <1>1, <2>2, Associates
      <4> QED
        BY <3>3, <4>1, <4>2
    <3>5. ~ (fin /\ peer # "reset")
      BY <1>4, <2>1, <2>6 DEF FinIsLast, WritesDirectly
    <3> QED
      BY <1>1, <2>1, <2>3, <2>6, <3>2, <3>4, <3>5 DEF StreamIntact, Stream, FinIsLast
  <2> QED
    BY <1>4, <2>4, <2>5, <2>6 DEF SendInLoop
<1> QED
  BY <1>3, <1>4
-----------------------------------------------------------------------------
\* What the functors that wait become when the first of them is taken.
LEMMA Shifted ==
    ASSUME TasksRight, NEW n, Takes(n)
    PROVE  /\ Tail(tasks) \in Seq(Task) /\ round' \in 0 .. Len(Tail(tasks)) /\ at' = "run" /\ at = "run"
           /\ Queued(tasks, n) /\ Head(tasks) \in Task
           /\ \A l : Queued(Tail(tasks), l) => Queued(tasks, l)
           /\ n # "connectEstablished" => state # "Connecting"
           /\ use.ends /\ state = "Disconnected" /\ place = "added" /\ n # "connectDestroyed" =>
                 /\ Due(Tail(tasks), "connectDestroyed", round')
                 /\ Queued(Tail(tasks), "connectDestroyed")
<1>1. /\ tasks \in Seq(Task) /\ round \in 0 .. Len(tasks) /\ round > 0 /\ round' = round - 1
      /\ at = "run" /\ at' = "run" /\ Head(tasks)[1] = n
  BY DEF TasksRight, Takes
<1>2. tasks # <<>>
  BY <1>1
<1>3. /\ Tail(tasks) \in Seq(Task) /\ Len(Tail(tasks)) = Len(tasks) - 1 /\ Len(tasks) \in Nat \ {0}
      /\ Head(tasks) \in Task
      /\ \A l : Queued(tasks, l) <=> Queued(Tail(tasks), l) \/ Head(tasks)[1] = l
      /\ \A l : \A k \in Int : Due(tasks, l, k) /\ Head(tasks)[1] # l => Due(Tail(tasks), l, k - 1)
  <2> DEFINE t == Tail(tasks)
  <2> HIDE DEF t
  <2>1. /\ t \in Seq(Task) /\ Len(t) = Len(tasks) - 1 /\ Len(tasks) \in Nat \ {0} /\ Head(tasks) \in Task
        /\ \A l : Queued(tasks, l) <=> Queued(t, l) \/ Head(tasks)[1] = l
        /\ \A l : \A k \in Int : Due(tasks, l, k) /\ Head(tasks)[1] # l => Due(t, l, k - 1)
    BY <1>1, <1>2, TaskTaken DEF t
  <2> QED
    BY <2>1 DEF t
<1> DEFINE t == Tail(tasks)
<1> HIDE DEF t
<1>4. round' \in 0 .. Len(t) /\ round \in Int
  BY <1>1, <1>3 DEF t
<1>5. n # "connectEstablished" => state # "Connecting"
  BY <1>1 DEF TasksRight
<1>6. ASSUME use.ends, state = "Disconnected", place = "added", n # "connectDestroyed"
      PROVE  Due(t, "connectDestroyed", round') /\ Queued(t, "connectDestroyed")
  <2>1. Due(tasks, "connectDestroyed", round) /\ Queued(tasks, "connectDestroyed")
    BY <1>1, <1>6 DEF TasksRight
  <2> QED
    BY <1>1, <1>3, <1>4, <1>6, <2>1 DEF t
<1> QED
  BY <1>1, <1>3, <1>4, <1>5, <1>6 DEF t

\* A functor that is queued while the connection is up or down.
LEMMA TaskWaits ==
    ASSUME TasksRight, NEW x \in Task, tasks' = Append(tasks, x),
           x[1] # "connectEstablished", x[1] = "connectDestroyed" => state' = "Disconnected",
           state # "Connecting", state' # "Connecting", state = "Disconnected" => state' = "Disconnected",
           round' = round, at' = at, use' = use,
           state' = "Disconnected" => \/ state = "Disconnected" /\ place' = place
                                      \/ use.ends /\ place' = "added" => at = "events" /\ x[1] = "connectDestroyed"
    PROVE  /\ TasksRight'
           /\ Queued(tasks, "forceClose")' <=> Queued(tasks, "forceClose") \/ x[1] = "forceClose"
<1> DEFINE t == tasks'
<1>1. tasks \in Seq(Task) /\ round \in 0 .. Len(tasks) /\ t = Append(tasks, x)
  BY DEF TasksRight
<1> HIDE DEF t
<1>2. /\ t \in Seq(Task) /\ Len(t) = Len(tasks) + 1 /\ Len(tasks) \in Nat
      /\ \A n : Queued(t, n) <=> Queued(tasks, n) \/ x[1] = n
      /\ \A n, k : Due(tasks, n, k) => Due(t, n, k)
  BY <1>1, TaskAdded
<1>3. round' \in 0 .. Len(t)
  BY <1>1, <1>2
<1>4. Queued(t, "connectEstablished") => state' = "Connecting"
  BY <1>2 DEF TasksRight
<1>5. Queued(t, "connectDestroyed") => state' = "Disconnected"
  BY <1>2 DEF TasksRight
<1>6. use'.ends /\ state' = "Disconnected" /\ place' = "added" =>
          /\ at' # "poll" /\ Queued(t, "connectDestroyed")
          /\ at' = "run" => Due(t, "connectDestroyed", round')
  BY <1>2 DEF TasksRight
<1>7. TasksRight'
  BY <1>2, <1>3, <1>4, <1>5, <1>6 DEF TasksRight, t
<1> QED
  BY <1>2, <1>7 DEF t
-----------------------------------------------------------------------------
LEMMA PollKeeps == TcpInv /\ TcpPoll => TcpInv'
<1> SUFFICES ASSUME TcpInv, TcpPoll PROVE TcpInv'
  OBVIOUS
<1>1. /\ at = "poll" /\ at' = "events"
      /\ ready' = IF "in" \in Reported THEN Reported \ {"hup"} ELSE Reported
      /\ UNCHANGED <<state, reading, asks, place, output, tasks, round, busy, holds, wire, fin, inbox,
                     peer, accepted, got, sent, forced, downs, use>>
  BY DEF TcpPoll, in, out, channel, threads, remote
<1>2. Reported \subseteq {"in", "out", "hup"}
  BY DEF Reported
<1>3. TcpTypes'
  BY <1>1, <1>2 DEF TcpInv, TcpTypes
<1>4. state = "Connecting" => Reported = {}
  BY DEF Reported, TcpInv, ChannelRight
<1>5. ChannelRight'
  BY <1>1, <1>4 DEF TcpInv, ChannelRight, Risen
<1>6. TasksRight'
  BY <1>1 DEF TcpInv, TasksRight
<1>7. "in" \in Reported => (inbox > 0 \/ peer # "open") /\ state # "Disconnected"
  BY DEF Reported, Readable, TcpInv, ChannelRight
<1>8. ASSUME "hup" \in Reported, "in" \notin Reported PROVE peer = "reset" /\ state # "Disconnected"
  <2>1. place = "added" /\ Hup /\ peer # "open" /\ "in" \notin asks
    BY <1>8 DEF Reported, Readable, Hup
  <2>2. state # "Disconnected"
    BY <1>1, <2>1 DEF TcpInv, TasksRight, ReadyRight
  <2>3. CASE peer = "fin" /\ fin
    <3>1. Risen /\ asks # {} /\ asks \subseteq {"in", "out"}
      BY <1>4, <1>8, <2>1, <2>2 DEF TcpInv, ChannelRight, TcpTypes, Risen
    <3>2. "out" \in asks
      BY <2>1, <3>1
    <3> QED
      BY <2>2, <2>3, <3>1, <3>2 DEF TcpInv, ChannelRight, FinIsLast
  <2> QED
    BY <2>1, <2>2, <2>3 DEF Hup
<1>9. ReadyRight'
  BY <1>1, <1>7, <1>8 DEF TcpInv, ReadyRight
<1>10. ForcedRight' /\ EndRight' /\ StreamIntact' /\ FinIsLast'
  BY <1>1 DEF TcpInv, ForcedRight, EndRight, StreamIntact, FinIsLast, Risen
<1> QED
  BY <1>3, <1>5, <1>6, <1>9, <1>10 DEF TcpInv

\* A connection that is closed: what Close leaves to prove.
LEMMA Closing ==
    ASSUME TcpInv, Close(tasks), at = "events", at' = at, round' = round, use' = use, forced' = forced,
           state \in {"Connected", "Disconnecting"}, \A s \in Sender : busy[s] # "forceClose", busy' = busy,
           fin' = fin, output' = output, wire' = wire, accepted' = accepted, peer' = peer
    PROVE  /\ ChannelRight' /\ TasksRight' /\ ForcedRight' /\ FinIsLast' /\ StreamIntact'
           /\ state' = "Disconnected" /\ downs' = 1 /\ place' \in {"new", "added", "deleted"} /\ asks' = {}
<1>1. /\ state' = "Disconnected" /\ asks' = {} /\ downs' = downs + 1
      /\ place' \in {"new", "added", "deleted"}
      /\ tasks' = Append(tasks, <<"connectDestroyed">>)
  BY DEF Close, Update
<1>2. <<"connectDestroyed">> \in Task /\ <<"connectDestroyed">>[1] = "connectDestroyed"
  BY TaskKinds DEF Names
<1>3. TasksRight
  BY DEF TcpInv
<1>4. /\ TasksRight'
      /\ Queued(tasks, "forceClose")' <=> Queued(tasks, "forceClose")
  <2> DEFINE x == <<"connectDestroyed">>
  <2>1. /\ x \in Task /\ x[1] = "connectDestroyed" /\ tasks' = Append(tasks, x)
        /\ state # "Connecting" /\ state' # "Connecting" /\ state # "Disconnected"
    BY <1>1, <1>2
  <2> HIDE DEF x
  <2>2. x[1] # "connectEstablished" /\ x[1] # "forceClose"
    BY <2>1
  <2> QED
    BY <1>1, <1>3, <2>1, <2>2, TaskWaits
<1>5. ChannelRight'
  BY <1>1 DEF ChannelRight, Risen
<1>6. ForcedRight'
  BY <1>1, <1>4 DEF TcpInv, ForcedRight
<1>7. FinIsLast' /\ StreamIntact'
  BY <1>1 DEF TcpInv, FinIsLast, StreamIntact
<1>8. downs = 0
  BY DEF TcpInv, EndRight
<1> QED
  BY <1>1, <1>4, <1>5, <1>6, <1>7, <1>8

LEMMA HupKeeps == TcpInv /\ HandleHup => TcpInv'
<1> SUFFICES ASSUME TcpInv, HandleHup PROVE TcpInv'
  OBVIOUS
<1>1. /\ at = "events" /\ "hup" \in ready /\ ready' = ready \ {"hup"} /\ Close(tasks)
      /\ UNCHANGED <<reading, output, round, at, busy, holds, wire, fin, inbox, peer, accepted, got, sent, forced, use>>
  BY DEF HandleHup, in, out, threads, remote
<1>2. peer = "reset" /\ use.ends /\ "in" \notin ready /\ state \in {"Connected", "Disconnecting"}
  BY <1>1 DEF TcpInv, ReadyRight, ChannelRight, TcpTypes
<1>3. \A s \in Sender : busy[s] # "forceClose"
  BY <1>2 DEF TcpInv, ForcedRight
<1>4. /\ ChannelRight' /\ TasksRight' /\ ForcedRight' /\ FinIsLast' /\ StreamIntact'
      /\ state' = "Disconnected" /\ downs' = 1 /\ place' \in {"new", "added", "deleted"} /\ asks' = {}
  BY <1>1, <1>2, <1>3, Closing
<1>5. TcpTypes' /\ ReadyRight' /\ EndRight'
  <2>1. TcpTypes'
    BY <1>1, <1>2, <1>4 DEF TcpInv, TcpTypes
  <2> QED
    BY <1>1, <1>2, <1>4, <2>1 DEF TcpInv, ReadyRight, EndRight
<1> QED
  BY <1>4, <1>5 DEF TcpInv

LEMMA ReadKeeps == TcpInv /\ HandleRead => TcpInv'
<1> SUFFICES ASSUME TcpInv, HandleRead PROVE TcpInv'
  OBVIOUS
<1>1. /\ at = "events" /\ "in" \in ready /\ ready' = ready \ {"in"}
      /\ UNCHANGED <<reading, output, round, at, busy, holds, wire, fin, peer, accepted, sent, forced, use>>
  BY DEF HandleRead, out, threads, remote
<1>2. "hup" \notin ready /\ state # "Connecting" /\ (inbox > 0 \/ peer # "open")
  BY <1>1 DEF TcpInv, ReadyRight, ChannelRight
<1>3. inbox \in Nat /\ got \in Nat /\ sent \in Nat /\ got + inbox = sent
  BY DEF TcpInv, TcpTypes
<1>4. CASE ~ AtEnd /\ got' = got + inbox /\ inbox' = 0 /\ UNCHANGED <<state, channel, downs, tasks>>
  <2>1. inbox' \in Nat /\ got' \in Nat /\ got' + inbox' = sent /\ got # sent
    BY <1>3, <1>4 DEF AtEnd
  <2>2. TcpTypes'
    BY <1>1, <1>4, <2>1 DEF TcpInv, TcpTypes, channel
  <2>3. ChannelRight' /\ TasksRight' /\ ForcedRight' /\ FinIsLast' /\ StreamIntact'
    BY <1>1, <1>2, <1>4 DEF TcpInv, ChannelRight, TasksRight, ForcedRight, FinIsLast, StreamIntact, Risen, channel
  <2>4. ReadyRight' /\ EndRight'
    BY <1>1, <1>2, <1>4, <2>1 DEF TcpInv, ReadyRight, EndRight, channel
  <2> QED
    BY <2>2, <2>3, <2>4 DEF TcpInv
<1>5. CASE AtEnd /\ Close(tasks) /\ UNCHANGED <<inbox, got>>
  <2>1. peer # "open" /\ use.ends /\ state \in {"Connected", "Disconnecting"}
    BY <1>1, <1>2, <1>3, <1>5 DEF TcpInv, ReadyRight, TcpTypes, AtEnd
  <2>2. \A s \in Sender : busy[s] # "forceClose"
    BY <2>1 DEF TcpInv, ForcedRight
  <2>3. /\ ChannelRight' /\ TasksRight' /\ ForcedRight' /\ FinIsLast' /\ StreamIntact'
        /\ state' = "Disconnected" /\ downs' = 1 /\ place' \in {"new", "added", "deleted"} /\ asks' = {}
    BY <1>1, <1>5, <2>1, <2>2, Closing
  <2>4. TcpTypes' /\ ReadyRight'
    BY <1>1, <1>2, <1>5, <2>3 DEF TcpInv, TcpTypes, ReadyRight
  <2>5. peer # "reset" => got = sent /\ peer = "fin"
    BY <1>3, <1>5, <2>1 DEF TcpInv, TcpTypes, AtEnd
  <2>6. EndRight'
    BY <1>1, <1>5, <2>3, <2>5 DEF EndRight
  <2> QED
    BY <2>3, <2>4, <2>6 DEF TcpInv
<1> QED
  BY <1>4, <1>5 DEF HandleRead

LEMMA WriteKeeps == TcpInv /\ HandleWrite => TcpInv'
<1> SUFFICES ASSUME TcpInv, HandleWrite PROVE TcpInv'
  OBVIOUS
<1>1. /\ at = "events" /\ "out" \in ready /\ ready \cap {"in", "hup"} = {} /\ ready' = ready \ {"out"}
      /\ UNCHANGED <<state, reading, round, at, busy, holds, inbox, peer, accepted, got, sent, forced, downs, use>>
  BY DEF HandleWrite, in, threads, remote
<1>2. state # "Connecting" /\ ready' = {}
  BY <1>1 DEF TcpInv, ChannelRight, TcpTypes
<1>3. CASE UNCHANGED <<wire, output, channel, fin, tasks>>
  <2>1. TcpTypes'
    BY <1>1, <1>2, <1>3 DEF TcpInv, TcpTypes, channel
  <2> QED
    BY <1>1, <1>2, <1>3, <2>1 DEF TcpInv, ChannelRight, TasksRight, ReadyRight, ForcedRight, EndRight,
       FinIsLast, StreamIntact, Risen, channel
<1>4. CASE /\ "out" \in asks /\ ~ Broken
           /\ \E k \in 1 .. Len(output) :
                /\ wire' = wire \o SubSeq(output, 1, k)
                /\ output' = SubSeq(output, k + 1, Len(output))
                /\ IF k = Len(output)
                   THEN /\ Update(asks \ Finished) /\ Drained
                        /\ tasks' = Append(tasks, <<"writeComplete">>)
                   ELSE UNCHANGED <<channel, fin, tasks>>
  <2>1. /\ state \in {"Connected", "Disconnecting"} /\ place = "added"
        /\ output \in Seq(Unit) /\ wire \in Seq(Unit) /\ TasksRight
        /\ asks \subseteq {"in", "out"} /\ ("stop" \notin use.loop => reading) /\ (reading <=> "in" \in asks)
    <3>1. state \in {"Connected", "Disconnecting"}
      BY <1>2, <1>4 DEF TcpInv, TcpTypes, ChannelRight
    <3> QED
      BY <1>4, <3>1 DEF TcpInv, TcpTypes, ChannelRight, Risen
  <2>2. PICK k \in 1 .. Len(output) :
                /\ wire' = wire \o SubSeq(output, 1, k)
                /\ output' = SubSeq(output, k + 1, Len(output))
                /\ IF k = Len(output)
                   THEN /\ Update(asks \ Finished) /\ Drained
                        /\ tasks' = Append(tasks, <<"writeComplete">>)
                   ELSE UNCHANGED <<channel, fin, tasks>>
    BY <1>4
  <2> DEFINE a == SubSeq(output, 1, k)  b == SubSeq(output, k + 1, Len(output))
  <2>3. a \in Seq(Unit) /\ b \in Seq(Unit) /\ a \o b = output /\ (b = <<>> <=> k = Len(output))
    <3> DEFINE q == output
    <3>1. q \in Seq(Unit) /\ k \in 0 .. Len(q)
      BY <2>1
    <3> HIDE DEF q
    <3>2. /\ SubSeq(q, 1, k) \in Seq(Unit) /\ SubSeq(q, k + 1, Len(q)) \in Seq(Unit)
          /\ SubSeq(q, 1, k) \o SubSeq(q, k + 1, Len(q)) = q
          /\ SubSeq(q, k + 1, Len(q)) = <<>> <=> k = Len(q)
      BY <3>1, InTwo
    <3> QED
      BY <3>2 DEF q
  <2> HIDE DEF a, b
  <2>4. wire' = wire \o a /\ output' = b
    BY <2>2 DEF a, b
  <2>5. wire' \in Seq(Unit) /\ wire' \o output' = wire \o output
    <3> DEFINE w == wire
    <3>1. w \in Seq(Unit) /\ a \in Seq(Unit) /\ b \in Seq(Unit)
      BY <2>1, <2>3
    <3> HIDE DEF w
    <3>2. w \o a \in Seq(Unit)
      BY <3>1, Joining
    <3>3. (w \o a) \o b = w \o (a \o b)
      BY <3>1, Associates
    <3> QED
      BY <2>3, <2>4, <3>2, <3>3 DEF w
  <2>6. StreamIntact'
    BY <1>1, <2>5 DEF TcpInv, StreamIntact
  <2>7. CASE k = Len(output)
    <3>1. /\ asks' = asks \ {"out"} /\ output' = <<>> /\ fin' \in BOOLEAN
          /\ place' = IF asks' = {} THEN "deleted" ELSE "added"
          /\ tasks' = Append(tasks, <<"writeComplete">>)
      BY <1>1, <2>1, <2>2, <2>3, <2>4, <2>7 DEF Update, Finished, Drained, FinAfter, TcpInv, TcpTypes
    <3>2. /\ TasksRight'
          /\ Queued(tasks, "forceClose")' <=> Queued(tasks, "forceClose")
      <4> DEFINE x == <<"writeComplete">>
      <4>1. x \in Task /\ x[1] = "writeComplete" /\ tasks' = Append(tasks, x)
        BY <3>1, TaskKinds DEF Names
      <4> HIDE DEF x
      <4>2. /\ x[1] # "connectEstablished" /\ x[1] # "forceClose" /\ x[1] # "connectDestroyed"
            /\ state # "Connecting" /\ state' # "Connecting" /\ state # "Disconnected" /\ state' # "Disconnected"
        BY <1>1, <2>1, <4>1
      <4> QED
        BY <1>1, <2>1, <4>1, <4>2, TaskWaits
    <3>3. TcpTypes'
      BY <1>1, <2>3, <2>4, <2>5, <3>1 DEF TcpInv, TcpTypes
    <3>4. ChannelRight' /\ FinIsLast'
      BY <1>1, <2>1, <3>1 DEF ChannelRight, FinIsLast, Risen
    <3>5. ReadyRight' /\ EndRight' /\ ForcedRight'
      BY <1>1, <1>2, <2>1, <3>2 DEF TcpInv, ReadyRight, EndRight, ForcedRight, Risen
    <3> QED
      BY <2>6, <3>2, <3>3, <3>4, <3>5 DEF TcpInv
  <2>8. CASE k # Len(output)
    <3>1. UNCHANGED <<asks, place, fin, tasks>> /\ output' # <<>>
      BY <2>2, <2>3, <2>4, <2>8 DEF channel
    <3>2. output # <<>>
      BY <1>4, <2>1 DEF TcpInv, ChannelRight, Risen
    <3>3. TcpTypes'
      BY <1>1, <2>3, <2>4, <2>5, <3>1 DEF TcpInv, TcpTypes
    <3>4. ChannelRight' /\ FinIsLast' /\ TasksRight' /\ ReadyRight' /\ EndRight' /\ ForcedRight'
      BY <1>1, <1>2, <2>1, <3>1, <3>2
         DEF TcpInv, ChannelRight, FinIsLast, TasksRight, ReadyRight, EndRight, ForcedRight, Risen
    <3> QED
      BY <2>6, <3>3, <3>4 DEF TcpInv
  <2> QED
    BY <2>7, <2>8
<1> QED
  BY <1>3, <1>4 DEF HandleWrite

LEMMA TakeKeeps == TcpInv /\ TakeFunctors => TcpInv'
<1> SUFFICES ASSUME TcpInv, TakeFunctors PROVE TcpInv'
  OBVIOUS
<1>1. /\ at = "events" /\ at' = "run" /\ ready = {} /\ round' = Len(tasks)
      /\ UNCHANGED <<state, reading, asks, place, output, tasks, ready, busy, holds, wire, fin, inbox,
                     peer, accepted, got, sent, forced, downs, use>>
  BY DEF TakeFunctors, in, out, channel, threads, remote
<1>2. TcpTypes'
  BY <1>1 DEF TcpInv, TcpTypes
<1>3. tasks \in Seq(Task) /\ round' \in 0 .. Len(tasks)
  BY <1>1 DEF TcpInv, TasksRight
<1>4. Queued(tasks, "connectDestroyed") => Due(tasks, "connectDestroyed", round')
  <2>1. \A i \in DOMAIN tasks : i <= round'
    BY <1>1, <1>3
  <2> QED
    BY <2>1 DEF Queued, Due
<1>5. TasksRight'
  BY <1>1, <1>3, <1>4 DEF TcpInv, TasksRight
<1>6. ChannelRight' /\ FinIsLast' /\ StreamIntact' /\ ReadyRight' /\ EndRight' /\ ForcedRight'
  BY <1>1 DEF TcpInv, ChannelRight, FinIsLast, StreamIntact, ReadyRight, EndRight, ForcedRight, Risen
<1> QED
  BY <1>2, <1>5, <1>6 DEF TcpInv

LEMMA EndKeeps == TcpInv /\ EndFunctors => TcpInv'
<1> SUFFICES ASSUME TcpInv, EndFunctors PROVE TcpInv'
  OBVIOUS
<1>1. /\ at = "run" /\ at' = "poll" /\ round = 0
      /\ UNCHANGED <<state, reading, asks, place, output, tasks, round, ready, busy, holds, wire, fin, inbox,
                     peer, accepted, got, sent, forced, downs, use>>
  BY DEF EndFunctors, in, out, channel, threads, remote
<1>2. TcpTypes'
  BY <1>1 DEF TcpInv, TcpTypes
<1>3. ~ Due(tasks, "connectDestroyed", round)
  <2>1. \A i \in DOMAIN tasks : ~ (i <= 0)
    BY DEF TcpInv, TasksRight
  <2> QED
    BY <1>1, <2>1 DEF Due
<1>4. TasksRight'
  BY <1>1, <1>3 DEF TcpInv, TasksRight
<1>5. ChannelRight' /\ FinIsLast' /\ StreamIntact' /\ ReadyRight' /\ EndRight' /\ ForcedRight'
  BY <1>1 DEF TcpInv, ChannelRight, FinIsLast, StreamIntact, ReadyRight, EndRight, ForcedRight, Risen
<1> QED
  BY <1>2, <1>4, <1>5 DEF TcpInv

LEMMA EstablishKeeps == TcpInv /\ ConnectEstablished => TcpInv'
<1> SUFFICES ASSUME TcpInv, ConnectEstablished PROVE TcpInv'
  OBVIOUS
<1>1. /\ Takes("connectEstablished") /\ state' = "Connected" /\ Update({"in"}) /\ tasks' = Tail(tasks)
      /\ UNCHANGED <<reading, output, at, ready, busy, holds, wire, fin, inbox,
                     peer, accepted, got, sent, forced, downs, use>>
  BY DEF ConnectEstablished, Takes, in, out, threads, remote
<1>2. TasksRight
  BY DEF TcpInv
<1>3. Queued(tasks, "connectEstablished") /\ at = "run" /\ round' \in 0 .. Len(Tail(tasks))
  BY <1>1, <1>2, Shifted
<1>4. state = "Connecting" /\ tasks = <<<<"connectEstablished">>>> /\ \A s \in Sender : busy[s] = "none"
  BY <1>2, <1>3 DEF TasksRight
<1>5. tasks' = <<>> /\ round' \in 0 .. Len(tasks')
  <2> DEFINE x == <<"connectEstablished">>
  <2> HIDE DEF x
  <2>1. tasks = <<x>>
    BY <1>4 DEF x
  <2>2. Tail(<<x>>) = <<>>
    OBVIOUS
  <2> QED
    BY <1>1, <1>3, <2>1, <2>2
<1>6. \A n : ~ Queued(tasks, n)'
  BY <1>5 DEF Queued
<1>7. /\ asks = {} /\ place = "new" /\ reading /\ output = <<>> /\ ready = {}
  BY <1>4 DEF TcpInv, ChannelRight
<1>8. asks' = {"in"} /\ place' = "added"
  BY <1>1, <1>7 DEF Update
<1>9. TcpTypes' /\ ChannelRight'
  BY <1>1, <1>7, <1>8 DEF TcpInv, TcpTypes, ChannelRight, Risen
<1>10. TasksRight'
  <2>1. tasks' \in Seq(Task)
    BY <1>5
  <2>2. state' = "Connected" /\ tasks' \in Seq(Task) /\ round' \in 0 .. Len(tasks')
    BY <1>1, <1>5, <2>1
  <2> QED
    BY <1>6, <2>2 DEF TasksRight
<1>11. FinIsLast' /\ StreamIntact' /\ ReadyRight' /\ EndRight'
  BY <1>1, <1>4, <1>7 DEF TcpInv, FinIsLast, StreamIntact, ReadyRight, EndRight
<1>12. ForcedRight'
  BY <1>1, <1>4, <1>6 DEF TcpInv, ForcedRight
<1> QED
  BY <1>9, <1>10, <1>11, <1>12 DEF TcpInv
-----------------------------------------------------------------------------
\* sendInLoop, called while queue is what waits.
LEMMA SendKeeps ==
    ASSUME TcpInv, state # "Connecting", at \in {"events", "run"},
           NEW m \in Sendable, NEW queue \in Seq(Task), SendInLoop(m, queue),
           round' \in 0 .. Len(queue), \A l : Queued(queue, l) => Queued(tasks, l),
           use.ends /\ state = "Disconnected" /\ place = "added" =>
               /\ Queued(queue, "connectDestroyed")
               /\ at = "run" => Due(queue, "connectDestroyed", round'),
           UNCHANGED <<state, reading, at, ready, busy, holds, inbox, peer, got, sent, forced, downs, use>>
    PROVE  TcpInv'
<1>1. TcpTypes /\ ChannelRight /\ StreamIntact /\ FinIsLast /\ state' = state /\ peer' = peer
  BY DEF TcpInv
<1>2. /\ output' \in Seq(Unit) /\ wire' \in Seq(Unit) /\ accepted' \in Seq(Sendable) /\ fin' = fin
      /\ StreamIntact' /\ FinIsLast'
      /\ Risen => ("out" \in asks' <=> output' # <<>>)
      /\ \/ asks' = asks /\ place' = place
         \/ Risen /\ asks' = asks \cup {"out"} /\ place' = "added"
      /\ tasks' = queue \/ \E n \in {"writeComplete", "highWater"} : tasks' = Append(queue, <<n>>)
  BY <1>1, Sending
<1>3. TcpTypes'
  BY <1>1, <1>2 DEF TcpTypes
<1>4. ChannelRight'
  BY <1>1, <1>2 DEF ChannelRight, Risen
<1>5. /\ tasks' \in Seq(Task) /\ round' \in 0 .. Len(tasks')
      /\ \A l : Queued(tasks', l) => Queued(queue, l) \/ l \in {"writeComplete", "highWater"}
      /\ \A l : Queued(queue, l) => Queued(tasks', l)
      /\ \A l, k : Due(queue, l, k) => Due(tasks', l, k)
  <2> DEFINE t == tasks'
  <2> HIDE DEF t
  <2>1. CASE t = queue
    BY <2>1 DEF t
  <2>2. CASE \E n \in {"writeComplete", "highWater"} : t = Append(queue, <<n>>)
    <3>1. PICK n \in {"writeComplete", "highWater"} : t = Append(queue, <<n>>)
      BY <2>2
    <3> DEFINE x == <<n>>
    <3>2. x \in Task /\ x[1] = n /\ t = Append(queue, x)
      BY <3>1, TaskKinds DEF Names
    <3> HIDE DEF x
    <3>3. /\ t \in Seq(Task) /\ Len(t) = Len(queue) + 1 /\ Len(queue) \in Nat
          /\ \A l : Queued(t, l) <=> Queued(queue, l) \/ x[1] = l
          /\ \A l, k : Due(queue, l, k) => Due(t, l, k)
      BY <3>2, TaskAdded
    <3>4. round' \in 0 .. Len(t)
      BY <3>3
    <3> QED
      BY <3>2, <3>3, <3>4 DEF t
  <2> QED
    BY <1>2, <2>1, <2>2 DEF t
<1>6. TasksRight'
  <2>1. /\ Queued(tasks', "connectEstablished") => state = "Connecting"
        /\ Queued(tasks', "connectDestroyed") => state = "Disconnected"
    BY <1>5 DEF TcpInv, TasksRight
  <2>2. ASSUME use.ends, state = "Disconnected", place' = "added"
        PROVE  Queued(tasks', "connectDestroyed") /\ (at = "run" => Due(tasks', "connectDestroyed", round'))
    <3>1. place = "added"
      BY <1>2, <2>2 DEF Risen
    <3> QED
      BY <1>5, <2>2, <3>1
  <2> QED
    BY <1>5, <2>1, <2>2 DEF TasksRight
<1>7. ReadyRight' /\ EndRight'
  BY <1>2 DEF TcpInv, ReadyRight, EndRight
<1>8. ForcedRight'
  BY <1>2, <1>5 DEF TcpInv, ForcedRight, Risen
<1> QED
  BY <1>2, <1>3, <1>4, <1>6, <1>7, <1>8 DEF TcpInv

LEMMA RunSendKeeps == TcpInv /\ RunSend => TcpInv'
<1> SUFFICES ASSUME TcpInv, RunSend PROVE TcpInv'
  OBVIOUS
<1>1. /\ Takes("send") /\ SendInLoop(Head(tasks)[2], Tail(tasks)) /\ TasksRight
      /\ UNCHANGED <<state, reading, at, ready, busy, holds, inbox, peer, got, sent, forced, downs, use>>
  BY DEF RunSend, Takes, in, threads, remote, TcpInv
<1> DEFINE queue == Tail(tasks)  m == Head(tasks)[2]
<1>2. /\ queue \in Seq(Task) /\ round' \in 0 .. Len(queue) /\ at = "run" /\ Head(tasks) \in Task
      /\ \A l : Queued(queue, l) => Queued(tasks, l)
      /\ state # "Connecting"
      /\ use.ends /\ state = "Disconnected" /\ place = "added" =>
            Due(queue, "connectDestroyed", round') /\ Queued(queue, "connectDestroyed")
  <2>1. "send" # "connectDestroyed" /\ "send" # "connectEstablished"
    OBVIOUS
  <2> QED
    BY <1>1, <2>1, Shifted
<1>3. m \in Sendable
  BY <1>1, <1>2, TaskKinds DEF Takes
<1> HIDE DEF queue, m
<1>4. SendInLoop(m, queue)
  BY <1>1 DEF m, queue
<1> QED
  BY <1>1, <1>2, <1>3, <1>4, SendKeeps

LEMMA UserSendKeeps == ASSUME NEW m \in Msg PROVE TcpInv /\ UserSend(m) => TcpInv'
<1> SUFFICES ASSUME TcpInv, UserSend(m) PROVE TcpInv'
  OBVIOUS
<1>1. /\ at \in {"events", "run"} /\ state = "Connected" /\ SendInLoop(m, tasks) /\ m \in Sendable
      /\ UNCHANGED <<state, reading, round, at, ready, busy, holds, inbox, peer, got, sent, forced, downs, use>>
  BY DEF UserSend, InLoop, in, looping, threads, remote, Sendable
<1>2. tasks \in Seq(Task) /\ round' \in 0 .. Len(tasks)
  BY <1>1 DEF TcpInv, TasksRight
<1> QED
  BY <1>1, <1>2, SendKeeps

LEMMA RunForceCloseKeeps == TcpInv /\ RunForceClose => TcpInv'
<1> SUFFICES ASSUME TcpInv, RunForceClose PROVE TcpInv'
  OBVIOUS
<1>1. /\ Takes("forceClose") /\ TasksRight
      /\ IF StillUp THEN Close(Tail(tasks)) ELSE tasks' = Tail(tasks) /\ UNCHANGED <<state, channel, downs>>
      /\ UNCHANGED <<reading, output, at, ready, busy, holds, wire, fin, inbox,
                     peer, accepted, got, sent, forced, use>>
  BY DEF RunForceClose, Takes, in, out, threads, remote, TcpInv
<1> DEFINE queue == Tail(tasks)
<1>2. /\ queue \in Seq(Task) /\ round' \in 0 .. Len(queue) /\ at = "run" /\ Queued(tasks, "forceClose")
      /\ \A l : Queued(queue, l) => Queued(tasks, l)
      /\ state # "Connecting"
      /\ use.ends /\ state = "Disconnected" /\ place = "added" =>
            Due(queue, "connectDestroyed", round') /\ Queued(queue, "connectDestroyed")
  <2>1. "forceClose" # "connectDestroyed" /\ "forceClose" # "connectEstablished"
    OBVIOUS
  <2> QED
    BY <1>1, <2>1, Shifted
<1> HIDE DEF queue
<1>3. forced /\ \A s \in Sender : busy[s] # "forceClose"
  BY <1>2 DEF TcpInv, ForcedRight
<1>4. CASE StillUp
  <2>1. /\ state \in {"Connected", "Disconnecting"} /\ state' = "Disconnected" /\ asks' = {}
        /\ place' = IF place # "added" THEN "added" ELSE "deleted"
        /\ downs' = downs + 1 /\ tasks' = Append(queue, <<"connectDestroyed">>)
    BY <1>1, <1>4 DEF StillUp, Close, Update, queue
  <2>2. use.ends => place = "added"
    <3>1. use \in Uses /\ Risen /\ forced
      BY <1>3, <2>1 DEF TcpInv, TcpTypes, Risen
    <3>2. use.ends => "forceClose" \notin use.thread /\ ("stop" \notin use.loop \/ "forceClose" \notin use.loop)
      BY <3>1, UsesAgree
    <3>3. use.ends => "stop" \notin use.loop
      BY <3>1, <3>2 DEF TcpInv, ForcedRight
    <3> QED
      BY <2>1, <3>1, <3>3 DEF TcpInv, ChannelRight
  <2>3. /\ tasks' \in Seq(Task) /\ round' \in 0 .. Len(tasks')
        /\ \A l : Queued(tasks, l)' => Queued(queue, l) \/ l = "connectDestroyed"
    <3> DEFINE x == <<"connectDestroyed">>  t == tasks'
    <3>1. x \in Task /\ x[1] = "connectDestroyed" /\ t = Append(queue, x)
      BY <2>1, TaskKinds DEF Names
    <3> HIDE DEF x, t
    <3>2. /\ t \in Seq(Task) /\ Len(t) = Len(queue) + 1 /\ Len(queue) \in Nat
          /\ \A l : Queued(t, l) <=> Queued(queue, l) \/ x[1] = l
      BY <1>2, <3>1, TaskAdded
    <3>3. round' \in 0 .. Len(t)
      BY <1>2, <3>2
    <3> QED
      BY <3>1, <3>2, <3>3 DEF t
  <2>4. TasksRight'
    BY <1>1, <1>2, <2>1, <2>2, <2>3 DEF TasksRight
  <2>5. TcpTypes' /\ ChannelRight' /\ FinIsLast' /\ StreamIntact'
    <3>1. TcpTypes'
      BY <1>1, <2>1 DEF TcpInv, TcpTypes
    <3>2. ChannelRight'
      BY <1>1, <2>1 DEF TcpInv, ChannelRight, Risen
    <3> QED
      BY <1>1, <2>1, <3>1, <3>2 DEF TcpInv, FinIsLast, StreamIntact
  <2>6. ready = {} /\ downs = 0
    BY <1>2, <2>1 DEF TcpInv, ReadyRight, EndRight
  <2>7. ReadyRight' /\ EndRight' /\ ForcedRight'
    BY <1>1, <1>2, <1>3, <2>1, <2>3, <2>6 DEF TcpInv, ReadyRight, EndRight, ForcedRight
  <2> QED
    BY <2>4, <2>5, <2>7 DEF TcpInv
<1>5. CASE ~ StillUp
  <2>1. tasks' = queue /\ UNCHANGED <<state, asks, place, downs>> /\ state = "Disconnected"
    BY <1>1, <1>2, <1>5 DEF StillUp, channel, queue, TcpInv, TcpTypes
  <2>2. TasksRight'
    BY <1>1, <1>2, <2>1 DEF TasksRight
  <2>3. TcpTypes' /\ ChannelRight' /\ FinIsLast' /\ StreamIntact' /\ ReadyRight' /\ EndRight' /\ ForcedRight'
    <3>1. TcpTypes'
      BY <1>1, <1>2, <1>3, <2>1 DEF TcpInv, TcpTypes
    <3>2. ChannelRight'
      BY <1>1, <1>2, <1>3, <2>1 DEF TcpInv, ChannelRight, Risen
    <3> QED
      BY <1>1, <1>2, <1>3, <2>1, <3>1, <3>2 DEF TcpInv, FinIsLast, StreamIntact, ReadyRight, EndRight, ForcedRight, Risen
  <2> QED
    BY <2>2, <2>3 DEF TcpInv
<1> QED
  BY <1>4, <1>5

LEMMA RunDestroyedKeeps == TcpInv /\ RunDestroyed => TcpInv'
<1> SUFFICES ASSUME TcpInv, RunDestroyed PROVE TcpInv'
  OBVIOUS
<1>1. /\ Takes("connectDestroyed") /\ TasksRight /\ tasks' = Tail(tasks) /\ place' = "new"
      /\ UNCHANGED <<state, asks, reading, output, at, ready, busy, holds, wire, fin, inbox,
                     peer, accepted, got, sent, forced, downs, use>>
  BY DEF RunDestroyed, Takes, in, out, threads, remote, TcpInv
<1>2. /\ tasks' \in Seq(Task) /\ round' \in 0 .. Len(tasks') /\ at = "run" /\ Queued(tasks, "connectDestroyed")
      /\ \A l : Queued(Tail(tasks), l) => Queued(tasks, l)
  <2>1. "connectDestroyed" # "connectEstablished"
    OBVIOUS
  <2> QED
    BY <1>1, <2>1, Shifted
<1>3. state = "Disconnected" /\ \A l : Queued(tasks, l)' => Queued(tasks, l)
  BY <1>1, <1>2 DEF TasksRight
<1>4. TasksRight'
  BY <1>1, <1>2, <1>3 DEF TasksRight
<1>5. TcpTypes' /\ ChannelRight' /\ FinIsLast' /\ StreamIntact' /\ ReadyRight' /\ EndRight' /\ ForcedRight'
  <2>1. TcpTypes'
    BY <1>1, <1>3 DEF TcpInv, TcpTypes
  <2>2. ChannelRight'
    BY <1>1, <1>3 DEF TcpInv, ChannelRight, Risen
  <2> QED
    BY <1>1, <1>3, <2>1, <2>2 DEF TcpInv, FinIsLast, StreamIntact, ReadyRight, EndRight, ForcedRight, Risen
<1> QED
  BY <1>4, <1>5 DEF TcpInv

LEMMA CallbackKeeps == TcpInv /\ RunCallback => TcpInv'
<1> SUFFICES ASSUME TcpInv, RunCallback PROVE TcpInv'
  OBVIOUS
<1>1. /\ Takes("writeComplete") \/ Takes("highWater")
      /\ TasksRight /\ tasks' = Tail(tasks)
      /\ UNCHANGED <<state, asks, place, reading, output, at, ready, busy, holds, wire, fin, inbox,
                     peer, accepted, got, sent, forced, downs, use>>
  BY DEF RunCallback, Takes, in, out, channel, threads, remote, TcpInv
<1> DEFINE queue == Tail(tasks)
<1>2. /\ queue \in Seq(Task) /\ round' \in 0 .. Len(queue) /\ at = "run" /\ state # "Connecting"
      /\ \A l : Queued(queue, l) => Queued(tasks, l)
      /\ use.ends /\ state = "Disconnected" /\ place = "added" =>
            Due(queue, "connectDestroyed", round') /\ Queued(queue, "connectDestroyed")
  <2>1. CASE Takes("writeComplete")
    <3>1. "writeComplete" # "connectDestroyed" /\ "writeComplete" # "connectEstablished"
      OBVIOUS
    <3> QED
      BY <1>1, <2>1, <3>1, Shifted
  <2>2. CASE Takes("highWater")
    <3>1. "highWater" # "connectDestroyed" /\ "highWater" # "connectEstablished"
      OBVIOUS
    <3> QED
      BY <1>1, <2>2, <3>1, Shifted
  <2> QED
    BY <1>1, <2>1, <2>2
<1> HIDE DEF queue
<1>3. tasks' = queue
  BY <1>1 DEF queue
<1>4. TasksRight'
  BY <1>1, <1>2, <1>3 DEF TasksRight
<1>5. TcpTypes' /\ ChannelRight' /\ FinIsLast' /\ StreamIntact'
  <2>1. TcpTypes'
    BY <1>1 DEF TcpInv, TcpTypes
  <2>2. ChannelRight'
    BY <1>1 DEF TcpInv, ChannelRight, Risen
  <2> QED
    BY <1>1, <2>1, <2>2 DEF TcpInv, FinIsLast, StreamIntact
<1>6. ReadyRight' /\ EndRight' /\ ForcedRight'
  BY <1>1, <1>2, <1>3 DEF TcpInv, ReadyRight, EndRight, ForcedRight, Risen
<1> QED
  BY <1>4, <1>5, <1>6 DEF TcpInv
-----------------------------------------------------------------------------
LEMMA ShutdownKeeps == TcpInv /\ UserShutdown => TcpInv'
<1> SUFFICES ASSUME TcpInv, UserShutdown PROVE TcpInv'
  OBVIOUS
<1>1. /\ state = "Connected" /\ state' = "Disconnecting" /\ fin' = (fin \/ "out" \notin asks)
      /\ UNCHANGED <<reading, asks, place, output, tasks, round, at, ready, busy, holds, wire, inbox,
                     peer, accepted, got, sent, forced, downs, use>>
  BY DEF UserShutdown, FinAfter, in, channel, looping, threads, remote
<1>2. TcpTypes' /\ ChannelRight' /\ TasksRight' /\ StreamIntact'
  <2>1. TcpTypes'
    BY <1>1 DEF TcpInv, TcpTypes
  <2>2. ChannelRight'
    BY <1>1 DEF TcpInv, ChannelRight, Risen
  <2> QED
    BY <1>1, <2>1, <2>2 DEF TcpInv, TasksRight, StreamIntact
<1>3. FinIsLast' /\ ReadyRight' /\ EndRight' /\ ForcedRight'
  BY <1>1 DEF TcpInv, ChannelRight, FinIsLast, ReadyRight, EndRight, ForcedRight, Risen
<1> QED
  BY <1>2, <1>3 DEF TcpInv

LEMMA ReadingKeeps == TcpInv /\ (UserStop \/ UserStart) => TcpInv'
<1> SUFFICES ASSUME TcpInv, UserStop \/ UserStart PROVE TcpInv'
  OBVIOUS
<1>1. /\ state \in {"Connected", "Disconnecting"}
      /\ UNCHANGED <<state, output, tasks, round, at, ready, busy, holds, wire, fin, inbox,
                     peer, accepted, got, sent, forced, downs, use>>
  BY DEF UserStop, UserStart, out, in, looping, threads, remote
<1>2. /\ reading' \in BOOLEAN /\ asks' \subseteq {"in", "out"} /\ (reading' <=> "in" \in asks')
      /\ "stop" \notin use.loop => reading'
      /\ "out" \in asks' <=> "out" \in asks
      /\ place' = IF asks' = {} THEN "deleted" ELSE "added"
  <2>1. /\ reading \in BOOLEAN /\ asks \subseteq {"in", "out"} /\ (reading <=> "in" \in asks)
        /\ place = IF asks = {} THEN "deleted" ELSE "added"
    BY <1>1 DEF TcpInv, TcpTypes, ChannelRight, Risen
  <2>2. CASE UserStop
    BY <2>1, <2>2 DEF UserStop, Update
  <2>3. CASE UserStart
    BY <2>1, <2>3 DEF UserStart, Update
  <2> QED
    BY <2>2, <2>3
<1>3. TcpTypes' /\ ChannelRight'
  BY <1>1, <1>2 DEF TcpInv, TcpTypes, ChannelRight, Risen
<1>4. TasksRight' /\ StreamIntact'
  BY <1>1 DEF TcpInv, TasksRight, StreamIntact
<1>5. FinIsLast' /\ ReadyRight' /\ EndRight' /\ ForcedRight'
  BY <1>1 DEF TcpInv, FinIsLast, ReadyRight, EndRight, ForcedRight, Risen
<1> QED
  BY <1>3, <1>4, <1>5 DEF TcpInv

LEMMA UserForceCloseKeeps == TcpInv /\ UserForceClose => TcpInv'
<1> SUFFICES ASSUME TcpInv, UserForceClose PROVE TcpInv'
  OBVIOUS
<1>1. /\ "forceClose" \in use.loop /\ state \in {"Connected", "Disconnecting"} /\ ~ forced
      /\ state' = "Disconnecting" /\ forced' = TRUE /\ tasks' = Append(tasks, <<"forceClose">>)
      /\ UNCHANGED <<reading, asks, place, output, round, at, ready, busy, holds, wire, fin, inbox,
                     peer, accepted, got, sent, downs, use>>
  BY DEF UserForceClose, out, channel, in, looping, threads, remote
<1>2. TasksRight'
  <2> DEFINE x == <<"forceClose">>
  <2>1. x \in Task /\ x[1] = "forceClose" /\ tasks' = Append(tasks, x) /\ TasksRight
    BY <1>1, TaskKinds DEF Names, TcpInv
  <2> HIDE DEF x
  <2>2. /\ x[1] # "connectEstablished" /\ x[1] # "connectDestroyed"
        /\ state # "Connecting" /\ state' # "Connecting" /\ state # "Disconnected" /\ state' # "Disconnected"
    BY <1>1, <2>1
  <2> QED
    BY <1>1, <2>1, <2>2, TaskWaits
<1>3. TcpTypes' /\ ChannelRight' /\ StreamIntact' /\ FinIsLast'
  <2>1. TcpTypes'
    BY <1>1 DEF TcpInv, TcpTypes
  <2>2. ChannelRight'
    BY <1>1 DEF TcpInv, ChannelRight, Risen
  <2> QED
    BY <1>1, <2>1, <2>2 DEF TcpInv, StreamIntact, FinIsLast
<1>4. ReadyRight' /\ EndRight' /\ ForcedRight'
  BY <1>1 DEF TcpInv, ReadyRight, EndRight, ForcedRight
<1> QED
  BY <1>2, <1>3, <1>4 DEF TcpInv

LEMMA TestSendKeeps == ASSUME NEW s \in Sender, NEW m \in Msg PROVE TcpInv /\ TestSend(s, m) => TcpInv'
<1> SUFFICES ASSUME TcpInv, TestSend(s, m) PROVE TcpInv'
  OBVIOUS
<1>1. /\ state = "Connected" /\ busy[s] = "none"
      /\ busy' = [busy EXCEPT ![s] = "send"] /\ holds' = [holds EXCEPT ![s] = m]
      /\ UNCHANGED <<state, reading, asks, place, output, tasks, round, at, ready, wire, fin, inbox,
                     peer, accepted, got, sent, forced, downs, use>>
  BY DEF TestSend, out, channel, in, looping, remote
<1>2. \A r \in Sender : busy'[r] = "forceClose" => busy[r] = "forceClose"
  BY <1>1 DEF TcpInv, TcpTypes
<1>3. busy' \in [Sender -> {"none", "send", "forceClose"}] /\ holds' \in [Sender -> Sendable]
  BY <1>1 DEF TcpInv, TcpTypes, Sendable
<1>4. TcpTypes' /\ ChannelRight' /\ StreamIntact' /\ FinIsLast'
  <2>1. TcpTypes'
    BY <1>1, <1>3 DEF TcpInv, TcpTypes
  <2>2. ChannelRight'
    BY <1>1, <1>3 DEF TcpInv, ChannelRight, Risen
  <2> QED
    BY <1>1, <1>3, <2>1, <2>2 DEF TcpInv, StreamIntact, FinIsLast
<1>5. TasksRight' /\ ReadyRight' /\ EndRight'
  BY <1>1 DEF TcpInv, TasksRight, ReadyRight, EndRight
<1>6. ForcedRight'
  BY <1>1, <1>2 DEF TcpInv, ForcedRight, Risen
<1> QED
  BY <1>4, <1>5, <1>6 DEF TcpInv

LEMMA QueueSendKeeps == ASSUME NEW s \in Sender PROVE TcpInv /\ QueueSend(s) => TcpInv'
<1> SUFFICES ASSUME TcpInv, QueueSend(s) PROVE TcpInv'
  OBVIOUS
<1>1. /\ busy[s] = "send" /\ busy' = [busy EXCEPT ![s] = "none"] /\ tasks' = Append(tasks, <<"send", holds[s]>>)
      /\ UNCHANGED <<state, reading, asks, place, output, round, at, ready, holds, wire, fin, inbox,
                     peer, accepted, got, sent, forced, downs, use>>
  BY DEF QueueSend, out, channel, in, looping, remote
<1>2. \A r \in Sender : busy'[r] = "forceClose" => busy[r] = "forceClose"
  BY <1>1 DEF TcpInv, TcpTypes
<1>3. busy' \in [Sender -> {"none", "send", "forceClose"}] /\ holds[s] \in Sendable
  BY <1>1 DEF TcpInv, TcpTypes
<1>4. state # "Connecting"
  BY <1>1 DEF TcpInv, TasksRight
<1>5. TasksRight' /\ (Queued(tasks, "forceClose")' <=> Queued(tasks, "forceClose"))
  <2> DEFINE x == <<"send", holds[s]>>
  <2>1. x \in Task /\ x[1] = "send" /\ tasks' = Append(tasks, x) /\ TasksRight
    BY <1>1, <1>3, TaskKinds DEF TcpInv
  <2> HIDE DEF x
  <2>2. x[1] # "connectEstablished" /\ x[1] # "connectDestroyed" /\ x[1] # "forceClose" /\ state' # "Connecting"
    BY <1>1, <1>4, <2>1
  <2> QED
    BY <1>1, <1>4, <2>1, <2>2, TaskWaits
<1>6. TcpTypes' /\ ChannelRight' /\ StreamIntact' /\ FinIsLast'
  <2>1. TcpTypes'
    BY <1>1, <1>3 DEF TcpInv, TcpTypes
  <2>2. ChannelRight'
    BY <1>1, <1>3 DEF TcpInv, ChannelRight, Risen
  <2> QED
    BY <1>1, <1>3, <2>1, <2>2 DEF TcpInv, StreamIntact, FinIsLast
<1>7. ReadyRight' /\ EndRight' /\ ForcedRight'
  BY <1>1, <1>2, <1>5 DEF TcpInv, ReadyRight, EndRight, ForcedRight, Risen
<1> QED
  BY <1>5, <1>6, <1>7 DEF TcpInv

LEMMA TestForceCloseKeeps == ASSUME NEW s \in Sender PROVE TcpInv /\ TestForceClose(s) => TcpInv'
<1> SUFFICES ASSUME TcpInv, TestForceClose(s) PROVE TcpInv'
  OBVIOUS
<1>1. /\ "forceClose" \in use.thread /\ ~ forced /\ state \in {"Connected", "Disconnecting"}
      /\ busy' = [busy EXCEPT ![s] = "forceClose"] /\ forced' = TRUE
      /\ UNCHANGED <<state, reading, asks, place, output, tasks, round, at, ready, holds, wire, fin, inbox,
                     peer, accepted, got, sent, downs, use>>
  BY DEF TestForceClose, out, channel, in, looping, remote
<1>2. ~ use.ends
  BY <1>1, UsesAgree DEF TcpInv, TcpTypes
<1>3. \A r \in Sender : busy'[r] = "forceClose" => r = s
  BY <1>1 DEF TcpInv, TcpTypes, ForcedRight
<1>4. busy' \in [Sender -> {"none", "send", "forceClose"}]
  BY <1>1 DEF TcpInv, TcpTypes
<1>5. TcpTypes' /\ ChannelRight' /\ StreamIntact' /\ FinIsLast'
  <2>1. TcpTypes'
    BY <1>1, <1>4 DEF TcpInv, TcpTypes
  <2>2. ChannelRight'
    BY <1>1, <1>4 DEF TcpInv, ChannelRight, Risen
  <2> QED
    BY <1>1, <1>4, <2>1, <2>2 DEF TcpInv, StreamIntact, FinIsLast
<1>6. TasksRight' /\ ReadyRight' /\ EndRight'
  BY <1>1 DEF TcpInv, TasksRight, ReadyRight, EndRight
<1>7. ForcedRight'
  BY <1>1, <1>2, <1>3 DEF TcpInv, ForcedRight, Risen
<1> QED
  BY <1>5, <1>6, <1>7 DEF TcpInv

LEMMA QueueForceCloseKeeps == ASSUME NEW s \in Sender PROVE TcpInv /\ QueueForceClose(s) => TcpInv'
<1> SUFFICES ASSUME TcpInv, QueueForceClose(s) PROVE TcpInv'
  OBVIOUS
<1>1. /\ busy[s] = "forceClose" /\ busy' = [busy EXCEPT ![s] = "none"] /\ state' = "Disconnecting"
      /\ tasks' = Append(tasks, <<"forceClose">>)
      /\ UNCHANGED <<reading, asks, place, output, round, at, ready, holds, wire, fin, inbox,
                     peer, accepted, got, sent, forced, downs, use>>
  BY DEF QueueForceClose, out, channel, in, looping, remote
<1>2. /\ forced /\ ~ use.ends /\ state \in {"Connected", "Disconnecting"}
      /\ \A r \in Sender : busy[r] = "forceClose" => r = s
  BY <1>1 DEF TcpInv, ForcedRight, Risen
<1>3. \A r \in Sender : busy'[r] # "forceClose"
  BY <1>1, <1>2 DEF TcpInv, TcpTypes
<1>4. busy' \in [Sender -> {"none", "send", "forceClose"}]
  BY <1>1 DEF TcpInv, TcpTypes
<1>5. TasksRight'
  <2> DEFINE x == <<"forceClose">>
  <2>1. x \in Task /\ x[1] = "forceClose" /\ tasks' = Append(tasks, x) /\ TasksRight
    BY <1>1, TaskKinds DEF Names, TcpInv
  <2> HIDE DEF x
  <2>2. /\ x[1] # "connectEstablished" /\ x[1] # "connectDestroyed"
        /\ state # "Connecting" /\ state' # "Connecting" /\ state # "Disconnected" /\ state' # "Disconnected"
    BY <1>1, <1>2, <2>1
  <2> QED
    BY <1>1, <2>1, <2>2, TaskWaits
<1>6. TcpTypes' /\ ChannelRight' /\ StreamIntact' /\ FinIsLast'
  <2>1. TcpTypes'
    BY <1>1, <1>2, <1>4 DEF TcpInv, TcpTypes
  <2>2. ChannelRight'
    BY <1>1, <1>2, <1>4 DEF TcpInv, ChannelRight, Risen
  <2> QED
    BY <1>1, <1>2, <1>4, <2>1, <2>2 DEF TcpInv, StreamIntact, FinIsLast
<1>7. ReadyRight' /\ EndRight' /\ ForcedRight'
  BY <1>1, <1>2, <1>3 DEF TcpInv, ReadyRight, EndRight, ForcedRight
<1> QED
  BY <1>5, <1>6, <1>7 DEF TcpInv

LEMMA PeerKeeps == TcpInv /\ (PeerSends \/ PeerEnds("fin") \/ PeerEnds("reset")) => TcpInv'
<1> SUFFICES ASSUME TcpInv, PeerSends \/ PeerEnds("fin") \/ PeerEnds("reset") PROVE TcpInv'
  OBVIOUS
<1>1. UNCHANGED <<state, reading, asks, place, output, tasks, round, at, ready, busy, holds, wire, fin,
                 accepted, got, forced, downs, use>>
  BY DEF PeerSends, PeerEnds, out, channel, in, looping, threads
<1>2. \/ peer = "open" /\ peer' = peer /\ sent' = sent + 1 /\ inbox' = inbox + 1
      \/ /\ use.ends /\ inbox' = inbox /\ sent' = sent
         /\ (peer = "open" /\ peer' = "fin") \/ peer' = "reset"
  BY DEF PeerSends, PeerEnds, in
<1>3. inbox \in Nat /\ sent \in Nat /\ got \in Nat /\ got + inbox = sent
  BY DEF TcpInv, TcpTypes
<1>4. inbox' \in Nat /\ sent' \in Nat /\ got + inbox' = sent' /\ (inbox > 0 => inbox' > 0)
  BY <1>2, <1>3
<1>5. peer' \in {"open", "fin", "reset"} /\ (peer' # "open" => use.ends) /\ (peer # "open" => peer' # "open")
  BY <1>2 DEF TcpInv, TcpTypes, ReadyRight
<1>6. TcpTypes'
  BY <1>1, <1>4, <1>5 DEF TcpInv, TcpTypes
<1>7. ChannelRight' /\ TasksRight' /\ StreamIntact' /\ ForcedRight'
  BY <1>1 DEF TcpInv, ChannelRight, TasksRight, StreamIntact, ForcedRight, Risen
<1>8. ReadyRight'
  BY <1>1, <1>2, <1>4, <1>5 DEF TcpInv, ReadyRight
<1>9. EndRight' /\ FinIsLast'
  BY <1>1, <1>2, <1>3 DEF TcpInv, EndRight, FinIsLast
<1> QED
  BY <1>6, <1>7, <1>8, <1>9 DEF TcpInv

-----------------------------------------------------------------------------
LEMMA TcpStarts == TcpInit => TcpInv
<1> SUFFICES ASSUME TcpInit PROVE TcpInv
  OBVIOUS
<1>1. TcpTypes
  <2>1. <<>> \in Seq(Unit) /\ <<>> \in Seq(Sendable)
    OBVIOUS
  <2>2. output \in Seq(Unit) /\ wire \in Seq(Unit) /\ accepted \in Seq(Sendable)
    BY <2>1 DEF TcpInit
  <2>3. busy \in [Sender -> {"none", "send", "forceClose"}] /\ holds \in [Sender -> Sendable]
    BY DEF TcpInit, Sendable
  <2>4. inbox \in Nat /\ got \in Nat /\ sent \in Nat /\ got + inbox = sent
    BY DEF TcpInit
  <2>5. /\ state = "Connecting" /\ at = "poll" /\ place = "new" /\ peer = "open"
        /\ reading \in BOOLEAN /\ fin \in BOOLEAN /\ forced \in BOOLEAN
        /\ asks = {} /\ ready = {} /\ use \in Uses
    BY DEF TcpInit
  <2> QED
    BY <2>2, <2>3, <2>4, <2>5 DEF TcpTypes
<1>2. ChannelRight /\ ReadyRight /\ EndRight /\ FinIsLast
  BY DEF TcpInit, ChannelRight, ReadyRight, EndRight, FinIsLast, Risen
<1> DEFINE x == <<"connectEstablished">>
<1>3. x \in Task /\ x[1] = "connectEstablished"
  BY TaskKinds DEF Names
<1>4. tasks = <<x>> /\ round = 0 /\ at = "poll"
  BY DEF TcpInit
<1> HIDE DEF x
<1>5. tasks \in Seq(Task) /\ Len(tasks) = 1 /\ DOMAIN tasks = {1} /\ tasks[1] = x
  BY <1>3, <1>4
<1>6. \A n : Queued(tasks, n) <=> n = "connectEstablished"
  BY <1>3, <1>5 DEF Queued
<1>7. TasksRight
  <2>1. state = "Connecting" /\ \A s \in Sender : busy[s] = "none"
    BY DEF TcpInit
  <2>2. round \in 0 .. Len(tasks)
    BY <1>4, <1>5
  <2> QED
    BY <1>4, <1>5, <1>6, <2>1, <2>2 DEF TasksRight, x
<1>8. ForcedRight
  BY <1>6 DEF TcpInit, ForcedRight
<1>9. StreamIntact
  <2>1. wire \o output = <<>>
    <3>1. <<>> \o <<>> = <<>>
      OBVIOUS
    <3> QED
      BY <3>1 DEF TcpInit
  <2>2. accepted = <<>> /\ Len(accepted) = 0
    BY DEF TcpInit
  <2>3. 1 .. 2 * Len(accepted) = {}
    BY <2>2
  <2> QED
    BY <2>1, <2>3 DEF StreamIntact
<1> QED
  BY <1>1, <1>2, <1>7, <1>8, <1>9 DEF TcpInv

LEMMA TcpSteps == TcpInv /\ TcpNext => TcpInv'
<1> SUFFICES ASSUME TcpInv, TcpNext PROVE TcpInv'
  OBVIOUS
<1>1. CASE TcpLoop
  BY <1>1, PollKeeps, HupKeeps, ReadKeeps, WriteKeeps, TakeKeeps, EstablishKeeps, RunSendKeeps,
     RunForceCloseKeeps, RunDestroyedKeeps, CallbackKeeps, EndKeeps DEF TcpLoop
<1>2. CASE PeerSends \/ PeerEnds("fin") \/ PeerEnds("reset")
  BY <1>2, PeerKeeps
<1>3. CASE UserShutdown \/ UserForceClose \/ UserStop \/ UserStart
  BY <1>3, ShutdownKeeps, UserForceCloseKeeps, ReadingKeeps
<1>4. CASE \E m \in Msg : UserSend(m) \/ \E s \in Sender : TestSend(s, m)
  BY <1>4, UserSendKeeps, TestSendKeeps
<1>5. CASE \E s \in Sender : QueueSend(s) \/ TestForceClose(s) \/ QueueForceClose(s)
  BY <1>5, QueueSendKeeps, TestForceCloseKeeps, QueueForceCloseKeeps
<1> QED
  BY <1>1, <1>2, <1>3, <1>4, <1>5 DEF TcpNext

LEMMA TcpHolds == TcpInv => TcpTypeOK /\ StreamIntact /\ FinIsLast /\ CloseOnce /\ InputComplete
<1> SUFFICES ASSUME TcpInv PROVE TcpTypeOK /\ CloseOnce /\ InputComplete
  BY DEF TcpInv
<1>1. state # "Disconnected" => ("out" \in asks <=> output # <<>>)
  BY DEF TcpInv, TcpTypes, ChannelRight, Risen
<1>2. TcpTypeOK
  BY <1>1 DEF TcpInv, TcpTypes, TasksRight, TcpTypeOK
<1> QED
  BY <1>2 DEF TcpInv, EndRight, CloseOnce, InputComplete

LEMMA TcpRests == TcpInv /\ UNCHANGED tcpVars => TcpInv'
<1> SUFFICES ASSUME TcpInv, UNCHANGED tcpVars PROVE TcpInv'
  OBVIOUS
<1>1. UNCHANGED <<state, reading, asks, place, output, tasks, round, at, ready, busy, holds, wire, fin, inbox,
                 peer, accepted, got, sent, forced, downs, use>>
  BY DEF tcpVars
<1>2. TcpTypes'
  BY <1>1 DEF TcpInv, TcpTypes
<1>3. ChannelRight' /\ TasksRight' /\ ReadyRight'
  BY <1>1 DEF TcpInv, ChannelRight, TasksRight, ReadyRight, Risen
<1>4. ForcedRight' /\ EndRight' /\ StreamIntact' /\ FinIsLast'
  BY <1>1 DEF TcpInv, ForcedRight, EndRight, StreamIntact, FinIsLast, Risen
<1> QED
  BY <1>2, <1>3, <1>4 DEF TcpInv

-----------------------------------------------------------------------------
\* Of a server with any number of loops and connections, and of a client however long
\* its delays and however often it is used: connections are shared out in turn, removed
\* once and by nobody else's loop, none is left to dangle when the server ends; a client
\* makes one attempt at a time and none after it was stopped (TcpServer.cc, TcpClient.cc,
\* Connector.cc).
THEOREM EndsKept == Spec => []EndsSafe
<1> DEFINE Inv == ServerInv /\ ClientInv
<1>1. Init => Inv
  BY ServerStarts, ClientStarts DEF Init
<1>2. Inv /\ [Next]_vars => Inv'
  <2> SUFFICES ASSUME Inv, [Next]_vars PROVE Inv'
    OBVIOUS
  <2>1. ASSUME UNCHANGED serverVars PROVE ServerInv'
    BY <2>1, ServerStands
  <2>2. ASSUME UNCHANGED clientVars PROVE ClientInv'
    BY <2>2, ClientRests
  <2>3. CASE Only("connection", TcpNext, <<bufferVars, serverVars, clientVars>>)
    <3>1. UNCHANGED serverVars /\ UNCHANGED clientVars
      BY <2>3 DEF Only
    <3> QED
      BY <2>1, <2>2, <3>1
  <2>4. CASE Only("buffer", BufferNext, <<tcpVars, serverVars, clientVars>>)
    <3>1. UNCHANGED serverVars /\ UNCHANGED clientVars
      BY <2>4 DEF Only
    <3> QED
      BY <2>1, <2>2, <3>1
  <2>5. CASE Only("server", ServerNext, <<tcpVars, bufferVars, clientVars>>)
    <3>1. ServerNext /\ UNCHANGED clientVars
      BY <2>5 DEF Only
    <3> QED
      BY <2>2, <3>1, ServerSteps
  <2>6. CASE Only("client", ClientNext, <<tcpVars, bufferVars, serverVars>>)
    <3>1. ClientNext /\ UNCHANGED serverVars
      BY <2>6 DEF Only
    <3> QED
      BY <2>1, <3>1, ClientSteps
  <2>7. CASE UNCHANGED vars
    <3>1. UNCHANGED serverVars /\ UNCHANGED clientVars
      BY <2>7 DEF vars
    <3> QED
      BY <2>1, <2>2, <3>1
  <2> QED
    BY <2>3, <2>4, <2>5, <2>6, <2>7 DEF Next
<1>3. Inv => EndsSafe
  BY ServerHolds, ClientHolds DEF EndsSafe
<1>4. Spec => Init /\ [][Next]_vars
  BY PTL DEF Spec
<1> QED
  BY <1>1, <1>2, <1>3, <1>4, PTL

\* Of a connection with any messages, threads that send, marks and calls that agree: what
\* is written in three places is the stream that was sent, the FIN comes after it, it is
\* closed once, and not before the peer's input was delivered (TcpConnection.cc).
THEOREM ConnectionKept == Spec => []TcpSafe
<1>1. Init => TcpInv
  BY TcpStarts DEF Init
<1>2. TcpInv /\ [Next]_vars => TcpInv'
  <2> SUFFICES ASSUME TcpInv, [Next]_vars PROVE TcpInv'
    OBVIOUS
  <2>1. ASSUME UNCHANGED tcpVars PROVE TcpInv'
    BY <2>1, TcpRests
  <2>2. CASE Only("connection", TcpNext, <<bufferVars, serverVars, clientVars>>)
    BY <2>2, TcpSteps DEF Only
  <2>3. CASE Only("buffer", BufferNext, <<tcpVars, serverVars, clientVars>>)
    <3>1. UNCHANGED tcpVars
      BY <2>3 DEF Only
    <3> QED
      BY <2>1, <3>1
  <2>4. CASE Only("server", ServerNext, <<tcpVars, bufferVars, clientVars>>)
    <3>1. UNCHANGED tcpVars
      BY <2>4 DEF Only
    <3> QED
      BY <2>1, <3>1
  <2>5. CASE Only("client", ClientNext, <<tcpVars, bufferVars, serverVars>>)
    <3>1. UNCHANGED tcpVars
      BY <2>5 DEF Only
    <3> QED
      BY <2>1, <3>1
  <2>6. CASE UNCHANGED vars
    <3>1. UNCHANGED tcpVars
      BY <2>6 DEF vars
    <3> QED
      BY <2>1, <3>1
  <2> QED
    BY <2>2, <2>3, <2>4, <2>5, <2>6 DEF Next
<1>3. TcpInv => TcpSafe
  BY TcpHolds DEF TcpSafe
<1>4. Spec => Init /\ [][Next]_vars
  BY PTL DEF Spec
<1> QED
  BY <1>1, <1>2, <1>3, <1>4, PTL

=============================================================================
