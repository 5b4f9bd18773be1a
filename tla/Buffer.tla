-------------------------------- MODULE Buffer --------------------------------
(***************************************************************************)
(* muduo's Buffer: a vector with two indices, kCheapPrepend bytes free in   *)
(* front at first. A write that does not fit moves the content to the front *)
(* or makes the vector longer. Cells that hold nothing keep stale bytes.    *)
(***************************************************************************)
EXTENDS Integers, Sequences, SequencesExt

CONSTANTS
    Byte,          \* bytes
    kCheapPrepend, \* 8 in the code, as kInitialSize is 1024 and extrabuf 65536
    kInitialSize,
    ExtraBuf,      \* the size of extrabuf in readFd
    MaxWrite,      \* bound: bytes of one write
    MaxContent     \* bound: bytes in the buffer

ASSUME BufferAssumption ==
    /\ kCheapPrepend \in Nat \ {0} /\ kInitialSize \in Nat /\ ExtraBuf \in Nat
    /\ Byte # {} /\ MaxWrite \in Nat /\ MaxContent \in Nat

VARIABLES cells,       \* buffer_
          readerIndex, \* readerIndex_, the number of cells before the content
          writerIndex, \* writerIndex_
          content      \* history: what was written and not yet read

bufferVars == <<cells, readerIndex, writerIndex, content>>

Stale == CHOOSE b \in Byte : TRUE
NewCells(n) == [i \in 1 .. n |-> Stale]
ReadableBytes == writerIndex - readerIndex
Between(c, from, to) == SubSeq(c, from + 1, to)
Written(c, at, data) == [i \in DOMAIN c |-> IF i \in at + 1 .. at + Len(data)
                                            THEN data[i - at] ELSE c[i]]
Data(n) == [1 .. n -> Byte]

-----------------------------------------------------------------------------
(* Writing.                                                                 *)

\* The faulty test of makeSpace that only looks whether something was read.
MovesIfRead(writable, len) == readerIndex > kCheapPrepend

\* makeSpace: whether moving the content to the front is enough.
Moves(writable, len) == writable + readerIndex >= len + kCheapPrepend

\* ensureWritableBytes and makeSpace: cells, readerIndex_ and writerIndex_ for len
\* more bytes after those of c, whose content ends at w.
Room(c, w, len) ==
    IF Len(c) - w >= len THEN [cells |-> c, reader |-> readerIndex, writer |-> w]
    ELSE IF Moves(Len(c) - w, len)
    THEN [cells |-> Written(c, kCheapPrepend, Between(c, readerIndex, w)),
          reader |-> kCheapPrepend, writer |-> kCheapPrepend + w - readerIndex]
    ELSE [cells |-> c \o NewCells(w + len - Len(c)), reader |-> readerIndex, writer |-> w]

AppendAt(c, w, data) ==
    LET r == Room(c, w, Len(data)) IN
    /\ cells' = Written(r.cells, r.writer, data)
    /\ readerIndex' = r.reader /\ writerIndex' = r.writer + Len(data)

BufferAppend(data) ==
    /\ ReadableBytes + Len(data) <= MaxContent
    /\ AppendAt(cells, writerIndex, data) /\ content' = content \o data

\* The faulty readFd that appends behind the old end.
FilledShort == writerIndex

\* readFd has filled all that was writable.
Filled == Len(cells)

\* readFd: readv fills what is writable, and extrabuf.
ReadFd(data) ==
    LET writable == Len(cells) - writerIndex IN
    /\ Len(data) <= writable + ExtraBuf /\ ReadableBytes + Len(data) <= MaxContent
    /\ content' = content \o data
    /\ IF Len(data) <= writable
       THEN /\ cells' = Written(cells, writerIndex, data)
            /\ writerIndex' = writerIndex + Len(data) /\ UNCHANGED readerIndex
       ELSE AppendAt(Written(cells, writerIndex, SubSeq(data, 1, writable)), Filled,
                     SubSeq(data, writable + 1, Len(data)))

\* prepend: its assertion is a guard, for callers prepend a header once.
BufferPrepend(data) ==
    /\ Len(data) <= readerIndex /\ ReadableBytes + Len(data) <= MaxContent
    /\ readerIndex' = readerIndex - Len(data)
    /\ cells' = Written(cells, readerIndex', data)
    /\ content' = data \o content /\ UNCHANGED writerIndex

-----------------------------------------------------------------------------
(* Reading.                                                                 *)

\* retrieve: an empty buffer starts again behind kCheapPrepend.
Retrieve(n) ==
    /\ n \in 1 .. ReadableBytes
    /\ IF n < ReadableBytes THEN readerIndex' = readerIndex + n /\ UNCHANGED writerIndex
       ELSE readerIndex' = kCheapPrepend /\ writerIndex' = kCheapPrepend
    /\ content' = SubSeq(content, n + 1, Len(content)) /\ UNCHANGED cells

Unwrite(n) ==
    /\ n \in 1 .. ReadableBytes
    /\ writerIndex' = writerIndex - n /\ content' = SubSeq(content, 1, Len(content) - n)
    /\ UNCHANGED <<cells, readerIndex>>

\* shrink: into a new buffer that has room for reserve more.
Shrink(reserve) ==
    /\ cells' = Written(NewCells(kCheapPrepend + (IF kInitialSize >= ReadableBytes + reserve
                                                  THEN kInitialSize ELSE ReadableBytes + reserve)),
                        kCheapPrepend, Between(cells, readerIndex, writerIndex))
    /\ readerIndex' = kCheapPrepend /\ writerIndex' = kCheapPrepend + ReadableBytes
    /\ UNCHANGED content

BufferInit == /\ cells = NewCells(kCheapPrepend + kInitialSize)
              /\ readerIndex = kCheapPrepend /\ writerIndex = kCheapPrepend
              /\ content = <<>>

BufferNext ==
    \/ \E n \in 1 .. MaxWrite : \E data \in Data(n) :
          BufferAppend(data) \/ ReadFd(data) \/ BufferPrepend(data)
    \/ \E n \in 1 .. MaxContent : Retrieve(n) \/ Unwrite(n)
    \/ \E reserve \in 0 .. 1 : Shrink(reserve)

BufferSpec == BufferInit /\ [][BufferNext]_bufferVars

-----------------------------------------------------------------------------
(* Correctness.                                                             *)

\* Type invariant: the indices are in order and in the vector.
BufferTypeOK ==
    /\ cells \in Seq(Byte)
    /\ 0 <= readerIndex /\ readerIndex <= writerIndex /\ writerIndex <= Len(cells)

\* However the content was moved, cut, prepended to and read in two pieces, it is
\* what was written and not read.
BufferIsQueue == Between(cells, readerIndex, writerIndex) = content

\* The assertion of makeSpace: what is moved goes to the front; so a header can be
\* prepended to whatever was appended since the buffer was empty.
MovesForward ==
    \A n \in 1 .. MaxWrite :
       Len(cells) - writerIndex < n /\ Moves(Len(cells) - writerIndex, n)
          => readerIndex > kCheapPrepend

\* What holds of a buffer at any time.
BufferSafe == BufferTypeOK /\ BufferIsQueue /\ MovesForward

=============================================================================
