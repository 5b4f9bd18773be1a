------------------------------ MODULE Transfers ------------------------------
(***************************************************************************)
(* Examples that move data: the distributed word count, the file servers,   *)
(* ttcp with and without an event loop, the client of Redis, and the        *)
(* download over several connections with libcurl.                          *)
(***************************************************************************)
EXTENDS Integers, SequencesExt, FiniteSetsExt, TLC

(***************************************************************************)
(* The word count. A hasher counts the words of its file and sends records  *)
(* to the receiver: the main thread fills a buffer, the loop thread owns    *)
(* the connection. Above the high water mark the main thread waits. A       *)
(* record is a line of two pieces here, which may arrive one by one.        *)
(***************************************************************************)
CONSTANTS Hasher, TextOf,   \* the words of each hasher's file
          kMaxHashSize, BatchSize, WordMark,
          Texts             \* small texts

VARIABLES recordsLeft, wordBuffer,
          hasherAt,         \* main: "fill" | "throttle" | "asleep" | "send" | "latch" | "exited" | "crashed"
          congestion,
          hasherConn,       \* "up" | "closing" (shutdown() called) | "shut" (FIN sent) | "down"
          hasherCalls, hasherOut,   \* the loop's functors, the output buffer
          wordWire, wordInput, sendersUp, wordCounts,
          lostLinks

wordsVars == <<recordsLeft, wordBuffer, hasherAt, congestion, hasherConn, hasherCalls, hasherOut,
               wordWire, wordInput, sendersUp, wordCounts, lostLinks>>
hasherVars == <<recordsLeft, wordBuffer, hasherAt, congestion, hasherConn, hasherCalls, hasherOut>>

AddTo(counts, word, n) == IF word \in DOMAIN counts THEN [counts EXCEPT ![word] = @ + n] ELSE counts @@ (word :> n)
RecordsOf(counts) == [i \in 1 .. Cardinality(DOMAIN counts) |->
                        LET word == SetToSeq(DOMAIN counts)[i] IN [word |-> word, count |-> counts[word]]]
Piece(record, ends) == [record |-> record, ends |-> ends]

\* processFile: what has been counted is sent whenever the table is too large, and at the end.
HashFile(text) ==
    LET Count(acc, word) ==
            LET counts == AddTo(acc.counts, word, 1)
            IN  IF Cardinality(DOMAIN counts) > kMaxHashSize
                  THEN [sent |-> acc.sent \o RecordsOf(counts), counts |-> <<>>]
                  ELSE [acc EXCEPT !.counts = counts]
        last == FoldLeft(Count, [sent |-> <<>>, counts |-> <<>>], text)
    IN  last.sent \o RecordsOf(last.counts)

FillBuffer(h) ==
    /\ hasherAt[h] = "fill" /\ recordsLeft[h] # <<>>
    /\ recordsLeft' = [recordsLeft EXCEPT ![h] = Tail(@)]
    /\ LET r == Head(recordsLeft[h])
       IN  wordBuffer' = [wordBuffer EXCEPT ![h] = @ \o <<Piece(r, FALSE), Piece(r, TRUE)>>]
    /\ hasherAt' = [hasherAt EXCEPT ![h] = IF Len(wordBuffer'[h]) >= BatchSize THEN "throttle" ELSE @]
    /\ UNCHANGED <<congestion, hasherConn, hasherCalls, hasherOut>>

Throttle(h) ==
    /\ hasherAt[h] = "throttle"
    /\ hasherAt' = [hasherAt EXCEPT ![h] = IF congestion[h] THEN "asleep" ELSE "send"]
    /\ UNCHANGED <<recordsLeft, wordBuffer, congestion, hasherConn, hasherCalls, hasherOut>>

\* conn_ is null once the connection is down.
SendBatch(h) ==
    /\ hasherAt[h] = "send"
    /\ IF hasherConn[h] = "down"
         THEN hasherAt' = [hasherAt EXCEPT ![h] = "crashed"] /\ UNCHANGED <<wordBuffer, hasherCalls>>
         ELSE /\ hasherCalls' = [hasherCalls EXCEPT ![h] = Append(@, [call |-> "send", what |-> wordBuffer[h]])]
              /\ wordBuffer' = [wordBuffer EXCEPT ![h] = <<>>]
              /\ hasherAt' = [hasherAt EXCEPT ![h] = "fill"]
    /\ UNCHANGED <<recordsLeft, congestion, hasherConn, hasherOut>>

\* What is left in the buffer.
LastBatch(h) == IF wordBuffer[h] = <<>> THEN <<>> ELSE <<[call |-> "send", what |-> wordBuffer[h]]>>

Disconnect(h) ==
    /\ hasherAt[h] = "fill" /\ recordsLeft[h] = <<>>
    /\ IF hasherConn[h] = "down"
         THEN hasherAt' = [hasherAt EXCEPT ![h] = "crashed"] /\ UNCHANGED hasherCalls
         ELSE /\ hasherCalls' = [hasherCalls EXCEPT ![h] = @ \o LastBatch(h) \o <<[call |-> "shutdown"]>>]
              /\ hasherAt' = [hasherAt EXCEPT ![h] = "latch"]
    /\ UNCHANGED <<recordsLeft, wordBuffer, congestion, hasherConn, hasherOut>>

HasherExits(h) ==
    /\ hasherAt[h] = "latch" /\ hasherConn[h] = "down"
    /\ hasherAt' = [hasherAt EXCEPT ![h] = "exited"]
    /\ UNCHANGED <<recordsLeft, wordBuffer, congestion, hasherConn, hasherCalls, hasherOut>>

HasherMain(h) == (FillBuffer(h) \/ Throttle(h) \/ SendBatch(h) \/ Disconnect(h) \/ HasherExits(h))
                 /\ UNCHANGED <<wordWire, wordInput, sendersUp, wordCounts, lostLinks>>

\* Code that clears congestion_ and tells nobody, and the code.
TellsNobody(h) == hasherAt
Tells(h) == IF congestion[h] /\ hasherAt[h] = "asleep" THEN [hasherAt EXCEPT ![h] = "throttle"] ELSE hasherAt

\* A functor of the loop thread; the kernel takes n pieces of a message at once.
HasherFunctor(h) ==
    /\ hasherCalls[h] # <<>>
    /\ LET c == Head(hasherCalls[h]) old == Len(hasherOut[h])
       IN  \/ /\ c.call = "send" /\ hasherConn[h] # "down"
              /\ \E n \in IF old > 0 THEN {0} ELSE {0, Len(c.what)} :
                    LET rest == Len(c.what) - n
                        high == rest > 0 /\ old < WordMark /\ old + rest >= WordMark
                    IN  /\ wordWire' = [wordWire EXCEPT ![h] = @ \o SubSeq(c.what, 1, n)]
                        /\ hasherOut' = [hasherOut EXCEPT ![h] = @ \o SubSeq(c.what, n + 1, Len(c.what))]
                        /\ hasherCalls' = [hasherCalls EXCEPT ![h] =
                              Tail(@) \o IF rest = 0 THEN <<[call |-> "complete"]>>
                                         ELSE IF high THEN <<[call |-> "high"]>> ELSE <<>>]
              /\ UNCHANGED <<congestion, hasherAt, hasherConn>>
           \/ /\ c.call = "send" /\ hasherConn[h] = "down"
              /\ hasherCalls' = [hasherCalls EXCEPT ![h] = Tail(@)]
              /\ UNCHANGED <<congestion, hasherAt, hasherConn, hasherOut, wordWire>>
           \/ /\ c.call = "high" /\ congestion' = [congestion EXCEPT ![h] = TRUE]
              /\ hasherCalls' = [hasherCalls EXCEPT ![h] = Tail(@)]
              /\ UNCHANGED <<hasherAt, hasherConn, hasherOut, wordWire>>
           \/ /\ c.call = "complete" /\ congestion' = [congestion EXCEPT ![h] = FALSE] /\ hasherAt' = Tells(h)
              /\ hasherCalls' = [hasherCalls EXCEPT ![h] = Tail(@)]
              /\ UNCHANGED <<hasherConn, hasherOut, wordWire>>
           \/ /\ c.call = "shutdown"
              /\ hasherConn' = [hasherConn EXCEPT ![h] = IF @ = "down" THEN @ ELSE IF old = 0 THEN "shut" ELSE "closing"]
              /\ hasherCalls' = [hasherCalls EXCEPT ![h] = Tail(@)]
              /\ UNCHANGED <<congestion, hasherAt, hasherOut, wordWire>>
    /\ UNCHANGED <<recordsLeft, wordBuffer, wordInput, sendersUp, wordCounts, lostLinks>>

\* handleWrite
HasherWrites(h) ==
    /\ hasherOut[h] # <<>> /\ hasherConn[h] \in {"up", "closing"}
    /\ \E n \in {1, Len(hasherOut[h])} :
          /\ wordWire' = [wordWire EXCEPT ![h] = @ \o SubSeq(hasherOut[h], 1, n)]
          /\ hasherOut' = [hasherOut EXCEPT ![h] = SubSeq(@, n + 1, Len(@))]
    /\ IF hasherOut'[h] # <<>> THEN UNCHANGED <<hasherCalls, hasherConn>>
       ELSE /\ hasherCalls' = [hasherCalls EXCEPT ![h] = Append(@, [call |-> "complete"])]
            /\ hasherConn' = [hasherConn EXCEPT ![h] = IF @ = "closing" THEN "shut" ELSE @]
    /\ UNCHANGED <<recordsLeft, wordBuffer, hasherAt, congestion, wordInput, sendersUp, wordCounts, lostLinks>>

\* WordCountReceiver::onMessage: all lines that are complete.
WordsArrive(h) ==
    /\ h \in sendersUp /\ wordWire[h] # <<>>
    /\ LET input == wordInput[h] \o wordWire[h]
           last == Max({0} \cup {i \in DOMAIN input : input[i].ends})
           TakeLine(counts, piece) == IF piece.ends THEN AddTo(counts, piece.record.word, piece.record.count) ELSE counts
       IN  /\ wordCounts' = FoldLeft(TakeLine, wordCounts, SubSeq(input, 1, last))
           /\ wordInput' = [wordInput EXCEPT ![h] = SubSeq(input, last + 1, Len(input))]
           /\ wordWire' = [wordWire EXCEPT ![h] = <<>>]
    /\ UNCHANGED <<hasherVars, sendersUp, lostLinks>>

\* onConnection (down), of the receiver and then of the hasher. When the last sender has
\* gone the shard is written.
SenderGone(h) ==
    /\ h \in sendersUp /\ hasherConn[h] = "shut" /\ wordWire[h] = <<>>
    /\ sendersUp' = sendersUp \ {h}
    /\ UNCHANGED <<hasherVars, wordWire, wordInput, wordCounts, lostLinks>>
HasherDown(h) ==
    /\ hasherConn[h] # "down" /\ h \notin sendersUp
    /\ hasherConn' = [hasherConn EXCEPT ![h] = "down"]
    /\ hasherOut' = [hasherOut EXCEPT ![h] = <<>>]
    /\ UNCHANGED <<recordsLeft, wordBuffer, hasherAt, congestion, hasherCalls,
                   wordWire, wordInput, sendersUp, wordCounts, lostLinks>>

\* The receiver sees it first; what is under way is lost.
WordLinkLost(h) ==
    /\ h \in sendersUp /\ sendersUp' = sendersUp \ {h} /\ lostLinks' = lostLinks \cup {h}
    /\ wordWire' = [wordWire EXCEPT ![h] = <<>>] /\ wordInput' = [wordInput EXCEPT ![h] = <<>>]
    /\ UNCHANGED <<hasherVars, wordCounts>>

HasherLoop(h) == HasherFunctor(h) \/ HasherWrites(h) \/ HasherDown(h)

WordsInit ==
    /\ recordsLeft = [h \in Hasher |-> HashFile(TextOf[h])] /\ wordBuffer = [h \in Hasher |-> <<>>]
    /\ hasherAt = [h \in Hasher |-> "fill"] /\ congestion = [h \in Hasher |-> FALSE]
    /\ hasherConn = [h \in Hasher |-> "up"] /\ hasherCalls = [h \in Hasher |-> <<>>]
    /\ hasherOut = [h \in Hasher |-> <<>>] /\ wordWire = [h \in Hasher |-> <<>>]
    /\ wordInput = [h \in Hasher |-> <<>>] /\ sendersUp = Hasher /\ wordCounts = <<>> /\ lostLinks = {}

WordsNext == \E h \in Hasher : HasherMain(h) \/ HasherLoop(h) \/ WordsArrive(h) \/ SenderGone(h) \/ WordLinkLost(h)

\* However the table is cut, the records of a text have its words. No word is counted more often than it is in the files, and when the last hasher has gone
\* and no connection was lost every word is counted as often, whatever the size of the
\* table, the batches and the pieces in which they came.
Occurrences(word, text) == Cardinality({i \in DOMAIN text : text[i] = word})
Added(records) == LET Add(counts, r) == AddTo(counts, r.word, r.count) IN FoldLeft(Add, <<>>, records)
TotalOf(word) == MapThenSumSet(LAMBDA h : Occurrences(word, TextOf[h]), Hasher)

WordsRight ==
    /\ \A text \in Texts : Added(HashFile(text)) = [word \in ToSet(text) |-> Occurrences(word, text)]
    /\ \A word \in DOMAIN wordCounts : wordCounts[word] <= TotalOf(word)
    /\ sendersUp = {} /\ lostLinks = {} => wordCounts = [word \in UNION {ToSet(TextOf[h]) : h \in Hasher} |-> TotalOf(word)]

\* A hasher that waits for its connection to drain goes on, unless the connection is lost:
\* then nothing clears congestion_ and it waits for ever.
HasherResumes(h) == [asked |-> hasherAt[h] = "asleep", kept |-> hasherAt[h] # "asleep" \/ h \in lostLinks]
-----------------------------------------------------------------------------
(***************************************************************************)
(* The file servers. One sends the file in a message; two send a block and  *)
(* the next when the last has been written, with a plain FILE* that is      *)
(* closed when the connection goes down, or with one the connection shares. *)
(* A turn of the loop takes an event, then the functors there are.          *)
(***************************************************************************)
CONSTANTS File       \* the files: sequences of blocks, of which the last may be short

VARIABLES fileForm,  \* "whole" | "plain" | "shared"
          file,      \* what is to be sent, or no file
          fp,        \* [at, open]: the place in the file
          fileConn,  \* "new" | "up" | "closing" (shutdown() called) | "shut" (FIN sent) | "down"
          fileOut, fileGot,
          turnLeft, fileCalls,   \* how many onWriteComplete are left in this turn; and in all
          badRead                \* a FILE* was used after it was closed

filesVars == <<fileForm, file, fp, fileConn, fileOut, fileGot, turnLeft, fileCalls, badRead>>
NoFile == <<"none">>

\* fread, the next block; and what means that the file is at its end: a short block in
\* code that is wrong, nothing in the code.
NextBlock == IF fp.at < Len(file) THEN SubSeq(file, fp.at + 1, fp.at + 1) ELSE <<>>
ShortBlock(block) == block = <<>> \/ block = <<"short">>
NoBlock(block) == block = <<>>

\* send() by the loop thread: the kernel takes some of it or all of it.
FileSend(blocks, calls) ==
    \E n \in IF fileOut = <<>> THEN {0, Len(blocks)} ELSE {0} :
        /\ fileGot' = fileGot \o SubSeq(blocks, 1, n)
        /\ fileOut' = fileOut \o SubSeq(blocks, n + 1, Len(blocks))
        /\ fileCalls' = IF fileForm # "whole" /\ n = Len(blocks) /\ fileOut = <<>> THEN calls + 1 ELSE calls

\* onConnection; the file is read whole or its first block is.
FileConnected ==
    /\ fileConn = "new" /\ turnLeft = 0
    /\ IF fileForm = "whole"
         THEN /\ FileSend(IF file = NoFile THEN <<>> ELSE file, fileCalls)
              /\ fileConn' = (IF fileOut' = <<>> THEN "shut" ELSE "closing") /\ UNCHANGED fp
         ELSE IF file = NoFile
           THEN fileConn' = "shut" /\ UNCHANGED <<fp, fileGot, fileOut, fileCalls>>
           ELSE /\ FileSend(NextBlock, fileCalls) /\ fileConn' = "up"
                /\ fp' = [at |-> Min({1, Len(file)}), open |-> TRUE]
    /\ turnLeft' = fileCalls'
    /\ UNCHANGED <<fileForm, file, badRead>>

\* handleWrite
FileWrites ==
    /\ fileConn \in {"up", "closing"} /\ fileOut # <<>> /\ turnLeft = 0
    /\ fileGot' = Append(fileGot, Head(fileOut)) /\ fileOut' = Tail(fileOut)
    /\ fileCalls' = IF fileOut' = <<>> /\ fileForm # "whole" THEN fileCalls + 1 ELSE fileCalls
    /\ fileConn' = IF fileOut' = <<>> /\ fileConn = "closing" THEN "shut" ELSE fileConn
    /\ turnLeft' = fileCalls'
    /\ UNCHANGED <<fileForm, file, fp, badRead>>

\* The user has it all, or goes away: handleClose, and onConnection with the plain FILE*.
FileUserGone ==
    /\ fileConn \in {"up", "closing", "shut"} /\ turnLeft = 0
    /\ fileConn' = "down" /\ fileOut' = <<>>
    /\ fp' = IF fileForm = "plain" THEN [fp EXCEPT !.open = FALSE] ELSE fp
    /\ turnLeft' = fileCalls
    /\ UNCHANGED <<fileForm, file, fileGot, fileCalls, badRead>>

NothingToPoll ==
    /\ turnLeft = 0 /\ fileCalls > 0 /\ turnLeft' = fileCalls
    /\ UNCHANGED <<fileForm, file, fp, fileConn, fileOut, fileGot, fileCalls, badRead>>

\* onWriteComplete
FileWriteComplete ==
    /\ turnLeft > 0 /\ turnLeft' = turnLeft - 1
    /\ badRead' = (badRead \/ ~fp.open)
    /\ LET block == NextBlock
       IN  IF ~NoBlock(block)
             THEN /\ fp' = [fp EXCEPT !.at = @ + 1] /\ UNCHANGED fileConn
                  /\ IF fileConn = "up" THEN FileSend(block, fileCalls - 1)
                     ELSE fileCalls' = fileCalls - 1 /\ UNCHANGED <<fileGot, fileOut>>
             ELSE /\ fp' = IF fileForm = "plain" THEN [fp EXCEPT !.open = FALSE] ELSE fp
                  /\ fileConn' = IF fileConn = "up" THEN "shut" ELSE fileConn
                  /\ fileCalls' = fileCalls - 1 /\ UNCHANGED <<fileGot, fileOut>>
    /\ UNCHANGED <<fileForm, file>>

FilesInit ==
    /\ fileForm \in {"whole", "plain", "shared"} /\ file \in File \cup {NoFile}
    /\ fp = [at |-> 0, open |-> FALSE] /\ fileConn = "new" /\ fileOut = <<>> /\ fileGot = <<>>
    /\ turnLeft = 0 /\ fileCalls = 0 /\ badRead = FALSE

FilesNext == FileConnected \/ FileWrites \/ FileUserGone \/ NothingToPoll \/ FileWriteComplete

\* A user is sent the file from its beginning, in order and nothing else, and all of it
\* before the end of the stream; and a shared FILE* is never used when it is closed. (A
\* plain one is: after the connection has gone down a last onWriteComplete may run.)
FilesRight ==
    /\ file # NoFile => IsPrefix(fileGot, file) /\ (fileConn = "shut" => fileGot = file)
    /\ file = NoFile => fileGot = <<>>
    /\ fileForm = "shared" => ~badRead
-----------------------------------------------------------------------------
(***************************************************************************)
(* ttcp over an event loop: so many blocks of so many bytes, each with its   *)
(* length before it and answered by it. On the way are items of four bytes. *)
(***************************************************************************)
CONSTANTS TtcpOptions      \* what the user asks for: [number, length], length in items

VARIABLES ttcp,      \* TtcpOptions
          transCount, transBytes, transConn, recvConn,
          recvSession, recvCount, recvBytes,
          toRecv, recvBuffer, toTrans   \* on the way, in the input buffer, answers on the way

ttcpVars == <<ttcp, transCount, transBytes, transConn, recvConn, recvSession, recvCount, recvBytes,
              toRecv, recvBuffer, toTrans>>
NoSession == [number |-> 0, length |-> 0]
BlockOf(length) == <<length>> \o [i \in 1 .. length |-> -1]

\* trans::onConnection
TtcpInit ==
    /\ ttcp \in TtcpOptions /\ transCount = 1 /\ transBytes = ttcp.length /\ transConn = "up" /\ recvConn = "up"
    /\ recvSession = NoSession /\ recvCount = 0 /\ recvBytes = 0
    /\ toRecv = <<ttcp.number, ttcp.length>> \o BlockOf(ttcp.length) /\ recvBuffer = <<>> /\ toTrans = <<>>

TtcpArrives ==
    /\ toRecv # <<>>
    /\ \E n \in 1 .. Len(toRecv) : /\ recvBuffer' = recvBuffer \o SubSeq(toRecv, 1, n)
                                   /\ toRecv' = SubSeq(toRecv, n + 1, Len(toRecv))
    /\ UNCHANGED <<ttcp, transCount, transBytes, transConn, recvConn, recvSession, recvCount, recvBytes, toTrans>>

\* receiving::onMessage, a turn of its loop: the session first, which is unknown as long as
\* both its numbers are 0, then blocks that have come whole.
ReceiveSession ==
    /\ recvConn = "up" /\ recvSession = NoSession /\ Len(recvBuffer) >= 2
    /\ recvSession' = [number |-> recvBuffer[1], length |-> recvBuffer[2]]
    /\ recvBuffer' = SubSeq(recvBuffer, 3, Len(recvBuffer))
    /\ UNCHANGED <<ttcp, transCount, transBytes, transConn, recvConn, recvCount, recvBytes, toRecv, toTrans>>

\* Code that takes a block when its length is there, and the code.
LengthIsThere(length) == Len(recvBuffer) >= 1
BlockIsThere(length) == Len(recvBuffer) >= length + 1

ReceiveBlock ==
    /\ recvConn = "up" /\ recvSession # NoSession /\ recvBuffer # <<>>
    /\ LET length == Head(recvBuffer)
       IN  IF length # recvSession.length
             THEN recvConn' = "shut" /\ UNCHANGED <<recvBuffer, recvCount, recvBytes, toTrans>>
             ELSE /\ BlockIsThere(length)
                  /\ recvBuffer' = SubSeq(recvBuffer, length + 2, Len(recvBuffer))
                  /\ toTrans' = Append(toTrans, recvSession.length)
                  /\ recvCount' = recvCount + 1 /\ recvBytes' = recvBytes + length
                  /\ recvConn' = IF recvCount' >= recvSession.number THEN "shut" ELSE recvConn
    /\ UNCHANGED <<ttcp, transCount, transBytes, transConn, recvSession, toRecv>>

\* trans::onMessage
TransmitNext ==
    /\ transConn = "up" /\ toTrans # <<>> /\ toTrans' = Tail(toTrans)
    /\ IF Head(toTrans) = ttcp.length /\ transCount < ttcp.number
         THEN /\ toRecv' = toRecv \o BlockOf(ttcp.length)
              /\ transCount' = transCount + 1 /\ transBytes' = transBytes + ttcp.length /\ UNCHANGED transConn
         ELSE transConn' = "shut" /\ UNCHANGED <<toRecv, transCount, transBytes>>
    /\ UNCHANGED <<ttcp, recvConn, recvSession, recvCount, recvBytes, recvBuffer>>

\* handleRead has read 0 and handleClose calls onConnection, which quits the loop.
TtcpDown ==
    /\ \/ recvConn = "shut" /\ toTrans = <<>> /\ transConn \in {"up", "shut"} /\ transConn' = "down" /\ UNCHANGED recvConn
       \/ transConn \in {"shut", "down"} /\ toRecv = <<>> /\ recvConn # "down" /\ recvConn' = "down" /\ UNCHANGED transConn
    /\ UNCHANGED <<ttcp, transCount, transBytes, recvSession, recvCount, recvBytes, toRecv, recvBuffer, toTrans>>

TtcpNext == TtcpArrives \/ ReceiveSession \/ ReceiveBlock \/ TransmitNext \/ TtcpDown

\* Both sides count the same bytes when both have ended, which are those that were asked
\* for (one block if none was), and neither ends before; when nothing is on the way and
\* nothing can be taken both have ended. With neither a number nor a length the receiver
\* takes the session for none and both would wait.
TtcpRight ==
    /\ (recvConn # "up" \/ transConn # "up") =>
          recvBytes = transBytes /\ recvCount = Max({1, ttcp.number}) /\ recvBytes = recvCount * ttcp.length
    /\ recvBytes <= transBytes
    /\ toRecv = <<>> /\ toTrans = <<>> /\ recvBuffer = <<>> => (recvConn # "up" \/ transConn # "up")
-----------------------------------------------------------------------------
(***************************************************************************)
(* The client of Redis: the glue between the asynchronous API of hiredis     *)
(* and a channel. hiredis calls the client from inside a handler, one call   *)
(* after the other, and the client's user runs in between.                  *)
(***************************************************************************)
CONSTANT MaxCommands   \* bound

VARIABLES redisContext,  \* "none" | "connecting" | "connected" | "disconnecting" | "freeing" | "freed"
          redisChannel,  \* channel_: 0, or the number of the channel
          asks,          \* what each channel asks the poller for, of "read" and "write"
          kept,          \* the channels held by a queued functor
          onStack,       \* whose handler runs
          redisCalls,    \* what this handler still calls; "user": the user's callback
          issued, waiting, replied   \* commands; without and with their callback run

commandVars == <<issued, waiting, replied>>
redisVars == <<redisContext, redisChannel, asks, kept, onStack, redisCalls, commandVars>>

\* The flag REDIS_CONNECTED, which stays, and connected().
FlagConnected == redisContext \in {"connected", "disconnecting", "freeing"}
Connected == redisChannel # 0 /\ FlagConnected

Calling == IF redisCalls = <<>> THEN "none" ELSE Head(redisCalls)
Calls(call, more) == Calling = call /\ redisCalls' = more \o Tail(redisCalls)

SetChannel == redisChannel = 0 /\ redisChannel' = IF redisContext = "none" THEN 1 ELSE 2

\* The functor of removeChannel: code that queues none, and the code.
DropsChannel == kept
KeepsChannel == kept \cup {redisChannel}
RemoveChannel == /\ asks' = [asks EXCEPT ![redisChannel] = {}]
                 /\ kept' = KeepsChannel /\ redisChannel' = 0

\* hiredis asks for writing when it is given the callback.
RedisConnect ==
    /\ redisContext = "none" /\ redisContext' = "connecting" /\ SetChannel
    /\ asks' = [asks EXCEPT ![1] = {"write"}]
    /\ UNCHANGED <<kept, onStack, redisCalls, commandVars>>

AddRead == Calls("addRead", <<>>) /\ asks' = [asks EXCEPT ![redisChannel] = @ \cup {"read"}]
AddWrite == Calls("addWrite", <<>>) /\ asks' = [asks EXCEPT ![redisChannel] = @ \cup {"write"}]
DelWrite == Calls("delWrite", <<>>) /\ asks' = [asks EXCEPT ![redisChannel] = @ \ {"write"}]
RedisUpdates == /\ AddRead \/ AddWrite \/ DelWrite
                /\ UNCHANGED <<redisContext, redisChannel, kept, onStack, commandVars>>

Event(event) ==
    /\ redisCalls = <<>> /\ onStack = {} /\ redisChannel # 0 /\ event \in asks[redisChannel]
    /\ onStack' = {redisChannel} /\ UNCHANGED <<redisContext, commandVars>>
RedisHandleRead == /\ Event("read") /\ redisCalls' = <<"asyncHandleRead">>
                   /\ UNCHANGED <<redisChannel, asks, kept>>
RedisHandleWrite == /\ Event("write") /\ redisCalls' = <<"asyncHandleWrite">>
                    /\ IF FlagConnected THEN UNCHANGED <<redisChannel, asks, kept>> ELSE RemoveChannel

\* hiredis frees its context: what waits is called with no reply, then disconnectCallback.
FreeCalls == FlattenSeq([i \in 1 .. waiting |-> <<"commandCallback", "user">>])
             \o <<"disconnectCallback", "user">>

\* hiredis finds out whether it is connected (connectCallback tells the user if it is not,
\* and does nothing else); then it writes what it can, or fails.
AsyncHandleWrite ==
    /\ \/ /\ redisContext = "connecting" /\ redisContext' = "connected"
          /\ Calls("asyncHandleWrite", <<"connectCallback", "user", "delWrite", "addRead">>)
       \/ /\ redisContext = "connecting" /\ redisContext' = "freed"
          /\ Calls("asyncHandleWrite", <<"user">>)
       \/ /\ FlagConnected /\ UNCHANGED redisContext
          /\ \E all \in BOOLEAN : Calls("asyncHandleWrite", <<IF all THEN "delWrite" ELSE "addWrite", "addRead">>)
       \/ FlagConnected /\ redisContext' = "freeing" /\ Calls("asyncHandleWrite", FreeCalls)
    /\ UNCHANGED <<redisChannel, asks, kept, onStack, commandVars>>

AsyncHandleRead ==
    /\ \/ Calls("asyncHandleRead", <<"addRead", "process">>) /\ UNCHANGED redisContext
       \/ Calls("asyncHandleRead", FreeCalls) /\ redisContext' = "freeing"
    /\ UNCHANGED <<redisChannel, asks, kept, onStack, commandVars>>

\* The replies that are there; the last one may end a connection that disconnects.
ProcessReplies ==
    /\ \/ waiting > 0 /\ Calls("process", <<"commandCallback", "user", "process">>) /\ UNCHANGED redisContext
       \/ /\ ~(redisContext = "disconnecting" /\ waiting = 0)
          /\ Calls("process", <<>>) /\ UNCHANGED redisContext
       \/ /\ redisContext = "disconnecting" /\ waiting = 0
          /\ Calls("process", FreeCalls) /\ redisContext' = "freeing"
    /\ UNCHANGED <<redisChannel, asks, kept, onStack, commandVars>>

ConnectCallback == /\ Calls("connectCallback", <<>>) /\ SetChannel
                   /\ UNCHANGED <<redisContext, asks, kept, onStack, commandVars>>

DisconnectCallback == /\ Calls("disconnectCallback", <<>>) /\ RemoveChannel /\ redisContext' = "freed"
                      /\ UNCHANGED <<onStack, commandVars>>

CommandCallback == /\ Calls("commandCallback", <<>>) /\ waiting' = waiting - 1 /\ replied' = replied + 1
                   /\ UNCHANGED <<redisContext, redisChannel, asks, kept, onStack, issued>>

\* The user runs in its callbacks and between the handlers.
UserRuns == Calling \in {"none", "user"}
UserReturns == Calls("user", <<>>) /\ UNCHANGED <<redisContext, redisChannel, asks, kept, onStack, commandVars>>

\* hiredis refuses it once it disconnects.
Command ==
    /\ UserRuns /\ Connected /\ redisContext = "connected" /\ issued < MaxCommands
    /\ issued' = issued + 1 /\ waiting' = waiting + 1
    /\ asks' = [asks EXCEPT ![redisChannel] = @ \cup {"write"}]
    /\ UNCHANGED <<redisContext, redisChannel, kept, onStack, redisCalls, replied>>

\* Between the handlers or in the callback of a command; hiredis waits for the replies,
\* and for the end of the callback.
RedisDisconnect ==
    /\ Calling = "none" \/ (Calling = "user" /\ Last(redisCalls) = "process")
    /\ Connected /\ redisContext = "connected"
    /\ IF waiting = 0 /\ redisCalls = <<>> THEN redisContext' = "freeing" /\ redisCalls' = FreeCalls
       ELSE redisContext' = "disconnecting" /\ UNCHANGED redisCalls
    /\ UNCHANGED <<redisChannel, asks, kept, onStack, commandVars>>

\* The handler has returned and the functors run.
HandlerReturns ==
    /\ redisCalls = <<>> /\ onStack \cup kept # {} /\ onStack' = {} /\ kept' = {}
    /\ UNCHANGED <<redisContext, redisChannel, asks, redisCalls, commandVars>>

RedisInit == /\ redisContext = "none" /\ redisChannel = 0 /\ asks = [c \in 1 .. 2 |-> {}]
             /\ kept = {} /\ onStack = {} /\ redisCalls = <<>>
             /\ issued = 0 /\ waiting = 0 /\ replied = 0

RedisNext ==
    \/ RedisConnect \/ RedisUpdates \/ RedisHandleRead \/ RedisHandleWrite \/ AsyncHandleWrite \/ AsyncHandleRead
    \/ ProcessReplies \/ ConnectCallback \/ DisconnectCallback \/ CommandCallback
    \/ UserReturns \/ Command \/ RedisDisconnect \/ HandlerReturns

\* The callback of an issued command runs once, with a reply or when the connection is
\* lost; a channel is not destroyed in its own handler nor left in the poller; a call of
\* hiredis that needs the channel finds one; and a connection is polled as long as it is up.
RedisRight ==
    /\ issued = waiting + replied /\ (redisContext = "freed" => waiting = 0)
    /\ onStack \subseteq kept \cup {redisChannel}
    /\ \A c \in DOMAIN asks : asks[c] # {} => c = redisChannel
    /\ Calling \in {"addRead", "addWrite", "delWrite", "disconnectCallback"} => redisChannel # 0
    /\ redisCalls = <<>> =>
          CASE redisContext \in {"none", "freed"} -> redisChannel = 0
            [] redisContext = "connecting" -> asks[1] = {"write"}
            [] OTHER -> "read" \in asks[redisChannel]
-----------------------------------------------------------------------------
(***************************************************************************)
(* The download: the head of the file first, then its pieces over their own  *)
(* connections or the file over one. libcurl tells the glue what to poll and *)
(* when to call it, and leaves a message for each transfer that has ended.   *)
(***************************************************************************)
CONSTANTS kConcurrent, MinPiece, Lengths, HeadAnswer   \* what the head may say

VARIABLES answer,       \* of HeadAnswer: [found, acceptRanges, length]
          transfer,     \* of each request "none" | "added" | "ended" | "done"
          socket,       \* its channel: "none" | "reads" | "writes" (and reads)
          channelKept, handlerOf,   \* requests whose removed channel a functor holds; whose handler runs
          curlTimer,    \* onTimer is to run
          curlAt,       \* "idle" | "action" | "check" | "read"
          concurrent, runningHandles, prevRunningHandles, quitted,
          unwritable    \* a file could not be created, which quits at once

curlVars == <<socket, channelKept, handlerOf, runningHandles, prevRunningHandles>>
pieceVars == <<concurrent, quitted, unwritable>>
downloadVars == <<answer, transfer, curlTimer, curlAt, curlVars, pieceVars>>
Part == 1 .. kConcurrent
HeadOnly == 0
Single == kConcurrent + 1
Request == HeadOnly .. Single
In(state) == {r \in Request : transfer[r] = state}

\* concurrentDownload: the first and the last byte of a piece. Code whose last piece is
\* as long as the others, and the code.
ShortLast(length) == kConcurrent * (length \div kConcurrent) - 1
LastByte(length) == length - 1

RangeOf(i, length) ==
    LET pieceLen == length \div kConcurrent
    IN  [from |-> (i - 1) * pieceLen, to |-> IF i < kConcurrent THEN i * pieceLen - 1 ELSE LastByte(length)]

\* onTimer, and onRead or onWrite of a request's channel, ask libcurl to go on.
OnTimer ==
    /\ curlAt = "idle" /\ ~quitted /\ handlerOf = {} /\ curlTimer
    /\ curlTimer' = FALSE /\ curlAt' = "action"
    /\ UNCHANGED <<answer, transfer, curlVars, pieceVars>>

OnReadOrWrite(r) ==
    /\ curlAt = "idle" /\ ~quitted /\ handlerOf = {} /\ socket[r] # "none"
    /\ handlerOf' = {r} /\ curlAt' = "action"
    /\ UNCHANGED <<answer, transfer, curlTimer, socket, channelKept, runningHandles, prevRunningHandles, pieceVars>>

\* socketCallback with setChannel, enableWriting or disableWriting, and with removeChannel.
SocketCallback(r) ==
    /\ curlAt = "action" /\ transfer[r] = "added"
    /\ \/ /\ \E what \in {"reads", "writes"} : socket' = [socket EXCEPT ![r] = what]
          /\ UNCHANGED channelKept
       \/ socket[r] # "none" /\ socket' = [socket EXCEPT ![r] = "none"] /\ channelKept' = channelKept \cup {r}
    /\ UNCHANGED <<answer, transfer, curlTimer, curlAt, handlerOf, runningHandles, prevRunningHandles, pieceVars>>

TimerCallback ==
    /\ curlAt = "action" /\ curlTimer' = TRUE
    /\ UNCHANGED <<answer, transfer, curlAt, curlVars, pieceVars>>

\* libcurl ends a transfer that it polls no more, and leaves a message.
TransferEnds(r) ==
    /\ curlAt = "action" /\ transfer[r] = "added" /\ socket[r] = "none"
    /\ transfer' = [transfer EXCEPT ![r] = "ended"]
    /\ UNCHANGED <<answer, curlTimer, curlAt, curlVars, pieceVars>>

\* libcurl returns the number of transfers that have not ended, each of which has a
\* socket or waits for the timer.
ActionReturns ==
    /\ curlAt = "action" /\ (curlTimer \/ \A r \in In("added") : socket[r] # "none")
    /\ curlAt' = "check" /\ runningHandles' = Cardinality(In("added"))
    /\ UNCHANGED <<answer, transfer, curlTimer, socket, channelKept, handlerOf, prevRunningHandles, pieceVars>>

\* checkFinish: code that waits for the number of running transfers to fall, and the code.
HasFallen == prevRunningHandles > runningHandles
MayHaveEnded == prevRunningHandles > runningHandles \/ runningHandles = 0

CheckFinish ==
    /\ curlAt = "check"
    /\ IF MayHaveEnded THEN curlAt' = "read" /\ UNCHANGED prevRunningHandles
       ELSE curlAt' = "idle" /\ prevRunningHandles' = runningHandles
    /\ UNCHANGED <<answer, transfer, curlTimer, socket, channelKept, handlerOf, runningHandles, pieceVars>>

\* A request that is done; getUrl adds others, for which libcurl calls timerCallback.
DoneAndAdd(r, rs) ==
    /\ transfer' = [q \in Request |-> IF q = r THEN "done" ELSE IF q \in rs THEN "added" ELSE transfer[q]]
    /\ curlTimer' = (curlTimer \/ rs # {})

\* concurrentDownload: the loop goes on after a file that could not be created.
ConcurrentDownload ==
    \E lacking \in SUBSET Part :
        /\ DoneAndAdd(HeadOnly, Part \ lacking) /\ concurrent' = kConcurrent
        /\ unwritable' = (lacking # {}) /\ quitted' = (quitted \/ lacking # {})

SingleDownload ==
    \/ DoneAndAdd(HeadOnly, {Single}) /\ concurrent' = 1 /\ UNCHANGED <<unwritable, quitted>>
    \/ DoneAndAdd(HeadOnly, {}) /\ unwritable' = TRUE /\ quitted' = TRUE /\ UNCHANGED concurrent

\* The answer may have ranges and a length also if the file was not found.
OnHeaderDone ==
    IF answer.acceptRanges /\ answer.length >= kConcurrent * MinPiece THEN ConcurrentDownload
    ELSE IF answer.found THEN SingleDownload
    ELSE DoneAndAdd(HeadOnly, {}) /\ quitted' = TRUE /\ UNCHANGED <<concurrent, unwritable>>

\* Piece::onDone with onDownloadDone: nobody looks at the code.
OnDownloadDone(r) == /\ DoneAndAdd(r, {}) /\ concurrent' = concurrent - 1
                     /\ quitted' = (quitted \/ concurrent' <= 0) /\ UNCHANGED unwritable

ReadMessage(r) ==
    /\ curlAt = "read" /\ transfer[r] = "ended"
    /\ IF r = HeadOnly THEN OnHeaderDone ELSE OnDownloadDone(r)
    /\ UNCHANGED <<answer, curlAt, curlVars>>
NoMessage ==
    /\ curlAt = "read" /\ In("ended") = {}
    /\ curlAt' = "idle" /\ prevRunningHandles' = runningHandles
    /\ UNCHANGED <<answer, transfer, curlTimer, socket, channelKept, handlerOf, runningHandles, pieceVars>>

\* The handler has returned and the functors of removeChannel run.
ChannelsFreed ==
    /\ curlAt = "idle" /\ handlerOf \cup channelKept # {} /\ handlerOf' = {} /\ channelKept' = {}
    /\ UNCHANGED <<answer, transfer, curlTimer, curlAt, socket, runningHandles, prevRunningHandles, pieceVars>>

DownloadInit ==
    /\ answer \in HeadAnswer /\ transfer = [r \in Request |-> IF r = HeadOnly THEN "added" ELSE "none"]
    /\ socket = [r \in Request |-> "none"] /\ channelKept = {} /\ handlerOf = {}
    /\ curlTimer = TRUE /\ curlAt = "idle" /\ runningHandles = 0 /\ prevRunningHandles = 0
    /\ concurrent = 0 /\ quitted = FALSE /\ unwritable = FALSE

DownloadNext ==
    \/ OnTimer \/ TimerCallback \/ ActionReturns \/ CheckFinish \/ NoMessage \/ ChannelsFreed
    \/ \E r \in Request : OnReadOrWrite(r) \/ SocketCallback(r) \/ TransferEnds(r) \/ ReadMessage(r)

\* The ranges of the pieces are the bytes of the file, each once; the program quits when
\* all that was begun is done (also if it failed: the code of onDone is not looked at),
\* not before, and never waits for a message that nobody will read; and a channel that is
\* removed in its own handler is not destroyed there.
DownloadRight ==
    /\ \A length \in Lengths : \A b \in 0 .. length - 1 :
          Cardinality({i \in Part : RangeOf(i, length).from <= b /\ b <= RangeOf(i, length).to}) = 1
    /\ quitted /\ curlAt = "idle" /\ ~unwritable => \A r \in Request : transfer[r] \in {"none", "done"}
    /\ ~quitted /\ curlAt = "idle" => In("added") # {}
    /\ \A r \in handlerOf : socket[r] # "none" \/ r \in channelKept
=============================================================================
