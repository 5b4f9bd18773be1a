------------------------------- MODULE Logging -------------------------------
(***************************************************************************)
(* muduo's AsyncLogging: threads append lines to the current of two         *)
(* buffers, the back end swaps the full ones out under the mutex and writes *)
(* them without it. Two spare buffers of the back end refill what the swap  *)
(* takes. A line is its number; a buffer has room for BufferLines of them.  *)
(***************************************************************************)
EXTENDS Naturals, SequencesExt

CONSTANTS BufferLines,  \* lines of a kLargeBuffer
          DropOver,     \* 25 of the code: with more buffers all but two are dropped
          MaxLines      \* bound: lines that are logged

ASSUME BufferLimits == BufferLines \in Nat \ {0} /\ DropOver \in Nat \ {0, 1}

VARIABLES currentBuffer, nextBuffer,   \* lines; whether nextBuffer_ is there
          buffers,                     \* full buffers, lines each
          newBuffer1, newBuffer2,      \* whether the spare buffers are there
          toWrite,                     \* buffersToWrite
          output,                      \* the lines in the file
          lines, dropped,              \* lines appended; those dropped
          logging,                     \* running_
          backEnd,                     \* where threadFunc() is
          closer                       \* the thread in stop()

logVars == <<currentBuffer, nextBuffer, buffers, newBuffer1, newBuffer2, toWrite,
             output, lines, dropped, logging, backEnd, closer>>

\* Code that puts the newest buffer first.
InFront(bs, b) == <<b>> \o bs
PushBack(bs, b) == Append(bs, b)

AppendLine ==
    /\ lines < MaxLines /\ lines' = lines + 1
    /\ IF Len(currentBuffer) < BufferLines
         THEN /\ currentBuffer' = Append(currentBuffer, lines')
              /\ UNCHANGED <<buffers, nextBuffer, backEnd>>
         ELSE /\ buffers' = PushBack(buffers, currentBuffer)
              /\ nextBuffer' = FALSE        \* moved, or there was none: a new one
              /\ currentBuffer' = <<lines'>>
              /\ backEnd' = IF backEnd = "waiting" THEN "swap" ELSE backEnd   \* notify
    /\ UNCHANGED <<newBuffer1, newBuffer2, toWrite, output, dropped, logging, closer>>

StartLogging ==
    /\ closer = "new" /\ backEnd = "new"
    /\ logging' = TRUE /\ backEnd' = "top" /\ closer' = "idle"
    /\ UNCHANGED <<currentBuffer, nextBuffer, buffers, newBuffer1, newBuffer2, toWrite,
                   output, lines, dropped>>

\* while (running_), read without the mutex.
TopOfLoop ==
    /\ backEnd = "top"
    /\ backEnd' = IF logging THEN "lock" ELSE "exit"
    /\ UNCHANGED <<currentBuffer, nextBuffer, buffers, newBuffer1, newBuffer2, toWrite,
                   output, lines, dropped, logging, closer>>

\* With no full buffer it waits, once, for flushInterval_ at most.
WaitForBuffers ==
    /\ backEnd = "lock" /\ buffers = <<>> /\ backEnd' = "waiting"
    /\ UNCHANGED <<currentBuffer, nextBuffer, buffers, newBuffer1, newBuffer2, toWrite,
                   output, lines, dropped, logging, closer>>

FlushInterval ==
    /\ backEnd = "waiting" /\ backEnd' = "swap"
    /\ UNCHANGED <<currentBuffer, nextBuffer, buffers, newBuffer1, newBuffer2, toWrite,
                   output, lines, dropped, logging, closer>>

\* Whether the swap also gives a new next buffer: code that always does.
GivesAlways == TRUE
GivesNext == ~nextBuffer

SwapBuffers ==
    /\ \/ backEnd = "lock" /\ buffers # <<>>
       \/ backEnd = "swap"
    /\ toWrite' = Append(buffers, currentBuffer) /\ buffers' = <<>>
    /\ currentBuffer' = <<>> /\ newBuffer1' = FALSE
    /\ nextBuffer' = TRUE /\ newBuffer2' = ~GivesNext
    /\ backEnd' = "write"
    /\ UNCHANGED <<output, lines, dropped, logging, closer>>

\* What is kept of too many buffers: the first two.
Kept == IF Len(toWrite) > DropOver THEN SubSeq(toWrite, 1, 2) ELSE toWrite

\* The buffers are written and refill the spares, and the file is flushed.
WriteBuffers ==
    /\ backEnd = "write"
    /\ output' = output \o FlattenSeq(Kept)
    /\ dropped' = dropped \cup (ToSet(FlattenSeq(toWrite)) \ ToSet(FlattenSeq(Kept)))
    /\ toWrite' = <<>>
    /\ newBuffer1' = TRUE
    /\ newBuffer2' = (newBuffer2 \/ Len(Kept) >= 2)
    /\ backEnd' = "top"
    /\ UNCHANGED <<currentBuffer, nextBuffer, buffers, lines, logging, closer>>

StopLogging ==
    /\ closer = "idle" /\ closer' = "join" /\ logging' = FALSE
    /\ backEnd' = IF backEnd = "waiting" THEN "swap" ELSE backEnd
    /\ UNCHANGED <<currentBuffer, nextBuffer, buffers, newBuffer1, newBuffer2, toWrite,
                   output, lines, dropped>>

LoggingJoined ==
    /\ closer = "join" /\ backEnd = "exit" /\ closer' = "joined"
    /\ UNCHANGED <<currentBuffer, nextBuffer, buffers, newBuffer1, newBuffer2, toWrite,
                   output, lines, dropped, logging, backEnd>>

LogInit ==
    /\ currentBuffer = <<>> /\ nextBuffer = TRUE /\ buffers = <<>>
    /\ newBuffer1 = TRUE /\ newBuffer2 = TRUE /\ toWrite = <<>> /\ output = <<>>
    /\ lines = 0 /\ dropped = {} /\ logging = FALSE /\ backEnd = "new" /\ closer = "new"

BackEndGoesOn == TopOfLoop \/ WaitForBuffers \/ FlushInterval \/ SwapBuffers \/ WriteBuffers

LogNext == AppendLine \/ StartLogging \/ BackEndGoesOn \/ StopLogging \/ LoggingJoined

-----------------------------------------------------------------------------
Pending == FlattenSeq(toWrite) \o FlattenSeq(buffers) \o currentBuffer

LogTypeOK ==
    /\ currentBuffer \in Seq(1 .. MaxLines) /\ Len(currentBuffer) <= BufferLines
    /\ \A i \in DOMAIN buffers : Len(buffers[i]) = BufferLines
    /\ nextBuffer \in BOOLEAN /\ newBuffer1 \in BOOLEAN /\ newBuffer2 \in BOOLEAN
    /\ lines \in 0 .. MaxLines /\ dropped \subseteq 1 .. lines /\ logging \in BOOLEAN
    /\ backEnd \in {"new", "top", "lock", "waiting", "swap", "write", "exit"}
    /\ closer \in {"new", "idle", "join", "joined"}

\* The file and what is still to be written are the lines that were logged, in order
\* and once; only a drop leaves lines out, of the middle (AsyncLogging.cc:29, 90).
LinesInOrder == output \o Pending = SelectSeq([i \in 1 .. lines |-> i],
                                              LAMBDA l : l \notin dropped)

\* Both spares are there at the top of the loop, so that the assertions of
\* AsyncLogging.cc:64, 65 and 113, 120 hold.
SparesRefilled == /\ backEnd \in {"top", "lock", "waiting", "swap"} => newBuffer1 /\ newBuffer2
                  /\ backEnd = "write" => Len(toWrite) >= (IF newBuffer2 THEN 1 ELSE 2)

\* What is logged is written or dropped in the end, unless stop() is called. (What is
\* logged after the last swap before stop() is lost, AsyncLogging.cc:62.)
LineIsWritten == [asked |-> logging /\ Pending # <<>>, kept |-> ~logging \/ Pending = <<>>]

\* stop() returns, although it notifies without the mutex (AsyncLogging.h:45): the
\* back end never waits longer than flushInterval_.
LoggingStops == [asked |-> closer = "join", kept |-> closer = "joined"]

-----------------------------------------------------------------------------
(***************************************************************************)
(* muduo's LogFile: lines are appended to a file, and a new file is started *)
(* when the old one is too long or another period (a day) has begun, but    *)
(* never twice in a second, for the name of a file is its second. The time  *)
(* is looked at every CheckEvery lines. A line has the length 1.            *)
(***************************************************************************)
CONSTANTS RollSize,       \* rollSize_, in lines
          CheckEvery,     \* checkEveryN_
          FlushAfter,     \* flushInterval_, in seconds
          RollPerSeconds, \* kRollPerSeconds_
          LastSecond      \* bound of the clock

ASSUME LogFileLimits == CheckEvery \in Nat \ {0} /\ RollPerSeconds \in Nat \ {0}

VARIABLES wallClock,      \* time(NULL), which is not set back here
          files,          \* of each file its name, the seconds of its lines
          lineCount,      \* count_
          startOfPeriod, lastRoll, lastFlush,
          unflushed       \* the seconds of the lines in the buffer of the last file

fileVars == <<wallClock, files, lineCount, startOfPeriod, lastRoll, lastFlush, unflushed>>

Period(t) == (t \div RollPerSeconds) * RollPerSeconds

Written == Len(files[Len(files)].log)

\* Code that rolls in the second of the last roll too.
RollsAlways == TRUE
MayRoll == wallClock > lastRoll

\* rollFile(), of the files with the line just appended: the last one is closed, and
\* what it had buffered written; a new one is opened.
RollFile(all, buffered) ==
    IF MayRoll
      THEN /\ lastRoll' = wallClock /\ lastFlush' = wallClock
           /\ startOfPeriod' = Period(wallClock)
           /\ files' = Append(all, [name |-> wallClock, log |-> <<>>])
           /\ unflushed' = <<>>
      ELSE /\ files' = all /\ unflushed' = buffered
           /\ UNCHANGED <<lastRoll, lastFlush, startOfPeriod>>

LogAppend ==
    LET all == [files EXCEPT ![Len(files)].log = Append(@, wallClock)]
        buffered == Append(unflushed, wallClock)
    IN /\ \/ /\ Written + 1 > RollSize
             /\ RollFile(all, buffered)
             /\ UNCHANGED lineCount
          \/ /\ Written + 1 <= RollSize /\ lineCount + 1 < CheckEvery
             /\ lineCount' = lineCount + 1 /\ files' = all /\ unflushed' = buffered
             /\ UNCHANGED <<lastRoll, lastFlush, startOfPeriod>>
          \/ /\ Written + 1 <= RollSize /\ lineCount + 1 >= CheckEvery
             /\ lineCount' = 0
             /\ IF Period(wallClock) # startOfPeriod THEN RollFile(all, buffered)
                ELSE /\ files' = all /\ UNCHANGED <<lastRoll, startOfPeriod>>
                     /\ IF wallClock - lastFlush > FlushAfter
                          THEN lastFlush' = wallClock /\ unflushed' = <<>>
                          ELSE unflushed' = buffered /\ UNCHANGED lastFlush
       /\ UNCHANGED wallClock

\* flush(): what AsyncLogging calls after every batch.
LogFlush == /\ unflushed' = <<>>
            /\ UNCHANGED <<wallClock, files, lineCount, startOfPeriod, lastRoll, lastFlush>>

SecondPasses == /\ wallClock < LastSecond /\ wallClock' = wallClock + 1
                /\ UNCHANGED <<files, lineCount, startOfPeriod, lastRoll, lastFlush, unflushed>>

FileInit ==
    /\ wallClock = 1 /\ lineCount = 0 /\ unflushed = <<>>
    /\ files = <<[name |-> 1, log |-> <<>>]>>
    /\ startOfPeriod = Period(1) /\ lastRoll = 1 /\ lastFlush = 1

FileNext == \/ Len(files[Len(files)].log) <= RollSize + 1 /\ LogAppend
            \/ LogFlush \/ SecondPasses

-----------------------------------------------------------------------------
Late(l) == SelectSeq(l, LAMBDA t : Period(t) # startOfPeriod)

\* Two files never have the same name; only what is appended in the second a file was
\* opened makes it longer than RollSize and one line; fewer than CheckEvery lines of
\* another period get into a file; and a line older than FlushAfter seconds is in
\* the buffer only until the next check (LogFile.cc:60, 84).
FileBounds ==
    /\ \A i, j \in DOMAIN files : i # j => files[i].name # files[j].name
    /\ \A i \in DOMAIN files :
          Len(SelectSeq(files[i].log, LAMBDA t : t > files[i].name)) <= RollSize + 1
    /\ Len(Late(files[Len(files)].log)) < CheckEvery
    /\ Len(SelectSeq(unflushed, LAMBDA t : t - lastFlush > FlushAfter)) < CheckEvery

-----------------------------------------------------------------------------
(***************************************************************************)
(* Logger and LogStream, which make a line of the pieces that a thread puts *)
(* into a fixed buffer: a piece that does not fit is left out whole. The    *)
(* text of the current second is kept per thread (t_time, t_lastSecond). A  *)
(* line is its pieces, each with its length; the lengths are scaled down.   *)
(***************************************************************************)
CONSTANTS LogThread,
          kSmallBuffer, kMaxNumericSize, \* 4000 and 32
          MaxPieces,                     \* bound: pieces that are streamed into a line
          MaxPrinted                     \* bound: lines

ASSUME NumbersLeaveRoom == kMaxNumericSize \in Nat /\ kMaxNumericSize > 2

VARIABLES lineSecond,  \* the second of gettimeofday(), which may be set back
          logZone,     \* g_logTimeZone is valid
          logLevel,    \* g_logLevel
          stampOf,     \* t_lastSecond and t_time of each thread: second, zone
          logger,      \* the Logger of each thread, or none
          printed,     \* lines given to g_output
          flushed,     \* how many of them g_flush has written
          aborted

lineVars == <<lineSecond, logZone, logLevel, stampOf, logger, printed, flushed, aborted>>

NoLogger == [level |-> "none"]
Levels == {"DEBUG", "INFO", "FATAL"}

\* LOG_TRACE, LOG_DEBUG and LOG_INFO look at the level, the other macros do not.
LevelRank == [DEBUG |-> 1, INFO |-> 2, WARN |-> 3]
Shown(level) == level \in {"DEBUG", "INFO"} => LevelRank[logLevel] <= LevelRank[level]

LengthOf(pieces) == FoldLeft(LAMBDA n, p : n + p.len, 0, pieces)
Avail(pieces) == kSmallBuffer - LengthOf(pieces)

Text(what, n) == [what |-> what, len |-> n, number |-> FALSE]
Number(what, n) == [what |-> what, len |-> n, number |-> TRUE]

\* Code that looks whether the digits of a number fit, or fills the buffer to its end.
FitsJust(pieces, p) == Avail(pieces) >= p.len

\* FixedBuffer::append, and formatInteger, which wants room for any number.
Fits(pieces, p) == IF p.number THEN Avail(pieces) >= kMaxNumericSize ELSE Avail(pieces) > p.len

\* LogStream::operator<<
Streamed(pieces, p) == IF Fits(pieces, p) THEN Append(pieces, p) ELSE pieces
StreamedAll(pieces, ps) == FoldLeft(Streamed, pieces, ps)

\* Code that takes a clock that was set back for the same second.
LaterSecond(t) == lineSecond > stampOf[t].second
NewSecond(t) == lineSecond # stampOf[t].second

\* Logger::Impl::Impl and formatTime: t_time is made anew in another second; the
\* microseconds say with a Z that the time is UTC.
Header == <<Text("time", 2), Text("micro", IF logZone THEN 1 ELSE 2),
            Text("tid", 1), Text("level", 1)>>

NewLogger(t, level) ==
    LET stamp == IF NewSecond(t) THEN [second |-> lineSecond, zone |-> logZone] ELSE stampOf[t]
    IN  /\ logger[t] = NoLogger /\ Shown(level) /\ ~aborted
        /\ Len(printed) < MaxPrinted
        /\ stampOf' = [stampOf EXCEPT ![t] = stamp]
        /\ logger' = [logger EXCEPT ![t] =
              [level |-> level, stamp |-> stamp, time |-> lineSecond, zoned |-> logZone,
               previous |-> stampOf[t].second, given |-> <<>>,
               pieces |-> StreamedAll(<<>>, Header)]]
        /\ UNCHANGED <<lineSecond, logZone, logLevel, printed, flushed, aborted>>

\* stream() << something
StreamPiece(t, p) ==
    /\ logger[t] # NoLogger /\ Len(logger[t].given) < MaxPieces /\ ~aborted
    /\ logger' = [logger EXCEPT ![t].given = Append(@, p), ![t].pieces = Streamed(@, p)]
    /\ UNCHANGED <<lineSecond, logZone, logLevel, stampOf, printed, flushed, aborted>>

\* Impl::finish
Trailer == <<Text("dash", 1), Text("file", 1), Text("colon", 1), Number("line", 1), Text("newline", 1)>>

\* ~Logger: a fatal line is written out before the program ends.
LogsLine(t) ==
    /\ logger[t] # NoLogger /\ ~aborted
    /\ printed' = Append(printed, [logger[t] EXCEPT !.pieces = StreamedAll(@, Trailer)])
    /\ flushed' = IF logger[t].level = "FATAL" THEN Len(printed') ELSE flushed
    /\ aborted' = (logger[t].level = "FATAL")
    /\ logger' = [logger EXCEPT ![t] = NoLogger]
    /\ UNCHANGED <<lineSecond, logZone, logLevel, stampOf>>

\* setTimeZone, setLogLevel, and the clock.
SetTimeZone == logZone' = ~logZone /\ UNCHANGED <<lineSecond, logLevel>>
SetLogLevel(l) == logLevel' = l /\ UNCHANGED <<lineSecond, logZone>>
ClockIsSet(s) == lineSecond' = s /\ UNCHANGED <<logZone, logLevel>>

LineInit ==
    /\ lineSecond = 1 /\ logZone = FALSE /\ logLevel = "INFO"
    /\ stampOf = [t \in LogThread |-> [second |-> 0, zone |-> FALSE]]
    /\ logger = [t \in LogThread |-> NoLogger]
    /\ printed = <<>> /\ flushed = 0 /\ aborted = FALSE

LineNext ==
    \/ \E t \in LogThread :
          \/ \E l \in Levels : NewLogger(t, l)
          \/ \E p \in {Text("text", 1), Text("long", kSmallBuffer - 9), Number("number", 2)} :
                StreamPiece(t, p)
          \/ LogsLine(t)
    \/ /\ SetTimeZone \/ SetLogLevel("DEBUG") \/ \E s \in 1 .. 2 : ClockIsSet(s)
       /\ UNCHANGED <<stampOf, logger, printed, flushed, aborted>>

\* What a line would have if nothing were left out.
Wanted(l) == <<Text("time", 2), Text("micro", IF l.zoned THEN 1 ELSE 2), Text("tid", 1), Text("level", 1)>>
             \o l.given \o Trailer

\* A line shows its own second; in the zone its Z or the lack of it says, unless the
\* thread's line before was of the same second. The buffer is never filled to its last
\* byte, a line with room for a number more has all its pieces in order, and a fatal
\* line is on the disk, with those before it.
LinesTrue ==
    /\ \A i \in DOMAIN printed : LET l == printed[i] IN
          /\ l.stamp.second = l.time
          /\ l.stamp.zone = l.zoned \/ l.previous = l.time
          /\ Avail(l.pieces) > 0
          /\ LengthOf(Wanted(l)) + kMaxNumericSize <= kSmallBuffer => l.pieces = Wanted(l)
    /\ aborted => flushed = Len(printed)
=============================================================================
