------------------------------ MODULE Protocols ------------------------------
(***************************************************************************)
(* muduo's HttpServer on one connection: HttpContext parses the lines of    *)
(* the input buffer into a request, onRequest answers it, and the Inspector *)
(* is the callback that finds the answer. A line is a request line, a       *)
(* header or one without a colon, which ends the headers.                   *)
(***************************************************************************)
EXTENDS Integers, SequencesExt, FiniteSetsExt

CONSTANT MaxHttpLines   \* bound: lines that the client sends

VARIABLES wire,      \* lines on their way
          input,     \* lines in the input buffer
          httpState, \* state_: "line" | "headers" | "all"
          request,   \* [method, version, connection, path] of request_
          replies,   \* what was sent: "400", or [status, close]
          linkUp,    \* kConnected; FALSE after shutdown()
          asserted,  \* the assertion of setMethod failed
          retrieved  \* lines taken out of the buffer

httpVars == <<wire, input, httpState, request, replies, linkUp, asserted, retrieved>>

\* Request lines: one of version 1.1 for a command of the inspector, one of 1.0 for
\* another path and one of another version. Headers have a colon, the others do not.
RequestLine == {"get11", "get10", "badversion"}
HttpHeader == {"close", "keepalive"}
HttpLine == RequestLine \cup HttpHeader \cup {"empty"}

NoRequest == [method |-> "invalid", version |-> "unknown", connection |-> "", path |-> ""]

\* processRequestLine: the method is set before the version is found to be wrong.
Succeeds(line) == line \in {"get11", "get10"}
ProcessRequestLine(r, line) ==
    IF line \notin RequestLine THEN r
    ELSE [r EXCEPT !.method = "get", !.path = IF line = "get11" THEN "command" ELSE "other",
                   !.version = CASE line = "get11" -> "1.1"
                                 [] line = "get10" -> "1.0"
                                 [] OTHER -> @]

AddHeader(r, line) == [r EXCEPT !.connection = line]

\* One parseRequest: it stops when the buffer has no more lines, at a request line that
\* is wrong, which stays in the buffer, and after one request.
ParseStep(s, line) ==
    IF s.stop THEN s
    ELSE IF s.state = "line"
      THEN LET r == ProcessRequestLine(s.request, line)
               abort == s.request.method # "invalid"
           IN IF Succeeds(line)
                THEN [s EXCEPT !.request = r, !.state = "headers", !.n = @ + 1, !.abort = @ \/ abort]
                ELSE [s EXCEPT !.request = r, !.ok = FALSE, !.stop = TRUE, !.abort = @ \/ abort]
      ELSE IF line \in HttpHeader THEN [s EXCEPT !.request = AddHeader(@, line), !.n = @ + 1]
      ELSE [s EXCEPT !.state = "all", !.stop = TRUE, !.n = @ + 1]

ParseRequest(lines) ==
    FoldLeft(ParseStep, [state |-> httpState, request |-> request, n |-> 0, ok |-> TRUE,
                         stop |-> FALSE, abort |-> FALSE], lines)

\* Inspector::onRequest, for a path of a module and a command.
InspectorStatus(r) == IF r.path = "command" THEN "200" ELSE "404"

\* Whether onRequest closes: code that forgets that 1.0 closes unless it is told.
ClosesIfTold(r) == r.connection = "close"
Closes(r) == r.connection = "close" \/ (r.version = "1.0" /\ r.connection # "keepalive")

SendLine ==
    /\ Len(retrieved) + Len(input) + Len(wire) < MaxHttpLines
    /\ Len(wire) < 2 /\ (linkUp \/ wire = <<>>)
    /\ \E l \in HttpLine : wire' = Append(wire, l)
    /\ UNCHANGED <<input, httpState, request, replies, linkUp, asserted, retrieved>>

\* The context after a request: code that keeps its headers.
KeepsRequest(r) == [r EXCEPT !.method = "invalid"]
ResetContext(r) == NoRequest

\* A read event: some lines come in, one request at most is parsed and answered. What
\* is sent after shutdown() is not sent.
OnHttpMessage(n) ==
    LET lines == input \o SubSeq(wire, 1, n)
        p == ParseRequest(lines)
        all == p.state = "all"
        reply == [status |-> InspectorStatus(p.request), close |-> Closes(p.request)]
    IN /\ wire' = SubSeq(wire, n + 1, Len(wire))
       /\ input' = SubSeq(lines, p.n + 1, Len(lines))
       /\ retrieved' = retrieved \o SubSeq(lines, 1, p.n)
       /\ asserted' = p.abort
       /\ httpState' = IF all THEN "line" ELSE p.state
       /\ request' = IF all THEN ResetContext(p.request) ELSE p.request
       /\ replies' = replies \o (IF linkUp /\ ~p.ok THEN <<[status |-> "400", close |-> TRUE]>> ELSE <<>>)
                             \o (IF linkUp /\ all THEN <<reply>> ELSE <<>>)
       /\ linkUp' = (linkUp /\ p.ok /\ ~(all /\ reply.close))

ReadEvent == ~asserted /\ \E n \in 1 .. Len(wire) : OnHttpMessage(n)

HttpInit == /\ wire = <<>> /\ input = <<>> /\ httpState = "line" /\ request = NoRequest
            /\ replies = <<>> /\ linkUp = TRUE /\ asserted = FALSE /\ retrieved = <<>>

HttpNext == SendLine \/ ReadEvent

-----------------------------------------------------------------------------
\* Every other line without a colon ends a request, which starts after the one before.
Plain(lines, i) == {j \in 1 .. i : lines[j] \notin HttpHeader}
Ends(lines) == {i \in DOMAIN lines : lines[i] \notin HttpHeader
                                      /\ Cardinality(Plain(lines, i)) % 2 = 0}
RequestIn(lines, e) ==
    LET start == Max({0} \cup {i \in Ends(lines) : i < e}) + 1
        told == {i \in start .. e : lines[i] \in HttpHeader}
    IN [close |-> IF told # {} THEN lines[Max(told)] = "close" ELSE lines[start] = "get10",
        found |-> lines[start] = "get11"]

\* Each request is answered once, in order, by what its own lines say, until one closes
\* the connection; and whatever is retrieved was a request or the start of one. A
\* request that came with another is answered by the next read (HttpServer.cc:73).
HttpRight ==
    LET ends == SetToSortSeq(Ends(retrieved), <)
        good == SelectSeq(replies, LAMBDA r : r.status # "400")
    IN /\ \A k \in DOMAIN good :
             /\ k <= Len(ends) /\ good[k].close = RequestIn(retrieved, ends[k]).close
             /\ ~RequestIn(retrieved, ends[k]).found => good[k].status = "404"
       /\ linkUp => Len(good) = Len(ends) /\ good = replies
       /\ \A k \in DOMAIN replies : replies[k].close <=> ~linkUp /\ k = Len(replies)
       /\ httpState = "headers" <=> Cardinality(Plain(retrieved, Len(retrieved))) % 2 = 1
       /\ asserted => ~linkUp /\ Head(input) \in RequestLine

-----------------------------------------------------------------------------
(***************************************************************************)
(* The protobuf codecs of muduo: ProtobufCodecLite, with a tag, which the   *)
(* RPC channel uses, and the ProtobufCodec of the examples, with the name   *)
(* of the message's type, and its dispatcher. A frame is what is wrong with *)
(* it; it arrives in two parts, of which the first has the length.          *)
(***************************************************************************)
CONSTANT MaxFrames   \* bound: frames that are sent

VARIABLES tagged,    \* ProtobufCodecLite; else ProtobufCodec
          frames,    \* frames sent: sets of defects
          arrived,   \* parts in, or through, the input buffer
          taken,     \* frames retrieved
          given,     \* the frames that reached the message callback
          frameErrors, \* the error codes given to the error callback
          cutOff     \* defaultErrorCallback has shut the connection down

frameVars == <<tagged, frames, arrived, taken, given, frameErrors, cutOff>>

\* "raw" is no defect: the raw callback keeps the frame to itself.
TaggedDefect == {"length", "checksum", "tag", "parse", "raw"}
NamedDefect == {"length", "checksum", "name", "type", "parse"}

\* ProtobufCodecLite::parse and ProtobufCodec::parse: the first thing that is wrong.
\* Code that looks at the tag before the checksum.
TagFirst(d) == IF "tag" \in d THEN "UnknownMessageType"
               ELSE IF "checksum" \in d THEN "CheckSumError"
               ELSE IF "parse" \in d THEN "ParseError" ELSE "NoError"
ParseTagged(d) == IF "checksum" \in d THEN "CheckSumError"
                  ELSE IF "tag" \in d THEN "UnknownMessageType"
                  ELSE IF "parse" \in d THEN "ParseError" ELSE "NoError"

ParseNamed(d) == IF "checksum" \in d THEN "CheckSumError"
                 ELSE IF "name" \in d THEN "InvalidNameLen"
                 ELSE IF "type" \in d THEN "UnknownMessageType"
                 ELSE IF "parse" \in d THEN "ParseError" ELSE "NoError"

\* The error of a frame; a raw callback comes before the parser.
ErrorOf(d) == IF "length" \in d THEN "InvalidLength"
              ELSE IF "raw" \in d THEN "NoError"
              ELSE IF tagged THEN ParseTagged(d) ELSE ParseNamed(d)

\* What has arrived of a frame is enough: its length, of a bad length, else all of it.
\* Code that waits for the whole of a frame whose length is bad too.
WholeFrame(i, n) == n >= 2 * i

Enough(i, n) == IF "length" \in frames[i] THEN n >= 2 * i - 1 ELSE n >= 2 * i

\* onMessage: frame after frame, up to one that is wrong or not all there. A frame that
\* is wrong stays in the buffer, so that the next part meets it again.
OnFrames(n) ==
    LET halts == {i \in taken + 1 .. Len(frames) : ~Enough(i, n) \/ ErrorOf(frames[i]) # "NoError"}
        halt == Min(halts \cup {Len(frames) + 1})
        whole == SubSeq(frames, taken + 1, halt - 1)
    IN /\ arrived' = n /\ taken' = halt - 1
       /\ given' = given \o SelectSeq(whole, LAMBDA d : "raw" \notin d)
       /\ IF halt <= Len(frames) /\ Enough(halt, n)
            THEN frameErrors' = Append(frameErrors, ErrorOf(frames[halt])) /\ cutOff' = TRUE
            ELSE UNCHANGED <<frameErrors, cutOff>>
       /\ UNCHANGED <<tagged, frames>>

SendFrame ==
    /\ Len(frames) < MaxFrames
    /\ \E d \in SUBSET (IF tagged THEN TaggedDefect ELSE NamedDefect) :
          Cardinality(d) <= 2 /\ frames' = Append(frames, d)
    /\ UNCHANGED <<tagged, arrived, taken, given, frameErrors, cutOff>>

ArriveFrames == \E n \in arrived + 1 .. 2 * Len(frames) : OnFrames(n)

FramesInit == /\ tagged \in BOOLEAN /\ frames = <<>> /\ arrived = 0 /\ taken = 0
              /\ given = <<>> /\ frameErrors = <<>> /\ cutOff = FALSE

FramesNext == SendFrame \/ ArriveFrames

-----------------------------------------------------------------------------
Wrong(i) == frames[i] \ {"raw"} # {} /\ ~("raw" \in frames[i] /\ "length" \notin frames[i])

\* The messages given are the frames without a fault before the first with one, as many
\* as are there whole; no frame with a fault is passed, and the error says what is wrong
\* with the frame, the checksum before what it covers; a bad length is not waited for
\* (ProtobufCodecLite.cc:62, 189).
FramesRight ==
    LET firstWrong == Min({i \in DOMAIN frames : Wrong(i)} \cup {Len(frames) + 1})
    IN /\ taken = Min({arrived \div 2, firstWrong - 1})
       /\ given = SelectSeq(SubSeq(frames, 1, taken), LAMBDA d : d = {})
       /\ cutOff <=> frameErrors # <<>>
       /\ firstWrong <= Len(frames) /\ arrived >= 2 * firstWrong => cutOff
       /\ firstWrong <= Len(frames) /\ "length" \in frames[firstWrong]
             /\ arrived >= 2 * firstWrong - 1 => cutOff
       /\ \A e \in ToSet(frameErrors) : e = "CheckSumError" <=>
             "checksum" \in frames[firstWrong] /\ "length" \notin frames[firstWrong]

-----------------------------------------------------------------------------
(***************************************************************************)
(* muduo's RpcChannel on both ends of a connection, and the RpcServer that  *)
(* makes the one of the server: threads call methods, the server answers    *)
(* in any order, at once or later, and the channel finds the call of an     *)
(* answer by its id. A call is its id.                                      *)
(***************************************************************************)
CONSTANTS RpcCaller,   \* threads that call
          MaxCalls     \* bound: calls

ASSUME CallsAreNumbered == MaxCalls \in Nat

VARIABLES id,            \* id_, the last one taken
          calling,       \* what a thread has in CallMethod: [at, id]
          outstandings,
          requests, responses, \* messages on their way: ids; [id, error]
          serving,       \* calls whose done callback the service still has
          ranDone,       \* id -> how often its closure was run
          outcome,       \* id -> "response" | "error" | "deleted"
          rpcLink,       \* the connection, and the server's channel with it
          channel        \* the client's RpcChannel is there

rpcVars == <<id, calling, outstandings, requests, responses, serving, ranDone, outcome,
             rpcLink, channel>>

Call == 1 .. MaxCalls
NoCall == [at |-> "idle", id |-> 0]

\* CallMethod takes an id, puts the call down under the mutex, and sends the request.
\* Code that sends before it puts the call down.
SendsFirst == <<"send", "insert">>
InsertsFirst == <<"insert", "send">>

CallMethod(t) ==
    /\ calling[t] = NoCall /\ id < MaxCalls /\ channel
    /\ id' = id + 1
    /\ calling' = [calling EXCEPT ![t] = [at |-> InsertsFirst[1], id |-> id']]
    /\ UNCHANGED <<outstandings, requests, responses, serving, ranDone, outcome, rpcLink, channel>>

\* After the first of the two steps the second, then the call has returned.
Then(t) == IF calling[t].at = InsertsFirst[1] THEN [calling[t] EXCEPT !.at = InsertsFirst[2]]
           ELSE NoCall

InsertCall(t) ==
    /\ calling[t].at = "insert"
    /\ outstandings' = outstandings \cup {calling[t].id}
    /\ calling' = [calling EXCEPT ![t] = Then(t)]
    /\ UNCHANGED <<id, requests, responses, serving, ranDone, outcome, rpcLink, channel>>

\* send() on a connection that is down does nothing.
SendRequest(t) ==
    /\ calling[t].at = "send"
    /\ requests' = IF rpcLink THEN Append(requests, calling[t].id) ELSE requests
    /\ calling' = [calling EXCEPT ![t] = Then(t)]
    /\ UNCHANGED <<id, outstandings, responses, serving, ranDone, outcome, rpcLink, channel>>

\* onRpcMessage of a request: the service is called, or there is no such service or
\* method, or the request cannot be parsed, and an error is sent.
OnRequestMessage ==
    /\ rpcLink /\ requests # <<>> /\ requests' = Tail(requests)
    /\ \/ serving' = serving \cup {Head(requests)} /\ UNCHANGED responses
       \/ /\ responses' = Append(responses, [id |-> Head(requests), error |-> TRUE])
          /\ UNCHANGED serving
    /\ UNCHANGED <<id, calling, outstandings, ranDone, outcome, rpcLink, channel>>

\* doneCallback, when the service has its answer. After the connection has gone down
\* the channel it is called on is gone (RpcServer.cc:58): it is not called here then.
DoneCallback ==
    /\ rpcLink
    /\ \E c \in serving :
          /\ serving' = serving \ {c}
          /\ responses' = Append(responses, [id |-> c, error |-> FALSE])
    /\ UNCHANGED <<id, calling, outstandings, requests, ranDone, outcome, rpcLink, channel>>

\* onRpcMessage of a response: its call is taken out and its closure run, with an empty
\* response when there was an error. Code that leaves the call where it is.
Remains(c) == outstandings
TakenOut(c) == outstandings \ {c}

OnResponseMessage ==
    LET m == Head(responses)
        known == m.id \in outstandings
    IN /\ rpcLink /\ channel /\ responses # <<>> /\ responses' = Tail(responses)
       /\ outstandings' = TakenOut(m.id)
       /\ ranDone' = IF known THEN [ranDone EXCEPT ![m.id] = @ + 1] ELSE ranDone
       /\ outcome' = IF known THEN [outcome EXCEPT ![m.id] = IF m.error THEN "error" ELSE "response"]
                     ELSE outcome
       /\ UNCHANGED <<id, calling, requests, serving, rpcLink, channel>>

\* The connection goes down: what was on its way is lost.
RpcLinkDown ==
    /\ rpcLink /\ rpcLink' = FALSE /\ requests' = <<>> /\ responses' = <<>> /\ serving' = {}
    /\ UNCHANGED <<id, calling, outstandings, ranDone, outcome, channel>>

\* ~RpcChannel, when no thread calls: closures that were not run are deleted.
DestroyChannel ==
    /\ ~rpcLink /\ channel /\ \A t \in RpcCaller : calling[t] = NoCall
    /\ channel' = FALSE /\ outstandings' = {}
    /\ outcome' = [c \in Call |-> IF c \in outstandings THEN "deleted" ELSE outcome[c]]
    /\ UNCHANGED <<id, calling, requests, responses, serving, ranDone, rpcLink>>

RpcInit ==
    /\ id = 0 /\ calling = [t \in RpcCaller |-> NoCall] /\ outstandings = {}
    /\ requests = <<>> /\ responses = <<>> /\ serving = {} /\ rpcLink = TRUE /\ channel = TRUE
    /\ ranDone = [c \in Call |-> 0] /\ outcome = [c \in Call |-> "none"]

RpcNext == \/ \E t \in RpcCaller : CallMethod(t) \/ InsertCall(t) \/ SendRequest(t)
           \/ OnRequestMessage \/ DoneCallback \/ OnResponseMessage
           \/ RpcLinkDown \/ DestroyChannel

RpcSpec == RpcInit /\ [][RpcNext]_rpcVars

-----------------------------------------------------------------------------
InRpc(c) == \/ \E t \in RpcCaller : calling[t].id = c
            \/ c \in serving \/ \E i \in DOMAIN requests : requests[i] = c
            \/ \E i \in DOMAIN responses : responses[i].id = c

\* A call has its closure run once, when its own answer came, and never after it was
\* deleted; while the connection is up a call that has no answer is on its way, and no
\* answer finds its call missing (RpcChannel.cc:76, 98). When the connection is lost
\* the closure is never run (RpcChannel.cc:45).
RpcRight ==
    /\ \A c \in Call :
          /\ ranDone[c] <= 1
          /\ ranDone[c] = 1 <=> outcome[c] \in {"response", "error"}
          /\ outcome[c] = "deleted" => ~rpcLink
          /\ rpcLink /\ c <= id => (outcome[c] # "none" \/ InRpc(c))
          /\ c \in outstandings => outcome[c] = "none"
    /\ \A i \in DOMAIN responses : responses[i].id \in outstandings

-----------------------------------------------------------------------------
(***************************************************************************)
(* The FastCGI codec of the examples on one connection: a web server sends  *)
(* the records of a request, its parameters in a stream of their own, waits *)
(* for the answer, and sends the next. A record arrives whole or not yet.   *)
(***************************************************************************)
CONSTANTS FcgiRequests, \* requests [role, flags, pairs, long, cut, stdin, answer]: parameters
                        \* [name, value] of bytes, their lengths written in four bytes if long,
                        \* the last byte of them missing if cut; the length of the answer
          MaxFcgi       \* bound: requests

VARIABLES sentFcgi,  \* requests sent
          records,   \* records on their way: [type, content]
          codec,     \* [keepConn, stdin, paramsStream, params, gotRequest]
          handedOn,  \* what the callback was given: [params, stdin]
          answers,   \* headers of the records that respond() made: [type, length, padding]
          fcgiLink   \* kConnected

fcgiVars == <<sentFcgi, records, codec, handedOn, answers, fcgiLink>>

\* The stream of the parameters, and the records of a request, the stream cut in two.
WriteLen(n, long) == IF long THEN <<128, 0, 0, n>> ELSE <<n>>
PairBytes(r, p) == WriteLen(Len(p.name), r.long) \o WriteLen(Len(p.value), r.long) \o p.name \o p.value
ParamsBytes(r) ==
    LET all == FoldLeft(LAMBDA bytes, p : bytes \o PairBytes(r, p), <<>>, r.pairs)
    IN IF r.cut THEN Front(all) ELSE all

UnlessEmpty(type, content) == IF content = <<>> THEN <<>> ELSE <<[type |-> type, content |-> content]>>
FcgiRecords(r, k) ==
    LET bytes == ParamsBytes(r)
    IN <<[type |-> "begin", content |-> <<r.role, r.flags>>]>>
       \o UnlessEmpty("params", SubSeq(bytes, 1, k)) \o UnlessEmpty("params", SubSeq(bytes, k + 1, Len(bytes)))
       \o <<[type |-> "params", content |-> <<>>]>> \o UnlessEmpty("data", r.stdin) \o UnlessEmpty("stdin", r.stdin)
       \o <<[type |-> "stdin", content |-> <<>>]>>

\* readLen: a length in one byte, or in four with the highest bit set; -1 is no length.
ReadLen(s) ==
    IF s # <<>> /\ s[1] < 128 THEN [length |-> s[1], rest |-> Tail(s)]
    ELSE IF Len(s) >= 4
      THEN [length |-> ((s[1] % 128) * 256 + s[2]) * 65536 + s[3] * 256 + s[4],
            rest |-> SubSeq(s, 5, Len(s))]
    ELSE [length |-> -1, rest |-> s]

\* parseAllParams: pair after pair, up to one that is not all there.
TakePair(p) ==
    LET name == ReadLen(p.paramsStream)
        value == ReadLen(name.rest)
        n == name.length + value.length
    IN IF p.paramsStream = <<>> \/ p.failed THEN p
       ELSE IF name.length < 0 THEN [p EXCEPT !.failed = TRUE]
       ELSE IF value.length < 0 \/ Len(value.rest) < n
         THEN [p EXCEPT !.failed = TRUE, !.paramsStream = value.rest]
       ELSE [p EXCEPT !.paramsStream = SubSeq(value.rest, n + 1, Len(value.rest)),
                      !.params = (SubSeq(value.rest, 1, name.length)
                                    :> SubSeq(value.rest, name.length + 1, n)) @@ @]

ParseAllParams(c) ==
    LET p == FoldLeft(LAMBDA q, byte : TakePair(q),
                      [failed |-> FALSE, paramsStream |-> c.paramsStream, params |-> c.params],
                      c.paramsStream)
    IN [c EXCEPT !.paramsStream = p.paramsStream, !.params = p.params]

\* onBeginRequest, onParams and onStdin; what parseAllParams returns is not looked at.
OnRecord(c, r) ==
    LET d == IF r.type = "stdin" /\ r.content = <<>> THEN [c EXCEPT !.gotRequest = TRUE] ELSE c
    IN CASE r.type = "begin" -> IF r.content[1] = 1 THEN [d EXCEPT !.keepConn = (r.content[2] = 1)] ELSE d
         [] r.type = "params" -> IF r.content = <<>> THEN ParseAllParams(d)
                                 ELSE [d EXCEPT !.paramsStream = @ \o r.content]
         [] r.type = "stdin" -> [d EXCEPT !.stdin = @ \o r.content]
         [] OTHER -> d

\* respond(), for fewer than 65536 bytes: padded to eight, then the end of the output and
\* of the request.
Padding(n) == (8 - (n % 8)) % 8
Respond(n) == <<[type |-> "stdout", length |-> n, padding |-> Padding(n)],
                [type |-> "stdout", length |-> 0, padding |-> 0],
                [type |-> "end", length |-> 8, padding |-> 0]>>

\* onMessage with some records: after a request its callback has answered, all of it is
\* forgotten but keepConn_. Code that keeps the parameters.
KeepsParams(c) == [c EXCEPT !.stdin = <<>>, !.paramsStream = <<>>, !.gotRequest = FALSE]
ForgetsRequest(c) == [c EXCEPT !.stdin = <<>>, !.paramsStream = <<>>, !.params = <<>>,
                               !.gotRequest = FALSE]

OnFcgiMessage(n) ==
    LET c == FoldLeft(OnRecord, codec, SubSeq(records, 1, n))
    IN /\ n \in 1 .. Len(records) /\ records' = SubSeq(records, n + 1, Len(records))
       /\ IF c.gotRequest
            THEN /\ handedOn' = Append(handedOn, [params |-> c.params, stdin |-> c.stdin])
                 /\ answers' = Append(answers, Respond(sentFcgi[Len(handedOn')].answer))
                 /\ codec' = ForgetsRequest(c)
                 /\ fcgiLink' = c.keepConn
            ELSE codec' = c /\ UNCHANGED <<handedOn, answers, fcgiLink>>
       /\ UNCHANGED sentFcgi

\* nginx and lighttpd have one request at a time on a connection (fastcgi.h:10).
SendFcgi ==
    /\ fcgiLink /\ Len(sentFcgi) < MaxFcgi /\ Len(handedOn) = Len(sentFcgi)
    /\ \E r \in FcgiRequests, k \in 0 .. 2 :
          /\ k <= Len(ParamsBytes(r))
          /\ sentFcgi' = Append(sentFcgi, r) /\ records' = records \o FcgiRecords(r, k)
    /\ UNCHANGED <<codec, handedOn, answers, fcgiLink>>

NewCodec == [keepConn |-> FALSE, stdin |-> <<>>, paramsStream |-> <<>>, params |-> <<>>,
             gotRequest |-> FALSE]

FcgiInit == /\ sentFcgi = <<>> /\ records = <<>> /\ codec = NewCodec /\ handedOn = <<>>
            /\ answers = <<>> /\ fcgiLink = TRUE

FcgiNext == SendFcgi \/ \E n \in 1 .. Len(records) : OnFcgiMessage(n)

-----------------------------------------------------------------------------
\* What a request says: its whole pairs, the last of a name; and whether the connection
\* is kept, which only a responder says.
PairsOf(r) == IF r.cut THEN Front(r.pairs) ELSE r.pairs
RequestSays(r) ==
    LET pairs == PairsOf(r)
        names == {pairs[i].name : i \in DOMAIN pairs}
    IN [name \in names |-> pairs[Max({i \in DOMAIN pairs : pairs[i].name = name})].value]
SaidToKeep(k) == LET responders == {i \in 1 .. k : sentFcgi[i].role = 1}
            IN responders # {} /\ sentFcgi[Max(responders)].flags = 1

\* Each request is handed on once, when all of it is there, with its own parameters and
\* input and nothing of another's; the answer is records of whole eights, the last of
\* which ends it; and the connection stays for the next request just when it is to
\* (fastcgi.h:31, fastcgi.cc:72, 154).
FcgiRight ==
    /\ Len(handedOn) = Len(sentFcgi) - (IF records # <<>> THEN 1 ELSE 0)
    /\ \A k \in DOMAIN handedOn :
          /\ handedOn[k].stdin = sentFcgi[k].stdin
          /\ DOMAIN handedOn[k].params = DOMAIN RequestSays(sentFcgi[k])
          /\ \A name \in DOMAIN handedOn[k].params :
                handedOn[k].params[name] = RequestSays(sentFcgi[k])[name]
          /\ LET whole == SelectSeq(answers[k], LAMBDA h : h.length > 0)
             IN /\ \A i \in DOMAIN answers[k] :
                      (answers[k][i].length + answers[k][i].padding) % 8 = 0
                /\ Last(answers[k]).type = "end"
                /\ sentFcgi[k].answer > 0 => whole[1].length = sentFcgi[k].answer
    /\ records = <<>> => codec = [NewCodec EXCEPT !.keepConn = codec.keepConn]
    /\ handedOn # <<>> /\ records = <<>> => (fcgiLink <=> SaidToKeep(Len(handedOn)))
=============================================================================
