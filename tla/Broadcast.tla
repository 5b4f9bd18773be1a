------------------------------ MODULE Broadcast -------------------------------
(***************************************************************************)
(* Servers of muduo's examples that keep a list of their connections. First *)
(* the chat server, which sends every message to all. It has four forms:    *)
(* one loop; loops that share a list under a mutex; loops that share a list *)
(* that is copied before it is changed while somebody walks it; and loops   *)
(* that keep a list each and hand messages to one another. Connections are  *)
(* numbered and go to the loops in turn.                                    *)
(***************************************************************************)
EXTENDS Integers, SequencesExt, FiniteSetsExt

CONSTANTS ChatConns, ChatLoops,
          MaxChats     \* bound: messages of all connections

ASSUME ChatLoopsGiven == ChatLoops \in Nat \ {0}

VARIABLES chatForm,
          chatUp,      \* of each connection "none" | "up" | "down"
          lists,       \* the versions of the list; the last is connections_
          walking,        \* of each loop: the message, version and receivers it is busy with
          chatFunctors,
          said,        \* messages taken from each connection
          heard,       \* messages written to each connection
          missed       \* messages of each that were given out before it joined

chatVars == <<chatForm, chatUp, lists, walking, chatFunctors, said, heard, missed>>

Chatter == 1 .. ChatConns
ChatLoop == 0 .. ChatLoops - 1
HomeOf(c) == IF chatForm = "single" THEN 0 ELSE c % ChatLoops
AtRest == [list |-> 0]
Everyone == Last(lists)
Present(c) == chatUp[c] = "up"

\* Code that changes the list that others walk.
InPlace == FALSE

\* connections_.unique() does not hold.
InUse == chatForm = "copied" /\ \E l \in ChatLoop : walking[l].list = Len(lists)

Changed(set) == IF InUse THEN Append(lists, set) ELSE [lists EXCEPT ![Len(lists)] = set]

\* How many messages of s are on their way to the list of a loop.
Queued(l, s) ==
    Len(SelectSeq(chatFunctors[l], LAMBDA f : f.do = "distribute" /\ f.of[1] = s))

\* onConnection
ChatJoins(c) ==
    /\ chatUp[c] = "none" /\ walking[HomeOf(c)] = AtRest
    /\ chatUp' = [chatUp EXCEPT ![c] = "up"]
    /\ lists' = Changed(Everyone \cup {c})
    /\ missed' = [missed EXCEPT ![c] = [s \in Chatter |-> said[s] - Queued(HomeOf(c), s)]]
    /\ UNCHANGED <<chatForm, walking, chatFunctors, said, heard>>

ChatLeaves(c) ==
    /\ Present(c) /\ walking[HomeOf(c)] = AtRest
    /\ chatUp' = [chatUp EXCEPT ![c] = "down"]
    /\ lists' = Changed(Everyone \ {c})
    /\ UNCHANGED <<chatForm, walking, chatFunctors, said, heard, missed>>

\* codec_.send in loop l to those of a set that are up: at once, or by their own loop.
SendToAll(l, set, m) ==
    LET to == {c \in set : Present(c)}
        at(k) == SetToSeq({c \in to : HomeOf(c) = k})
    IN  /\ heard' = [c \in Chatter |-> IF c \in to /\ HomeOf(c) = l THEN Append(heard[c], m) ELSE heard[c]]
        /\ chatFunctors' = [k \in ChatLoop |-> IF k = l THEN chatFunctors[k] ELSE
                chatFunctors[k] \o [i \in DOMAIN at(k) |-> [do |-> "send", to |-> at(k)[i], of |-> m]]]

\* onStringMessage
ChatSays(c) ==
    /\ Present(c) /\ walking[HomeOf(c)] = AtRest
    /\ FoldFunction(+, 0, said) < MaxChats
    /\ said' = [said EXCEPT ![c] = @ + 1]
    /\ LET m == <<c, said'[c]>>
       IN  \/ /\ chatForm \in {"single", "locked"}
              /\ SendToAll(HomeOf(c), Everyone, m) /\ UNCHANGED walking
           \/ /\ chatForm = "copied"
              /\ walking' = [walking EXCEPT ![HomeOf(c)] =
                             [list |-> Len(lists), of |-> m, done |-> {}, left |-> Everyone]]
              /\ UNCHANGED <<chatFunctors, heard>>
           \/ /\ chatForm = "perLoop"
              /\ chatFunctors' = [l \in ChatLoop |->
                     Append(chatFunctors[l], [do |-> "distribute", of |-> m])]
              /\ UNCHANGED <<walking, heard>>
    /\ UNCHANGED <<chatForm, chatUp, lists, missed>>

\* A loop sends to the next on the list it holds.
WalksOn(l) ==
    /\ walking[l] # AtRest
    /\ \E c \in walking[l].left :
          /\ SendToAll(l, {c}, walking[l].of)
          /\ walking' = [walking EXCEPT ![l] = IF @.left = {c} THEN AtRest ELSE
                         [@ EXCEPT !.left = @ \ {c}, !.done = @ \cup {c}]]
    /\ UNCHANGED <<chatForm, chatUp, lists, said, missed>>

\* doPendingFunctors: sendInLoop, or distributeMessage.
RunChatFunctor(l) ==
    /\ walking[l] = AtRest /\ chatFunctors[l] # <<>>
    /\ LET f == Head(chatFunctors[l])
           to == IF f.do = "send" THEN {f.to} ELSE {c \in Everyone : HomeOf(c) = l}
       IN heard' = [c \in Chatter |-> IF c \in to /\ Present(c) THEN Append(heard[c], f.of) ELSE heard[c]]
    /\ chatFunctors' = [chatFunctors EXCEPT ![l] = Tail(@)]
    /\ UNCHANGED <<chatForm, chatUp, lists, walking, said, missed>>

ChatInit ==
    /\ chatForm \in {"single", "locked", "copied", "perLoop"}
    /\ chatUp = [c \in Chatter |-> "none"] /\ lists = <<{}>>
    /\ walking = [l \in ChatLoop |-> AtRest] /\ chatFunctors = [l \in ChatLoop |-> <<>>]
    /\ said = [c \in Chatter |-> 0] /\ heard = [c \in Chatter |-> <<>>]
    /\ missed = [c \in Chatter |-> said]

ChatNext ==
    \/ \E c \in Chatter : ChatJoins(c) \/ ChatLeaves(c) \/ ChatSays(c)
    \/ \E l \in ChatLoop : WalksOn(l) \/ RunChatFunctor(l)

\* Nobody changes the list that a loop walks; and whoever is up has got or will get
\* every message given out since it joined, once, and those of one sender in their order.
ChatRight ==
    /\ \A l \in ChatLoop : walking[l] # AtRest => lists[walking[l].list] = walking[l].done \cup walking[l].left
    /\ \A c \in Chatter : Present(c) => \A s \in Chatter :
          LET ofS(m) == m[1] = s
              mine(f) == f.of[1] = s /\ (f.do = "distribute" \/ f.to = c)
              queue == SelectSeq(chatFunctors[HomeOf(c)], mine)
              w == walking[HomeOf(s)]
              being == IF w # AtRest /\ w.of[1] = s /\ c \in w.left THEN <<w.of>> ELSE <<>>
          IN  SelectSeq(heard[c], ofS) \o [i \in DOMAIN queue |-> queue[i].of] \o being
                = [i \in 1 .. said[s] - missed[c][s] |-> <<s, missed[c][s] + i>>]

-----------------------------------------------------------------------------
(***************************************************************************)
(* Its load test: clients in loops of their own; the last that connects     *)
(* sends a message, and who counts the last answer has the times shown.     *)
(***************************************************************************)
CONSTANT LoadClients

VARIABLES aliveClients, received,  \* g_aliveConnections, g_messagesReceived
          loadState,        \* of each client "none" | "up" | "timed" | "counted" | "lost"
          sendsBy,          \* the client whose send() is on a timer, or 0
          onTheWay,         \* clients that the answer is for
          statistics        \* "no" | "queued" | "shown" | "crashed"

loadVars == <<aliveClients, received, loadState, sendsBy, onTheWay, statistics>>
LoadClient == 1 .. LoadClients

LoadConnected(i) ==
    /\ loadState[i] = "none" /\ loadState' = [loadState EXCEPT ![i] = "up"]
    /\ aliveClients' = aliveClients + 1
    /\ sendsBy' = IF aliveClients' = LoadClients THEN i ELSE sendsBy
    /\ UNCHANGED <<received, onTheWay, statistics>>

LoadLost(i) ==
    /\ loadState[i] = "up" /\ statistics = "no" /\ loadState' = [loadState EXCEPT ![i] = "lost"]
    /\ onTheWay' = onTheWay \ {i}
    /\ UNCHANGED <<aliveClients, received, sendsBy, statistics>>

\* send(), which does not ask whether the connection is still there.
LoadSend ==
    /\ sendsBy # 0 /\ onTheWay = {} /\ received = 0 /\ statistics = "no"
    /\ \A i \in LoadClient : loadState[i] \in {"up", "lost"}
    /\ IF loadState[sendsBy] = "lost"
         THEN statistics' = "crashed" /\ UNCHANGED onTheWay
         ELSE onTheWay' = {i \in LoadClient : loadState[i] = "up"} /\ UNCHANGED statistics
    /\ UNCHANGED <<aliveClients, received, loadState, sendsBy>>

\* Code that counts a message before it notes the time, and the code.
CountedFirst(i) == i \in onTheWay
TimedFirst(i) == loadState[i] = "timed"

\* onStringMessage in two steps: another loop may count between them.
NotesTime(i) ==
    /\ i \in onTheWay /\ loadState[i] = "up" /\ loadState' = [loadState EXCEPT ![i] = "timed"]
    /\ UNCHANGED <<aliveClients, received, sendsBy, onTheWay, statistics>>

CountsMessage(i) ==
    /\ i \in onTheWay /\ TimedFirst(i)
    /\ onTheWay' = onTheWay \ {i}
    /\ loadState' = [loadState EXCEPT ![i] = IF @ = "timed" THEN "counted" ELSE @]
    /\ received' = received + 1
    /\ statistics' = IF received' = LoadClients THEN "queued" ELSE statistics
    /\ UNCHANGED <<aliveClients, sendsBy>>

ShowStatistics ==
    /\ statistics = "queued" /\ statistics' = "shown"
    /\ UNCHANGED <<aliveClients, received, loadState, sendsBy, onTheWay>>

LoadInit ==
    /\ aliveClients = 0 /\ received = 0 /\ sendsBy = 0 /\ onTheWay = {} /\ statistics = "no"
    /\ loadState = [i \in LoadClient |-> "none"]

LoadNext ==
    \/ \E i \in LoadClient : LoadConnected(i) \/ LoadLost(i) \/ NotesTime(i) \/ CountsMessage(i)
    \/ LoadSend \/ ShowStatistics

\* The times that are shown are those of all clients.
LoadRight == statistics = "shown" => \A i \in LoadClient : loadState[i] = "counted"

-----------------------------------------------------------------------------
(***************************************************************************)
(* The hub: clients publish contents under topics and subscribe to topics;  *)
(* a line is a record. The hub itself publishes the time. What a client     *)
(* sends and gets is parsed by the same function.                           *)
(***************************************************************************)
CONSTANTS Subscriber, Publisher, \* programs sub, which stays, and pub, which leaves
          Topics,
          MaxSubmitted, MaxPublished   \* bounds: lines of the subscriber, and contents

VARIABLES hubState,    \* of each client "none" | "up" | "shut" | "down", at the hub
          clientShut,  \* the client has closed its half
          toHub, hubBuf, toClient, clientBuf,  \* lines sent, and in each inputBuffer_
          subs,        \* the context: ConnectionSubscription
          topics,      \* topics_
          busy,        \* the clients whose onMessage goes on
          shownTo,     \* what subscribeCallback_ got
          published,   \* contents published, to tell them apart
          submitted    \* lines of the subscriber

hubVars == <<hubState, clientShut, toHub, hubBuf, toClient, clientBuf, subs, topics, busy,
             shownTo, published, submitted>>
counts == <<published, submitted>>
HubClient == {Subscriber, Publisher}
TimeTopic == "utc_time"
Line(cmd, topic) == [cmd |-> cmd, topic |-> topic]
PubLines(topic, content) == <<Line("pub", topic), [text |-> content]>>
IsCommand(line) == "cmd" \in DOMAIN line

\* parseMessage: a command has a topic, and "pub" a line more.
ParseMessage(buf) ==
    IF buf = <<>> THEN [result |-> "kContinue", rest |-> buf]
    ELSE IF ~IsCommand(buf[1]) THEN [result |-> "kError", rest |-> buf]
    ELSE IF buf[1].cmd # "pub" THEN [result |-> "kSuccess", line |-> buf[1], rest |-> Tail(buf)]
    ELSE IF Len(buf) = 1 THEN [result |-> "kContinue", rest |-> buf]
    ELSE [result |-> "kSuccess", line |-> buf[1], content |-> buf[2],
          rest |-> SubSeq(buf, 3, Len(buf))]

HubSend(out, c, lines) == IF hubState[c] = "up" THEN [out EXCEPT ![c] = @ \o lines] ELSE out

\* getTopic
GetTopic(t) == IF t \in DOMAIN topics THEN topics[t] ELSE [audiences |-> {}, last |-> <<>>]
SetTopic(t, topic) == [u \in DOMAIN topics \cup {t} |-> IF u = t THEN topic ELSE topics[u]]

\* Topic::publish
Publish(t, content) ==
    LET topic == [GetTopic(t) EXCEPT !.last = <<content>>]
    IN  /\ topics' = SetTopic(t, topic)
        /\ toClient' = [c \in HubClient |-> IF c \in topic.audiences /\ hubState[c] = "up"
                            THEN toClient[c] \o PubLines(t, content) ELSE toClient[c]]

\* doSubscribe, Topic::add: who comes late gets the last content.
Subscribe(c, t) ==
    LET topic == [GetTopic(t) EXCEPT !.audiences = @ \cup {c}]
    IN  /\ topics' = SetTopic(t, topic)
        /\ subs' = [subs EXCEPT ![c] = @ \cup {t}]
        /\ toClient' = IF topic.last = <<>> THEN toClient
                       ELSE HubSend(toClient, c, PubLines(t, topic.last[1]))

\* doUnsubscribe
Unsubscribe(c, t) ==
    /\ topics' = SetTopic(t, [GetTopic(t) EXCEPT !.audiences = @ \ {c}])
    /\ subs' = [subs EXCEPT ![c] = @ \ {t}]
    /\ UNCHANGED toClient

HubShutdown(c) ==
    /\ hubState' = [hubState EXCEPT ![c] = IF @ = "up" THEN "shut" ELSE @]
    /\ UNCHANGED <<topics, subs, toClient>>

-----------------------------------------------------------------------------
HubConnected(c) ==
    /\ hubState[c] = "none" /\ busy = {}
    /\ hubState' = [hubState EXCEPT ![c] = "up"]
    /\ UNCHANGED <<clientShut, toHub, hubBuf, toClient, clientBuf, subs, topics, busy, shownTo, counts>>

\* subscribe, unsubscribe and publish of PubSubClient, and what other programs may send.
Submitted(c) ==
    IF c = Publisher THEN {PubLines(t, published + 1) : t \in Topics}
    ELSE {<<Line("sub", t)>> : t \in Topics \cup {TimeTopic}} \cup {<<Line("unsub", t)>> : t \in Topics}
         \cup {<<Line("what", TimeTopic)>>, <<[text |-> 0]>>}

ClientSubmits(c) ==
    /\ hubState[c] \in {"up", "shut"} /\ ~clientShut[c]
    /\ IF c = Publisher
         THEN published < MaxPublished /\ published' = published + 1 /\ UNCHANGED submitted
         ELSE submitted < MaxSubmitted /\ submitted' = submitted + 1 /\ UNCHANGED published
    /\ \E lines \in Submitted(c) : toHub' = [toHub EXCEPT ![c] = @ \o lines]
    /\ UNCHANGED <<hubState, clientShut, hubBuf, toClient, clientBuf, subs, topics, busy, shownTo>>

\* PubSubClient::stop, or the answer to the end of the stream from the hub.
ClientStops(c) ==
    /\ ~clientShut[c] /\ hubState[c] \in {"up", "shut"}
    /\ clientShut' = [clientShut EXCEPT ![c] = TRUE]
    /\ UNCHANGED <<hubState, toHub, hubBuf, toClient, clientBuf, subs, topics, busy, shownTo, counts>>

HubReads(c) ==
    /\ busy = {} /\ toHub[c] # <<>> /\ hubState[c] \in {"up", "shut"}
    /\ \E n \in 1 .. Len(toHub[c]) :
          /\ hubBuf' = [hubBuf EXCEPT ![c] = @ \o SubSeq(toHub[c], 1, n)]
          /\ toHub' = [toHub EXCEPT ![c] = SubSeq(@, n + 1, Len(@))]
    /\ busy' = {c}
    /\ UNCHANGED <<hubState, clientShut, toClient, clientBuf, subs, topics, shownTo, counts>>

\* A round of the loop in PubSubServer::onMessage.
HubHandles(c) ==
    /\ c \in busy
    /\ LET p == ParseMessage(hubBuf[c])
           known == p.result = "kSuccess" /\ p.line.cmd \in {"pub", "sub", "unsub"}
       IN  /\ hubBuf' = [hubBuf EXCEPT ![c] = p.rest]
           /\ busy' = IF known THEN busy ELSE {}
           /\ \/ p.result = "kContinue" /\ UNCHANGED <<hubState, topics, subs, toClient>>
              \/ p.result # "kContinue" /\ ~known /\ HubShutdown(c)
              \/ known /\ UNCHANGED hubState /\
                   \/ p.line.cmd = "pub" /\ Publish(p.line.topic, p.content.text) /\ UNCHANGED subs
                   \/ p.line.cmd = "sub" /\ Subscribe(c, p.line.topic)
                   \/ p.line.cmd = "unsub" /\ Unsubscribe(c, p.line.topic)
    /\ UNCHANGED <<clientShut, toHub, clientBuf, shownTo, counts>>

\* Code that leaves a connection that goes among the audience.
StaysThere(t, c) == topics[t]
NotThere(t, c) == IF t \in subs[c] THEN [topics[t] EXCEPT !.audiences = @ \ {c}] ELSE topics[t]

\* onConnection, down: doUnsubscribe for each topic of the context. The client has gone.
HubDisconnected(c) ==
    /\ busy = {} /\ clientShut[c] /\ toHub[c] = <<>> /\ hubState[c] \in {"up", "shut"}
    /\ hubState' = [hubState EXCEPT ![c] = "down"]
    /\ topics' = [t \in DOMAIN topics |-> NotThere(t, c)]
    /\ subs' = [subs EXCEPT ![c] = {}]
    /\ hubBuf' = [hubBuf EXCEPT ![c] = <<>>] /\ toClient' = [toClient EXCEPT ![c] = <<>>]
    /\ clientBuf' = [clientBuf EXCEPT ![c] = <<>>] /\ shownTo' = [shownTo EXCEPT ![c] = <<>>]
    /\ UNCHANGED <<clientShut, toHub, busy, counts>>

\* timePublish
TimePublish ==
    /\ busy = {} /\ published < MaxPublished /\ published' = published + 1
    /\ Publish(TimeTopic, published')
    /\ UNCHANGED <<hubState, clientShut, toHub, hubBuf, clientBuf, subs, busy, shownTo, submitted>>

\* PubSubClient::onMessage: all complete messages of what was read.
ClientReads(c) ==
    /\ toClient[c] # <<>> /\ ~clientShut[c]
    /\ toClient' = [toClient EXCEPT ![c] = Tail(@)]
    /\ LET p == ParseMessage(Append(clientBuf[c], Head(toClient[c]))) IN
       /\ clientBuf' = [clientBuf EXCEPT ![c] = p.rest]
       /\ shownTo' = IF p.result = "kSuccess"
                    THEN [shownTo EXCEPT ![c] = Append(@, <<p.line.topic, p.content>>)] ELSE shownTo
    /\ UNCHANGED <<hubState, clientShut, toHub, hubBuf, subs, topics, busy, counts>>

HubInit ==
    /\ hubState = [c \in HubClient |-> "none"] /\ clientShut = [c \in HubClient |-> FALSE]
    /\ toHub = [c \in HubClient |-> <<>>] /\ hubBuf = toHub /\ toClient = toHub
    /\ clientBuf = toHub /\ shownTo = toHub /\ subs = [c \in HubClient |-> {}]
    /\ topics = <<>> /\ busy = {} /\ published = 0 /\ submitted = 0

HubNext ==
    \/ \E c \in HubClient : \/ HubConnected(c) \/ ClientSubmits(c) \/ ClientStops(c) \/ HubReads(c)
                             \/ HubHandles(c) \/ HubDisconnected(c) \/ ClientReads(c)
    \/ TimePublish

\* A connection is in the audience of the topics it subscribes, and of no other, until it
\* goes; what is under way to a subscriber ends, for each topic, with its last content;
\* and a client is given contents with the topic they were published under, in order.
HubRight ==
    \A c \in HubClient :
       LET way == clientBuf[c] \o toClient[c]
           heads == {i \in DOMAIN way : IsCommand(way[i])}
           given == shownTo[c] \o [i \in 1 .. Len(way) \div 2 |-> <<way[2 * i - 1].topic, way[2 * i]>>]
       IN  /\ heads = {i \in DOMAIN way : i % 2 = 1}
           /\ subs[c] = {t \in DOMAIN topics : c \in topics[t].audiences}
           /\ hubState[c] = "down" => subs[c] = {}
           /\ \A i \in DOMAIN given : ~IsCommand(given[i][2])
           /\ \A i, j \in DOMAIN given : i < j /\ given[i][1] = given[j][1]
                 => given[i][2].text <= given[j][2].text
           /\ hubState[c] = "up" => \A t \in subs[c] : topics[t].last # <<>> =>
                 \E i \in DOMAIN given : given[i] = <<t, [text |-> topics[t].last[1]]>>

-----------------------------------------------------------------------------
(***************************************************************************)
(* Echo servers that close connections: after some seconds of silence, with *)
(* a list sorted by the last message or with a wheel of buckets; or because *)
(* there are too many. Time goes in half seconds.                           *)
(***************************************************************************)
CONSTANTS Idler,
          idleSeconds, kMaxConnections,
          LastHalf, LastConnect, SetBack  \* bounds: the time, the time of connections, and
                                          \* how far the wall clock is set back

ASSUME IdleSecondsGiven == idleSeconds \in Nat \ {0}

VARIABLES idleForm,     \* "sorted" | "wheel" | "max"
          halves,       \* the time since the start
          setBack,      \* what the wall clock lacks since it was set back
          due,          \* onTimer is due
          idleUp,       \* of each connection "none" | "up" | "shut" | "down"
          lastReceive,  \* lastReceiveTime, by the wall clock
          lastHeard,    \* the same by the time since the start
          connectionList, connectionBuckets, numConnected,
          closeAt,      \* when forceClose is due, or -1
          silence       \* how long a connection was silent when it was shut down

idleVars == <<idleForm, halves, setBack, due, idleUp, lastReceive, lastHeard, connectionList,
              connectionBuckets, numConnected, closeAt, silence>>
Wall == halves - setBack
Remain(c) == SelectSeq(connectionList, LAMBDA d : d # c)

\* Code that leaves a connection where it is in the list.
KeepsPlace(c) == connectionList
MovedBack(c) == IF idleForm = "sorted" THEN Append(Remain(c), c) ELSE <<>>

\* An entry goes to the back bucket, where there is an entry still.
EntryLives(c) == \E i \in DOMAIN connectionBuckets : c \in connectionBuckets[i]
InBackBucket(c) == IF idleForm # "wheel" THEN connectionBuckets
                   ELSE [connectionBuckets EXCEPT ![idleSeconds] = @ \cup {c}]

ShutDown(set, delay) ==
    /\ idleUp' = [c \in Idler |-> IF c \in set /\ idleUp[c] = "up" THEN "shut" ELSE idleUp[c]]
    /\ closeAt' = [c \in Idler |-> IF c \in set /\ idleUp[c] = "up" /\ delay > 0
                                    THEN halves + delay ELSE closeAt[c]]
    /\ silence' = [c \in Idler |-> IF c \in set /\ idleUp[c] = "up"
                                    THEN halves - lastHeard[c] ELSE silence[c]]

\* onConnection: a connection too many is shut down, and closed in 3 seconds.
IdlerConnects(c) ==
    /\ idleUp[c] = "none" /\ halves < LastConnect
    /\ numConnected' = numConnected + 1
    /\ LET refused == idleForm = "max" /\ numConnected' > kMaxConnections
       IN  /\ idleUp' = [idleUp EXCEPT ![c] = IF refused THEN "shut" ELSE "up"]
           /\ closeAt' = [closeAt EXCEPT ![c] = IF refused THEN halves + 6 ELSE -1]
    /\ lastReceive' = [lastReceive EXCEPT ![c] = Wall]
    /\ lastHeard' = [lastHeard EXCEPT ![c] = halves]
    /\ connectionList' = IF idleForm = "sorted" THEN Append(connectionList, c) ELSE <<>>
    /\ connectionBuckets' = InBackBucket(c)
    /\ UNCHANGED <<idleForm, halves, setBack, due, silence>>

\* onMessage, also of a connection that is only shut down.
IdlerSpeaks(c) ==
    /\ idleUp[c] \in {"up", "shut"} /\ lastHeard[c] # halves
    /\ lastReceive' = [lastReceive EXCEPT ![c] = Wall]
    /\ lastHeard' = [lastHeard EXCEPT ![c] = halves]
    /\ connectionList' = MovedBack(c)
    /\ connectionBuckets' = IF EntryLives(c) THEN InBackBucket(c) ELSE connectionBuckets
    /\ UNCHANGED <<idleForm, halves, setBack, due, idleUp, numConnected, closeAt, silence>>

\* onConnection, down: the peer closes, or forceClose is due.
IdlerGoes(c) ==
    /\ idleUp[c] \in {"up", "shut"} /\ idleUp' = [idleUp EXCEPT ![c] = "down"]
    /\ connectionList' = Remain(c) /\ numConnected' = numConnected - 1
    /\ closeAt' = [closeAt EXCEPT ![c] = -1] /\ silence' = [silence EXCEPT ![c] = -1]
    /\ lastReceive' = [lastReceive EXCEPT ![c] = 0] /\ lastHeard' = [lastHeard EXCEPT ![c] = 0]
    /\ UNCHANGED <<idleForm, halves, setBack, due, connectionBuckets>>

\* onTimer with the list: from the front to the first that is neither too old nor ahead of
\* the clock.
TimerOfList ==
    LET age(i) == Wall - lastReceive[connectionList[i]]
        fresh == {i \in DOMAIN connectionList : age(i) \in 0 .. 2 * idleSeconds}
        reached == {i \in DOMAIN connectionList : \A j \in fresh : i < j}
        old == {connectionList[i] : i \in {j \in reached : age(j) > 2 * idleSeconds}}
        ahead == {connectionList[i] : i \in {j \in reached : age(j) < 0}}
    IN  /\ idleForm = "sorted" /\ ShutDown(old, 7)
        /\ lastReceive' = [c \in Idler |-> IF c \in ahead THEN Wall ELSE lastReceive[c]]
        /\ UNCHANGED connectionBuckets

\* onTimer with the wheel: the last reference to an entry goes with the front bucket.
TimerOfWheel ==
    /\ idleForm = "wheel"
    /\ connectionBuckets' = Append(Tail(connectionBuckets), {})
    /\ ShutDown(Head(connectionBuckets) \ UNION ToSet(Tail(connectionBuckets)), 0)
    /\ UNCHANGED lastReceive

IdleTimer ==
    /\ due /\ due' = FALSE
    /\ TimerOfList \/ TimerOfWheel
    /\ UNCHANGED <<idleForm, halves, setBack, lastHeard, connectionList, numConnected>>

\* Time passes when nothing is due.
HalfSecond ==
    /\ ~due /\ halves < LastHalf /\ \A c \in Idler : closeAt[c] # halves
    /\ halves' = halves + 1
    /\ due' = (idleForm # "max" /\ halves' % 2 = 0)
    /\ UNCHANGED <<idleForm, setBack, idleUp, lastReceive, lastHeard, connectionList,
                   connectionBuckets, numConnected, closeAt, silence>>

ClockSetBack ==
    /\ idleForm = "sorted" /\ setBack = 0 /\ setBack' = SetBack
    /\ UNCHANGED <<idleForm, halves, due, idleUp, lastReceive, lastHeard, connectionList,
                   connectionBuckets, numConnected, closeAt, silence>>

IdleInit ==
    /\ idleForm \in {"sorted", "wheel", "max"} /\ halves = 0 /\ setBack = 0 /\ due = FALSE
    /\ idleUp = [c \in Idler |-> "none"] /\ lastReceive = [c \in Idler |-> 0]
    /\ lastHeard = lastReceive /\ connectionList = <<>> /\ numConnected = 0
    /\ connectionBuckets = [i \in 1 .. idleSeconds |-> {}]
    /\ closeAt = [c \in Idler |-> -1] /\ silence = closeAt

IdleNext ==
    \/ \E c \in Idler : IdlerConnects(c) \/ IdlerSpeaks(c) \/ IdlerGoes(c)
    \/ IdleTimer \/ HalfSecond \/ ClockSetBack

\* A silent connection is shut down, by the list within idleSeconds + 1 unless the clock is
\* set back, by the wheel within idleSeconds; none before idleSeconds, or for the wheel a
\* second less, also when the clock is set back. The list is by the last message. Of more
\* than kMaxConnections the late ones are shut down; and the count is true.
IdleRight ==
    LET open == {c \in Idler : idleUp[c] \in {"up", "shut"}}
        up == {c \in open : idleUp[c] = "up"}
        quiet(c) == halves - lastHeard[c]
    IN  /\ numConnected = Cardinality(open)
        /\ idleForm = "sorted" => ToSet(connectionList) = open
        /\ \A i, j \in DOMAIN connectionList :
               i < j => lastHeard[connectionList[i]] <= lastHeard[connectionList[j]]
        /\ idleForm = "max" => Cardinality(up) <= kMaxConnections
        /\ idleForm # "wheel" => \A c \in open \ up : closeAt[c] >= halves
        /\ idleForm = "sorted" =>
              /\ setBack = 0 => \A c \in up : quiet(c) <= 2 * idleSeconds + 2
              /\ \A c \in Idler : silence[c] = -1 \/ silence[c] > 2 * idleSeconds
        /\ idleForm = "wheel" =>
              /\ \A c \in up : quiet(c) <= 2 * idleSeconds
              /\ \A c \in Idler : silence[c] = -1 \/ silence[c] >= 2 * (idleSeconds - 1)
=============================================================================
