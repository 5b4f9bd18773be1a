---------------------------- MODULE ConnectionsProofs ----------------------------
(***************************************************************************)
(* What holds of the connections of ulordcenter for every number of         *)
(* connections and of threads: ConnectionsSafe and IdleCut.  The invariant   *)
(* says which sequences of steps a thread can be in (Good) and which        *)
(* functors can wait (Queued), with what is known of their connection.      *)
(***************************************************************************)
EXTENDS Connections, TLAPS

-----------------------------------------------------------------------------
(* The inductive invariant.                                                 *)

\* Thread t has opened the connection, and not yet set its context.
Entering(t, c) == loop[c] = t /\ open[c] /\ ~ context[c] /\ state[c] = "Connected"
Closed(c) == context[c] /\ ~ open[c]
Listed(c) == c \in ToSet(list)

\* What is left of the walk of onTimer at connection c.
WalkRest(c) == {<<Op("delay", c), Op("next", c)>>, <<Op("delaySet", c), Op("next", c)>>,
                <<Op("next", c)>>}

\* What thread t can have left to do about c, and what it relies on meanwhile.
Busy(t, s, c) ==
    \/ s = <<Op("connectEstablished", c)>> /\ loop[c] = t /\ state[c] = "Connecting"
    \/ /\ s \in {<<Op("onConnection", c)>>, <<Op("enlist", c), Op("setContext", c)>>}
       /\ Entering(t, c) /\ ~ Listed(c)
    \/ s = <<Op("setContext", c)>> /\ Entering(t, c)
    \/ s = <<Op("handleClose", c)>> /\ loop[c] = t /\ context[c]
    \/ /\ s \in {<<Op("onConnection", c), Op("removeConnection", c)>>,
                <<Op("erase", c), Op("removeConnection", c)>>,
                <<Op("removeConnection", c)>>, <<Op("connectDestroyed", c)>>}
       /\ loop[c] = t /\ Closed(c)
    \/ s = <<Op("removeConnectionInLoop", c)>> /\ t = Base /\ Closed(c)
    \/ s = <<Op("shutdown", c)>> /\ loop[c] = t /\ open[c] /\ context[c]
    \/ /\ s \in {<<Op("shutdownInLoop", c)>>, <<Op("forceCloseInLoop", c)>>}
       /\ loop[c] = t /\ context[c]
    \/ /\ s = <<Op("shutdown", c), Op("delay", c), Op("next", c)>>
       /\ t = Base /\ inServer[c] /\ context[c]
    \/ /\ s = <<Op("shutdownInLoop", c), Op("delay", c), Op("next", c)>>
       /\ t = Base /\ loop[c] = t /\ context[c]
    \/ s \in WalkRest(c) /\ t = Base /\ context[c]

Good(t, s) ==
    \/ s = <<>>
    \/ \E c \in Conn : Busy(t, s, c)
    \/ \E x \in Conn \cup {None} : s = <<Op("look", x)>> /\ t = Base

\* The functors that can wait for thread t.
Queued(t, o) ==
    \E c \in Conn :
        \/ o = Op("connectEstablished", c) /\ loop[c] = t /\ state[c] = "Connecting"
        \/ o = Op("removeConnectionInLoop", c) /\ t = Base /\ Closed(c)
        \/ o = Op("connectDestroyed", c) /\ loop[c] = t /\ Closed(c)
        \/ /\ o \in {Op("shutdownInLoop", c), Op("forceCloseInLoop", c)}
           /\ loop[c] = t /\ context[c]

\* What is known of a connection, whoever is busy with it.
ConnOK(c) ==
    /\ state[c] = "none" => loop[c] = None /\ ~ inServer[c]
    /\ state[c] = "Connecting" => inServer[c]
    /\ state[c] \in {"none", "Connecting"} => ~ open[c] /\ ~ context[c] /\ ~ Listed(c)
    /\ state[c] = "Connected" => open[c]
    /\ state[c] # "none" => loop[c] \in Loops
    /\ open[c] => inServer[c] /\ state[c] \in Up
    /\ open[c] /\ ~ context[c] =>
          /\ state[c] = "Connected"
          /\ work[loop[c]] \in {<<Op("onConnection", c)>>, <<Op("enlist", c), Op("setContext", c)>>,
                               <<Op("setContext", c)>>}
    /\ force[c] => context[c]

\* connectEstablished is asked for once.
Once(t, c) ==
    LET o == Op("connectEstablished", c) IN
    /\ work[t] = <<o>> => o \notin ToSet(queue[t])
    /\ \A i, j \in DOMAIN queue[t] : queue[t][i] = o /\ queue[t][j] = o => i = j

\* Behind shutdownInLoop waits what keeps its connection.
Raw(t, c) ==
    LET o == Op("shutdownInLoop", c)
        d == Op("connectDestroyed", c)
    IN  /\ o \in ToSet(work[t]) => inServer[c] \/ d \in ToSet(queue[t])
        /\ \A i \in DOMAIN queue[t] : queue[t][i] = o =>
              inServer[c] \/ \E j \in DOMAIN queue[t] : j > i /\ queue[t][j] = d

Task == [op : Ops, conn : Conn \cup {None}]
Functor == [op : Ops, conn : Conn]

FlagsOK ==
    /\ thread \in DOMAIN Arrivals
    /\ loop \in [Conn -> Thread \cup {None}]
    /\ state \in [Conn -> State]
    /\ open \in [Conn -> BOOLEAN] /\ context \in [Conn -> BOOLEAN]
    /\ inServer \in [Conn -> BOOLEAN] /\ force \in [Conn -> BOOLEAN]
    /\ cut \in [Conn -> BOOLEAN]

AgesOK ==
    /\ age \in [Conn -> Int] /\ stepped \in Nat /\ stepped <= MaxStepped
    /\ \A c \in Conn : - stepped <= age[c] /\ age[c] <= AgeLimit

ListOK == list \in Seq(Conn) /\ IsInjective(list)
WorkOK == work \in [Thread -> Seq(Task)] /\ \A t \in Thread : Good(t, work[t])
QueuesOK ==
    /\ queue \in [Thread -> Seq(Functor)]
    /\ \A t \in Thread : \A o \in ToSet(queue[t]) : Queued(t, o)
ConnsOK == \A c \in Conn : ConnOK(c)
OrderOK == \A t \in Thread, c \in Conn : Once(t, c) /\ Raw(t, c)

CommonInv == FlagsOK /\ AgesOK /\ ListOK /\ WorkOK /\ QueuesOK /\ ConnsOK /\ OrderOK

-----------------------------------------------------------------------------
(* Sequences.                                                               *)

LEMMA Heads ==
  /\ \A a : Head(<<a>>) = a /\ <<a>> # <<>>
  /\ \A a, b : Head(<<a, b>>) = a /\ <<a, b>> # <<>>
  /\ \A a, b, d : Head(<<a, b, d>>) = a /\ <<a, b, d>> # <<>>
OBVIOUS

LEMMA Tails ==
  /\ \A a : Tail(<<a>>) = <<>>
  /\ \A a, b : Tail(<<a, b>>) = <<b>>
  /\ \A a, b, d : Tail(<<a, b, d>>) = <<b, d>>
OBVIOUS

LEMMA Pair == ASSUME NEW S, NEW s \in Seq(S), Len(s) = 2 PROVE s = <<s[1], s[2]>>
OBVIOUS

LEMMA Triple == ASSUME NEW S, NEW s \in Seq(S), Len(s) = 3 PROVE s = <<s[1], s[2], s[3]>>
OBVIOUS

LEMMA Joined ==
  ASSUME NEW a, NEW b, NEW d 
  PROVE  /\ <<>> \o <<>> = <<>> /\ <<>> \o <<a>> = <<a>> /\ <<>> \o <<a, b>> = <<a, b>>
         /\ <<>> \o <<a, b, d>> = <<a, b, d>> /\ <<a>> \o <<>> = <<a>>
         /\ <<a>> \o <<b>> = <<a, b>> /\ <<a>> \o <<b, d>> = <<a, b, d>>
         /\ <<a, b>> \o <<>> = <<a, b>> /\ <<a, b, d>> \o <<>> = <<a, b, d>>
         /\ <<a, b>> \o <<d>> = <<a, b, d>>
<1> DEFINE S == {a, b, d}
           p == <<a>> \o <<b>>
           q == <<a>> \o <<b, d>>
           r == <<a, b>> \o <<d>>
<1>1. p \in Seq(S) /\ Len(p) = 2 /\ p[1] = a /\ p[2] = b
  OBVIOUS
<1>2. q \in Seq(S) /\ Len(q) = 3 /\ q[1] = a /\ q[2] = b /\ q[3] = d
  OBVIOUS
<1>3. r \in Seq(S) /\ Len(r) = 3 /\ r[1] = a /\ r[2] = b /\ r[3] = d
  OBVIOUS
<1> HIDE DEF p, q, r, S
<1>4. p = <<a, b>>
  BY <1>1, Pair
<1>5. q = <<a, b, d>> 
  BY <1>2, Triple
<1>7. r = <<a, b, d>> 
  BY <1>3, Triple
<1>6. /\ <<a, b>> \o <<>> = <<a, b>> /\ <<a, b, d>> \o <<>> = <<a, b, d>>
      /\ <<>> \o <<a, b, d>> = <<a, b, d>>
  OBVIOUS
<1> QED
  BY <1>4, <1>5, <1>6, <1>7 DEF p, q, r

LEMMA Joins ==
  /\ <<>> \o <<>> = <<>>
  /\ \A a : <<a>> \o <<>> = <<a>> /\ <<>> \o <<a>> = <<a>>
  /\ \A a, b : <<a>> \o <<b>> = <<a, b>> /\ <<a, b>> \o <<>> = <<a, b>> /\ <<>> \o <<a, b>> = <<a, b>>
  /\ \A a, b, d : /\ <<>> \o <<a, b, d>> = <<a, b, d>>
                 /\ <<a>> \o <<b, d>> = <<a, b, d>> /\ <<a, b>> \o <<d>> = <<a, b, d>>
                 /\ <<a, b, d>> \o <<>> = <<a, b, d>>
BY Joined

LEMMA Sets ==
  /\ ToSet(<<>>) = {}
  /\ \A a : ToSet(<<a>>) = {a}
  /\ \A a, b : ToSet(<<a, b>>) = {a, b}
  /\ \A a, b, d : ToSet(<<a, b, d>>) = {a, b, d}
BY DEF ToSet

LEMMA Op1 == \A m, n, c, d : Op(m, c) = Op(n, d) <=> m = n /\ c = d
BY DEF Op

\* The list without one of its entries, which is there once.
LEMMA PositionIs ==
  ASSUME NEW c \in ToSet(list), list \in Seq(Conn)
  PROVE  Position(c) \in 1 .. Len(list) /\ list[Position(c)] = c
<1>1. DOMAIN list = 1 .. Len(list)
  OBVIOUS
<1>2. \E i \in DOMAIN list : list[i] = c
  BY DEF ToSet
<1> QED
  BY <1>1, <1>2 DEF Position

LEMMA Erased ==
  ASSUME NEW c \in ToSet(list), list \in Seq(Conn), IsInjective(list)
  PROVE  LET shorter == RemoveAt(list, Position(c))
         IN  /\ shorter \in Seq(Conn) /\ IsInjective(shorter)
             /\ ToSet(shorter) = ToSet(list) \ {c}
<1> DEFINE p == Position(c)
           s == SubSeq(list, 1, p - 1)
           e == SubSeq(list, p + 1, Len(list))
           r == s \o e
           n == Len(list)
<1>1. n \in Nat /\ p \in 1 .. n /\ list[p] = c
  BY PositionIs
<1>2. \A i, j \in 1 .. n : list[i] = list[j] => i = j
  BY DEF IsInjective
<1>3. s \in Seq(Conn) /\ Len(s) = p - 1
  BY <1>1
<1>4. e \in Seq(Conn)
  BY <1>1
<1>5. Len(e) = n - p
  BY <1>1
<1>6. \A i \in 1 .. p - 1 : s[i] = list[i]
  BY <1>1
<1>7. \A i \in 1 .. n - p : e[i] = list[p + i]
  BY <1>1
<1> HIDE DEF s, e
<1>8. r \in Seq(Conn) /\ Len(r) = n - 1
  BY <1>1, <1>3, <1>4, <1>5
<1> DEFINE at2(i) == IF i < p THEN i ELSE i + 1
<1>9. \A i \in 1 .. n - 1 : r[i] = list[at2(i)]
  <2> TAKE i \in 1 .. n - 1
  <2>1. CASE i < p
    <3>1. i \in 1 .. p - 1
      BY <1>1, <2>1
    <3>2. r[i] = s[i]
      BY <1>3, <1>4, <3>1
    <3> QED
      BY <1>6, <2>1, <3>1, <3>2
  <2>2. CASE ~ (i < p)
    <3>1. i - (p - 1) \in 1 .. n - p /\ p + (i - (p - 1)) = i + 1
      BY <1>1, <2>2
    <3>2. r[i] = e[i - (p - 1)]
      <4>1. i \in 1 .. Len(s) + Len(e) /\ ~ (i <= Len(s)) /\ i - Len(s) = i - (p - 1)
        BY <1>1, <1>3, <1>5, <2>2
      <4> QED
        BY <1>3, <1>4, <4>1
    <3> QED
      BY <1>7, <2>2, <3>1, <3>2
  <2> QED
    BY <2>1, <2>2
<1>10. \A i \in 1 .. n - 1 : at2(i) \in 1 .. n /\ at2(i) # p
  BY <1>1
<1>11. \A i, j \in 1 .. n - 1 : at2(i) = at2(j) => i = j
  BY <1>1
<1>12. \A k \in 1 .. n : k # p => \E i \in 1 .. n - 1 : at2(i) = k
  <2> TAKE k \in 1 .. n
  <2> HAVE k # p
  <2>1. CASE k < p
    <3>1. k \in 1 .. n - 1 /\ at2(k) = k
      BY <1>1, <2>1
    <3> QED
      BY <3>1
  <2>2. CASE k > p
    <3>1. k - 1 \in 1 .. n - 1 /\ at2(k - 1) = k
      BY <1>1, <2>2
    <3> QED
      BY <3>1
  <2> QED
    BY <1>1, <2>1, <2>2
<1> HIDE DEF at2, p, n, r
<1>13. DOMAIN r = 1 .. n - 1 /\ DOMAIN list = 1 .. n
  BY <1>1, <1>8 DEF n
<1>14. IsInjective(r)
  BY <1>2, <1>9, <1>10, <1>11, <1>13 DEF IsInjective
<1>15. ToSet(r) = ToSet(list) \ {c}
  <2>1. \A i \in 1 .. n - 1 : r[i] \in ToSet(list) /\ r[i] # c
    BY <1>1, <1>2, <1>9, <1>10, <1>13 DEF ToSet
  <2>2. \A k \in 1 .. n : list[k] # c => \E i \in 1 .. n - 1 : r[i] = list[k]
    BY <1>1, <1>9, <1>12
  <2> QED
    BY <1>13, <2>1, <2>2 DEF ToSet
<1>16. RemoveAt(list, Position(c)) = r
  BY DEF RemoveAt, r, s, e, p
<1> QED
  BY <1>8, <1>14, <1>15, <1>16

\* And those that stay are in the same order.
LEMMA ErasedInOrder ==
  ASSUME NEW c \in ToSet(list), list \in Seq(Conn)
  PROVE  LET shorter == RemoveAt(list, Position(c))
         IN  \A i, j \in DOMAIN shorter : i < j =>
                \E k, m \in DOMAIN list : k < m /\ shorter[i] = list[k] /\ shorter[j] = list[m]
<1> DEFINE p == Position(c)
           s == SubSeq(list, 1, p - 1)
           e == SubSeq(list, p + 1, Len(list))
           r == s \o e
           n == Len(list)
<1>1. n \in Nat /\ p \in 1 .. n
  BY PositionIs
<1>2. s \in Seq(Conn) /\ Len(s) = p - 1 /\ \A i \in 1 .. p - 1 : s[i] = list[i]
  BY <1>1
<1>3. e \in Seq(Conn) /\ Len(e) = n - p
  BY <1>1
<1>4. \A i \in 1 .. n - p : e[i] = list[p + i]
  BY <1>1
<1> HIDE DEF s, e
<1>5. r \in Seq(Conn) /\ Len(r) = n - 1
  BY <1>1, <1>2, <1>3
<1> DEFINE at2(i) == IF i < p THEN i ELSE i + 1
<1>6. ASSUME NEW i \in 1 .. n - 1 PROVE r[i] = list[at2(i)]
  <2>1. CASE i < p
    <3>1. i \in 1 .. p - 1
      BY <1>1, <2>1
    <3>2. r[i] = s[i]
      BY <1>2, <1>3, <3>1
    <3> QED
      BY <1>2, <2>1, <3>1, <3>2
  <2>2. CASE ~ (i < p)
    <3>1. i - (p - 1) \in 1 .. n - p /\ p + (i - (p - 1)) = i + 1
      BY <1>1, <2>2
    <3>2. i \in 1 .. Len(s) + Len(e) /\ ~ (i <= Len(s)) /\ i - Len(s) = i - (p - 1)
      BY <1>1, <1>2, <1>3, <2>2
    <3>3. r[i] = e[i - (p - 1)]
      BY <1>2, <1>3, <3>2
    <3> QED
      BY <1>4, <2>2, <3>1, <3>3
  <2> QED
    BY <2>1, <2>2
<1>7. \A i, j \in 1 .. n - 1 : i < j => at2(i) \in 1 .. n /\ at2(j) \in 1 .. n /\ at2(i) < at2(j)
  BY <1>1
<1> HIDE DEF at2, p, n, r
<1>8. DOMAIN r = 1 .. n - 1 /\ DOMAIN list = 1 .. n
  BY <1>1, <1>5 DEF n
<1>9. RemoveAt(list, Position(c)) = r
  BY DEF RemoveAt, r, s, e, p
<1> QED
  BY <1>6, <1>7, <1>8, <1>9

LEMMA AfterIs ==
  ASSUME NEW c \in ToSet(list), list \in Seq(Conn), IsInjective(list)
  PROVE  After(c) = None \/ After(c) \in ToSet(list) \ {c}
<1> DEFINE p == Position(c)
           n == Len(list)
<1>1. n \in Nat /\ p \in 1 .. n /\ list[p] = c /\ DOMAIN list = 1 .. n
  BY PositionIs
<1>2. CASE p # n
  <2>1. p + 1 \in 1 .. n /\ p + 1 # p
    BY <1>1, <1>2
  <2>2. After(c) = list[p + 1]
    BY <1>2 DEF After
  <2>3. list[p + 1] # c
    BY <1>1, <2>1 DEF IsInjective
  <2> QED
    BY <1>1, <2>1, <2>2, <2>3 DEF ToSet
<1> QED
  BY <1>2 DEF After

LEMMA Lengthened ==
  ASSUME list \in Seq(Conn), IsInjective(list), NEW c \in Conn, c \notin ToSet(list)
  PROVE  /\ Append(list, c) \in Seq(Conn) /\ IsInjective(Append(list, c))
         /\ ToSet(Append(list, c)) = ToSet(list) \cup {c}
<1> DEFINE n == Len(list)
           r == Append(list, c)
<1>1. n \in Nat /\ DOMAIN list = 1 .. n
  OBVIOUS
<1>2. r \in Seq(Conn) /\ Len(r) = n + 1 /\ DOMAIN r = 1 .. n + 1
  OBVIOUS
<1>3. r[n + 1] = c /\ \A i \in 1 .. n : r[i] = list[i]
  OBVIOUS
<1>4. \A i \in 1 .. n : list[i] # c
  BY <1>1 DEF ToSet
<1>5. \A i, j \in 1 .. n : list[i] = list[j] => i = j
  BY <1>1 DEF IsInjective
<1> HIDE DEF r, n
<1>6. \A i \in 1 .. n + 1 : i \in 1 .. n \/ i = n + 1
  BY <1>1
<1>7. n + 1 \in 1 .. n + 1 /\ 1 .. n \subseteq 1 .. n + 1
  BY <1>1
<1>8. IsInjective(r)
  BY <1>2, <1>3, <1>4, <1>5, <1>6 DEF IsInjective
<1>9. ToSet(r) = ToSet(list) \cup {c}
  BY <1>1, <1>2, <1>3, <1>6, <1>7 DEF ToSet
<1> QED
  BY <1>2, <1>8, <1>9 DEF r

-----------------------------------------------------------------------------
(* What a thread has left, from the step it is at.                          *)

LEMMA AtConnectEstablished ==
  ASSUME NEW t \in Thread, NEW c \in Conn, WorkOK, At(t, "connectEstablished", c)
  PROVE  work[t] = <<Op("connectEstablished", c)>> /\ loop[c] = t /\ state[c] = "Connecting"
BY Heads, Op1 DEF At, Idle, Good, Busy, WorkOK, WalkRest

LEMMA AtOnConnection ==
  ASSUME NEW t \in Thread, NEW c \in Conn, WorkOK, At(t, "onConnection", c)
  PROVE  \/ work[t] = <<Op("onConnection", c)>> /\ Entering(t, c) /\ ~ Listed(c)
         \/ /\ work[t] = <<Op("onConnection", c), Op("removeConnection", c)>>
            /\ loop[c] = t /\ Closed(c)
BY Heads, Op1 DEF At, Idle, Good, Busy, WorkOK, WalkRest

LEMMA AtEnlist ==
  ASSUME NEW t \in Thread, NEW c \in Conn, WorkOK, At(t, "enlist", c)
  PROVE  /\ work[t] = <<Op("enlist", c), Op("setContext", c)>>
         /\ Entering(t, c) /\ ~ Listed(c)
BY Heads, Op1 DEF At, Idle, Good, Busy, WorkOK, WalkRest

LEMMA AtSetContext ==
  ASSUME NEW t \in Thread, NEW c \in Conn, WorkOK, At(t, "setContext", c)
  PROVE  work[t] = <<Op("setContext", c)>> /\ Entering(t, c)
BY Heads, Op1 DEF At, Idle, Good, Busy, WorkOK, WalkRest

LEMMA AtErase ==
  ASSUME NEW t \in Thread, NEW c \in Conn, WorkOK, At(t, "erase", c)
  PROVE  /\ work[t] = <<Op("erase", c), Op("removeConnection", c)>>
         /\ loop[c] = t /\ Closed(c)
BY Heads, Op1 DEF At, Idle, Good, Busy, WorkOK, WalkRest

LEMMA AtHandleClose ==
  ASSUME NEW t \in Thread, NEW c \in Conn, WorkOK, At(t, "handleClose", c)
  PROVE  work[t] = <<Op("handleClose", c)>> /\ loop[c] = t /\ context[c]
BY Heads, Op1 DEF At, Idle, Good, Busy, WorkOK, WalkRest

LEMMA AtRemoveConnection ==
  ASSUME NEW t \in Thread, NEW c \in Conn, WorkOK, At(t, "removeConnection", c)
  PROVE  work[t] = <<Op("removeConnection", c)>> /\ loop[c] = t /\ Closed(c)
BY Heads, Op1 DEF At, Idle, Good, Busy, WorkOK, WalkRest

LEMMA AtRemoveConnectionInLoop ==
  ASSUME NEW t \in Thread, NEW c \in Conn, WorkOK, At(t, "removeConnectionInLoop", c)
  PROVE  work[t] = <<Op("removeConnectionInLoop", c)>> /\ t = Base /\ Closed(c)
BY Heads, Op1 DEF At, Idle, Good, Busy, WorkOK, WalkRest

LEMMA AtConnectDestroyed ==
  ASSUME NEW t \in Thread, NEW c \in Conn, WorkOK, At(t, "connectDestroyed", c)
  PROVE  work[t] = <<Op("connectDestroyed", c)>>
BY Heads, Op1 DEF At, Idle, Good, Busy, WorkOK, WalkRest

LEMMA AtShutdown ==
  ASSUME NEW t \in Thread, NEW c \in Conn, WorkOK, At(t, "shutdown", c)
  PROVE  /\ context[c]
         /\ \/ work[t] = <<Op("shutdown", c)>> /\ loop[c] = t /\ open[c]
            \/ /\ work[t] = <<Op("shutdown", c), Op("delay", c), Op("next", c)>>
               /\ t = Base /\ inServer[c]
BY Heads, Op1 DEF At, Idle, Good, Busy, WorkOK, WalkRest

LEMMA AtShutdownInLoop ==
  ASSUME NEW t \in Thread, NEW c \in Conn, WorkOK, At(t, "shutdownInLoop", c)
  PROVE  /\ loop[c] = t /\ context[c]
         /\ \/ work[t] = <<Op("shutdownInLoop", c)>>
            \/ work[t] = <<Op("shutdownInLoop", c), Op("delay", c), Op("next", c)>> /\ t = Base
BY Heads, Op1 DEF At, Idle, Good, Busy, WorkOK, WalkRest

LEMMA AtForceCloseInLoop ==
  ASSUME NEW t \in Thread, NEW c \in Conn, WorkOK, At(t, "forceCloseInLoop", c)
  PROVE  work[t] = <<Op("forceCloseInLoop", c)>> /\ loop[c] = t /\ context[c]
BY Heads, Op1 DEF At, Idle, Good, Busy, WorkOK, WalkRest

LEMMA AtDelay ==
  ASSUME NEW t \in Thread, NEW c \in Conn, WorkOK, At(t, "delay", c)
  PROVE  work[t] = <<Op("delay", c), Op("next", c)>> /\ t = Base /\ context[c]
BY Heads, Op1 DEF At, Idle, Good, Busy, WorkOK, WalkRest

LEMMA AtDelaySet ==
  ASSUME NEW t \in Thread, NEW c \in Conn, WorkOK, At(t, "delaySet", c)
  PROVE  work[t] = <<Op("delaySet", c), Op("next", c)>> /\ t = Base /\ context[c]
BY Heads, Op1 DEF At, Idle, Good, Busy, WorkOK, WalkRest

LEMMA AtNext ==
  ASSUME NEW t \in Thread, NEW c \in Conn, WorkOK, At(t, "next", c)
  PROVE  work[t] = <<Op("next", c)>> /\ t = Base /\ context[c]
BY Heads, Op1 DEF At, Idle, Good, Busy, WorkOK, WalkRest

LEMMA AtLook ==
  ASSUME NEW t \in Thread, NEW x \in Conn \cup {None}, WorkOK, At(t, "look", x)
  PROVE  work[t] = <<Op("look", x)>> /\ t = Base
BY Heads, Op1 DEF At, Idle, Good, Busy, WorkOK, WalkRest

-----------------------------------------------------------------------------
(* What a step leaves to everybody else.                                    *)

\* Nothing is done to a connection other than c.
OnlyOf(c) ==
    \A d \in Conn \ {c} :
        /\ loop'[d] = loop[d] /\ state'[d] = state[d] /\ open'[d] = open[d]
        /\ context'[d] = context[d] /\ inServer'[d] = inServer[d] /\ force'[d] = force[d]
        /\ Listed(d)' <=> Listed(d)

\* What no step takes back.
Steady(c) ==
    /\ state[c] # "none" => loop'[c] = loop[c]
    /\ context[c] => context'[c]
    /\ Closed(c) => ~ open'[c]

\* What thread u relies on of connection c while it is in a callback.
Undisturbed(u, c) ==
    /\ loop[c] = u /\ state[c] = "Connecting" => state'[c] = "Connecting"
    /\ loop[c] = u /\ open[c] => open'[c]
    /\ Entering(u, c) => ~ context'[c] /\ state'[c] = "Connected"
    /\ Entering(u, c) /\ ~ Listed(c) => ~ Listed(c)'
    /\ u = Base /\ inServer[c] => inServer'[c]

\* Thread t alone goes on.
Moves(t) == work' = [work EXCEPT ![t] = work'[t]]

\* Loop l is asked for functor o.
Asks(l, o) == queue' = [queue EXCEPT ![l] = Append(@, o)]

\* In its turn: connectEstablished comes once, shutdownInLoop while the server
\* holds the connection, and when it lets go connectDestroyed comes last.
InTurn(t, c, l, o) ==
    /\ inServer[c] => inServer'[c] \/ (o = Op("connectDestroyed", c) /\ l = loop[c])
    /\ \A d \in Conn :
          /\ work'[t] # <<Op("connectEstablished", d)>> \/ work'[t] = work[t]
          /\ Op("shutdownInLoop", d) \in ToSet(work'[t]) => Op("shutdownInLoop", d) \in ToSet(work[t])
          /\ o = Op("connectEstablished", d) => work[l] # <<o>> /\ o \notin ToSet(queue[l])
          /\ o = Op("shutdownInLoop", d) => inServer'[d]

\* A step that asks for nothing, but may be the first of what was waiting.
Alone(t, c) ==
    /\ UNCHANGED queue
    /\ c \in Conn /\ inServer[c] => inServer'[c]
    /\ \A d \in Conn :
          /\ work'[t] = <<Op("connectEstablished", d)>> =>
                Op("connectEstablished", d) \notin ToSet(queue[t])
          /\ Op("shutdownInLoop", d) \in ToSet(work'[t]) =>
                inServer[d] \/ Op("shutdownInLoop", d) \in ToSet(work[t])

LEMMA Typed ==
  ASSUME NEW t \in Thread, Good(t, work[t])'
  PROVE  work'[t] \in Seq(Task)
<1>1. \A m \in Ops, c \in Conn : Op(m, c) \in Task
  BY DEF Op, Task
<1>2. \A a, b, d \in Task : <<a>> \in Seq(Task) /\ <<a, b>> \in Seq(Task) /\ <<a, b, d>> \in Seq(Task)
  OBVIOUS
<1>3. \A x \in Conn \cup {None} : Op("look", x) \in Task
  BY DEF Op, Task, Ops, ListOps
<1>4. <<>> \in Seq(Task)
  OBVIOUS
<1> HIDE DEF Task
<1>5. ASSUME NEW c \in Conn
      PROVE  /\ <<Op("connectEstablished", c)>> \in Seq(Task) /\ <<Op("onConnection", c)>> \in Seq(Task)
             /\ <<Op("enlist", c), Op("setContext", c)>> \in Seq(Task)
             /\ <<Op("setContext", c)>> \in Seq(Task) /\ <<Op("handleClose", c)>> \in Seq(Task)
             /\ <<Op("onConnection", c), Op("removeConnection", c)>> \in Seq(Task)
             /\ <<Op("erase", c), Op("removeConnection", c)>> \in Seq(Task)
             /\ <<Op("removeConnection", c)>> \in Seq(Task) /\ <<Op("connectDestroyed", c)>> \in Seq(Task)
             /\ <<Op("removeConnectionInLoop", c)>> \in Seq(Task) /\ <<Op("shutdown", c)>> \in Seq(Task)
             /\ <<Op("shutdownInLoop", c)>> \in Seq(Task) /\ <<Op("forceCloseInLoop", c)>> \in Seq(Task)
             /\ <<Op("shutdown", c), Op("delay", c), Op("next", c)>> \in Seq(Task)
             /\ <<Op("shutdownInLoop", c), Op("delay", c), Op("next", c)>> \in Seq(Task)
             /\ WalkRest(c) \subseteq Seq(Task)
  <2>1. \A m \in Ops : Op(m, c) \in Task
    BY <1>1
  <2> QED
    BY <1>2, <2>1 DEF Ops, ListOps, WalkRest
<1> QED
  BY <1>2, <1>3, <1>4, <1>5 DEF Good, Busy

\* A thread that no one disturbs keeps what its callback rests on.
LEMMA BusyKept ==
  ASSUME NEW u, NEW s, NEW c \in Conn, ConnOK(c), Steady(c), Undisturbed(u, c), Busy(u, s, c)
  PROVE  Busy(u, s, c)'
BY DEF Busy, Steady, Undisturbed, ConnOK, Entering, Closed, Listed

LEMMA GoodKept ==
  ASSUME ConnsOK, NEW u \in Thread, Good(u, work[u]), work'[u] = work[u],
         \A c \in Conn : Steady(c) /\ Undisturbed(u, c)
  PROVE  Good(u, work[u])'
<1>1. PICK s : s = work[u]
  OBVIOUS
<1>2. \A c \in Conn : Busy(u, s, c) => Busy(u, s, c)'
  BY BusyKept DEF ConnsOK
<1>3. Good(u, s)'
  BY <1>1, <1>2 DEF Good
<1> QED
  BY <1>1, <1>3

LEMMA Others ==
  ASSUME NEW c, NEW d \in Conn \ {c}, OnlyOf(c)
  PROVE  Steady(d) /\ \A u \in Thread : Undisturbed(u, d)
BY DEF OnlyOf, Steady, Undisturbed, Closed, Entering

LEMMA WorkMoves ==
  ASSUME ConnsOK, WorkOK, NEW t \in Thread, NEW c \in Conn \cup {None},
         Moves(t), Good(t, work[t])', OnlyOf(c),
         c \in Conn => Steady(c) /\ \A u \in Thread \ {t} : Undisturbed(u, c)
  PROVE  WorkOK'
<1>1. ASSUME NEW u \in Thread \ {t} PROVE Good(u, work[u])'
  <2>1. Good(u, work[u]) /\ work'[u] = work[u]
    BY DEF WorkOK, Moves
  <2>2. \A d \in Conn : Steady(d) /\ Undisturbed(u, d)
    BY Others
  <2> QED
    BY <2>1, <2>2, GoodKept
<1>2. \A u \in Thread : Good(u, work[u])'
  BY <1>1
<1>3. \A u \in Thread : work'[u] \in Seq(Task)
  BY <1>2, Typed
<1>4. work' \in [Thread -> Seq(Task)]
  <2> DEFINE y == work'[t]
  <2>1. y \in Seq(Task) /\ work' = [work EXCEPT ![t] = y] /\ work \in [Thread -> Seq(Task)]
    BY <1>3 DEF Moves, WorkOK
  <2> HIDE DEF y
  <2> QED
    BY <2>1
<1> QED
  BY <1>2, <1>4 DEF WorkOK

\* A connection that nothing is done to stays as it is.
LEMMA ConnsMove ==
  ASSUME ConnsOK, WorkOK, FlagsOK, NEW t \in Thread, NEW c \in Conn \cup {None}, Moves(t), OnlyOf(c),
         Idle(t) \/ Head(work[t]).conn = c,
         c \in Conn => ConnOK(c)', UNCHANGED thread
  PROVE  ConnsOK'
<1>1. ASSUME NEW d \in Conn \ {c} PROVE ConnOK(d)'
  <2>1. open[d] /\ ~ context[d] => work'[loop[d]] = work[loop[d]]
    <3>1. SUFFICES ASSUME open[d], ~ context[d], loop[d] = t PROVE FALSE
      <4>1. open[d] => loop[d] \in Thread
        BY DEF ConnsOK, ConnOK, Up, Loops, Thread
      <4> QED
        BY <4>1 DEF Moves, WorkOK
    <3>2. work[t] \in {<<Op("onConnection", d)>>, <<Op("enlist", d), Op("setContext", d)>>,
                       <<Op("setContext", d)>>}
      BY <3>1 DEF ConnsOK, ConnOK
    <3>3. ~ Idle(t) /\ Head(work[t]).conn = d
      BY <3>2, Heads DEF Idle, Op
    <3> QED
      BY <3>3
  <2>2. ConnOK(d)
    BY DEF ConnsOK
  <2> QED
    BY <2>1, <2>2 DEF ConnOK, OnlyOf, Loops, Pooled
<1> QED
  BY <1>1 DEF ConnsOK

-----------------------------------------------------------------------------
(* The functors that wait.                                                  *)

\* What waits still may, unless it is connectEstablished of c.
LEMMA QueuedKept ==
  ASSUME ConnsOK, QueuesOK, NEW c \in Conn \cup {None}, OnlyOf(c),
         c \in Conn => /\ Steady(c)
                       /\ \A u \in Thread : Op("connectEstablished", c) \in ToSet(queue[u])
                             => state'[c] = state[c]
  PROVE  \A u \in Thread : \A o \in ToSet(queue[u]) : Queued(u, o)'
<1> SUFFICES ASSUME NEW u \in Thread, NEW o \in ToSet(queue[u]) PROVE Queued(u, o)'
  OBVIOUS
<1>1. PICK d \in Conn :
         \/ o = Op("connectEstablished", d) /\ loop[d] = u /\ state[d] = "Connecting"
         \/ o = Op("removeConnectionInLoop", d) /\ u = Base /\ Closed(d)
         \/ o = Op("connectDestroyed", d) /\ loop[d] = u /\ Closed(d)
         \/ /\ o \in {Op("shutdownInLoop", d), Op("forceCloseInLoop", d)}
            /\ loop[d] = u /\ context[d]
  BY DEF QueuesOK, Queued
<1>2. Steady(d) /\ (o = Op("connectEstablished", d) => state'[d] = state[d])
  BY Others DEF OnlyOf
<1>3. context[d] => state[d] # "none"
  BY DEF ConnsOK, ConnOK
<1> QED
  BY <1>1, <1>2, <1>3 DEF Queued, Steady, Closed

LEMMA Appended ==
  ASSUME NEW S, NEW q \in Seq(S), NEW o \in S
  PROVE  /\ Append(q, o) \in Seq(S) /\ ToSet(Append(q, o)) = ToSet(q) \cup {o}
         /\ Len(q) \in Nat /\ DOMAIN q = 1 .. Len(q)
         /\ DOMAIN Append(q, o) = 1 .. Len(q) + 1
         /\ \A i \in 1 .. Len(q) : Append(q, o)[i] = q[i]
         /\ Append(q, o)[Len(q) + 1] = o
<1> DEFINE r == Append(q, o)
           n == Len(q)
<1>1. n \in Nat /\ DOMAIN q = 1 .. n
  OBVIOUS
<1>2. r \in Seq(S) /\ DOMAIN r = 1 .. n + 1 /\ \A i \in 1 .. n : r[i] = q[i]
  OBVIOUS
<1>3. r[n + 1] = o
  OBVIOUS
<1> HIDE DEF r, n
<1>4. ToSet(r) = ToSet(q) \cup {o}
  <2>1. \A i \in 1 .. n + 1 : i \in 1 .. n \/ i = n + 1
    BY <1>1
  <2>2. 1 .. n \subseteq 1 .. n + 1 /\ n + 1 \in 1 .. n + 1
    BY <1>1
  <2> QED
    BY <1>1, <1>2, <1>3, <2>1, <2>2 DEF ToSet
<1> QED
  BY <1>1, <1>2, <1>3, <1>4 DEF r, n

\* shutdownInLoop is run, and waits, only in the loop of its connection.
LEMMA RawHome ==
  ASSUME WorkOK, QueuesOK, NEW u \in Thread, NEW c \in Conn,
         Op("shutdownInLoop", c) \in ToSet(work[u]) \cup ToSet(queue[u])
  PROVE  loop[c] = u /\ context[c]
<1>1. CASE Op("shutdownInLoop", c) \in ToSet(queue[u])
  BY <1>1, Op1 DEF QueuesOK, Queued
<1>2. CASE Op("shutdownInLoop", c) \in ToSet(work[u])
  <2>1. Good(u, work[u])
    BY DEF WorkOK
  <2> DEFINE o == Op("shutdownInLoop", c)
  <2>2. o \in ToSet(work[u]) /\ o \notin ToSet(<<>>) /\ \A x : o \notin ToSet(<<Op("look", x)>>)
    BY <1>2, Sets, Op1
  <2>3. PICK d \in Conn : Busy(u, work[u], d)
    BY <2>1, <2>2 DEF Good
  <2>4. ASSUME NEW m, o \in ToSet(<<Op(m, d)>>) PROVE m = "shutdownInLoop" /\ c = d
    BY <2>4, Sets, Op1
  <2>5. ASSUME NEW m, NEW n, o \in ToSet(<<Op(m, d), Op(n, d)>>)
        PROVE  "shutdownInLoop" \in {m, n} /\ c = d
    BY <2>5, Sets, Op1
  <2>6. ASSUME NEW m, NEW n, NEW k, o \in ToSet(<<Op(m, d), Op(n, d), Op(k, d)>>)
        PROVE  "shutdownInLoop" \in {m, n, k} /\ c = d
    BY <2>6, Sets, Op1
  <2>7. /\ \A m \in Ops \ {"shutdownInLoop"} : o \notin ToSet(<<Op(m, d)>>)
        /\ \A m, n \in Ops \ {"shutdownInLoop"} : o \notin ToSet(<<Op(m, d), Op(n, d)>>)
        /\ \A m, n, k \in Ops \ {"shutdownInLoop"} : o \notin ToSet(<<Op(m, d), Op(n, d), Op(k, d)>>)
    BY <2>4, <2>5, <2>6
  <2>8. CASE work[u] \in {<<Op("shutdownInLoop", d)>>,
                          <<Op("shutdownInLoop", d), Op("delay", d), Op("next", d)>>}
    <3>1. c = d
      BY <2>2, <2>4, <2>6, <2>8
    <3>2. work[u] # <<Op("forceCloseInLoop", d)>>
      BY <2>8, Heads, Op1
    <3> QED
      BY <2>3, <2>8, <3>1, Heads, Op1 DEF Busy, WalkRest
  <2>9. ASSUME work[u] \notin {<<Op("shutdownInLoop", d)>>,
                               <<Op("shutdownInLoop", d), Op("delay", d), Op("next", d)>>}
        PROVE FALSE
    <3> HIDE DEF o
    <3> QED
      BY <2>2, <2>3, <2>7, <2>9 DEF Busy, WalkRest, Ops, ListOps
  <2> QED
    BY <2>8, <2>9
<1> QED
  BY <1>1, <1>2

\* A step that asks for no functor, and of which thread u sees no more than that
\* t goes on.
LEMMA OrderStays ==
  ASSUME OrderOK, WorkOK, NEW t \in Thread, NEW c \in Conn \cup {None}, Moves(t), OnlyOf(c), Alone(t, c)
  PROVE  OrderOK'
<1> SUFFICES ASSUME NEW u \in Thread, NEW d \in Conn PROVE Once(u, d)' /\ Raw(u, d)'
  BY DEF OrderOK
<1>1. u # t => work'[u] = work[u]
  BY DEF Moves, WorkOK
<1>2. inServer[d] => inServer'[d]
  BY DEF OnlyOf, Alone
<1>3. Once(u, d) /\ Raw(u, d)
  BY DEF OrderOK
<1>4. Once(u, d)'
  BY <1>1, <1>3 DEF Once, Alone
<1>5. Raw(u, d)'
  BY <1>1, <1>2, <1>3 DEF Raw, Alone
<1> QED
  BY <1>4, <1>5

\* A step that asks thread l for functor o.
LEMMA OrderGrows ==
  ASSUME OrderOK, WorkOK, QueuesOK, NEW t \in Thread, NEW c \in Conn, Moves(t), OnlyOf(c),
         NEW l \in Thread, NEW o \in Functor, Asks(l, o), InTurn(t, c, l, o)
  PROVE  OrderOK'
<1> SUFFICES ASSUME NEW u \in Thread, NEW d \in Conn PROVE Once(u, d)' /\ Raw(u, d)'
  BY DEF OrderOK
<1>1. u # t => work'[u] = work[u]
  BY DEF Moves, WorkOK
<1>2. /\ queue[u] \in Seq(Functor)
      /\ (u = l => queue'[u] = Append(queue[u], o)) /\ (u # l => queue'[u] = queue[u])
  BY DEF QueuesOK, Asks
<1>3. Once(u, d) /\ Raw(u, d)
  BY DEF OrderOK
<1> DEFINE q == queue[u]
           r == Append(q, o)
           n == Len(q)
<1>4. /\ ToSet(r) = ToSet(q) \cup {o} /\ n \in Nat /\ DOMAIN q = 1 .. n /\ DOMAIN r = 1 .. n + 1
      /\ \A i \in 1 .. n : r[i] = q[i]
      /\ r[n + 1] = o
  BY <1>2, Appended
<1>5. \A i \in 1 .. n + 1 : i \in 1 .. n \/ i = n + 1
  BY <1>4
<1>6. 1 .. n \subseteq 1 .. n + 1 /\ n + 1 \in 1 .. n + 1 /\ \A i \in 1 .. n : n + 1 > i
  BY <1>4
<1>7. queue'[u] = (IF u = l THEN r ELSE q) /\ queue[u] = q
  BY <1>2
<1>8. \A i \in 1 .. n : q[i] \in ToSet(q)
  BY <1>4 DEF ToSet
<1> HIDE DEF q, r, n
<1>9. Once(u, d)'
  BY <1>1, <1>3, <1>4, <1>5, <1>7, <1>8 DEF Once, InTurn
<1>10. Raw(u, d)'
  <2> DEFINE s == Op("shutdownInLoop", d)
             e == Op("connectDestroyed", d)
  <2>1. ASSUME s \in ToSet(work[u]) \cup ToSet(q), ~ inServer'[d], inServer[d]
        PROVE  u = l /\ o = e
    <3>1. d = c
      BY <2>1 DEF OnlyOf
    <3>2. loop[d] = u
      BY <2>1, <1>7, RawHome
    <3> QED
      BY <2>1, <3>1, <3>2 DEF InTurn
  <2>2. s \in ToSet(work'[u]) => s \in ToSet(work[u])
    BY <1>1 DEF InTurn
  <2> HIDE DEF s, e
  <2>3. s \in ToSet(work'[u]) => inServer'[d] \/ e \in ToSet(queue'[u])
    BY <1>3, <1>4, <1>7, <2>1, <2>2 DEF Raw, s, e
  <2>4. ASSUME NEW i \in DOMAIN queue'[u], queue'[u][i] = s, ~ inServer'[d]
        PROVE  \E j \in DOMAIN queue'[u] : j > i /\ queue'[u][j] = e
    <3>1. i \in 1 .. n /\ q[i] = s
      <4>1. CASE u = l
        <5>1. i # n + 1
          BY <1>4, <1>7, <2>4, <4>1 DEF s, InTurn
        <5> QED
          BY <1>4, <1>5, <1>7, <2>4, <4>1, <5>1
      <4> QED
        BY <1>4, <1>7, <2>4, <4>1
    <3>2. CASE inServer[d]
      <4>1. u = l /\ o = e
        BY <1>8, <2>1, <2>4, <3>1, <3>2
      <4>2. queue'[u] = r /\ r[n + 1] = e /\ n + 1 \in DOMAIN r /\ n + 1 > i
        BY <1>4, <1>6, <1>7, <3>1, <4>1
      <4> QED
        BY <4>2
    <3>3. CASE ~ inServer[d]
      <4>1. PICK j \in 1 .. n : j > i /\ q[j] = e
        BY <1>3, <1>4, <1>7, <3>1, <3>3 DEF Raw, s, e
      <4> QED
        BY <1>4, <1>6, <1>7, <4>1
    <3> QED
      BY <3>2, <3>3
  <2> QED
    BY <2>3, <2>4 DEF Raw, s, e
<1> QED
  BY <1>9, <1>10

-----------------------------------------------------------------------------
(* One step of one thread.                                                  *)

\* Thread t goes on in a callback about c, and leaves the rest alone.
Own(t, c) ==
    /\ Moves(t) /\ OnlyOf(c) /\ UNCHANGED thread
    /\ Idle(t) \/ Head(work[t]).conn = c
    /\ Good(t, work[t])'
    /\ c \in Conn =>
          /\ Steady(c) /\ ConnOK(c)'
          /\ \A u \in Thread \ {t} : Undisturbed(u, c)
          /\ state[c] = "Connecting" =>
                \/ state'[c] = "Connecting"
                \/ work[t] = <<Op("connectEstablished", c)>> /\ loop[c] = t

\* connectEstablished waits in the loop of its connection, which is not up yet.
LEMMA Awaited ==
  ASSUME QueuesOK, OrderOK, NEW t \in Thread, NEW c \in Conn, Own(t, c),
         NEW u \in Thread, Op("connectEstablished", c) \in ToSet(queue[u])
  PROVE  state'[c] = state[c]
<1>1. loop[c] = u /\ state[c] = "Connecting"
  BY Op1 DEF QueuesOK, Queued
<1>2. ~ (work[u] = <<Op("connectEstablished", c)>>)
  BY DEF OrderOK, Once
<1> QED
  BY <1>1, <1>2 DEF Own

LEMMA StepAlone ==
  ASSUME CommonInv, FlagsOK', AgesOK', ListOK', NEW t \in Thread, NEW c \in Conn \cup {None},
         Own(t, c), Alone(t, c)
  PROVE  CommonInv'
<1>1. WorkOK'
  BY WorkMoves DEF CommonInv, Own
<1>2. ConnsOK'
  BY ConnsMove DEF CommonInv, Own
<1>3. \A o \in Functor, u \in Thread : o \in ToSet(queue[u]) => Queued(u, o)'
  <2>1. c \in Conn =>
           \A u \in Thread : Op("connectEstablished", c) \in ToSet(queue[u]) => state'[c] = state[c]
    BY Awaited DEF CommonInv
  <2> QED
    BY QueuedKept, <2>1 DEF CommonInv, Own
<1>4. QueuesOK'
  <2>1. \A u \in Thread : ToSet(queue[u]) \subseteq Functor
    BY DEF CommonInv, QueuesOK, ToSet
  <2> QED
    BY <1>3, <2>1 DEF CommonInv, QueuesOK, Alone
<1>5. OrderOK'
  BY OrderStays DEF CommonInv, Own
<1> QED
  BY <1>1, <1>2, <1>4, <1>5 DEF CommonInv

\* The same, and loop l is asked for functor o.
LEMMA StepAsking ==
  ASSUME CommonInv, FlagsOK', AgesOK', ListOK', NEW t \in Thread, NEW c \in Conn, Own(t, c),
         NEW l \in Thread, NEW o \in Functor, Asks(l, o), InTurn(t, c, l, o), Queued(l, o)'
  PROVE  CommonInv'
<1>1. WorkOK'
  BY WorkMoves DEF CommonInv, Own
<1>2. ConnsOK'
  BY ConnsMove DEF CommonInv, Own
<1>3. \A u \in Thread : \A x \in ToSet(queue[u]) : Queued(u, x)'
  <2>1. \A u \in Thread : Op("connectEstablished", c) \in ToSet(queue[u]) => state'[c] = state[c]
    BY Awaited DEF CommonInv
  <2> QED
    BY QueuedKept, <2>1 DEF CommonInv, Own
<1>4. QueuesOK'
  <2>1. queue \in [Thread -> Seq(Functor)]
    BY DEF CommonInv, QueuesOK
  <2>2. queue' \in [Thread -> Seq(Functor)]
    BY <2>1 DEF Asks
  <2>3. \A u \in Thread : \A x \in ToSet(queue'[u]) : x \in ToSet(queue[u]) \/ (u = l /\ x = o)
    <3>1. \A q \in Seq(Functor) : ToSet(Append(q, o)) = ToSet(q) \cup {o}
      BY Appended
    <3> QED
      BY <2>1, <3>1 DEF Asks
  <2> QED
    BY <1>3, <2>2, <2>3 DEF QueuesOK
<1>5. OrderOK'
  <2>1. OrderOK /\ WorkOK /\ QueuesOK /\ Moves(t) /\ OnlyOf(c)
    BY DEF CommonInv, Own
  <2> QED
    BY <2>1, OrderGrows
<1> QED
  BY <1>1, <1>2, <1>4, <1>5 DEF CommonInv

LEMMA Continues ==
  ASSUME NEW t \in Thread, NEW ops, WorkOK, Continue(t, ops)
  PROVE  Moves(t) /\ work'[t] = ops \o Tail(work[t])
BY DEF WorkOK, Continue, Moves

LEMMA GoesOn ==
  ASSUME NEW t \in Thread, WorkOK
  PROVE
  /\ \A a : work[t] = <<a>> /\ Continue(t, <<>>) =>
        Moves(t) /\ work'[t] = <<>>
  /\ \A a, x : work[t] = <<a>> /\ Continue(t, <<x>>) =>
        Moves(t) /\ work'[t] = <<x>>
  /\ \A a, x, y : work[t] = <<a>> /\ Continue(t, <<x, y>>) =>
        Moves(t) /\ work'[t] = <<x, y>>
  /\ \A a, x, y, z : work[t] = <<a>> /\ Continue(t, <<x, y, z>>) =>
        Moves(t) /\ work'[t] = <<x, y, z>>
  /\ \A a, b : work[t] = <<a, b>> /\ Continue(t, <<>>) =>
        Moves(t) /\ work'[t] = <<b>>
  /\ \A a, b, x : work[t] = <<a, b>> /\ Continue(t, <<x>>) =>
        Moves(t) /\ work'[t] = <<x, b>>
  /\ \A a, b, d : work[t] = <<a, b, d>> /\ Continue(t, <<>>) =>
        Moves(t) /\ work'[t] = <<b, d>>
  /\ \A a, b, d, x : work[t] = <<a, b, d>> /\ Continue(t, <<x>>) =>
        Moves(t) /\ work'[t] = <<x, b, d>>
<1>1. ASSUME NEW a, work[t] = <<a>>, Continue(t, <<>>)
      PROVE  Moves(t) /\ work'[t] = <<>>
  <2>1. Moves(t) /\ work'[t] = <<>> \o Tail(<<a>>)
    BY <1>1, Continues
  <2>2. Tail(<<a>>) = <<>>
    BY Tails
  <2>3. <<>> \o <<>> = <<>>
    BY Joins
  <2> QED
    BY <2>1, <2>2, <2>3
<1>2. ASSUME NEW a, NEW x, work[t] = <<a>>, Continue(t, <<x>>)
      PROVE  Moves(t) /\ work'[t] = <<x>>
  <2>1. Moves(t) /\ work'[t] = <<x>> \o Tail(<<a>>)
    BY <1>2, Continues
  <2>2. Tail(<<a>>) = <<>>
    BY Tails
  <2>3. <<x>> \o <<>> = <<x>>
    BY Joins
  <2> QED
    BY <2>1, <2>2, <2>3
<1>3. ASSUME NEW a, NEW x, NEW y, work[t] = <<a>>, Continue(t, <<x, y>>)
      PROVE  Moves(t) /\ work'[t] = <<x, y>>
  <2>1. Moves(t) /\ work'[t] = <<x, y>> \o Tail(<<a>>)
    BY <1>3, Continues
  <2>2. Tail(<<a>>) = <<>>
    BY Tails
  <2>3. <<x, y>> \o <<>> = <<x, y>>
    BY Joins
  <2> QED
    BY <2>1, <2>2, <2>3
<1>4. ASSUME NEW a, NEW x, NEW y, NEW z, work[t] = <<a>>, Continue(t, <<x, y, z>>)
      PROVE  Moves(t) /\ work'[t] = <<x, y, z>>
  <2>1. Moves(t) /\ work'[t] = <<x, y, z>> \o Tail(<<a>>)
    BY <1>4, Continues
  <2>2. Tail(<<a>>) = <<>>
    BY Tails
  <2>3. <<x, y, z>> \o <<>> = <<x, y, z>>
    BY Joins
  <2> QED
    BY <2>1, <2>2, <2>3
<1>5. ASSUME NEW a, NEW b, work[t] = <<a, b>>, Continue(t, <<>>)
      PROVE  Moves(t) /\ work'[t] = <<b>>
  <2>1. Moves(t) /\ work'[t] = <<>> \o Tail(<<a, b>>)
    BY <1>5, Continues
  <2>2. Tail(<<a, b>>) = <<b>>
    BY Tails
  <2>3. <<>> \o <<b>> = <<b>>
    BY Joins
  <2> QED
    BY <2>1, <2>2, <2>3
<1>6. ASSUME NEW a, NEW b, NEW x, work[t] = <<a, b>>, Continue(t, <<x>>)
      PROVE  Moves(t) /\ work'[t] = <<x, b>>
  <2>1. Moves(t) /\ work'[t] = <<x>> \o Tail(<<a, b>>)
    BY <1>6, Continues
  <2>2. Tail(<<a, b>>) = <<b>>
    BY Tails
  <2>3. <<x>> \o <<b>> = <<x, b>>
    BY Joins
  <2> QED
    BY <2>1, <2>2, <2>3
<1>7. ASSUME NEW a, NEW b, NEW d, work[t] = <<a, b, d>>, Continue(t, <<>>)
      PROVE  Moves(t) /\ work'[t] = <<b, d>>
  <2>1. Moves(t) /\ work'[t] = <<>> \o Tail(<<a, b, d>>)
    BY <1>7, Continues
  <2>2. Tail(<<a, b, d>>) = <<b, d>>
    BY Tails
  <2>3. <<>> \o <<b, d>> = <<b, d>>
    BY Joins
  <2> QED
    BY <2>1, <2>2, <2>3
<1>8. ASSUME NEW a, NEW b, NEW d, NEW x, work[t] = <<a, b, d>>, Continue(t, <<x>>)
      PROVE  Moves(t) /\ work'[t] = <<x, b, d>>
  <2>1. Moves(t) /\ work'[t] = <<x>> \o Tail(<<a, b, d>>)
    BY <1>8, Continues
  <2>2. Tail(<<a, b, d>>) = <<b, d>>
    BY Tails
  <2>3. <<x>> \o <<b, d>> = <<x, b, d>>
    BY Joins
  <2> QED
    BY <2>1, <2>2, <2>3
<1> QED
  BY <1>1, <1>2, <1>3, <1>4, <1>5, <1>6, <1>7, <1>8

LEMMA Bases == Base \in Thread /\ (\A l \in Loops : l \in Thread)
BY DEF Thread, Loops

LEMMA ConnectEstablishedKeeps ==
  ASSUME CommonInv, NEW t \in Thread, NEW c \in Conn, ConnectEstablished(t, c)
  PROVE  CommonInv' /\ Own(t, c)
<1>1. work[t] = <<Op("connectEstablished", c)>> /\ loop[c] = t /\ state[c] = "Connecting" 
  BY AtConnectEstablished DEF ConnectEstablished, CommonInv
<1>2. ~ context[c] /\ ~ Listed(c) /\ inServer[c] /\ loop[c] \in Loops /\ ~ force[c] /\ ~ open[c]
  BY <1>1 DEF CommonInv, ConnsOK, ConnOK
<1>3. Moves(t) /\ work'[t] = <<Op("onConnection", c)>>
  BY <1>1, GoesOn DEF ConnectEstablished, CommonInv
<1>4. FlagsOK' /\ AgesOK' /\ ListOK'
  BY DEF CommonInv, ConnectEstablished, FlagsOK, AgesOK, ListOK, config, entries, State
<1>5. UNCHANGED <<loop, context, inServer, force, list, thread, queue>>
  BY DEF ConnectEstablished, config, entries
<1>6. /\ state'[c] = "Connected" /\ open'[c] = TRUE
      /\ \A d \in Conn \ {c} : state'[d] = state[d] /\ open'[d] = open[d]
  BY DEF ConnectEstablished, CommonInv, FlagsOK
<1>7. OnlyOf(c)
  BY <1>5, <1>6 DEF OnlyOf, Listed
<1>8. Good(t, work[t])'
  BY <1>1, <1>2, <1>3, <1>5, <1>6 DEF Good, Busy, Entering, Listed
<1>9. ConnOK(c)'
  BY <1>1, <1>2, <1>3, <1>5, <1>6 DEF ConnOK, Listed, Loops, Pooled, Up
<1>10. Steady(c) /\ \A u \in Thread \ {t} : Undisturbed(u, c)
  BY <1>1, <1>2, <1>5 DEF Steady, Undisturbed, Closed, Entering
<1>11. Own(t, c)
  BY <1>1, <1>3, <1>5, <1>7, <1>8, <1>9, <1>10, Heads DEF Own, Op
<1>12. Alone(t, c)
  BY <1>3, <1>5, Sets, Op1, Heads DEF Alone
<1> QED
  BY <1>4, <1>5, <1>11, <1>12, StepAlone

\* What nobody can see from outside of the callback.
LEMMA Quiet ==
  ASSUME CommonInv, NEW t \in Thread, NEW c \in Conn \cup {None}, Moves(t),
         UNCHANGED <<thread, loop, state, open, context, inServer, force, list>>,
         Idle(t) \/ Head(work[t]).conn = c, Good(t, work[t])',
         c \in Conn /\ open[c] => context[c]
  PROVE  Own(t, c)
<1>1. OnlyOf(c)
  BY DEF OnlyOf, Listed
<1>2. ASSUME c \in Conn PROVE ConnOK(c)'
  BY <1>2 DEF CommonInv, ConnsOK, ConnOK, Listed, Loops, Pooled
<1>3. c \in Conn => Steady(c) /\ \A u \in Thread : Undisturbed(u, c)
  BY DEF Steady, Undisturbed, Closed, Entering, Listed
<1> QED
  BY <1>1, <1>2, <1>3 DEF Own

\* lastReceiveTime is now.
LEMMA Received ==
  ASSUME AgesOK, NEW c \in Conn, age' = [age EXCEPT ![c] = 0], UNCHANGED stepped
  PROVE  AgesOK'
<1>1. - stepped <= 0 /\ 0 <= AgeLimit
  BY IdleAssumption DEF AgesOK, AgeLimit
<1> QED
  BY <1>1 DEF AgesOK

LEMMA OnConnectionKeeps ==
  ASSUME CommonInv, NEW t \in Thread, NEW c \in Conn, OnConnection(t, c)
  PROVE  CommonInv' /\ Own(t, c)
<1>1. FlagsOK' /\ AgesOK' /\ ListOK'
  <2>1. FlagsOK' /\ ListOK' /\ UNCHANGED stepped
    BY DEF CommonInv, OnConnection, FlagsOK, ListOK, config
  <2>2. age' = age \/ age' = [age EXCEPT ![c] = 0]
    BY DEF OnConnection
  <2>3. AgesOK
    BY DEF CommonInv
  <2> QED
    BY <2>1, <2>2, <2>3, Received DEF AgesOK
<1>2. UNCHANGED <<thread, loop, state, open, context, inServer, force, list, queue>>
  BY DEF OnConnection, config
<1>3. WorkOK /\ At(t, "onConnection", c) /\ Head(work[t]).conn = c
  BY DEF CommonInv, OnConnection, At, Op
<1>4. CASE work[t] = <<Op("onConnection", c)>> /\ Entering(t, c) /\ ~ Listed(c)
  <2>1. Moves(t) /\ work'[t] = <<Op("enlist", c), Op("setContext", c)>>
    BY <1>3, <1>4, GoesOn DEF OnConnection, Entering
  <2>2. OnlyOf(c) /\ Steady(c) /\ \A u \in Thread : Undisturbed(u, c)
    BY <1>2 DEF OnlyOf, Steady, Undisturbed, Closed, Entering, Listed
  <2>3. Good(t, work[t])'
    BY <1>2, <1>4, <2>1 DEF Good, Busy, Entering, Listed
  <2>4. ConnOK(c)'
    BY <1>2, <1>4, <2>1 DEF CommonInv, ConnsOK, ConnOK, Entering, Listed, Loops, Pooled
  <2>5. Own(t, c)
    BY <1>2, <1>3, <1>4, <2>1, <2>2, <2>3, <2>4 DEF Own, Entering
  <2>6. Alone(t, c)
    BY <1>2, <2>1, Sets, Op1, Heads DEF Alone
  <2> QED
    BY <1>1, <2>5, <2>6, StepAlone
<1>5. CASE /\ work[t] = <<Op("onConnection", c), Op("removeConnection", c)>>
           /\ loop[c] = t /\ Closed(c)
  <2>1. state[c] # "Connected"
    BY <1>5 DEF CommonInv, ConnsOK, ConnOK, Closed
  <2>2. Moves(t) /\ work'[t] = <<Op("erase", c), Op("removeConnection", c)>>
    BY <1>3, <1>5, <2>1, GoesOn DEF OnConnection
  <2>3. Good(t, work[t])'
    BY <1>2, <1>5, <2>2 DEF Good, Busy, Closed
  <2>4. Own(t, c)
    BY <1>2, <1>3, <1>5, <2>2, <2>3, Quiet DEF Closed
  <2>5. Alone(t, c)
    BY <1>2, <2>2, Sets, Op1, Heads DEF Alone
  <2> QED
    BY <1>1, <2>4, <2>5, StepAlone
<1> QED
  BY <1>3, <1>4, <1>5, AtOnConnection

LEMMA EnlistKeeps ==
  ASSUME CommonInv, NEW t \in Thread, NEW c \in Conn, Enlist(t, c)
  PROVE  CommonInv' /\ Own(t, c)
<1>1. /\ work[t] = <<Op("enlist", c), Op("setContext", c)>>
      /\ Entering(t, c) /\ ~ Listed(c)
  BY AtEnlist DEF Enlist, CommonInv
<1>2. Moves(t) /\ work'[t] = <<Op("setContext", c)>>
  BY <1>1, GoesOn DEF Enlist, CommonInv
<1>3. ListOK' /\ ToSet(list') = ToSet(list) \cup {c}
  BY <1>1, Lengthened DEF Enlist, CommonInv, ListOK, Listed
<1>4. FlagsOK' /\ AgesOK'
  BY DEF CommonInv, Enlist, FlagsOK, AgesOK, config
<1>5. UNCHANGED <<thread, loop, state, open, context, inServer, force, queue>>
  BY DEF Enlist, config
<1>6. OnlyOf(c) /\ Steady(c)
  BY <1>3, <1>5 DEF OnlyOf, Steady, Closed, Listed
<1>7. \A u \in Thread \ {t} : Undisturbed(u, c)
  BY <1>1, <1>5 DEF Undisturbed, Entering
<1>8. Good(t, work[t])'
  BY <1>1, <1>2, <1>5 DEF Good, Busy, Entering
<1>9. ConnOK(c)'
  BY <1>1, <1>2, <1>5 DEF CommonInv, ConnsOK, ConnOK, Entering, Loops, Pooled
<1>10. Own(t, c)
  BY <1>1, <1>2, <1>5, <1>6, <1>7, <1>8, <1>9, Heads DEF Own, Op, Entering
<1>11. Alone(t, c)
  BY <1>2, <1>5, Sets, Op1, Heads DEF Alone
<1> QED
  BY <1>3, <1>4, <1>10, <1>11, StepAlone

LEMMA SetContextKeeps ==
  ASSUME CommonInv, NEW t \in Thread, NEW c \in Conn, SetContext(t, c)
  PROVE  CommonInv' /\ Own(t, c)
<1>1. work[t] = <<Op("setContext", c)>> /\ Entering(t, c)
  BY AtSetContext DEF SetContext, CommonInv
<1>2. Moves(t) /\ work'[t] = <<>>
  BY <1>1, GoesOn DEF SetContext, CommonInv
<1>3. FlagsOK' /\ AgesOK' /\ ListOK'
  BY DEF CommonInv, SetContext, FlagsOK, AgesOK, ListOK, config
<1>4. UNCHANGED <<thread, loop, state, open, inServer, force, list, queue>>
  BY DEF SetContext, config
<1>5. context'[c] /\ \A d \in Conn \ {c} : context'[d] = context[d]
  BY DEF SetContext, CommonInv, FlagsOK
<1>6. OnlyOf(c) /\ Steady(c)
  BY <1>4, <1>5 DEF OnlyOf, Steady, Closed, Listed
<1>7. \A u \in Thread \ {t} : Undisturbed(u, c)
  BY <1>1, <1>4 DEF Undisturbed, Entering
<1>8. Good(t, work[t])'
  BY <1>2 DEF Good
<1>9. ConnOK(c)'
  BY <1>1, <1>4, <1>5 DEF CommonInv, ConnsOK, ConnOK, Entering, Loops, Pooled, Listed
<1>10. Own(t, c)
  BY <1>1, <1>2, <1>4, <1>6, <1>7, <1>8, <1>9, Heads DEF Own, Op, Entering
<1>11. Alone(t, c)
  BY <1>2, <1>4, Sets, Op1, Heads DEF Alone
<1> QED
  BY <1>3, <1>10, <1>11, StepAlone

LEMMA EraseEntryKeeps ==
  ASSUME CommonInv, NEW t \in Thread, NEW c \in Conn, EraseEntry(t, c), ~ Undefined
  PROVE  CommonInv' /\ Own(t, c)
<1>1. /\ work[t] = <<Op("erase", c), Op("removeConnection", c)>>
      /\ loop[c] = t /\ Closed(c)
  BY AtErase DEF EraseEntry, CommonInv
<1>2. Listed(c)
  BY DEF EraseEntry, Undefined, Dangling, Listed
<1>3. Moves(t) /\ work'[t] = <<Op("removeConnection", c)>>
  BY <1>1, GoesOn DEF EraseEntry, CommonInv
<1>4. ListOK' /\ ToSet(list') = ToSet(list) \ {c}
  BY <1>2, Erased DEF EraseEntry, CommonInv, ListOK, Listed
<1>5. FlagsOK' /\ AgesOK'
  BY Received DEF CommonInv, EraseEntry, FlagsOK, config
<1>6. UNCHANGED <<thread, loop, state, open, context, inServer, force, queue>>
  BY DEF EraseEntry, config
<1>7. OnlyOf(c) /\ Steady(c)
  BY <1>4, <1>6 DEF OnlyOf, Steady, Closed, Listed
<1>8. \A u \in Thread \ {t} : Undisturbed(u, c)
  BY <1>1, <1>6 DEF Undisturbed, Entering
<1>9. Good(t, work[t])'
  BY <1>1, <1>3, <1>6 DEF Good, Busy, Closed
<1>10. ConnOK(c)'
  BY <1>1, <1>4, <1>6 DEF CommonInv, ConnsOK, ConnOK, Closed, Loops, Pooled, Listed
<1>11. Own(t, c)
  BY <1>1, <1>3, <1>6, <1>7, <1>8, <1>9, <1>10, Heads DEF Own, Op
<1>12. Alone(t, c)
  BY <1>3, <1>6, Sets, Op1, Heads DEF Alone
<1> QED
  BY <1>4, <1>5, <1>11, <1>12, StepAlone

LEMMA PeerClosesKeeps ==
  ASSUME CommonInv, NEW c \in Conn, PeerCloses(c)
  PROVE  CommonInv' /\ \E t \in Thread : t = loop[c] /\ Own(t, c)
<1>0. PICK t \in Thread : t = loop[c]
  BY Bases DEF PeerCloses, CommonInv, ConnsOK, ConnOK, Up
<1>1. /\ loop[c] = t /\ Idle(t) /\ work' = [work EXCEPT ![t] = <<Op("handleClose", c)>>]
      /\ work \in [Thread -> Seq(Task)] /\ ConnOK(c) /\ open[c]
  <2>1. ConnOK(c)
    BY DEF CommonInv, ConnsOK
  <2> QED
    BY <1>0, <2>1 DEF PeerCloses, CommonInv, WorkOK, ConnOK
<1>2. UNCHANGED <<thread, loop, state, open, context, inServer, force, list, queue>>
  BY DEF PeerCloses, config, entries
<1>3. FlagsOK' /\ AgesOK' /\ ListOK'
  BY <1>2 DEF CommonInv, PeerCloses, FlagsOK, AgesOK, ListOK, entries
<1>4. context[c]
  BY <1>1, Heads DEF ConnOK, Idle
<1>5. Moves(t) /\ work'[t] = <<Op("handleClose", c)>>
  BY <1>1 DEF Moves
<1>6. Good(t, work[t])'
  BY <1>1, <1>2, <1>4, <1>5 DEF Good, Busy
<1>7. Own(t, c)
  BY <1>1, <1>2, <1>4, <1>5, <1>6, Quiet
<1>8. Alone(t, c)
  BY <1>2, <1>5, Sets, Op1, Heads DEF Alone
<1> QED
  BY <1>0, <1>1, <1>3, <1>7, <1>8, StepAlone

LEMMA InvalidLengthKeeps ==
  ASSUME CommonInv, NEW c \in Conn, InvalidLength(c)
  PROVE  CommonInv' /\ \E t \in Thread : t = loop[c] /\ Own(t, c)
<1>0. PICK t \in Thread : t = loop[c]
  BY Bases DEF InvalidLength, CommonInv, ConnsOK, ConnOK, Up
<1>1. /\ loop[c] = t /\ Idle(t) /\ work' = [work EXCEPT ![t] = <<Op("shutdown", c)>>]
      /\ work \in [Thread -> Seq(Task)] /\ ConnOK(c) /\ open[c]
  <2>1. ConnOK(c)
    BY DEF CommonInv, ConnsOK
  <2> QED
    BY <1>0, <2>1 DEF InvalidLength, CommonInv, WorkOK, ConnOK
<1>2. UNCHANGED <<thread, loop, state, open, context, inServer, force, list, queue>>
  BY DEF InvalidLength, config, entries
<1>3. FlagsOK' /\ AgesOK' /\ ListOK'
  BY <1>2 DEF CommonInv, InvalidLength, FlagsOK, AgesOK, ListOK, entries
<1>4. context[c]
  BY <1>1, Heads DEF ConnOK, Idle
<1>5. Moves(t) /\ work'[t] = <<Op("shutdown", c)>>
  BY <1>1 DEF Moves
<1>6. Good(t, work[t])'
  BY <1>1, <1>2, <1>4, <1>5 DEF Good, Busy
<1>7. Own(t, c)
  BY <1>1, <1>2, <1>4, <1>5, <1>6, Quiet
<1>8. Alone(t, c)
  BY <1>2, <1>5, Sets, Op1, Heads DEF Alone
<1> QED
  BY <1>0, <1>1, <1>3, <1>7, <1>8, StepAlone

LEMMA HandleCloseKeeps ==
  ASSUME CommonInv, NEW t \in Thread, NEW c \in Conn, HandleClose(t, c)
  PROVE  CommonInv' /\ Own(t, c)
<1>1. work[t] = <<Op("handleClose", c)>> /\ loop[c] = t /\ context[c]
  BY AtHandleClose DEF HandleClose, CommonInv
<1>2. ConnOK(c)
  BY DEF CommonInv, ConnsOK
<1>3. Moves(t) /\ work'[t] = <<Op("onConnection", c), Op("removeConnection", c)>>
  BY <1>1, GoesOn DEF HandleClose, CommonInv
<1>4. FlagsOK' /\ AgesOK' /\ ListOK'
  BY DEF CommonInv, HandleClose, FlagsOK, AgesOK, ListOK, config, entries, State
<1>5. UNCHANGED <<thread, loop, context, inServer, force, list, queue>>
  BY DEF HandleClose, config, entries
<1>6. /\ state'[c] = "Disconnected" /\ ~ open'[c]
      /\ \A d \in Conn \ {c} : state'[d] = state[d] /\ open'[d] = open[d]
  BY DEF HandleClose, CommonInv, FlagsOK
<1>7. OnlyOf(c) /\ Steady(c)
  BY <1>5, <1>6 DEF OnlyOf, Steady, Closed, Listed
<1>8. \A u \in Thread \ {t} : Undisturbed(u, c)
  BY <1>1, <1>5 DEF Undisturbed, Entering
<1>9. Good(t, work[t])'
  BY <1>1, <1>3, <1>5, <1>6 DEF Good, Busy, Closed
<1>10. ConnOK(c)'
  BY <1>1, <1>2, <1>5, <1>6 DEF ConnOK, Loops, Pooled, Listed, Up
<1>11. Own(t, c)
  BY <1>1, <1>2, <1>3, <1>5, <1>7, <1>8, <1>9, <1>10, Heads DEF Own, Op, ConnOK
<1>12. Alone(t, c)
  BY <1>3, <1>5, Sets, Op1, Heads DEF Alone
<1> QED
  BY <1>4, <1>11, <1>12, StepAlone

LEMMA FunctorOp == \A m \in Ops, c \in Conn : Op(m, c) \in Functor
BY DEF Op, Functor

LEMMA RemoveConnectionKeeps ==
  ASSUME CommonInv, NEW t \in Thread, NEW c \in Conn, RemoveConnection(t, c)
  PROVE  CommonInv' /\ Own(t, c)
<1> DEFINE o == Op("removeConnectionInLoop", c)
<1>1. work[t] = <<Op("removeConnection", c)>> /\ loop[c] = t /\ Closed(c)
  BY AtRemoveConnection DEF RemoveConnection, CommonInv
<1>2. UNCHANGED <<thread, loop, state, open, context, inServer, force, list>>
  BY DEF RemoveConnection, config, entries
<1>3. FlagsOK' /\ AgesOK' /\ ListOK'
  BY DEF CommonInv, RemoveConnection, FlagsOK, AgesOK, ListOK, config, entries
<1>4. Head(work[t]).conn = c
  BY <1>1, Heads DEF Op
<1>5. CASE t = Base
  <2>1. Continue(t, <<o>>) /\ UNCHANGED queue
    BY <1>5 DEF RemoveConnection, RunInLoop
  <2>2. Moves(t) /\ work'[t] = <<o>>
    BY <1>1, <2>1, GoesOn DEF CommonInv
  <2>3. Good(t, work[t])'
    BY <1>1, <1>2, <1>5, <2>2 DEF Good, Busy, Closed
  <2>4. Own(t, c)
    BY <1>1, <1>2, <1>4, <2>2, <2>3, Quiet DEF Closed
  <2>5. Alone(t, c)
    BY <1>2, <2>1, <2>2, Sets, Op1, Heads DEF Alone
  <2> QED
    BY <1>3, <2>4, <2>5, StepAlone
<1>6. CASE t # Base
  <2>1. Continue(t, <<>>) /\ Asks(Base, o)
    BY <1>6 DEF RemoveConnection, RunInLoop, Asks
  <2>2. Moves(t) /\ work'[t] = <<>>
    BY <1>1, <2>1, GoesOn DEF CommonInv
  <2>3. Good(t, work[t])'
    BY <2>2 DEF Good
  <2>4. Own(t, c)
    BY <1>1, <1>2, <1>4, <2>2, <2>3, Quiet DEF Closed
  <2>5. Queued(Base, o)'
    BY <1>1, <1>2 DEF Queued, Closed
  <2>6. InTurn(t, c, Base, o)
    BY <1>2, <2>2, Sets, Op1, Heads DEF InTurn
  <2>7. o \in Functor
    BY FunctorOp DEF Ops
  <2> QED
    BY <1>3, <2>1, <2>4, <2>5, <2>6, <2>7, StepAsking, Bases
<1> QED
  BY <1>5, <1>6

LEMMA RemoveConnectionInLoopKeeps ==
  ASSUME CommonInv, NEW t \in Thread, NEW c \in Conn, RemoveConnectionInLoop(t, c)
  PROVE  CommonInv' /\ Own(t, c)
<1> DEFINE o == Op("connectDestroyed", c)
<1>1. work[t] = <<Op("removeConnectionInLoop", c)>> /\ t = Base /\ Closed(c)
  BY AtRemoveConnectionInLoop DEF RemoveConnectionInLoop, CommonInv
<1>2. ConnOK(c)
  BY DEF CommonInv, ConnsOK
<1>3. PICK l \in Thread : l = loop[c]
  BY <1>1, <1>2, Bases DEF ConnOK, Closed
<1>4. Moves(t) /\ work'[t] = <<>>
  BY <1>1, GoesOn DEF RemoveConnectionInLoop, CommonInv
<1>5. FlagsOK' /\ AgesOK' /\ ListOK'
  BY DEF CommonInv, RemoveConnectionInLoop, FlagsOK, AgesOK, ListOK, config, entries
<1>6. UNCHANGED <<thread, loop, state, open, context, force, list>>
  BY DEF RemoveConnectionInLoop, config, entries
<1>7. \A d \in Conn \ {c} : inServer'[d] = inServer[d]
  BY DEF RemoveConnectionInLoop, CommonInv, FlagsOK
<1>8. OnlyOf(c) /\ Steady(c)
  BY <1>6, <1>7 DEF OnlyOf, Steady, Closed, Listed
<1>9. \A u \in Thread \ {t} : Undisturbed(u, c)
  BY <1>1, <1>6 DEF Undisturbed, Entering, Closed
<1>10. Good(t, work[t])'
  BY <1>4 DEF Good
<1>11. ConnOK(c)'
  BY <1>1, <1>2, <1>6 DEF ConnOK, Loops, Pooled, Listed, Closed
<1>12. Own(t, c)
  BY <1>1, <1>2, <1>4, <1>6, <1>8, <1>9, <1>10, <1>11, Heads DEF Own, Op, ConnOK, Closed
<1>13. Asks(l, o)
  BY <1>3 DEF RemoveConnectionInLoop, Asks
<1>14. Queued(l, o)'
  BY <1>1, <1>3, <1>6 DEF Queued, Closed
<1>15. InTurn(t, c, l, o)
  BY <1>3, <1>4, Sets, Op1, Heads DEF InTurn
<1>16. o \in Functor
  BY FunctorOp DEF Ops
<1> QED
  BY <1>5, <1>12, <1>13, <1>14, <1>15, <1>16, StepAsking

\* Neither the first step of a connection, nor one that rests on a raw this.
LEMMA Harmless ==
  ASSUME NEW t, NEW c, NEW m \in Ops \ {"connectEstablished", "shutdownInLoop"}
  PROVE  \A d :
    /\ \/ work'[t] = <<>> \/ work'[t] = <<Op(m, c)>> \/ work'[t] = <<Op(m, c), Op("next", c)>>
       \/ work'[t] = <<Op(m, c), Op("delay", c), Op("next", c)>>
       => /\ work'[t] # <<Op("connectEstablished", d)>>
          /\ Op("shutdownInLoop", d) \notin ToSet(work'[t])
    /\ \/ work'[t] = <<Op("shutdownInLoop", c)>>
       \/ work'[t] = <<Op("shutdownInLoop", c), Op("delay", c), Op("next", c)>>
       => /\ work'[t] # <<Op("connectEstablished", d)>>
          /\ Op("shutdownInLoop", d) \in ToSet(work'[t]) => d = c
<1> SUFFICES ASSUME NEW d
             PROVE
    /\ \/ work'[t] = <<>> \/ work'[t] = <<Op(m, c)>> \/ work'[t] = <<Op(m, c), Op("next", c)>>
       \/ work'[t] = <<Op(m, c), Op("delay", c), Op("next", c)>>
       => /\ work'[t] # <<Op("connectEstablished", d)>>
          /\ Op("shutdownInLoop", d) \notin ToSet(work'[t])
    /\ \/ work'[t] = <<Op("shutdownInLoop", c)>>
       \/ work'[t] = <<Op("shutdownInLoop", c), Op("delay", c), Op("next", c)>>
       => /\ work'[t] # <<Op("connectEstablished", d)>>
          /\ Op("shutdownInLoop", d) \in ToSet(work'[t]) => d = c
  OBVIOUS
<1>1. /\ <<Op("connectEstablished", d)>> # <<>>
      /\ Head(<<Op("connectEstablished", d)>>) = Op("connectEstablished", d)
  BY Heads
<1>2. CASE work'[t] = <<>>
  BY <1>1, <1>2, Sets, Heads
<1>3. CASE work'[t] = <<Op(m, c)>>
  BY <1>1, <1>3, Sets, Op1, Heads
<1>4. CASE work'[t] = <<Op(m, c), Op("next", c)>>
  BY <1>1, <1>4, Sets, Op1, Heads
<1>5. CASE work'[t] = <<Op(m, c), Op("delay", c), Op("next", c)>>
  BY <1>1, <1>5, Sets, Op1, Heads
<1>6. CASE work'[t] = <<Op("shutdownInLoop", c)>>
  BY <1>1, <1>6, Sets, Op1, Heads
<1>7. CASE work'[t] = <<Op("shutdownInLoop", c), Op("delay", c), Op("next", c)>>
  BY <1>1, <1>7, Sets, Op1, Heads
<1> QED
  BY <1>2, <1>3, <1>4, <1>5, <1>6, <1>7

LEMMA NothingKeeps ==
  ASSUME CommonInv, NEW t \in Thread, NEW c \in Conn, Nothing(t, c)
  PROVE  CommonInv' /\ Own(t, c)
<1>1. UNCHANGED <<thread, loop, state, open, context, inServer, force, list, queue>>
  BY DEF Nothing, config, entries
<1>2. FlagsOK' /\ AgesOK' /\ ListOK'
  BY DEF CommonInv, Nothing, FlagsOK, AgesOK, ListOK, config, entries
<1>3. WorkOK /\ Continue(t, <<>>) /\ Head(work[t]).conn = c
  BY DEF CommonInv, Nothing, At, Op
<1>4. CASE At(t, "connectDestroyed", c)
  <2>1. work[t] = <<Op("connectDestroyed", c)>> /\ Closed(c)
    BY <1>3, <1>4, Heads, Op1 DEF WorkOK, Good, Busy, WalkRest, At, Idle
  <2>2. Moves(t) /\ work'[t] = <<>>
    BY <1>3, <2>1, GoesOn
  <2>3. Own(t, c)
    BY <1>1, <1>3, <2>1, <2>2, Quiet DEF Good, Closed
  <2>4. Alone(t, c)
    BY <1>1, <2>2, Sets, Heads DEF Alone
  <2> QED
    BY <1>2, <2>3, <2>4, StepAlone
<1>5. CASE At(t, "shutdownInLoop", c)
  <2>1. /\ context[c]
        /\ \/ work[t] = <<Op("shutdownInLoop", c)>>
           \/ work[t] = <<Op("shutdownInLoop", c), Op("delay", c), Op("next", c)>> /\ t = Base
    BY <1>3, <1>5, AtShutdownInLoop
  <2>2. /\ Moves(t)
        /\ work'[t] = <<>> \/ (work'[t] = <<Op("delay", c), Op("next", c)>> /\ t = Base)
    BY <1>3, <2>1, GoesOn
  <2>3. Good(t, work[t])'
    BY <1>1, <2>1, <2>2 DEF Good, Busy, WalkRest
  <2>4. Own(t, c)
    BY <1>1, <1>3, <2>1, <2>2, <2>3, Quiet
  <2>5. Alone(t, c)
    <3>1. "delay" \in Ops \ {"connectEstablished", "shutdownInLoop"}
      BY DEF Ops
    <3>2. \A d : /\ work'[t] # <<Op("connectEstablished", d)>>
                 /\ Op("shutdownInLoop", d) \notin ToSet(work'[t])
      BY <2>2, <3>1, Harmless
    <3> QED
      BY <1>1, <3>2 DEF Alone
  <2> QED
    BY <1>2, <2>4, <2>5, StepAlone
<1> QED
  BY <1>4, <1>5 DEF Nothing

LEMMA ShutdownKeeps ==
  ASSUME CommonInv, NEW t \in Thread, NEW c \in Conn, Shutdown(t, c)
  PROVE  CommonInv' /\ Own(t, c)
<1> DEFINE o == Op("shutdownInLoop", c)
<1>1. /\ context[c]
      /\ \/ work[t] = <<Op("shutdown", c)>> /\ loop[c] = t /\ open[c]
         \/ /\ work[t] = <<Op("shutdown", c), Op("delay", c), Op("next", c)>>
            /\ t = Base /\ inServer[c]
  BY AtShutdown DEF Shutdown, CommonInv
<1>2. ConnOK(c)
  BY DEF CommonInv, ConnsOK
<1>3. PICK l \in Thread : l = loop[c]
  BY <1>1, <1>2, Bases DEF ConnOK
<1>4. FlagsOK' /\ AgesOK' /\ ListOK'
  BY DEF CommonInv, Shutdown, FlagsOK, AgesOK, ListOK, config, entries, State
<1>5. UNCHANGED <<thread, loop, open, context, inServer, force, list>>
  BY DEF Shutdown, config, entries
<1>6. state'[c] = "Disconnecting" /\ \A d \in Conn \ {c} : state'[d] = state[d]
  BY DEF Shutdown, CommonInv, FlagsOK
<1>7. OnlyOf(c) /\ Steady(c)
  BY <1>5, <1>6 DEF OnlyOf, Steady, Closed, Listed
<1>8. \A u \in Thread : Undisturbed(u, c)
  BY <1>1, <1>2, <1>5 DEF Undisturbed, Entering, Listed, ConnOK
<1>9. ConnOK(c)'
  BY <1>1, <1>2, <1>5, <1>6 DEF ConnOK, Loops, Pooled, Listed, Up
<1>10. inServer[c] /\ Head(work[t]).conn = c /\ state[c] # "Connecting"
  BY <1>1, <1>2, Heads DEF Op, ConnOK
<1>11. CASE t = l
  <2>1. Continue(t, <<o>>) /\ UNCHANGED queue
    BY <1>3, <1>11 DEF Shutdown, RunInLoop
  <2>2. /\ Moves(t)
        /\ \/ work'[t] = <<o>>
           \/ work'[t] = <<o, Op("delay", c), Op("next", c)>> /\ t = Base
    BY <1>1, <2>1, GoesOn DEF CommonInv
  <2>3. Good(t, work[t])'
    BY <1>1, <1>3, <1>5, <1>11, <2>2 DEF Good, Busy
  <2>4. Own(t, c)
    BY <1>5, <1>7, <1>8, <1>9, <1>10, <2>2, <2>3 DEF Own
  <2>5. Alone(t, c)
    <3>1. "delay" \in Ops \ {"connectEstablished", "shutdownInLoop"}
      BY DEF Ops
    <3>2. \A d : /\ work'[t] # <<Op("connectEstablished", d)>>
                 /\ Op("shutdownInLoop", d) \in ToSet(work'[t]) => d = c
      BY <2>2, <3>1, Harmless
    <3> QED
      BY <1>5, <1>10, <2>1, <3>2 DEF Alone
  <2> QED
    BY <1>4, <2>4, <2>5, StepAlone
<1>12. CASE t # l
  <2>1. Continue(t, <<>>) /\ Asks(l, o)
    BY <1>3, <1>12 DEF Shutdown, RunInLoop, Asks
  <2>2. Moves(t) /\ work'[t] = <<Op("delay", c), Op("next", c)>> /\ t = Base
    BY <1>1, <1>3, <1>12, <2>1, GoesOn DEF CommonInv
  <2>3. Good(t, work[t])'
    BY <1>1, <1>5, <2>2 DEF Good, Busy, WalkRest
  <2>4. Own(t, c)
    BY <1>5, <1>7, <1>8, <1>9, <1>10, <2>2, <2>3 DEF Own
  <2>5. Queued(l, o)'
    BY <1>1, <1>3, <1>5 DEF Queued
  <2>6. InTurn(t, c, l, o)
    BY <1>5, <1>10, <2>2, Sets, Op1, Heads DEF InTurn
  <2>7. o \in Functor
    BY FunctorOp DEF Ops
  <2> QED
    BY <1>4, <2>1, <2>4, <2>5, <2>6, <2>7, StepAsking
<1> QED
  BY <1>11, <1>12

LEMMA DelayKeeps ==
  ASSUME CommonInv, NEW t \in Thread, NEW c \in Conn, Delay(t, c)
  PROVE  CommonInv' /\ Own(t, c)
<1>1. work[t] = <<Op("delay", c), Op("next", c)>> /\ t = Base /\ context[c]
  BY AtDelay DEF Delay, CommonInv
<1>2. UNCHANGED <<thread, loop, state, open, context, inServer, force, list, queue>>
  BY DEF Delay, config, entries
<1>3. FlagsOK' /\ AgesOK' /\ ListOK'
  BY DEF CommonInv, Delay, FlagsOK, AgesOK, ListOK, config, entries
<1>4. Continue(t, <<Op("delaySet", c)>>) \/ Continue(t, <<>>)
  BY DEF Delay
<1>5. /\ Moves(t) /\ Head(work[t]).conn = c
      /\ work'[t] = <<Op("delaySet", c), Op("next", c)>> \/ work'[t] = <<Op("next", c)>>
  BY <1>1, <1>4, GoesOn, Heads DEF CommonInv, Op
<1>6. Good(t, work[t])'
  BY <1>1, <1>2, <1>5 DEF Good, Busy, WalkRest
<1>7. Own(t, c)
  BY <1>1, <1>2, <1>5, <1>6, Quiet
<1>8. Alone(t, c)
  <2>1. {"delaySet", "next"} \subseteq Ops \ {"connectEstablished", "shutdownInLoop"}
    BY DEF Ops, ListOps
  <2>2. \A d : /\ work'[t] # <<Op("connectEstablished", d)>>
               /\ Op("shutdownInLoop", d) \notin ToSet(work'[t])
    BY <1>5, <2>1, Harmless
  <2> QED
    BY <1>2, <2>2 DEF Alone
<1> QED
  BY <1>3, <1>7, <1>8, StepAlone

LEMMA DelaySetKeeps ==
  ASSUME CommonInv, NEW t \in Thread, NEW c \in Conn, DelaySet(t, c)
  PROVE  CommonInv' /\ Own(t, c)
<1>1. work[t] = <<Op("delaySet", c), Op("next", c)>> /\ t = Base /\ context[c]
  BY AtDelaySet DEF DelaySet, CommonInv
<1>2. ConnOK(c)
  BY DEF CommonInv, ConnsOK
<1>3. Moves(t) /\ work'[t] = <<Op("next", c)>>
  BY <1>1, GoesOn DEF DelaySet, CommonInv
<1>4. FlagsOK' /\ AgesOK' /\ ListOK'
  BY DEF CommonInv, DelaySet, FlagsOK, AgesOK, ListOK, config, entries, State
<1>5. UNCHANGED <<thread, loop, open, context, inServer, list, queue>>
  BY DEF DelaySet, config, entries
<1>6. /\ state'[c] = "Disconnecting"
      /\ \A d \in Conn \ {c} : state'[d] = state[d] /\ force'[d] = force[d]
  BY DEF DelaySet, CommonInv, FlagsOK
<1>7. OnlyOf(c) /\ Steady(c)
  BY <1>5, <1>6 DEF OnlyOf, Steady, Closed, Listed
<1>8. \A u \in Thread : Undisturbed(u, c)
  BY <1>1, <1>2, <1>5 DEF Undisturbed, Entering, Listed, ConnOK
<1>9. ConnOK(c)'
  BY <1>1, <1>2, <1>5, <1>6 DEF ConnOK, Loops, Pooled, Listed, Up
<1>10. Good(t, work[t])'
  BY <1>1, <1>3, <1>5 DEF Good, Busy, WalkRest
<1>11. Own(t, c)
  BY <1>1, <1>2, <1>3, <1>5, <1>7, <1>8, <1>9, <1>10, Heads DEF Own, Op, ConnOK
<1>12. Alone(t, c)
  BY <1>3, <1>5, Sets, Op1, Heads DEF Alone
<1> QED
  BY <1>4, <1>11, <1>12, StepAlone

LEMMA ForceCloseInLoopKeeps ==
  ASSUME CommonInv, NEW t \in Thread, NEW c \in Conn, ForceCloseInLoop(t, c)
  PROVE  CommonInv' /\ Own(t, c)
<1>1. work[t] = <<Op("forceCloseInLoop", c)>> /\ loop[c] = t /\ context[c]
  BY AtForceCloseInLoop DEF ForceCloseInLoop, CommonInv
<1>2. UNCHANGED <<thread, loop, state, open, context, inServer, force, list, queue>>
  BY DEF ForceCloseInLoop, config, entries
<1>3. FlagsOK' /\ AgesOK' /\ ListOK'
  BY DEF CommonInv, ForceCloseInLoop, FlagsOK, AgesOK, ListOK, config, entries
<1>4. Continue(t, <<Op("handleClose", c)>>) \/ Continue(t, <<>>)
  BY DEF ForceCloseInLoop
<1>5. /\ Moves(t) /\ Head(work[t]).conn = c
      /\ work'[t] = <<Op("handleClose", c)>> \/ work'[t] = <<>>
  BY <1>1, <1>4, GoesOn, Heads DEF CommonInv, Op
<1>6. Good(t, work[t])'
  BY <1>1, <1>2, <1>5 DEF Good, Busy
<1>7. Own(t, c)
  BY <1>1, <1>2, <1>5, <1>6, Quiet
<1>8. Alone(t, c)
  <2>1. "handleClose" \in Ops \ {"connectEstablished", "shutdownInLoop"}
    BY DEF Ops
  <2>2. \A d : /\ work'[t] # <<Op("connectEstablished", d)>>
               /\ Op("shutdownInLoop", d) \notin ToSet(work'[t])
    BY <1>5, <2>1, Harmless
  <2> QED
    BY <1>2, <2>2 DEF Alone
<1> QED
  BY <1>3, <1>7, <1>8, StepAlone

LEMMA ForceCloseKeeps ==
  ASSUME CommonInv, NEW c \in Conn, ForceClose(c)
  PROVE  CommonInv' /\ \E t \in Thread : t = loop[c] /\ Own(t, c)
<1> DEFINE o == Op("forceCloseInLoop", c)
<1>1. ConnOK(c) /\ force[c] /\ context[c] /\ state[c] \notin {"none", "Connecting"}
  BY DEF CommonInv, ConnsOK, ConnOK, ForceClose
<1>2. PICK t \in Thread : t = loop[c]
  BY <1>1, Bases DEF ConnOK
<1>3. Idle(t) /\ UNCHANGED <<thread, loop, open, context, inServer, list, work>>
  BY <1>2 DEF ForceClose, config, entries
<1>4. FlagsOK' /\ AgesOK' /\ ListOK'
  BY DEF CommonInv, ForceClose, FlagsOK, AgesOK, ListOK, config, entries, State
<1>5. Moves(t) /\ work'[t] = <<>>
  <2>1. work \in [Thread -> Seq(Task)]
    BY DEF CommonInv, WorkOK
  <2> QED
    BY <1>3, <2>1 DEF Moves, Idle
<1>6. /\ state'[c] \in {state[c], "Disconnecting"} /\ ~ force'[c]
      /\ \A d \in Conn \ {c} : state'[d] = state[d] /\ force'[d] = force[d]
  BY DEF ForceClose, CommonInv, FlagsOK
<1>7. OnlyOf(c) /\ Steady(c)
  BY <1>3, <1>6 DEF OnlyOf, Steady, Closed, Listed
<1>8. \A u \in Thread : Undisturbed(u, c)
  BY <1>1, <1>3, <1>6 DEF Undisturbed, Entering, Listed, ConnOK
<1>9. ConnOK(c)'
  BY <1>1, <1>3, <1>6 DEF ConnOK, Loops, Pooled, Listed, Up
<1>10. Good(t, work[t])'
  BY <1>5 DEF Good
<1>11. Own(t, c)
  BY <1>1, <1>3, <1>5, <1>7, <1>8, <1>9, <1>10 DEF Own
<1>12. CASE UNCHANGED queue
  <2>1. Alone(t, c)
    BY <1>3, <1>5, <1>12, Sets, Heads DEF Alone
  <2> QED
    BY <1>2, <1>4, <1>11, <2>1, StepAlone
<1>13. CASE queue' = [queue EXCEPT ![loop[c]] = Append(@, o)]
  <2>1. Asks(t, o)
    BY <1>2, <1>13 DEF Asks
  <2>2. Queued(t, o)'
    BY <1>1, <1>2, <1>3 DEF Queued
  <2>3. InTurn(t, c, t, o)
    BY <1>3, <1>5, Sets, Op1, Heads DEF InTurn
  <2>4. o \in Functor
    BY FunctorOp DEF Ops
  <2> QED
    BY <1>2, <1>4, <1>11, <2>1, <2>2, <2>3, <2>4, StepAsking
<1> QED
  BY <1>12, <1>13 DEF ForceClose

LEMMA OnTimerKeeps ==
  ASSUME CommonInv, OnTimer
  PROVE  CommonInv' /\ Own(Base, None)
<1>1. PICK x \in Conn \cup {None} : work' = [work EXCEPT ![Base] = <<Op("look", x)>>]
  <2>1. list # <<>> => Head(list) \in Conn
    BY DEF CommonInv, ListOK
  <2> QED
    BY <2>1 DEF OnTimer
<1>2. UNCHANGED <<thread, loop, state, open, context, inServer, force, list, queue>>
  BY DEF OnTimer, config, entries
<1>3. FlagsOK' /\ AgesOK' /\ ListOK'
  BY DEF CommonInv, OnTimer, FlagsOK, AgesOK, ListOK, config, entries
<1>4. Base \in Thread /\ Idle(Base)
  BY Bases DEF OnTimer
<1>5. Moves(Base) /\ work'[Base] = <<Op("look", x)>>
  BY <1>1, <1>4 DEF Moves, CommonInv, WorkOK
<1>6. Good(Base, work[Base])'
  BY <1>5 DEF Good
<1>7. Own(Base, None)
  BY <1>2, <1>4, <1>5, <1>6, Quiet, NoConnAssumption
<1>8. Alone(Base, None)
  BY <1>2, <1>5, Sets, Op1, Heads, NoConnAssumption DEF Alone
<1> QED
  BY <1>3, <1>4, <1>7, <1>8, StepAlone

\* What the walk of onTimer leaves alone.
WalkFrame == UNCHANGED <<config, state, open, context, inServer, force, cut, stepped, queue>>

LEMMA WalkEndsKeeps ==
  ASSUME CommonInv, WalkFrame, WalkEnds
  PROVE  CommonInv' /\ Own(Base, None)
<1>1. Base \in Thread /\ WorkOK
  BY Bases DEF CommonInv
<1>2. work[Base] = <<Op("look", None)>>
  BY <1>1, AtLook DEF WalkEnds
<1>3. UNCHANGED <<thread, loop, state, open, context, inServer, force, list, queue>>
  BY DEF WalkFrame, WalkEnds, config
<1>4. FlagsOK' /\ AgesOK' /\ ListOK'
  BY DEF CommonInv, WalkFrame, WalkEnds, FlagsOK, AgesOK, ListOK, config
<1>5. Moves(Base) /\ work'[Base] = <<>>
  BY <1>1, <1>2, GoesOn DEF WalkEnds
<1>6. Good(Base, work[Base])'
  BY <1>5 DEF Good
<1>7. Head(work[Base]).conn = None
  BY <1>2, Heads DEF Op
<1>8. Own(Base, None)
  BY <1>1, <1>3, <1>5, <1>6, <1>7, Quiet, NoConnAssumption
<1>9. Alone(Base, None)
  BY <1>3, <1>5, Sets, Heads, NoConnAssumption DEF Alone
<1> QED
  BY <1>1, <1>4, <1>8, <1>9, StepAlone

LEMMA WalkNextKeeps ==
  ASSUME CommonInv, NEW c \in Conn, WalkFrame, WalkNext(c), ~ Undefined
  PROVE  CommonInv' /\ Own(Base, c)
<1>1. Base \in Thread /\ WorkOK
  BY Bases DEF CommonInv
<1>2. work[Base] = <<Op("next", c)>> /\ context[c]
  BY <1>1, AtNext DEF WalkNext
<1>3. PICK x \in Conn \cup {None} : x = After(c)
  <2>1. c \in ToSet(list) /\ list \in Seq(Conn) /\ IsInjective(list)
    BY <1>1 DEF WalkNext, Undefined, Dangling, CommonInv, ListOK
  <2>2. ToSet(list) \subseteq Conn
    BY <2>1 DEF ToSet
  <2> QED
    BY <2>1, <2>2, AfterIs
<1>4. UNCHANGED <<thread, loop, state, open, context, inServer, force, list, queue>>
  BY DEF WalkFrame, WalkNext, config
<1>5. FlagsOK' /\ AgesOK' /\ ListOK'
  BY DEF CommonInv, WalkFrame, WalkNext, FlagsOK, AgesOK, ListOK, config
<1>6. Continue(Base, <<Op("look", x)>>)
  BY <1>3 DEF WalkNext
<1>7. Moves(Base) /\ work'[Base] = <<Op("look", x)>>
  BY <1>1, <1>2, <1>6, GoesOn
<1>8. Good(Base, work[Base])'
  BY <1>7 DEF Good
<1>9. Head(work[Base]).conn = c
  BY <1>2, Heads DEF Op
<1>10. Own(Base, c)
  BY <1>1, <1>2, <1>4, <1>7, <1>8, <1>9, Quiet
<1>11. Alone(Base, c)
  BY <1>4, <1>7, Sets, Op1, Heads DEF Alone
<1> QED
  BY <1>1, <1>5, <1>10, <1>11, StepAlone

LEMMA WalkEntryKeeps ==
  ASSUME CommonInv, NEW c \in Conn, WalkFrame, WalkEntry(c), ~ Undefined
  PROVE  CommonInv' /\ Own(Base, c)
<1>1. Base \in Thread /\ WorkOK /\ ConnOK(c)
  BY Bases DEF CommonInv, ConnsOK
<1>2. work[Base] = <<Op("look", c)>>
  BY <1>1, AtLook DEF WalkEntry
<1>3. Listed(c) /\ (Alive(c) => context[c])
  BY <1>1 DEF WalkEntry, Undefined, Dangling, Listed
<1>4. UNCHANGED <<thread, loop, state, open, context, inServer, force, queue>>
  BY DEF WalkFrame, config
<1>5. FlagsOK'
  BY DEF CommonInv, WalkFrame, FlagsOK, config
<1>6. Head(work[Base]).conn = c
  BY <1>2, Heads DEF Op
<1>7. CASE ~ Alive(c)
  <2>1. ListOK' /\ ToSet(list') = ToSet(list) \ {c}
    BY <1>3, <1>7, Erased DEF WalkEntry, CommonInv, ListOK, Listed
  <2>2. AgesOK'
    BY <1>7 DEF CommonInv, AgesOK, WalkEntry, WalkFrame
  <2>3. PICK x \in Conn \cup {None} : x = After(c)
    <3>1. c \in ToSet(list) /\ list \in Seq(Conn) /\ IsInjective(list)
      BY <1>3 DEF Listed, CommonInv, ListOK
    <3>2. ToSet(list) \subseteq Conn
      BY <3>1 DEF ToSet
    <3> QED
      BY <3>1, <3>2, AfterIs
  <2>4. Continue(Base, <<Op("look", x)>>)
    BY <1>7, <2>3 DEF WalkEntry
  <2>5. Moves(Base) /\ work'[Base] = <<Op("look", x)>>
    BY <1>1, <1>2, <2>4, GoesOn
  <2>6. Good(Base, work[Base])'
    BY <2>5 DEF Good
  <2>7. OnlyOf(c) /\ Steady(c) /\ \A u \in Thread : Undisturbed(u, c)
    BY <1>4, <2>1 DEF OnlyOf, Steady, Undisturbed, Entering, Closed, Listed
  <2>8. ~ open[c]
    BY <1>1, <1>7 DEF ConnOK, Alive
  <2>9. ConnOK(c)'
    BY <1>1, <1>4, <2>1, <2>8 DEF ConnOK, Loops, Pooled, Listed
  <2>10. Own(Base, c)
    BY <1>1, <1>4, <1>6, <2>5, <2>6, <2>7, <2>9 DEF Own
  <2>11. Alone(Base, c)
    BY <1>4, <2>5, Sets, Op1, Heads DEF Alone
  <2> QED
    BY <1>1, <1>5, <2>1, <2>2, <2>10, <2>11, StepAlone
<1>8. CASE Alive(c)
  <2>1. ListOK' /\ UNCHANGED list
    BY <1>8 DEF WalkEntry, CommonInv, ListOK
  <2>2. AgesOK'
    <3>1. AgesOK /\ UNCHANGED stepped /\ age' = [age EXCEPT ![c] = IF age[c] < 0 THEN 0 ELSE age[c]]
      BY <1>8 DEF CommonInv, WalkEntry, WalkFrame
    <3>2. CASE age[c] < 0
      BY <3>1, <3>2, Received
    <3>3. CASE ~ (age[c] < 0)
      BY <3>1, <3>3 DEF AgesOK
    <3> QED
      BY <3>2, <3>3
  <2>3. \/ /\ Continue(Base, <<Op("shutdown", c), Op("delay", c), Op("next", c)>>)
           /\ state[c] = "Connected"
        \/ Continue(Base, <<Op("next", c)>>)
        \/ Continue(Base, <<>>)
    BY <1>8 DEF WalkEntry, CutOff
  <2>4. /\ Moves(Base)
        /\ \/ /\ work'[Base] = <<Op("shutdown", c), Op("delay", c), Op("next", c)>>
              /\ state[c] = "Connected"
           \/ work'[Base] = <<Op("next", c)>>
           \/ work'[Base] = <<>>
    BY <1>1, <1>2, <2>3, GoesOn
  <2>5. state[c] = "Connected" => inServer[c]
    BY <1>1 DEF ConnOK
  <2>6. Good(Base, work[Base])'
    BY <1>3, <1>4, <1>8, <2>4, <2>5 DEF Good, Busy, WalkRest
  <2>7. Own(Base, c)
    BY <1>1, <1>3, <1>4, <1>6, <1>8, <2>1, <2>4, <2>6, Quiet
  <2>8. Alone(Base, c)
    <3>1. {"shutdown", "next"} \subseteq Ops \ {"connectEstablished", "shutdownInLoop"}
      BY DEF Ops, ListOps
    <3>2. \A d : /\ work'[Base] # <<Op("connectEstablished", d)>>
                 /\ Op("shutdownInLoop", d) \notin ToSet(work'[Base])
      BY <2>4, <3>1, Harmless
    <3> QED
      BY <1>4, <3>2 DEF Alone
  <2> QED
    BY <1>1, <1>5, <2>1, <2>2, <2>7, <2>8, StepAlone
<1> QED
  BY <1>7, <1>8

\* Time, which only the ages see.
LEMMA TimeKeeps ==
  ASSUME CommonInv, Tick \/ StepBack
  PROVE  CommonInv'
<1>1. UNCHANGED <<thread, loop, state, open, context, list, inServer, force, cut, work, queue>>
  BY DEF Tick, StepBack, config, threads
<1>2. AgesOK'
  <2>1. AgesOK /\ AgeLimit \in Int /\ MaxStepped \in Nat
    BY IdleAssumption DEF CommonInv, AgeLimit
  <2> HIDE DEF AgeLimit
  <2>2. CASE Tick
    BY <2>1, <2>2 DEF Tick, AgesOK
  <2>3. CASE StepBack
    BY <2>1, <2>3 DEF StepBack, AgesOK
  <2> QED
    BY <2>2, <2>3
<1>3. FlagsOK' /\ ListOK' /\ ConnsOK'
  BY <1>1 DEF CommonInv, FlagsOK, ListOK, ConnsOK, ConnOK, Listed, Loops, Pooled
<1>4. WorkOK' /\ QueuesOK' /\ OrderOK'
  BY <1>1 DEF CommonInv, WorkOK, Good, Busy, Entering, Closed, Listed, QueuesOK, Queued,
              OrderOK, Once, Raw
<1> QED
  BY <1>2, <1>3, <1>4 DEF CommonInv

LEMMA NewConnectionKeeps ==
  ASSUME CommonInv, NEW c \in Conn, NEW l \in Loops, NewConnection(c, l)
  PROVE  CommonInv' /\ Own(Base, c)
<1> DEFINE o == Op("connectEstablished", c)
<1>1. Base \in Thread /\ l \in Thread /\ Idle(Base) /\ ConnOK(c) /\ state[c] = "none"
  BY Bases DEF CommonInv, ConnsOK, NewConnection
<1>2. FlagsOK' /\ AgesOK' /\ ListOK'
  BY Bases DEF CommonInv, NewConnection, FlagsOK, AgesOK, ListOK, entries, State
<1>3. UNCHANGED <<thread, open, context, force, list>>
  BY DEF NewConnection, entries
<1>4. /\ loop'[c] = l /\ state'[c] = "Connecting" /\ inServer'[c]
      /\ \A d \in Conn \ {c} : loop'[d] = loop[d] /\ state'[d] = state[d] /\ inServer'[d] = inServer[d]
  BY DEF CommonInv, FlagsOK, NewConnection
<1>5. OnlyOf(c)
  BY <1>3, <1>4 DEF OnlyOf, Listed
<1>6. Steady(c) /\ (\A u \in Thread : Undisturbed(u, c))
  BY <1>1, <1>3, <1>4 DEF Steady, Undisturbed, Entering, Closed, ConnOK, Listed
<1>7. ConnOK(c)'
  BY <1>1, <1>3, <1>4 DEF ConnOK, Loops, Pooled, Listed
<1>8. \A u \in Thread : o \notin ToSet(queue[u]) /\ work[u] # <<o>>
  <2>1. ASSUME NEW u \in Thread, o \in ToSet(queue[u]) PROVE FALSE
    BY <1>1, <2>1, Op1 DEF CommonInv, QueuesOK, Queued
  <2>2. ASSUME NEW u \in Thread, work[u] = <<o>> PROVE FALSE
    <3>1. At(u, "connectEstablished", c)
      BY <2>2, Heads DEF At, Idle
    <3> QED
      BY <1>1, <3>1, AtConnectEstablished DEF CommonInv
  <2> QED
    BY <2>1, <2>2
<1>9. CASE l = Base
  <2>1. UNCHANGED queue /\ work' = [work EXCEPT ![Base] = <<o>>]
    BY <1>9 DEF NewConnection
  <2>2. Moves(Base) /\ work'[Base] = <<o>>
    BY <1>1, <2>1 DEF Moves, CommonInv, WorkOK
  <2>3. Good(Base, work[Base])'
    BY <1>4, <1>9, <2>2 DEF Good, Busy
  <2>4. Own(Base, c)
    BY <1>1, <1>3, <1>5, <1>6, <1>7, <2>2, <2>3 DEF Own
  <2>5. Alone(Base, c)
    <3>1. ASSUME NEW d, work'[Base] = <<Op("connectEstablished", d)>> PROVE d = c
      BY <2>2, <3>1, Heads, Op1
    <3>2. \A d : Op("shutdownInLoop", d) \notin ToSet(work'[Base])
      BY <2>2, Sets, Op1
    <3> QED
      BY <1>1, <1>4, <1>8, <2>1, <3>1, <3>2 DEF Alone
  <2> QED
    BY <1>1, <1>2, <2>4, <2>5, StepAlone
<1>10. CASE l # Base
  <2>1. UNCHANGED work /\ Asks(l, o)
    BY <1>10 DEF NewConnection, Asks
  <2>2. Moves(Base) /\ work'[Base] = <<>>
    BY <1>1, <2>1 DEF Moves, CommonInv, WorkOK, Idle
  <2>3. Good(Base, work[Base])'
    BY <2>2 DEF Good
  <2>4. Own(Base, c)
    BY <1>1, <1>3, <1>5, <1>6, <1>7, <2>2, <2>3 DEF Own
  <2>5. Queued(l, o)'
    BY <1>4 DEF Queued
  <2>6. InTurn(Base, c, l, o)
    BY <1>1, <1>4, <1>8, <2>1, <2>2, Sets, Op1, Heads DEF InTurn
  <2>7. o \in Functor
    BY FunctorOp DEF Ops
  <2> QED
    BY <1>1, <1>2, <2>1, <2>4, <2>5, <2>6, <2>7, StepAsking
<1> QED
  BY <1>9, <1>10

LEMMA FirstOut ==
  ASSUME NEW S, NEW q \in Seq(S), q # <<>>
  PROVE  /\ Head(q) \in S /\ Head(q) \in ToSet(q) /\ Tail(q) \in Seq(S)
         /\ ToSet(Tail(q)) \subseteq ToSet(q)
         /\ Len(q) \in Nat \ {0} /\ Head(q) = q[1] /\ DOMAIN q = 1 .. Len(q)
         /\ DOMAIN Tail(q) = 1 .. Len(q) - 1
         /\ \A i \in 1 .. Len(q) - 1 : Tail(q)[i] = q[i + 1]
<1> DEFINE r == Tail(q)
           n == Len(q)
<1>1. n \in Nat \ {0} /\ DOMAIN q = 1 .. n /\ Head(q) = q[1] /\ r \in Seq(S)
  OBVIOUS
<1>2. DOMAIN r = 1 .. n - 1 /\ \A i \in 1 .. n - 1 : r[i] = q[i + 1]
  OBVIOUS
<1>3. q[1] \in S
  OBVIOUS
<1> HIDE DEF r, n
<1>4. 1 \in 1 .. n /\ \A i \in 1 .. n - 1 : i + 1 \in 1 .. n
  BY <1>1
<1>5. Head(q) \in ToSet(q) /\ ToSet(r) \subseteq ToSet(q)
  BY <1>1, <1>2, <1>4 DEF ToSet
<1> QED
  BY <1>1, <1>2, <1>3, <1>5 DEF r, n

LEMMA TakeKeeps ==
  ASSUME CommonInv, NEW t \in Thread, Take(t)
  PROVE  CommonInv'
<1>1. /\ UNCHANGED <<thread, loop, state, open, context, age, list, inServer, force, cut, stepped>>
      /\ Idle(t) /\ queue[t] # <<>>
  BY DEF Take, config, entries
<1>2. FlagsOK' /\ AgesOK' /\ ListOK'
  BY <1>1 DEF CommonInv, FlagsOK, AgesOK, ListOK
<1>3. work \in [Thread -> Seq(Task)] /\ queue \in [Thread -> Seq(Functor)]
  BY DEF CommonInv, WorkOK, QueuesOK
<1>4. PICK a : a = Head(queue[t])
  OBVIOUS
<1>5. /\ work' = [work EXCEPT ![t] = <<a>>]
      /\ queue' = [queue EXCEPT ![t] = Tail(queue[t])]
  BY <1>3, <1>4 DEF Take
<1>6. /\ Moves(t) /\ work'[t] = <<a>> /\ queue'[t] = Tail(queue[t])
      /\ \A u \in Thread \ {t} : work'[u] = work[u] /\ queue'[u] = queue[u]
  BY <1>3, <1>5 DEF Moves
<1>7. /\ a \in ToSet(queue[t]) /\ Tail(queue[t]) \in Seq(Functor)
      /\ ToSet(Tail(queue[t])) \subseteq ToSet(queue[t])
  BY <1>1, <1>3, <1>4, FirstOut
<1>8. OnlyOf(None)
  BY <1>1 DEF OnlyOf, Listed
<1>9. Good(t, work[t])'
  BY <1>1, <1>6, <1>7 DEF CommonInv, QueuesOK, Queued, Good, Busy, Closed
<1>10. WorkOK'
  BY <1>6, <1>8, <1>9, WorkMoves, NoConnAssumption DEF CommonInv
<1>11. ConnsOK'
  BY <1>1, <1>6, <1>8, ConnsMove, NoConnAssumption DEF CommonInv
<1>12. QueuesOK'
  <2>1. \A u \in Thread : \A o \in ToSet(queue[u]) : Queued(u, o)'
    BY <1>8, QueuedKept, NoConnAssumption DEF CommonInv
  <2>2. queue' \in [Thread -> Seq(Functor)]
    BY <1>3, <1>5, <1>7
  <2> QED
    BY <1>6, <1>7, <2>1, <2>2 DEF QueuesOK
<1>13. ASSUME NEW u \in Thread, NEW c \in Conn PROVE Once(u, c)' /\ Raw(u, c)'
  <2>1. Once(u, c) /\ Raw(u, c)
    BY DEF CommonInv, OrderOK
  <2>2. CASE u # t
    BY <1>1, <1>6, <2>1, <2>2 DEF Once, Raw
  <2>3. CASE u = t
    <3> DEFINE q == queue[t]
               n == Len(q)
               r == Tail(q)
               o == Op("connectEstablished", c)
               s == Op("shutdownInLoop", c)
               d == Op("connectDestroyed", c)
    <3>1. /\ n \in Nat \ {0} /\ a = q[1] /\ DOMAIN q = 1 .. n
          /\ DOMAIN r = 1 .. n - 1 /\ \A i \in 1 .. n - 1 : r[i] = q[i + 1]
      BY <1>1, <1>3, <1>4, FirstOut
    <3>2. queue'[t] = r /\ queue[t] = q /\ work'[t] = <<a>>
      BY <1>6
    <3>3. \A i, j \in 1 .. n : q[i] = o /\ q[j] = o => i = j
      BY <2>1, <2>3, <3>1 DEF Once
    <3>4. \A i \in 1 .. n : q[i] = s => inServer[c] \/ \E j \in 1 .. n : j > i /\ q[j] = d
      BY <2>1, <2>3, <3>1 DEF Raw
    <3>5. (work'[t] = <<o>> => a = o) /\ (s \in ToSet(work'[t]) => a = s)
      BY <3>2, Heads, Sets
    <3> HIDE DEF q, n, r, o, s, d
    <3>6. 1 \in 1 .. n /\ \A i \in 1 .. n - 1 : i + 1 \in 1 .. n /\ i + 1 # 1
      BY <3>1
    <3>7. \A i, j \in 1 .. n - 1 : i + 1 = j + 1 => i = j
      BY <3>1
    <3>8. \A i, j \in 1 .. n - 1 : r[i] = o /\ r[j] = o => i = j
      BY <3>1, <3>3, <3>6, <3>7
    <3>9. a = o => \A i \in 1 .. n - 1 : r[i] # o
      BY <3>1, <3>3, <3>6
    <3>10. Once(t, c)'
      BY <3>1, <3>2, <3>5, <3>8, <3>9 DEF Once, ToSet, o
    <3>11. ASSUME NEW i \in 1 .. n, q[i] = s, ~ inServer[c]
           PROVE  \E j \in 1 .. n - 1 : j + 1 > i /\ r[j] = d
      <4>1. PICK j \in 1 .. n : j > i /\ q[j] = d
        BY <3>4, <3>11
      <4>2. j - 1 \in 1 .. n - 1 /\ (j - 1) + 1 = j
        BY <3>1, <4>1
      <4>3. r[j - 1] = d
        BY <3>1, <4>1, <4>2
      <4> QED
        BY <4>1, <4>2, <4>3
    <3>12. ASSUME a = s, ~ inServer[c] PROVE d \in ToSet(r)
      <4>1. q[1] = s
        BY <3>1, <3>12
      <4>2. \E j \in 1 .. n - 1 : r[j] = d
        BY <3>6, <3>11, <3>12, <4>1
      <4> QED
        BY <3>1, <4>2 DEF ToSet
    <3>13. ASSUME NEW i \in 1 .. n - 1, r[i] = s, ~ inServer[c]
           PROVE  \E j \in 1 .. n - 1 : j > i /\ r[j] = d
      <4>1. i + 1 \in 1 .. n /\ q[i + 1] = s
        BY <3>1, <3>6, <3>13
      <4>2. PICK j \in 1 .. n - 1 : j + 1 > i + 1 /\ r[j] = d
        BY <3>11, <3>13, <4>1
      <4>3. j > i
        BY <3>1, <4>2
      <4> QED
        BY <4>2, <4>3
    <3>14. Raw(t, c)'
      BY <1>1, <3>1, <3>2, <3>5, <3>12, <3>13 DEF Raw, s, d
    <3> QED
      BY <2>3, <3>10, <3>14
  <2> QED
    BY <2>2, <2>3
<1> QED
  BY <1>2, <1>10, <1>11, <1>12, <1>13 DEF CommonInv, OrderOK

-----------------------------------------------------------------------------
(* The invariant holds.                                                     *)

LEMMA CommonInit ==
  ASSUME ConnInit
  PROVE  CommonInv
<1>1. FlagsOK
  BY DEF ConnInit, FlagsOK, State
<1>2. AgesOK
  BY IdleAssumption DEF ConnInit, AgesOK, AgeLimit
<1>3. ListOK
  BY DEF ConnInit, ListOK, IsInjective
<1>4. WorkOK
  BY DEF ConnInit, WorkOK, Good
<1>5. QueuesOK
  BY Sets DEF ConnInit, QueuesOK
<1>6. ConnsOK
  BY Sets DEF ConnInit, ConnsOK, ConnOK, Listed
<1>7. OrderOK
  <2>1. \A t \in Thread : work[t] = <<>> /\ queue[t] = <<>> /\ DOMAIN queue[t] = {}
    BY DEF ConnInit
  <2> QED
    BY <2>1, Sets, Heads DEF OrderOK, Once, Raw
<1> QED
  BY <1>1, <1>2, <1>3, <1>4, <1>5, <1>6, <1>7 DEF CommonInv

LEMMA CommonNext ==
  ASSUME CommonInv, [ConnNext]_connVars
  PROVE  CommonInv'
<1>1. CASE UNCHANGED connVars
  <2>1. /\ UNCHANGED <<thread, loop, state, open, context, list, inServer, force, cut, work, queue>>
        /\ UNCHANGED <<age, stepped>>
    BY <1>1 DEF connVars, config, entries, threads
  <2>2. FlagsOK' /\ AgesOK' /\ ListOK' /\ ConnsOK'
    BY <2>1 DEF CommonInv, FlagsOK, AgesOK, ListOK, ConnsOK, ConnOK, Listed, Loops, Pooled
  <2>3. WorkOK' /\ QueuesOK' /\ OrderOK'
    BY <2>1 DEF CommonInv, WorkOK, Good, Busy, Entering, Closed, Listed, QueuesOK, Queued,
                OrderOK, Once, Raw
  <2> QED
    BY <2>2, <2>3 DEF CommonInv
<1>2. CASE Times
  BY <1>2, OnTimerKeeps DEF Times
<1>3. CASE Ticks
  BY <1>3, TimeKeeps DEF Ticks
<1>4. CASE Outside
  BY <1>4, TimeKeeps, PeerClosesKeeps, InvalidLengthKeeps, NewConnectionKeeps DEF Outside
<1>5. ASSUME NEW t \in Thread, Works(t) PROVE CommonInv'
  <2>1. ASSUME NEW c \in Conn, Callback(t, c) PROVE CommonInv'
    BY <1>5, <2>1, ConnectEstablishedKeeps, OnConnectionKeeps, EnlistKeeps, SetContextKeeps,
       EraseEntryKeeps, HandleCloseKeeps, RemoveConnectionKeeps, RemoveConnectionInLoopKeeps,
       NothingKeeps, ShutdownKeeps, DelayKeeps, DelaySetKeeps, ForceCloseInLoopKeeps
       DEF Works, Callback
  <2>2. ASSUME WalkStep PROVE CommonInv'
    BY <1>5, <2>2, WalkEndsKeeps, WalkEntryKeeps, WalkNextKeeps DEF Works, WalkStep, WalkFrame
  <2> QED
    BY <1>5, <2>1, <2>2 DEF Works
<1>6. ASSUME NEW t \in Thread, Takes(t) PROVE CommonInv'
  BY <1>6, TakeKeeps DEF Takes
<1>7. ASSUME NEW c \in Conn, Forces(c) PROVE CommonInv'
  BY <1>7, ForceCloseKeeps DEF Forces
<1> QED
  BY <1>1, <1>2, <1>3, <1>4, <1>5, <1>6, <1>7 DEF ConnNext

-----------------------------------------------------------------------------
(* One loop: what holds besides when the pool is empty.                     *)

\* What is left of a callback that closes connection c.
Closing(c) == {<<Op("onConnection", c), Op("removeConnection", c)>>,
               <<Op("erase", c), Op("removeConnection", c)>>}

\* What the only loop can have left to do about c.
SoleBusy(s, c) ==
    \/ s \in {<<Op("connectEstablished", c)>>, <<Op("onConnection", c)>>,
              <<Op("enlist", c), Op("setContext", c)>>, <<Op("connectDestroyed", c)>>,
              <<Op("shutdown", c)>>, <<Op("shutdownInLoop", c)>>, <<Op("forceCloseInLoop", c)>>}
    \/ /\ s \in {<<Op("setContext", c)>>, <<Op("look", c)>>,
                 <<Op("shutdown", c), Op("delay", c), Op("next", c)>>,
                 <<Op("shutdownInLoop", c), Op("delay", c), Op("next", c)>>} \cup WalkRest(c)
       /\ Listed(c)
    \/ s = <<Op("handleClose", c)>> /\ open[c]
    \/ s \in Closing(c) /\ Listed(c) /\ inServer[c]
    \/ /\ s \in {<<Op("removeConnection", c)>>, <<Op("removeConnectionInLoop", c)>>}
       /\ ~ Listed(c) /\ inServer[c]

SoleWork(s) ==
    \/ s = <<>> \/ s = <<Op("look", None)>>
    \/ \E c \in Conn : SoleBusy(s, c)

\* Only a connection that is opened or closed at this moment has an entry
\* without a context, or an entry and no channel.
SoleConn(c) ==
    /\ open[c] <=> state[c] \in Up
    /\ Listed(c) => inServer[c]
    /\ open[c] /\ context[c] => Listed(c)
    /\ Listed(c) /\ ~ context[c] => work[Base] = <<Op("setContext", c)>>
    /\ Listed(c) /\ ~ open[c] => work[Base] \in Closing(c)

OthersIdle == \A t \in IoThread : work[t] = <<>> /\ queue[t] = <<>>
NoneAwaited ==
    \A o \in ToSet(queue[Base]) : o.op \notin {"connectEstablished", "removeConnectionInLoop"}

SoleInv ==
    ~ Pooled => /\ OthersIdle /\ NoneAwaited /\ SoleWork(work[Base])
                /\ \A c \in Conn : SoleConn(c)

\* What the only loop knows at the step it is at.
LEMMA SoleAt ==
  ASSUME SoleWork(work[Base]), NEW c \in Conn
  PROVE  /\ At(Base, "setContext", c) \/ At(Base, "look", c) \/ At(Base, "next", c) => Listed(c)
         /\ At(Base, "delay", c) \/ At(Base, "delaySet", c) => Listed(c)
         /\ At(Base, "handleClose", c) => open[c]
         /\ At(Base, "erase", c) => Listed(c) /\ inServer[c]
         /\ At(Base, "removeConnection", c) \/ At(Base, "removeConnectionInLoop", c) =>
               ~ Listed(c) /\ inServer[c]
<1>1. At(Base, "setContext", c) \/ At(Base, "look", c) \/ At(Base, "next", c) => Listed(c)
  BY Heads, Op1, NoConnAssumption DEF SoleWork, SoleBusy, WalkRest, Closing, At, Idle
<1>2. At(Base, "delay", c) \/ At(Base, "delaySet", c) => Listed(c)
  BY Heads, Op1 DEF SoleWork, SoleBusy, WalkRest, Closing, At, Idle
<1>3. At(Base, "handleClose", c) => open[c]
  BY Heads, Op1 DEF SoleWork, SoleBusy, WalkRest, Closing, At, Idle
<1>4. At(Base, "erase", c) => Listed(c) /\ inServer[c]
  BY Heads, Op1 DEF SoleWork, SoleBusy, WalkRest, Closing, At, Idle
<1>5. At(Base, "removeConnection", c) \/ At(Base, "removeConnectionInLoop", c) =>
         ~ Listed(c) /\ inServer[c]
  BY Heads, Op1 DEF SoleWork, SoleBusy, WalkRest, Closing, At, Idle
<1> QED
  BY <1>1, <1>2, <1>3, <1>4, <1>5

LEMMA SoleOn ==
  ASSUME SoleWork(work[Base]), NEW c \in Conn,
         work[Base] = <<Op("onConnection", c), Op("removeConnection", c)>>
  PROVE  Listed(c) /\ inServer[c]
<1>1. Head(work[Base]) = Op("onConnection", c) /\ Tail(work[Base]) # <<>>
  BY Heads, Tails
<1> QED
  BY <1>1, Heads, Tails, Op1 DEF SoleWork, SoleBusy, WalkRest, Closing

LEMMA SoleShut ==
  ASSUME SoleWork(work[Base]), NEW c \in Conn, 
         \/ work[Base] = <<Op("shutdown", c), Op("delay", c), Op("next", c)>>
         \/ work[Base] = <<Op("shutdownInLoop", c), Op("delay", c), Op("next", c)>>
  PROVE  Listed(c)
<1> DEFINE s == work[Base]
<1>1. /\ Head(s) \in {Op("shutdown", c), Op("shutdownInLoop", c)}
      /\ Tail(s) # <<>> /\ s # <<>>
  <2>1. \A a, b, d : Head(<<a, b, d>>) = a /\ Tail(<<a, b, d>>) # <<>> /\ <<a, b, d>> # <<>>
    BY Heads, Tails
  <2>2. CASE s = <<Op("shutdown", c), Op("delay", c), Op("next", c)>>
    BY <2>1, <2>2
  <2>3. CASE s = <<Op("shutdownInLoop", c), Op("delay", c), Op("next", c)>>
    BY <2>1, <2>3
  <2> QED
    BY <2>2, <2>3
<1> HIDE DEF s
<1>2. \A a : s # <<a>>
  BY <1>1, Tails
<1>3. PICK d \in Conn : SoleBusy(s, d)
  BY <1>1, <1>2 DEF SoleWork, s
<1>4. s \notin Closing(d) /\ s # <<Op("enlist", d), Op("setContext", d)>>
  BY <1>1, Heads, Op1 DEF Closing
<1>5. s \notin WalkRest(d)
  BY <1>1, Heads, Op1 DEF WalkRest
<1>6. /\ s = <<Op("shutdown", d), Op("delay", d), Op("next", d)>> => d = c
      /\ s = <<Op("shutdownInLoop", d), Op("delay", d), Op("next", d)>> => d = c
  BY <1>1, Heads, Op1
<1> QED
  BY <1>2, <1>3, <1>4, <1>5, <1>6 DEF SoleBusy

\* With the pool empty every callback is run by the base loop.
LEMMA OneLoop ==
  ASSUME SoleInv, ~ Pooled, NEW t \in Thread
  PROVE  (~ Idle(t) => t = Base) /\ (queue[t] # <<>> => t = Base) /\ Loops = {Base}
BY DEF SoleInv, OthersIdle, Thread, Idle, Loops

\* One step of the base loop.
LEMMA SoleMoves ==
  ASSUME CommonInv, SoleInv, ~ Pooled, NEW c \in Conn \cup {None}, Own(Base, c),
         SoleWork(work[Base])', c \in Conn => SoleConn(c)',
         UNCHANGED queue \/ \E d \in Conn, m \in Ops \ {"connectEstablished", "removeConnectionInLoop"} :
                               Asks(Base, Op(m, d))
  PROVE  SoleInv'
<1>1. /\ OthersIdle /\ NoneAwaited /\ SoleWork(work[Base]) /\ \A d \in Conn : SoleConn(d)
      /\ Base \in Thread /\ Base \notin IoThread /\ IoThread \subseteq Thread
      /\ queue \in [Thread -> Seq(Functor)] /\ work \in [Thread -> Seq(Task)]
  BY ThreadAssumption DEF SoleInv, CommonInv, QueuesOK, WorkOK, Thread
<1>2. OthersIdle'
  <2>1. ASSUME NEW u \in IoThread PROVE work'[u] = work[u] /\ queue'[u] = queue[u]
    BY <1>1 DEF Own, Moves, Asks
  <2> QED
    BY <1>1, <2>1 DEF OthersIdle
<1>3. NoneAwaited'
  <2>1. ASSUME NEW d \in Conn, NEW m \in Ops \ {"connectEstablished", "removeConnectionInLoop"},
               Asks(Base, Op(m, d))
        PROVE  NoneAwaited'
    <3>1. Op(m, d) \in Functor /\ Op(m, d).op = m
      BY FunctorOp DEF Op
    <3>2. queue'[Base] = Append(queue[Base], Op(m, d))
      BY <1>1, <2>1 DEF Asks
    <3>3. ToSet(queue'[Base]) = ToSet(queue[Base]) \cup {Op(m, d)}
      BY <1>1, <3>1, <3>2, Appended
    <3> QED
      BY <1>1, <3>1, <3>3 DEF NoneAwaited
  <2> QED
    BY <1>1, <2>1 DEF NoneAwaited
<1>4. ASSUME NEW d \in Conn \ {c} PROVE SoleConn(d)'
  <2>1. Idle(Base) \/ Head(work[Base]).conn = c
    BY DEF Own
  <2>2. work[Base] # <<Op("setContext", d)>> /\ work[Base] \notin Closing(d)
    <3>1. Head(<<Op("setContext", d)>>).conn = d /\ \A s \in Closing(d) : Head(s).conn = d
      BY Heads DEF Closing, Op
    <3>2. <<Op("setContext", d)>> # <<>> /\ \A s \in Closing(d) : s # <<>>
      BY Heads DEF Closing
    <3> QED
      BY <2>1, <3>1, <3>2 DEF Idle
  <2>3. SoleConn(d) 
    BY <1>1
  <2> QED
    BY <2>2, <2>3 DEF SoleConn, Own, OnlyOf
<1>5. \A d \in Conn : SoleConn(d)'
  BY <1>4
<1> QED
  BY <1>2, <1>3, <1>5 DEF SoleInv

\* Every step of a callback of the base loop.
LEMMA SoleCallback ==
  ASSUME CommonInv, SoleInv, ~ Pooled, NEW t \in Thread, NEW c \in Conn, Callback(t, c), ~ Undefined
  PROVE  SoleInv'
<1>1. t = Base /\ Loops = {Base}
  <2>1. ~ Idle(t)
    BY DEF Callback, ConnectEstablished, OnConnection, Enlist, SetContext, EraseEntry, HandleClose,
           RemoveConnection, RemoveConnectionInLoop, Nothing, Shutdown, Delay, DelaySet,
           ForceCloseInLoop, At
  <2> QED
    BY <2>1, OneLoop
<1>2. /\ WorkOK /\ FlagsOK /\ ConnOK(c) /\ SoleConn(c) /\ SoleWork(work[Base]) /\ Base \in Thread
  BY Bases DEF CommonInv, ConnsOK, SoleInv
<1>3. state[c] # "none" => loop[c] = Base
  BY <1>1, <1>2 DEF ConnOK
<1>4. CASE ConnectEstablished(Base, c)
  <2>1. work[Base] = <<Op("connectEstablished", c)>> /\ state[c] = "Connecting"
    BY <1>2, <1>4, AtConnectEstablished DEF ConnectEstablished
  <2>2. /\ work'[Base] = <<Op("onConnection", c)>> /\ state'[c] = "Connected" /\ open'[c]
        /\ UNCHANGED <<context, list, inServer, queue>>
    BY <1>2, <1>4, <2>1, GoesOn DEF ConnectEstablished, entries, FlagsOK
  <2>3. SoleConn(c)'
    BY <1>2, <2>1, <2>2 DEF SoleConn, ConnOK, Listed, Up
  <2>4. SoleWork(work[Base])'
    BY <2>2 DEF SoleWork, SoleBusy
  <2> QED
    BY <1>2, <1>4, <2>2, <2>3, <2>4, ConnectEstablishedKeeps, SoleMoves
<1>5. CASE OnConnection(Base, c)
  <2>1. UNCHANGED <<state, open, context, list, inServer, queue>>
    BY <1>5 DEF OnConnection
  <2>2. CASE work[Base] = <<Op("onConnection", c)>> /\ Entering(Base, c) /\ ~ Listed(c)
    <3>1. work'[Base] = <<Op("enlist", c), Op("setContext", c)>>
      BY <1>2, <1>5, <2>2, GoesOn DEF OnConnection, Entering
    <3>2. SoleWork(work[Base])'
      BY <3>1 DEF SoleWork, SoleBusy
    <3>3. SoleConn(c)'
      BY <1>2, <2>1, <2>2 DEF SoleConn, Listed, Entering
    <3> QED
      BY <1>2, <1>5, <2>1, <3>2, <3>3, OnConnectionKeeps, SoleMoves
  <2>3. CASE work[Base] = <<Op("onConnection", c), Op("removeConnection", c)>> /\ Closed(c)
    <3>1. state[c] # "Connected" /\ Listed(c) /\ inServer[c]
      BY <1>2, <2>3, SoleOn DEF ConnOK, Closed
    <3>2. work'[Base] = <<Op("erase", c), Op("removeConnection", c)>>
      BY <1>2, <1>5, <2>3, <3>1, GoesOn DEF OnConnection
    <3>3. SoleWork(work[Base])'
      BY <2>1, <3>1, <3>2 DEF SoleWork, SoleBusy, Closing, Listed
    <3>4. SoleConn(c)'
      BY <1>2, <2>1, <2>3, <3>2 DEF SoleConn, Listed, Closed, Closing
    <3> QED
      BY <1>2, <1>5, <2>1, <3>3, <3>4, OnConnectionKeeps, SoleMoves
  <2> QED
    BY <1>2, <1>5, <2>2, <2>3, AtOnConnection DEF OnConnection
<1>6. CASE Enlist(Base, c)
  <2>1. work[Base] = <<Op("enlist", c), Op("setContext", c)>> /\ Entering(Base, c) /\ ~ Listed(c)
    BY <1>2, <1>6, AtEnlist DEF Enlist
  <2>2. /\ work'[Base] = <<Op("setContext", c)>>
        /\ UNCHANGED <<state, open, context, inServer, queue>>
    BY <1>2, <1>6, <2>1, GoesOn DEF Enlist
  <2>3. Listed(c)'
    BY <1>6, <2>1, Lengthened DEF Enlist, CommonInv, ListOK, Listed
  <2>4. SoleWork(work[Base])'
    BY <2>2, <2>3 DEF SoleWork, SoleBusy
  <2>5. SoleConn(c)'
    BY <1>2, <2>1, <2>2, <2>3 DEF SoleConn, ConnOK, Entering
  <2> QED
    BY <1>2, <1>6, <2>2, <2>4, <2>5, EnlistKeeps, SoleMoves
<1>7. CASE SetContext(Base, c)
  <2>1. work[Base] = <<Op("setContext", c)>> /\ Entering(Base, c) /\ Listed(c)
    BY <1>2, <1>7, AtSetContext, SoleAt DEF SetContext
  <2>2. /\ work'[Base] = <<>> /\ context'[c]
        /\ UNCHANGED <<state, open, list, inServer, queue>>
    BY <1>2, <1>7, <2>1, GoesOn DEF SetContext, FlagsOK
  <2>3. SoleWork(work[Base])'
    BY <2>2 DEF SoleWork
  <2>4. SoleConn(c)'
    BY <1>2, <2>1, <2>2 DEF SoleConn, Entering, Listed
  <2> QED
    BY <1>2, <1>7, <2>2, <2>3, <2>4, SetContextKeeps, SoleMoves
<1>8. CASE EraseEntry(Base, c)
  <2>1. /\ work[Base] = <<Op("erase", c), Op("removeConnection", c)>> /\ Closed(c)
        /\ Listed(c) /\ inServer[c]
    BY <1>2, <1>8, AtErase, SoleAt DEF EraseEntry
  <2>2. /\ work'[Base] = <<Op("removeConnection", c)>>
        /\ UNCHANGED <<state, open, context, inServer, queue>>
    BY <1>2, <1>8, <2>1, GoesOn DEF EraseEntry
  <2>3. ~ Listed(c)'
    BY <1>8, <2>1, Erased DEF EraseEntry, CommonInv, ListOK, Listed
  <2>4. SoleWork(work[Base])'
    BY <2>1, <2>2, <2>3 DEF SoleWork, SoleBusy
  <2>5. SoleConn(c)'
    BY <1>2, <2>1, <2>2, <2>3 DEF SoleConn, Closed
  <2> QED
    BY <1>2, <1>8, <2>2, <2>4, <2>5, EraseEntryKeeps, SoleMoves
<1>9. CASE HandleClose(Base, c)
  <2>1. work[Base] = <<Op("handleClose", c)>> /\ context[c] /\ open[c]
    BY <1>2, <1>9, AtHandleClose, SoleAt DEF HandleClose
  <2>2. /\ work'[Base] = <<Op("onConnection", c), Op("removeConnection", c)>>
        /\ state'[c] = "Disconnected" /\ ~ open'[c]
        /\ UNCHANGED <<context, list, inServer, queue>>
    BY <1>2, <1>9, <2>1, GoesOn DEF HandleClose, entries, FlagsOK
  <2>3. Listed(c) /\ inServer[c]
    BY <1>2, <2>1 DEF SoleConn
  <2>4. SoleWork(work[Base])'
    BY <2>2, <2>3 DEF SoleWork, SoleBusy, Closing, Listed
  <2>5. SoleConn(c)'
    BY <1>2, <2>1, <2>2, <2>3 DEF SoleConn, Listed, Up, Closing
  <2> QED
    BY <1>2, <1>9, <2>2, <2>4, <2>5, HandleCloseKeeps, SoleMoves
<1>10. CASE RemoveConnection(Base, c)
  <2>1. work[Base] = <<Op("removeConnection", c)>> /\ Closed(c) /\ ~ Listed(c) /\ inServer[c]
    BY <1>2, <1>10, AtRemoveConnection, SoleAt DEF RemoveConnection
  <2>2. Continue(Base, <<Op("removeConnectionInLoop", c)>>)
    BY <1>10 DEF RemoveConnection, RunInLoop
  <2>3. /\ work'[Base] = <<Op("removeConnectionInLoop", c)>>
        /\ UNCHANGED <<state, open, context, list, inServer, queue>>
    BY <1>2, <1>10, <2>1, <2>2, GoesOn DEF RemoveConnection, RunInLoop, entries
  <2>4. SoleWork(work[Base])'
    BY <2>1, <2>3 DEF SoleWork, SoleBusy, Listed
  <2>5. SoleConn(c)'
    BY <1>2, <2>1, <2>3 DEF SoleConn, Listed, Closed
  <2> QED
    BY <1>2, <1>10, <2>3, <2>4, <2>5, RemoveConnectionKeeps, SoleMoves
<1>11. CASE RemoveConnectionInLoop(Base, c)
  <2>1. work[Base] = <<Op("removeConnectionInLoop", c)>> /\ Closed(c) /\ ~ Listed(c)
    BY <1>2, <1>11, AtRemoveConnectionInLoop, SoleAt DEF RemoveConnectionInLoop
  <2>2. work'[Base] = <<>> /\ UNCHANGED <<state, open, context, list>>
    BY <1>2, <1>11, <2>1, GoesOn DEF RemoveConnectionInLoop, entries
  <2>3. loop[c] = Base
    BY <1>2, <1>3, <2>1 DEF ConnOK, Closed
  <2>4. Asks(Base, Op("connectDestroyed", c))
    BY <1>11, <2>3 DEF RemoveConnectionInLoop, Asks
  <2>5. SoleWork(work[Base])'
    BY <2>2 DEF SoleWork
  <2>6. SoleConn(c)'
    BY <1>2, <2>1, <2>2 DEF SoleConn, Listed, Closed
  <2>7. "connectDestroyed" \in Ops \ {"connectEstablished", "removeConnectionInLoop"}
    BY DEF Ops
  <2>8. Own(Base, c)
    BY <1>2, <1>11, RemoveConnectionInLoopKeeps
  <2> QED
    BY <2>4, <2>5, <2>6, <2>7, <2>8, SoleMoves
<1>12. CASE Nothing(Base, c)
  <2>1. UNCHANGED <<state, open, context, list, inServer, queue>> /\ Continue(Base, <<>>)
    BY <1>12 DEF Nothing, entries
  <2>2. /\ \/ At(Base, "connectDestroyed", c) /\ work[Base] = <<Op("connectDestroyed", c)>>
           \/ At(Base, "shutdownInLoop", c) /\ work[Base] = <<Op("shutdownInLoop", c)>>
           \/ work[Base] = <<Op("shutdownInLoop", c), Op("delay", c), Op("next", c)>>
    BY <1>2, <1>12, AtShutdownInLoop, AtConnectDestroyed DEF Nothing
  <2>3. \/ work'[Base] = <<>>
        \/ work'[Base] = <<Op("delay", c), Op("next", c)>> /\ Listed(c)
    BY <1>2, <2>1, <2>2, GoesOn, SoleShut
  <2>4. SoleWork(work[Base])'
    BY <2>1, <2>3 DEF SoleWork, SoleBusy, WalkRest, Listed
  <2>5. work[Base] # <<Op("setContext", c)>> /\ work[Base] \notin Closing(c)
    BY <2>2, Heads, Op1 DEF Closing
  <2>6. SoleConn(c)'
    BY <1>2, <2>1, <2>5 DEF SoleConn, Listed
  <2> QED
    BY <1>2, <1>12, <2>1, <2>4, <2>6, NothingKeeps, SoleMoves
<1>13. CASE Shutdown(Base, c)
  <2>1. /\ context[c]
        /\ \/ work[Base] = <<Op("shutdown", c)>> /\ open[c]
           \/ work[Base] = <<Op("shutdown", c), Op("delay", c), Op("next", c)>> /\ Listed(c)
    BY <1>2, <1>13, AtShutdown, SoleShut DEF Shutdown
  <2>2. work[Base] # <<Op("setContext", c)>> /\ work[Base] \notin Closing(c)
    BY <2>1, Heads, Op1 DEF Closing
  <2>3. loop[c] = Base /\ open[c]
    BY <1>2, <1>3, <2>1, <2>2 DEF ConnOK, SoleConn
  <2>4. Continue(Base, <<Op("shutdownInLoop", c)>>) /\ UNCHANGED queue
    BY <1>13, <2>3 DEF Shutdown, RunInLoop
  <2>5. /\ \/ work'[Base] = <<Op("shutdownInLoop", c)>>
           \/ work'[Base] = <<Op("shutdownInLoop", c), Op("delay", c), Op("next", c)>> /\ Listed(c)
        /\ UNCHANGED <<open, context, list, inServer>> /\ state'[c] = "Disconnecting"
    BY <1>2, <1>13, <2>1, <2>4, GoesOn DEF Shutdown, entries, FlagsOK
  <2>6. SoleWork(work[Base])'
    BY <2>5 DEF SoleWork, SoleBusy, Listed
  <2>7. SoleConn(c)'
    BY <1>2, <2>1, <2>2, <2>3, <2>5 DEF SoleConn, Listed, Up
  <2> QED
    BY <1>2, <1>13, <2>4, <2>6, <2>7, ShutdownKeeps, SoleMoves
<1>14. CASE Delay(Base, c)
  <2>1. work[Base] = <<Op("delay", c), Op("next", c)>> /\ Listed(c)
    BY <1>2, <1>14, AtDelay, SoleAt DEF Delay
  <2>2. Continue(Base, <<Op("delaySet", c)>>) \/ Continue(Base, <<>>)
    BY <1>14 DEF Delay
  <2>3. /\ work'[Base] = <<Op("delaySet", c), Op("next", c)>> \/ work'[Base] = <<Op("next", c)>>
        /\ UNCHANGED <<state, open, context, list, inServer, queue>>
    BY <1>2, <1>14, <2>1, <2>2, GoesOn DEF Delay, entries
  <2>4. SoleWork(work[Base])'
    BY <2>1, <2>3 DEF SoleWork, SoleBusy, WalkRest, Listed
  <2>5. work[Base] # <<Op("setContext", c)>> /\ work[Base] \notin Closing(c)
    BY <2>1, Heads, Op1 DEF Closing
  <2>6. SoleConn(c)'
    BY <1>2, <2>3, <2>5 DEF SoleConn, Listed
  <2> QED
    BY <1>2, <1>14, <2>3, <2>4, <2>6, DelayKeeps, SoleMoves
<1>15. CASE DelaySet(Base, c)
  <2>1. work[Base] = <<Op("delaySet", c), Op("next", c)>> /\ Listed(c) /\ context[c]
    BY <1>2, <1>15, AtDelaySet, SoleAt DEF DelaySet
  <2>2. /\ work'[Base] = <<Op("next", c)>> /\ state'[c] = "Disconnecting"
        /\ UNCHANGED <<open, context, list, inServer, queue>>
    BY <1>2, <1>15, <2>1, GoesOn DEF DelaySet, entries, FlagsOK
  <2>3. SoleWork(work[Base])'
    BY <2>1, <2>2 DEF SoleWork, SoleBusy, WalkRest, Listed
  <2>4. work[Base] # <<Op("setContext", c)>> /\ work[Base] \notin Closing(c)
    BY <2>1, Heads, Op1 DEF Closing
  <2>5. SoleConn(c)'
    BY <1>2, <2>1, <2>2, <2>4 DEF SoleConn, Listed, Up
  <2> QED
    BY <1>2, <1>15, <2>2, <2>3, <2>5, DelaySetKeeps, SoleMoves
<1>16. CASE ForceCloseInLoop(Base, c)
  <2>1. work[Base] = <<Op("forceCloseInLoop", c)>> /\ context[c]
    BY <1>2, <1>16, AtForceCloseInLoop DEF ForceCloseInLoop
  <2>2. \/ Continue(Base, <<Op("handleClose", c)>>) /\ state[c] \in Up
        \/ Continue(Base, <<>>)
    BY <1>16 DEF ForceCloseInLoop
  <2>3. /\ \/ work'[Base] = <<Op("handleClose", c)>> /\ state[c] \in Up
           \/ work'[Base] = <<>>
        /\ UNCHANGED <<state, open, context, list, inServer, queue>>
    BY <1>2, <1>16, <2>1, <2>2, GoesOn DEF ForceCloseInLoop, entries
  <2>4. SoleWork(work[Base])'
    BY <1>2, <2>3 DEF SoleWork, SoleBusy, SoleConn
  <2>5. work[Base] # <<Op("setContext", c)>> /\ work[Base] \notin Closing(c)
    BY <2>1, Heads, Op1 DEF Closing
  <2>6. SoleConn(c)'
    BY <1>2, <2>3, <2>5 DEF SoleConn, Listed
  <2> QED
    BY <1>2, <1>16, <2>3, <2>4, <2>6, ForceCloseInLoopKeeps, SoleMoves
<1> QED
  BY <1>1, <1>4, <1>5, <1>6, <1>7, <1>8, <1>9, <1>10, <1>11, <1>12, <1>13, <1>14, <1>15, <1>16
     DEF Callback

\* What comes from outside, and from the timers.
LEMMA SoleArrives ==
  ASSUME CommonInv, SoleInv, ~ Pooled, NEW c \in Conn,
         PeerCloses(c) \/ InvalidLength(c) \/ ForceClose(c) \/ \E l \in Loops : NewConnection(c, l)
  PROVE  SoleInv'
<1>1. /\ WorkOK /\ FlagsOK /\ ConnOK(c) /\ SoleConn(c) /\ Base \in Thread /\ Loops = {Base}
      /\ work \in [Thread -> Seq(Task)]
  BY Bases, OneLoop DEF CommonInv, ConnsOK, SoleInv, WorkOK
<1>2. state[c] # "none" => loop[c] = Base
  BY <1>1 DEF ConnOK
<1>3. work[Base] = <<>> => ~ (Listed(c) /\ ~ context[c]) /\ ~ (Listed(c) /\ ~ open[c])
  BY <1>1, Heads DEF SoleConn, Closing
<1>4. CASE PeerCloses(c)
  <2>1. loop[c] = Base /\ open[c] /\ Idle(Base)
    BY <1>1, <1>2, <1>4 DEF PeerCloses, ConnOK, Up
  <2>2. /\ work'[Base] = <<Op("handleClose", c)>>
        /\ UNCHANGED <<state, open, context, list, inServer, queue>>
    BY <1>1, <1>4, <2>1 DEF PeerCloses, entries
  <2>3. SoleWork(work[Base])'
    BY <2>1, <2>2 DEF SoleWork, SoleBusy
  <2>4. SoleConn(c)'
    BY <1>1, <1>3, <2>1, <2>2 DEF SoleConn, Listed, Idle
  <2>5. Own(Base, c)
    BY <1>4, <2>1, PeerClosesKeeps
  <2> QED
    BY <2>2, <2>3, <2>4, <2>5, SoleMoves
<1>5. CASE InvalidLength(c)
  <2>1. loop[c] = Base /\ open[c] /\ Idle(Base)
    BY <1>1, <1>2, <1>5 DEF InvalidLength, ConnOK, Up
  <2>2. /\ work'[Base] = <<Op("shutdown", c)>>
        /\ UNCHANGED <<state, open, context, list, inServer, queue>>
    BY <1>1, <1>5, <2>1 DEF InvalidLength, entries
  <2>3. SoleWork(work[Base])'
    BY <2>2 DEF SoleWork, SoleBusy
  <2>4. SoleConn(c)'
    BY <1>1, <1>3, <2>1, <2>2 DEF SoleConn, Listed, Idle
  <2>5. Own(Base, c)
    BY <1>5, <2>1, InvalidLengthKeeps
  <2> QED
    BY <2>2, <2>3, <2>4, <2>5, SoleMoves
<1>6. CASE ForceClose(c)
  <2>1. force[c] /\ context[c] /\ loop[c] = Base /\ Idle(Base)
    BY <1>1, <1>2, <1>6 DEF ForceClose, ConnOK
  <2>2. /\ work'[Base] = <<>>
        /\ UNCHANGED <<open, context, list, inServer>>
        /\ state'[c] = state[c] \/ (state[c] \in Up /\ state'[c] = "Disconnecting")
    BY <1>1, <1>6, <2>1 DEF ForceClose, entries, FlagsOK, Idle
  <2>3. UNCHANGED queue \/ Asks(Base, Op("forceCloseInLoop", c))
    BY <1>6, <2>1 DEF ForceClose, Asks
  <2>4. SoleWork(work[Base])'
    BY <2>2 DEF SoleWork
  <2>5. SoleConn(c)'
    BY <1>1, <1>3, <2>1, <2>2 DEF SoleConn, Listed, Idle, Up
  <2>6. Own(Base, c)
    BY <1>6, <2>1, ForceCloseKeeps
  <2>7. "forceCloseInLoop" \in Ops \ {"connectEstablished", "removeConnectionInLoop"}
    BY DEF Ops
  <2> QED
    BY <2>3, <2>4, <2>5, <2>6, <2>7, SoleMoves
<1>7. CASE NewConnection(c, Base)
  <2>1. Idle(Base) /\ state[c] = "none"
    BY <1>7 DEF NewConnection
  <2>2. /\ work'[Base] = <<Op("connectEstablished", c)>>
        /\ UNCHANGED <<open, context, list, queue>> /\ state'[c] = "Connecting"
    BY <1>1, <1>7 DEF NewConnection, entries, FlagsOK
  <2>3. SoleWork(work[Base])'
    BY <2>2 DEF SoleWork, SoleBusy
  <2>4. SoleConn(c)'
    BY <1>1, <2>1, <2>2 DEF SoleConn, ConnOK, Listed, Up
  <2>5. Own(Base, c)
    BY <1>1, <1>7, NewConnectionKeeps
  <2> QED
    BY <2>2, <2>3, <2>4, <2>5, SoleMoves
<1> QED
  BY <1>1, <1>4, <1>5, <1>6, <1>7

LEMMA SoleTimer ==
  ASSUME CommonInv, SoleInv, ~ Pooled, OnTimer
  PROVE  SoleInv'
<1>1. PICK x : x = IF list = <<>> THEN None ELSE Head(list)
  OBVIOUS
<1>2. x = None \/ (x \in Conn /\ Listed(x))
  <2>1. list # <<>> => Head(list) \in Conn /\ Head(list) \in ToSet(list)
    BY FirstOut DEF CommonInv, ListOK
  <2> QED
    BY <1>1, <2>1 DEF Listed
<1>3. work'[Base] = <<Op("look", x)>> /\ UNCHANGED <<list, queue>>
  BY <1>1, Bases DEF OnTimer, CommonInv, WorkOK, entries
<1>4. SoleWork(work[Base])'
  BY <1>2, <1>3 DEF SoleWork, SoleBusy, Listed
<1>5. Own(Base, None)
  BY OnTimerKeeps
<1> QED
  BY <1>3, <1>4, <1>5, SoleMoves, NoConnAssumption

LEMMA SoleWalk ==
  ASSUME CommonInv, SoleInv, ~ Pooled, WalkStep, ~ Undefined
  PROVE  SoleInv'
<1>1. /\ WorkOK /\ SoleWork(work[Base]) /\ Base \in Thread /\ ListOK
      /\ \A d \in Conn : SoleConn(d) /\ ConnOK(d)
  BY Bases DEF CommonInv, ConnsOK, SoleInv
<1>2. WalkFrame
  BY DEF WalkStep, WalkFrame
<1>3. CASE WalkEnds
  <2>1. work[Base] = <<Op("look", None)>>
    BY <1>1, <1>3, AtLook DEF WalkEnds
  <2>2. work'[Base] = <<>>
    BY <1>1, <1>3, <2>1, GoesOn DEF WalkEnds
  <2>3. SoleWork(work[Base])'
    BY <2>2 DEF SoleWork
  <2>4. Own(Base, None)
    BY <1>2, <1>3, WalkEndsKeeps
  <2> QED
    BY <1>2, <2>3, <2>4, SoleMoves, NoConnAssumption DEF WalkFrame
<1>4. ASSUME NEW c \in Conn, WalkNext(c) PROVE SoleInv'
  <2>1. work[Base] = <<Op("next", c)>> /\ Listed(c)
    BY <1>1, <1>4, AtNext, SoleAt DEF WalkNext
  <2>2. PICK x : x = After(c)
    OBVIOUS
  <2>3. x = None \/ (x \in Conn /\ Listed(x))
    <3>1. ToSet(list) \subseteq Conn
      BY <1>1 DEF ListOK, ToSet
    <3> QED
      BY <1>1, <2>1, <2>2, <3>1, AfterIs DEF ListOK, Listed
  <2>4. Continue(Base, <<Op("look", x)>>)
    BY <1>4, <2>2 DEF WalkNext
  <2>5. work'[Base] = <<Op("look", x)>> /\ UNCHANGED list
    BY <1>1, <1>4, <2>1, <2>4, GoesOn DEF WalkNext
  <2>6. SoleWork(work[Base])'
    BY <2>3, <2>5 DEF SoleWork, SoleBusy, Listed
  <2>7. work[Base] # <<Op("setContext", c)>> /\ work[Base] \notin Closing(c)
    BY <2>1, Heads, Op1 DEF Closing
  <2>8. SoleConn(c)'
    BY <1>1, <1>2, <2>5, <2>7 DEF SoleConn, Listed, WalkFrame
  <2>9. Own(Base, c)
    BY <1>2, <1>4, WalkNextKeeps
  <2> QED
    BY <1>2, <2>6, <2>8, <2>9, SoleMoves DEF WalkFrame
<1>5. ASSUME NEW c \in Conn, WalkEntry(c) PROVE SoleInv'
  <2>1. work[Base] = <<Op("look", c)>> /\ Listed(c)
    BY <1>1, <1>5, AtLook, SoleAt DEF WalkEntry
  <2>2. Alive(c)
    BY <1>1, <2>1 DEF SoleConn, Alive
  <2>3. /\ UNCHANGED list
        /\ \/ Continue(Base, <<Op("shutdown", c), Op("delay", c), Op("next", c)>>)
           \/ Continue(Base, <<Op("next", c)>>)
           \/ Continue(Base, <<>>)
    BY <1>5, <2>2 DEF WalkEntry, CutOff
  <2>4. \/ work'[Base] = <<Op("shutdown", c), Op("delay", c), Op("next", c)>>
        \/ work'[Base] = <<Op("next", c)>>
        \/ work'[Base] = <<>>
    BY <1>1, <2>1, <2>3, GoesOn
  <2>5. SoleWork(work[Base])'
    BY <2>1, <2>3, <2>4 DEF SoleWork, SoleBusy, Listed, WalkRest
  <2>6. work[Base] # <<Op("setContext", c)>> /\ work[Base] \notin Closing(c)
    BY <2>1, Heads, Op1 DEF Closing
  <2>7. SoleConn(c)'
    BY <1>1, <1>2, <2>3, <2>6 DEF SoleConn, Listed, WalkFrame
  <2>8. Own(Base, c)
    BY <1>2, <1>5, WalkEntryKeeps
  <2> QED
    BY <1>2, <2>5, <2>7, <2>8, SoleMoves DEF WalkFrame
<1> QED
  BY <1>3, <1>4, <1>5 DEF WalkStep

LEMMA SoleTake ==
  ASSUME CommonInv, SoleInv, ~ Pooled, NEW t \in Thread, Take(t)
  PROVE  SoleInv'
<1>1. t = Base /\ queue[t] # <<>> /\ Idle(t)
  BY OneLoop DEF Take
<1>2. /\ OthersIdle /\ NoneAwaited /\ (\A d \in Conn : SoleConn(d)) /\ Base \in Thread
      /\ Base \notin IoThread /\ IoThread \subseteq Thread
      /\ queue \in [Thread -> Seq(Functor)] /\ work \in [Thread -> Seq(Task)]
      /\ queue[Base] \in Seq(Functor)
  BY <1>1, ThreadAssumption DEF SoleInv, CommonInv, QueuesOK, WorkOK, Thread
<1>3. PICK a : a = Head(queue[Base])
  OBVIOUS
<1>4. /\ work'[Base] = <<a>> /\ queue'[Base] = Tail(queue[Base])
      /\ \A u \in IoThread : work'[u] = work[u] /\ queue'[u] = queue[u]
      /\ UNCHANGED <<thread, state, open, context, list, inServer>>
  BY <1>1, <1>2, <1>3 DEF Take, config, entries
<1>5. a \in ToSet(queue[Base]) /\ ToSet(Tail(queue[Base])) \subseteq ToSet(queue[Base])
  BY <1>1, <1>2, <1>3, FirstOut
<1>6. Queued(Base, a) /\ a.op \notin {"connectEstablished", "removeConnectionInLoop"}
  BY <1>2, <1>5 DEF CommonInv, QueuesOK, NoneAwaited
<1>7. SoleWork(work[Base])'
  BY <1>4, <1>6 DEF SoleWork, SoleBusy, Queued, Op
<1>8. ASSUME NEW d \in Conn PROVE SoleConn(d)'
  <2>1. work[Base] = <<>> /\ SoleConn(d)
    BY <1>1, <1>2 DEF Idle
  <2>2. ~ (Listed(d) /\ ~ context[d]) /\ ~ (Listed(d) /\ ~ open[d])
    BY <2>1, Heads DEF SoleConn, Closing
  <2> QED
    BY <1>4, <2>1, <2>2 DEF SoleConn, Listed
<1>9. OthersIdle' /\ NoneAwaited'
  BY <1>2, <1>4, <1>5 DEF OthersIdle, NoneAwaited
<1> QED
  BY <1>7, <1>8, <1>9 DEF SoleInv

LEMMA SoleTime ==
  ASSUME SoleInv, UNCHANGED <<thread, state, open, context, list, inServer, work, queue>>
  PROVE  SoleInv'
BY DEF SoleInv, Pooled, OthersIdle, NoneAwaited, SoleWork, SoleBusy, SoleConn, Listed

LEMMA SoleInit ==
  ASSUME ConnInit
  PROVE  SoleInv
<1>1. OthersIdle /\ work[Base] = <<>> /\ queue[Base] = <<>>
  BY Bases DEF ConnInit, OthersIdle, Thread
<1>2. \A c \in Conn : SoleConn(c)
  BY Sets DEF ConnInit, SoleConn, Listed, Up
<1> QED
  BY <1>1, <1>2, Sets DEF SoleInv, NoneAwaited, SoleWork

LEMMA ThreadStays ==
  ASSUME [ConnNext]_connVars
  PROVE  UNCHANGED thread
<1>1. ASSUME NEW t \in Thread, NEW c \in Conn, Callback(t, c) PROVE UNCHANGED thread
  BY <1>1 DEF Callback, config, ConnectEstablished, OnConnection, Enlist, SetContext, EraseEntry,
         HandleClose, RemoveConnection, RemoveConnectionInLoop, Nothing, Shutdown, Delay, DelaySet,
         ForceCloseInLoop
<1>2. ASSUME Outside PROVE UNCHANGED thread
  BY <1>2 DEF Outside, config, StepBack, PeerCloses, InvalidLength, NewConnection
<1>3. ASSUME NEW t \in Thread, Take(t) PROVE UNCHANGED thread
  BY <1>3 DEF Take, config
<1>4. ASSUME NEW c \in Conn, ForceClose(c) PROVE UNCHANGED thread
  BY <1>4 DEF ForceClose, config
<1>5. ASSUME OnTimer \/ Tick \/ WalkStep \/ UNCHANGED connVars PROVE UNCHANGED thread
  BY <1>5 DEF OnTimer, Tick, WalkStep, connVars, config
<1> QED
  BY <1>1, <1>2, <1>3, <1>4, <1>5 DEF ConnNext, Times, Ticks, Works, Takes, Forces

LEMMA SoleNext ==
  ASSUME CommonInv, SoleInv, [ConnNext]_connVars
  PROVE  SoleInv'
<1>1. SUFFICES ASSUME ~ Pooled PROVE SoleInv'
  BY ThreadStays DEF SoleInv, Pooled
<1>2. CASE UNCHANGED connVars
  BY <1>2, SoleTime DEF connVars, config, entries, threads
<1>3. CASE Times
  BY <1>1, <1>3, SoleTimer DEF Times
<1>4. CASE Ticks
  BY <1>4, SoleTime DEF Ticks, Tick, config, threads
<1>5. CASE Outside
  <2>1. CASE StepBack
    BY <2>1, SoleTime DEF StepBack, config, threads
  <2> QED
    BY <1>1, <1>5, <2>1, SoleArrives DEF Outside
<1>6. ASSUME NEW t \in Thread, Works(t) PROVE SoleInv'
  BY <1>1, <1>6, SoleCallback, SoleWalk DEF Works
<1>7. ASSUME NEW t \in Thread, Takes(t) PROVE SoleInv'
  BY <1>1, <1>7, SoleTake DEF Takes
<1>8. ASSUME NEW c \in Conn, Forces(c) PROVE SoleInv'
  BY <1>1, <1>8, SoleArrives DEF Forces
<1> QED
  BY <1>2, <1>3, <1>4, <1>5, <1>6, <1>7, <1>8 DEF ConnNext

-----------------------------------------------------------------------------
(* What follows from it.                                                    *)

LEMMA TypesFollow ==
  ASSUME CommonInv
  PROVE  ConnTypeOK
<1>1. age \in [Conn -> - MaxStepped .. AgeLimit] /\ stepped \in 0 .. MaxStepped
  <2>1. AgeLimit \in Int /\ MaxStepped \in Nat /\ AgesOK
    BY IdleAssumption DEF AgeLimit, CommonInv
  <2> HIDE DEF AgeLimit
  <2>2. \A c \in Conn : age[c] \in Int /\ - MaxStepped <= age[c] /\ age[c] <= AgeLimit
    BY <2>1 DEF AgesOK
  <2> QED
    BY <2>1, <2>2 DEF AgesOK
<1>2. \A c \in Conn : open[c] => inServer[c] /\ loop[c] \in Loops
  BY DEF CommonInv, ConnsOK, ConnOK, Up
<1>3. \A t \in Thread : work[t] \in Seq(Task) /\ queue[t] \in Seq(Functor)
  BY DEF CommonInv, WorkOK, QueuesOK
<1> QED
  BY <1>1, <1>2, <1>3 DEF ConnTypeOK, CommonInv, FlagsOK, ListOK, Task, Functor

LEMMA RawFollows ==
  ASSUME CommonInv
  PROVE  RawThisLive
<1> SUFFICES ASSUME NEW o \in Pending, o.op = "shutdownInLoop" PROVE Alive(o.conn)
  BY DEF RawThisLive
<1>1. PICK t \in Thread : o \in ToSet(work[t]) \cup ToSet(queue[t])
  BY DEF Pending
<1>2. o \in Task
  <2>1. work[t] \in Seq(Task) /\ queue[t] \in Seq(Functor)
    BY DEF CommonInv, WorkOK, QueuesOK
  <2>2. ToSet(work[t]) \subseteq Task /\ ToSet(queue[t]) \subseteq Functor
    BY <2>1 DEF ToSet
  <2> QED
    BY <1>1, <2>2 DEF Task, Functor
<1> DEFINE c == o.conn
<1>3. o = Op("shutdownInLoop", c) /\ c \in Conn \cup {None}
  BY <1>2 DEF Task, Op
<1>4. c \in Conn
  <2>1. CASE o \in ToSet(queue[t])
    BY <1>3, <2>1, Op1 DEF CommonInv, QueuesOK, Queued
  <2>2. CASE o \in ToSet(work[t])
    <3>1. Good(t, work[t])
      BY DEF CommonInv, WorkOK
    <3>2. work[t] # <<>>
      BY <2>2, Sets
    <3>3. ASSUME NEW x, work[t] = <<Op("look", x)>> PROVE FALSE
      <4>1. Op("shutdownInLoop", c) = Op("look", x)
        BY <1>3, <2>2, <3>3, Sets
      <4> QED
        BY <4>1, Op1
    <3>4. PICK d \in Conn : Busy(t, work[t], d)
      BY <3>1, <3>2, <3>3 DEF Good
    <3> DEFINE S == {Op(m, d) : m \in Ops}
    <3>5. /\ \A m \in Ops : ToSet(<<Op(m, d)>>) \subseteq S
          /\ \A m, n \in Ops : ToSet(<<Op(m, d), Op(n, d)>>) \subseteq S
          /\ \A m, n, k \in Ops : ToSet(<<Op(m, d), Op(n, d), Op(k, d)>>) \subseteq S
      BY Sets
    <3>6. \A x \in S : x.conn = d
      BY DEF Op
    <3> HIDE DEF S
    <3>7. ToSet(work[t]) \subseteq S
      BY <3>4, <3>5 DEF Busy, WalkRest, Ops, ListOps
    <3> QED
      BY <2>2, <3>6, <3>7
  <2> QED
    BY <1>1, <2>1, <2>2
<1>5. inServer[c] \/ Op("connectDestroyed", c) \in ToSet(queue[t])
  <2>1. Raw(t, c)
    BY <1>4 DEF CommonInv, OrderOK
  <2>2. CASE o \in ToSet(work[t])
    BY <1>3, <2>1, <2>2 DEF Raw
  <2>3. CASE o \in ToSet(queue[t])
    BY <1>3, <2>1, <2>3 DEF Raw, ToSet
  <2> QED
    BY <1>1, <2>2, <2>3
<1>6. Op("connectDestroyed", c) \in ToSet(queue[t]) =>
         \E x \in Pending : x.conn = c /\ x.op \notin {"shutdownInLoop", "look"}
  BY DEF Pending, Op
<1> QED
  BY <1>5, <1>6 DEF Alive

LEMMA SoleFollows ==
  ASSUME CommonInv, SoleInv
  PROVE  SingleLoopSafe
<1> SUFFICES ASSUME ~ Pooled PROVE
        /\ ~ Undefined
        /\ \A c \in ToSet(list) : Alive(c)
        /\ \A c \in Conn :
              /\ At(Base, "handleClose", c) => state[c] \in Up
              /\ At(Base, "removeConnectionInLoop", c) => inServer[c]
              /\ ~ Alive(c) => state[c] \in {"none", "Disconnected"}
  BY DEF SingleLoopSafe
<1>1. /\ OthersIdle /\ SoleWork(work[Base]) /\ ToSet(list) \subseteq Conn
      /\ \A c \in Conn : SoleConn(c) /\ ConnOK(c) /\ state[c] \in State
  BY DEF SoleInv, CommonInv, ListOK, ToSet, ConnsOK, FlagsOK
<1>2. ~ ListRace
  BY <1>1 DEF ListRace, OthersIdle, Thread, Idle
<1>3. ASSUME NEW t \in Thread, NEW c \in Conn, 
             At(t, "look", c) \/ At(t, "next", c) \/ At(t, "erase", c)
      PROVE  /\ c \in ToSet(list)
             /\ ~ (At(t, "look", c) /\ Alive(c) /\ ~ context[c])
  <2>1. t = Base
    BY <1>3, OneLoop DEF At
  <2>2. Listed(c)
    BY <1>1, <1>3, <2>1, SoleAt
  <2>3. ASSUME At(t, "look", c), ~ context[c] PROVE FALSE
    <3>1. work[Base] = <<Op("setContext", c)>>
      BY <1>1, <2>2, <2>3 DEF SoleConn
    <3> QED
      BY <2>1, <2>3, <3>1, Heads, Op1 DEF At
  <2> QED
    BY <2>2, <2>3 DEF Listed
<1>4. ~ Dangling
  BY <1>3 DEF Dangling
<1>5. \A c \in ToSet(list) : Alive(c)
  BY <1>1 DEF SoleConn, Listed, Alive
<1>6. ASSUME NEW c \in Conn
      PROVE  /\ At(Base, "handleClose", c) => state[c] \in Up
             /\ At(Base, "removeConnectionInLoop", c) => inServer[c]
             /\ ~ Alive(c) => state[c] \in {"none", "Disconnected"}
  <2>1. At(Base, "handleClose", c) => state[c] \in Up
    BY <1>1, SoleAt DEF SoleConn
  <2>2. At(Base, "removeConnectionInLoop", c) => inServer[c]
    BY <1>1, SoleAt
  <2>3. ~ Alive(c) => ~ open[c] /\ ~ inServer[c]
    BY <1>1 DEF ConnOK, Alive
  <2>4. ~ Alive(c) => state[c] \in {"none", "Disconnected"}
    BY <1>1, <2>3 DEF ConnOK, SoleConn, State, Up
  <2> QED
    BY <2>1, <2>2, <2>4
<1> QED
  BY <1>2, <1>4, <1>5, <1>6 DEF Undefined

\* Whatever the number of threads, a channel that may call back belongs to a
\* connection that the server holds, and shutdownInLoop, bound to a raw this, never
\* runs on a connection that is gone; with one loop there is no undefined
\* behaviour, every entry of connectionList_ is of a connection that is there, and
\* nothing is closed twice or destroyed while open.
THEOREM ConnectionsAreSafe == ConnSpec => []ConnectionsSafe
<1>1. ConnInit => CommonInv /\ SoleInv
  BY CommonInit, SoleInit
<1>2. (CommonInv /\ SoleInv) /\ [ConnNext]_connVars => (CommonInv /\ SoleInv)'
  BY CommonNext, SoleNext
<1>3. CommonInv /\ SoleInv => ConnectionsSafe
  BY TypesFollow, RawFollows, SoleFollows DEF ConnectionsSafe
<1> QED
  BY <1>1, <1>2, <1>3, PTL DEF ConnSpec

-----------------------------------------------------------------------------
(* The walk of onTimer with one loop: what it leaves behind is not idle.    *)

\* An entry that is cut off, or not idle.
Dealt(c) == state[c] = "Connected" => age[c] <= IdleSeconds
AllDealt == \A i \in DOMAIN list : Dealt(list[i])
Passed(c) == \A i, j \in DOMAIN list : list[j] = c /\ i < j => Dealt(list[i])

\* A later entry is older than an earlier one by what the clock was set back at most.
AgesFall == \A i, j \in DOMAIN list : i < j => age[list[j]] <= age[list[i]] + stepped
Youngest(c) == \A i \in DOMAIN list : age[c] <= age[list[i]] + stepped

Entry(c) == <<Op("enlist", c), Op("setContext", c)>>
Cutting(c) == <<Op("shutdown", c), Op("delay", c), Op("next", c)>>
CutShort(c) == {<<Op("shutdownInLoop", c), Op("delay", c), Op("next", c)>>} \cup WalkRest(c)

\* What the walk and a connection that enters the list rely on.
StepOK(s, c) ==
    /\ s = Entry(c) => Youngest(c)
    /\ s \in {<<Op("look", c)>>, Cutting(c)} => Passed(c)
    /\ s \in CutShort(c) => Passed(c) /\ Dealt(c)

WalkInv ==
    /\ AgesFall
    /\ (work[Base] = <<Op("look", None)>> => AllDealt)
    /\ \A c \in Conn : StepOK(work[Base], c)

IdleInv == ~ Pooled => WalkInv

\* Steps that say nothing of the list.
Plain(s) ==
    /\ s # <<Op("look", None)>>
    /\ \A c \in Conn : s # Entry(c) /\ s \notin {<<Op("look", c)>>, Cutting(c)} \cup CutShort(c)

\* The steps of the walk end with a look or a next.
LEMMA Lasts ==
  /\ \A x : <<Op("look", x)>> # <<>> /\ Last(<<Op("look", x)>>).op = "look"
  /\ \A a, x : <<a, Op("next", x)>> # <<>> /\ Last(<<a, Op("next", x)>>).op = "next"
  /\ \A x : <<Op("next", x)>> # <<>> /\ Last(<<Op("next", x)>>).op = "next"
  /\ \A a, b, x : <<a, b, Op("next", x)>> # <<>> /\ Last(<<a, b, Op("next", x)>>).op = "next"
BY DEF Last, Op

LEMMA PlainForms ==
  /\ Plain(<<>>)
  /\ \A m, x : m \notin {"look", "next"} => Plain(<<Op(m, x)>>)
  /\ \A x : Plain(<<Op("onConnection", x), Op("removeConnection", x)>>)
  /\ \A x : Plain(<<Op("erase", x), Op("removeConnection", x)>>)
<1> USE DEF Plain, Entry, Cutting, CutShort, WalkRest
<1>1. Plain(<<>>)
  BY Heads
<1>2. ASSUME NEW m, NEW x, m \notin {"look", "next"} PROVE Plain(<<Op(m, x)>>)
  <2>1. Head(<<Op(m, x)>>) = Op(m, x) /\ Tail(<<Op(m, x)>>) = <<>>
    BY Heads, Tails
  <2> QED
    BY <1>2, <2>1, Heads, Tails, Op1
<1>3. ASSUME NEW x PROVE Plain(<<Op("onConnection", x), Op("removeConnection", x)>>)
  <2>1. Head(<<Op("onConnection", x), Op("removeConnection", x)>>) = Op("onConnection", x)
    BY Heads
  <2> QED
    BY <2>1, Heads, Op1
<1>4. ASSUME NEW x PROVE Plain(<<Op("erase", x), Op("removeConnection", x)>>)
  <2>1. Head(<<Op("erase", x), Op("removeConnection", x)>>) = Op("erase", x)
    BY Heads
  <2> QED
    BY <2>1, Heads, Op1
<1> QED
  BY <1>1, <1>2, <1>3, <1>4

\* A step that leaves the list and the ages alone, and connects none of the entries.
Calm ==
    /\ list' = list /\ stepped' = stepped
    /\ \A d \in ToSet(list) : age'[d] = age[d] /\ (state'[d] = "Connected" => state[d] = "Connected")

LEMMA CalmKeeps ==
  ASSUME Calm
  PROVE  /\ (AgesFall => AgesFall') /\ (AllDealt => AllDealt')
         /\ \A c : (Passed(c) => Passed(c)')
         /\ \A c \in ToSet(list) : (Dealt(c) => Dealt(c)')
<1>1. \A i \in DOMAIN list : list[i] \in ToSet(list)
  BY DEF ToSet
<1> QED
  BY <1>1 DEF Calm, AgesFall, AllDealt, Passed, Dealt

LEMMA CalmPlain ==
  ASSUME WalkInv, Calm, Plain(work'[Base])
  PROVE  WalkInv'
BY CalmKeeps DEF WalkInv, StepOK, Plain

\* A step of the walk that goes on with what it does about c.
LEMMA CalmWalk ==
  ASSUME WalkInv, Calm, NEW c \in Conn, Passed(c), Dealt(c)',
         work'[Base] \in CutShort(c)
  PROVE  WalkInv'
<1>1. AgesFall' /\ Passed(c)'
  BY CalmKeeps DEF WalkInv
<1>2. work'[Base] # <<Op("look", None)>>
  BY Heads, Tails, Op1 DEF CutShort, WalkRest
<1>3. ASSUME NEW d \in Conn PROVE StepOK(work[Base], d)'
  <2>1. work'[Base] # Entry(d) /\ work'[Base] # <<Op("look", d)>>
    BY Heads, Tails, Op1 DEF CutShort, WalkRest, Entry
  <2>2. work'[Base] # Cutting(d)
    BY Heads, Tails, Op1 DEF CutShort, WalkRest, Cutting
  <2>3. work'[Base] \in CutShort(d) => c = d
    BY Heads, Tails, Op1 DEF CutShort, WalkRest
  <2> QED
    BY <1>1, <2>1, <2>2, <2>3 DEF StepOK
<1> QED
  BY <1>1, <1>2, <1>3 DEF WalkInv

\* The new entry is the last of the list.
LEMMA EntersLast ==
  ASSUME WalkInv, ListOK, AgesOK, NEW c \in Conn, Youngest(c), ~ Listed(c),
         list' = Append(list, c), UNCHANGED <<age, stepped>>
  PROVE  AgesFall'
<1> DEFINE n == Len(list)
           r == Append(list, c)
<1>1. n \in Nat /\ DOMAIN list = 1 .. n /\ DOMAIN r = 1 .. n + 1
  BY DEF ListOK
<1>2. r[n + 1] = c /\ \A i \in 1 .. n : r[i] = list[i]
  BY DEF ListOK
<1> HIDE DEF n, r
<1>3. ASSUME NEW i \in 1 .. n + 1, NEW j \in 1 .. n + 1, i < j
      PROVE  age[r[j]] <= age[r[i]] + stepped
  <2>1. i \in 1 .. n /\ (j \in 1 .. n \/ j = n + 1)
    BY <1>1, <1>3
  <2> QED
    BY <1>1, <1>2, <1>3, <2>1 DEF WalkInv, AgesFall, Youngest
<1> QED
  BY <1>1, <1>3 DEF AgesFall, r

\* The list without an entry is in the same order.
LEMMA LeavesOrder ==
  ASSUME WalkInv, ListOK, NEW c \in ToSet(list), list' = RemoveAt(list, Position(c)),
         stepped' = stepped, \A d \in ToSet(list) \ {c} : age'[d] = age[d]
  PROVE  AgesFall'
<1> DEFINE s == RemoveAt(list, Position(c))
<1>1. /\ ToSet(s) = ToSet(list) \ {c}
      /\ \A i, j \in DOMAIN s : i < j =>
            \E k, m \in DOMAIN list : k < m /\ s[i] = list[k] /\ s[j] = list[m]
  BY Erased, ErasedInOrder DEF ListOK
<1>2. \A i \in DOMAIN s : s[i] \in ToSet(s)
  BY DEF ToSet
<1> HIDE DEF s
<1>3. ASSUME NEW i \in DOMAIN s, NEW j \in DOMAIN s, i < j
      PROVE  age'[s[j]] <= age'[s[i]] + stepped
  <2>1. PICK k, m \in DOMAIN list : k < m /\ s[i] = list[k] /\ s[j] = list[m]
    BY <1>1, <1>3
  <2>2. age'[s[i]] = age[list[k]] /\ age'[s[j]] = age[list[m]]
    BY <1>1, <1>2, <2>1
  <2> QED
    BY <2>1, <2>2 DEF WalkInv, AgesFall
<1> QED
  BY <1>3 DEF AgesFall, s

\* Every step of a callback of the base loop.
LEMMA IdleCallback ==
  ASSUME CommonInv, SoleInv, ~ Pooled, WalkInv, NEW t \in Thread, NEW c \in Conn,
         Callback(t, c), ~ Undefined
  PROVE  WalkInv'
<1>1. t = Base /\ Loops = {Base}
  <2>1. ~ Idle(t)
    BY DEF Callback, ConnectEstablished, OnConnection, Enlist, SetContext, EraseEntry, HandleClose,
           RemoveConnection, RemoveConnectionInLoop, Nothing, Shutdown, Delay, DelaySet,
           ForceCloseInLoop, At
  <2> QED
    BY <2>1, OneLoop
<1>2. /\ WorkOK /\ FlagsOK /\ ListOK /\ AgesOK /\ ConnOK(c) /\ SoleConn(c)
      /\ SoleWork(work[Base]) /\ Base \in Thread
  BY Bases DEF CommonInv, ConnsOK, SoleInv
<1>3. state[c] # "none" => loop[c] = Base
  BY <1>1, <1>2 DEF ConnOK
<1>4. CASE ConnectEstablished(Base, c)
  <2>1. work[Base] = <<Op("connectEstablished", c)>> /\ state[c] = "Connecting"
    BY <1>2, <1>4, AtConnectEstablished DEF ConnectEstablished
  <2>2. work'[Base] = <<Op("onConnection", c)>>
    BY <1>2, <1>4, <2>1, GoesOn DEF ConnectEstablished
  <2>3. ~ Listed(c)
    BY <1>2, <2>1 DEF ConnOK
  <2>4. Calm
    BY <1>2, <1>4, <2>3 DEF ConnectEstablished, Calm, entries, FlagsOK, Listed
  <2> QED
    BY <2>2, <2>4, CalmPlain, PlainForms
<1>5. CASE OnConnection(Base, c)
  <2>1. UNCHANGED <<state, list, stepped>>
    BY <1>5 DEF OnConnection
  <2>2. CASE work[Base] = <<Op("onConnection", c)>> /\ Entering(Base, c) /\ ~ Listed(c)
    <3>1. work'[Base] = Entry(c) /\ age' = [age EXCEPT ![c] = 0]
      BY <1>2, <1>5, <2>2, GoesOn DEF OnConnection, Entering, Entry
    <3>2. Calm
      BY <1>2, <2>1, <2>2, <3>1 DEF Calm, Listed, AgesOK
    <3>3. AgesFall'
      BY <3>2, CalmKeeps DEF WalkInv
    <3>4. Youngest(c)'
      <4>1. age'[c] = 0 /\ stepped' = stepped /\ list' = list
        BY <1>2, <2>1, <3>1 DEF AgesOK
      <4>2. ASSUME NEW i \in DOMAIN list PROVE 0 <= age'[list[i]] + stepped
        <5>1. list[i] \in Conn /\ list[i] \in ToSet(list)
          BY <1>2 DEF ListOK, ToSet
        <5>2. age'[list[i]] = age[list[i]]
          BY <3>2, <5>1 DEF Calm
        <5>3. age[list[i]] \in Int /\ stepped \in Nat /\ - stepped <= age[list[i]]
          BY <1>2, <5>1 DEF AgesOK
        <5> QED
          BY <5>2, <5>3
      <4> QED
        BY <4>1, <4>2 DEF Youngest
    <3>5. ASSUME NEW d \in Conn PROVE StepOK(work[Base], d)'
      <4>1. Entry(c) # <<Op("look", d)>> /\ Entry(c) # Cutting(d) /\ Entry(c) \notin CutShort(d)
        BY Heads, Op1 DEF Entry, Cutting, CutShort, WalkRest
      <4>2. Entry(c) = Entry(d) => c = d
        BY Heads, Op1 DEF Entry
      <4> QED
        BY <3>1, <3>4, <4>1, <4>2 DEF StepOK
    <3>6. Entry(c) # <<Op("look", None)>>
      BY Heads, Op1 DEF Entry
    <3> QED
      BY <3>1, <3>3, <3>5, <3>6 DEF WalkInv
  <2>3. CASE work[Base] = <<Op("onConnection", c), Op("removeConnection", c)>> /\ Closed(c)
    <3>1. state[c] # "Connected"
      BY <1>2, <2>3 DEF ConnOK, Closed
    <3>2. work'[Base] = <<Op("erase", c), Op("removeConnection", c)>> /\ age' = age
      BY <1>2, <1>5, <2>3, <3>1, GoesOn DEF OnConnection
    <3>3. Calm
      BY <2>1, <3>2 DEF Calm
    <3> QED
      BY <3>2, <3>3, CalmPlain, PlainForms
  <2> QED
    BY <1>2, <1>5, <2>2, <2>3, AtOnConnection DEF OnConnection
<1>6. CASE Enlist(Base, c)
  <2>1. work[Base] = Entry(c) /\ ~ Listed(c)
    BY <1>2, <1>6, AtEnlist DEF Enlist, Entry
  <2>2. /\ work'[Base] = <<Op("setContext", c)>> /\ list' = Append(list, c)
        /\ UNCHANGED <<age, stepped>>
    BY <1>2, <1>6, <2>1, GoesOn DEF Enlist, Entry
  <2>3. AgesFall'
    BY <1>2, <2>1, <2>2, EntersLast DEF WalkInv, StepOK
  <2>4. Plain(work'[Base])
    BY <2>2, PlainForms
  <2> QED
    BY <2>3, <2>4 DEF WalkInv, Plain, StepOK
<1>7. CASE SetContext(Base, c)
  <2>1. work'[Base] = <<>> /\ Calm
    BY <1>2, <1>7, AtSetContext, GoesOn DEF SetContext, Calm
  <2> QED
    BY <2>1, CalmPlain, PlainForms
<1>8. CASE EraseEntry(Base, c)
  <2>1. work[Base] = <<Op("erase", c), Op("removeConnection", c)>> /\ Listed(c)
    BY <1>2, <1>8, AtErase, SoleAt DEF EraseEntry
  <2>2. work'[Base] = <<Op("removeConnection", c)>>
    BY <1>2, <1>8, <2>1, GoesOn DEF EraseEntry
  <2>3. AgesFall'
    <3>1. ToSet(list) \subseteq Conn
      BY <1>2 DEF ListOK, ToSet
    <3>2. \A d \in ToSet(list) \ {c} : age'[d] = age[d]
      BY <1>2, <1>8, <3>1 DEF EraseEntry, AgesOK
    <3> QED
      BY <1>2, <1>8, <2>1, <3>2, LeavesOrder DEF EraseEntry, Listed
  <2>4. Plain(work'[Base])
    BY <2>2, PlainForms
  <2> QED
    BY <2>3, <2>4 DEF WalkInv, Plain, StepOK
<1>9. CASE HandleClose(Base, c)
  <2>1. work'[Base] = <<Op("onConnection", c), Op("removeConnection", c)>>
    BY <1>2, <1>9, AtHandleClose, GoesOn DEF HandleClose
  <2>2. Calm
    <3>1. ToSet(list) \subseteq Conn
      BY <1>2 DEF ListOK, ToSet
    <3> QED
      BY <1>2, <1>9, <3>1 DEF HandleClose, Calm, entries, FlagsOK
  <2> QED
    BY <2>1, <2>2, CalmPlain, PlainForms
<1>10. CASE RemoveConnection(Base, c)
  <2>1. Continue(Base, <<Op("removeConnectionInLoop", c)>>)
    BY <1>10 DEF RemoveConnection, RunInLoop
  <2>2. work'[Base] = <<Op("removeConnectionInLoop", c)>> /\ Calm
    BY <1>2, <1>10, <2>1, AtRemoveConnection, GoesOn DEF RemoveConnection, Calm, entries
  <2> QED
    BY <2>2, CalmPlain, PlainForms
<1>11. CASE RemoveConnectionInLoop(Base, c)
  <2>1. work'[Base] = <<>> /\ Calm
    BY <1>2, <1>11, AtRemoveConnectionInLoop, GoesOn DEF RemoveConnectionInLoop, Calm, entries
  <2> QED
    BY <2>1, CalmPlain, PlainForms
<1>12. CASE Nothing(Base, c)
  <2>1. Calm /\ Continue(Base, <<>>) /\ UNCHANGED <<state, age>>
    BY <1>12 DEF Nothing, Calm, entries
  <2>2. \/ At(Base, "connectDestroyed", c) /\ work[Base] = <<Op("connectDestroyed", c)>>
        \/ At(Base, "shutdownInLoop", c) /\ work[Base] = <<Op("shutdownInLoop", c)>>
        \/ work[Base] = <<Op("shutdownInLoop", c), Op("delay", c), Op("next", c)>>
    BY <1>2, <1>12, AtShutdownInLoop, AtConnectDestroyed DEF Nothing
  <2>3. \/ work'[Base] = <<>>
        \/ /\ work'[Base] = <<Op("delay", c), Op("next", c)>>
           /\ work[Base] \in CutShort(c)
    <3>1. CASE work[Base] = <<Op("shutdownInLoop", c), Op("delay", c), Op("next", c)>>
      <4>1. work'[Base] = <<Op("delay", c), Op("next", c)>>
        BY <1>2, <2>1, <3>1, GoesOn
      <4>2. work[Base] \in CutShort(c)
        BY <3>1 DEF CutShort
      <4> QED
        BY <4>1, <4>2
    <3>2. CASE \E a : work[Base] = <<a>>
      BY <1>2, <2>1, <3>2, GoesOn
    <3> QED
      BY <2>2, <3>1, <3>2
  <2>4. CASE work'[Base] = <<>>
    BY <2>1, <2>4, CalmPlain, PlainForms
  <2>5. CASE work'[Base] = <<Op("delay", c), Op("next", c)>> /\ work[Base] \in CutShort(c)
    <3>1. Passed(c) /\ Dealt(c)
      BY <2>5 DEF WalkInv, StepOK
    <3>2. Dealt(c)'
      BY <2>1, <3>1 DEF Dealt
    <3>3. work'[Base] \in CutShort(c)
      BY <2>5 DEF CutShort, WalkRest
    <3> QED
      BY <2>1, <3>1, <3>2, <3>3, CalmWalk
  <2> QED
    BY <2>3, <2>4, <2>5
<1>13. CASE Shutdown(Base, c)
  <2>1. /\ context[c]
        /\ \/ work[Base] = <<Op("shutdown", c)>> /\ open[c]
           \/ work[Base] = Cutting(c) /\ Listed(c)
    BY <1>2, <1>13, AtShutdown, SoleShut DEF Shutdown, Cutting
  <2>2. loop[c] = Base
    <3>1. work[Base] # <<Op("setContext", c)>> /\ work[Base] \notin Closing(c)
      BY <2>1, Heads, Op1 DEF Closing, Cutting
    <3> QED
      BY <1>2, <1>3, <2>1, <3>1 DEF ConnOK, SoleConn
  <2>3. Continue(Base, <<Op("shutdownInLoop", c)>>)
    BY <1>13, <2>2 DEF Shutdown, RunInLoop
  <2>4. \/ work'[Base] = <<Op("shutdownInLoop", c)>>
        \/ /\ work'[Base] = <<Op("shutdownInLoop", c), Op("delay", c), Op("next", c)>>
           /\ work[Base] = Cutting(c)
    BY <1>2, <2>1, <2>3, GoesOn DEF Cutting
  <2>5. Calm /\ state'[c] = "Disconnecting"
    <3>1. ToSet(list) \subseteq Conn
      BY <1>2 DEF ListOK, ToSet
    <3> QED
      BY <1>2, <1>13, <3>1 DEF Shutdown, Calm, entries, FlagsOK
  <2>6. CASE work'[Base] = <<Op("shutdownInLoop", c)>>
    BY <2>5, <2>6, CalmPlain, PlainForms
  <2>7. CASE /\ work'[Base] = <<Op("shutdownInLoop", c), Op("delay", c), Op("next", c)>>
             /\ work[Base] = Cutting(c)
    <3>1. Passed(c) /\ Dealt(c)' /\ work'[Base] \in CutShort(c)
      BY <2>5, <2>7 DEF WalkInv, StepOK, Dealt, CutShort
    <3> QED
      BY <2>5, <3>1, CalmWalk
  <2> QED
    BY <2>4, <2>6, <2>7
<1>14. CASE Delay(Base, c)
  <2>1. work[Base] = <<Op("delay", c), Op("next", c)>>
    BY <1>2, <1>14, AtDelay DEF Delay
  <2>2. Continue(Base, <<Op("delaySet", c)>>) \/ Continue(Base, <<>>)
    BY <1>14 DEF Delay
  <2>3. work'[Base] = <<Op("delaySet", c), Op("next", c)>> \/ work'[Base] = <<Op("next", c)>>
    BY <1>2, <2>1, <2>2, GoesOn
  <2>4. Calm /\ UNCHANGED <<state, age>>
    BY <1>14 DEF Delay, Calm, entries
  <2>5. work[Base] \in CutShort(c) /\ work'[Base] \in CutShort(c)
    BY <2>1, <2>3 DEF CutShort, WalkRest
  <2>6. Passed(c) /\ Dealt(c)
    BY <2>5 DEF WalkInv, StepOK
  <2>7. Dealt(c)'
    BY <2>4, <2>6 DEF Dealt
  <2> QED
    BY <2>4, <2>5, <2>6, <2>7, CalmWalk
<1>15. CASE DelaySet(Base, c)
  <2>1. work[Base] = <<Op("delaySet", c), Op("next", c)>>
    BY <1>2, <1>15, AtDelaySet DEF DelaySet
  <2>2. work'[Base] = <<Op("next", c)>>
    BY <1>2, <1>15, <2>1, GoesOn DEF DelaySet
  <2>3. Calm /\ state'[c] = "Disconnecting"
    <3>1. ToSet(list) \subseteq Conn
      BY <1>2 DEF ListOK, ToSet
    <3> QED
      BY <1>2, <1>15, <3>1 DEF DelaySet, Calm, entries, FlagsOK
  <2>4. work[Base] \in CutShort(c) /\ work'[Base] \in CutShort(c)
    BY <2>1, <2>2 DEF CutShort, WalkRest
  <2>5. Passed(c) /\ Dealt(c)'
    BY <2>3, <2>4 DEF WalkInv, StepOK, Dealt
  <2> QED
    BY <2>3, <2>4, <2>5, CalmWalk
<1>16. CASE ForceCloseInLoop(Base, c)
  <2>1. work[Base] = <<Op("forceCloseInLoop", c)>>
    BY <1>2, <1>16, AtForceCloseInLoop DEF ForceCloseInLoop
  <2>2. Continue(Base, <<Op("handleClose", c)>>) \/ Continue(Base, <<>>)
    BY <1>16 DEF ForceCloseInLoop
  <2>3. work'[Base] = <<Op("handleClose", c)>> \/ work'[Base] = <<>>
    BY <1>2, <2>1, <2>2, GoesOn
  <2>4. Calm
    BY <1>16 DEF ForceCloseInLoop, Calm, entries
  <2> QED
    BY <2>3, <2>4, CalmPlain, PlainForms
<1> QED
  BY <1>1, <1>4, <1>5, <1>6, <1>7, <1>8, <1>9, <1>10, <1>11, <1>12, <1>13, <1>14, <1>15, <1>16
     DEF Callback

\* What comes from outside, and from the timers.
LEMMA IdleArrives ==
  ASSUME CommonInv, SoleInv, ~ Pooled, WalkInv, NEW c \in Conn,
         PeerCloses(c) \/ InvalidLength(c) \/ ForceClose(c) \/ \E l \in Loops : NewConnection(c, l)
  PROVE  WalkInv'
<1>1. /\ FlagsOK /\ ConnOK(c) /\ Base \in Thread /\ Loops = {Base} /\ ToSet(list) \subseteq Conn
      /\ work \in [Thread -> Seq(Task)]
  BY Bases, OneLoop DEF CommonInv, ConnsOK, WorkOK, ListOK, ToSet
<1>2. state[c] # "none" => loop[c] = Base
  BY <1>1 DEF ConnOK
<1>3. CASE PeerCloses(c)
  <2>1. loop[c] = Base
    BY <1>1, <1>2, <1>3 DEF PeerCloses, ConnOK, Up
  <2>2. work'[Base] = <<Op("handleClose", c)>> /\ Calm
    BY <1>1, <1>3, <2>1 DEF PeerCloses, Calm, entries
  <2> QED
    BY <2>2, CalmPlain, PlainForms
<1>4. CASE InvalidLength(c)
  <2>1. loop[c] = Base
    BY <1>1, <1>2, <1>4 DEF InvalidLength, ConnOK, Up
  <2>2. work'[Base] = <<Op("shutdown", c)>> /\ Calm
    BY <1>1, <1>4, <2>1 DEF InvalidLength, Calm, entries
  <2> QED
    BY <2>2, CalmPlain, PlainForms
<1>5. CASE ForceClose(c)
  <2>1. loop[c] = Base
    BY <1>1, <1>2, <1>5 DEF ForceClose, ConnOK
  <2>2. work'[Base] = <<>> /\ Calm
    BY <1>1, <1>5, <2>1 DEF ForceClose, Calm, entries, FlagsOK, Idle
  <2> QED
    BY <2>2, CalmPlain, PlainForms
<1>6. CASE NewConnection(c, Base)
  <2>1. work'[Base] = <<Op("connectEstablished", c)>>
    BY <1>1, <1>6 DEF NewConnection
  <2>2. Calm
    BY <1>1, <1>6 DEF NewConnection, Calm, entries, FlagsOK
  <2> QED
    BY <2>1, <2>2, CalmPlain, PlainForms
<1> QED
  BY <1>1, <1>3, <1>4, <1>5, <1>6

\* A functor is none of the walk's steps.
LEMMA IdleTake ==
  ASSUME CommonInv, SoleInv, ~ Pooled, WalkInv, NEW t \in Thread, Take(t)
  PROVE  WalkInv'
<1>1. t = Base /\ queue[t] # <<>> /\ Idle(t)
  BY OneLoop DEF Take
<1>2. /\ queue[Base] \in Seq(Functor) /\ work \in [Thread -> Seq(Task)] /\ Base \in Thread
      /\ \A o \in ToSet(queue[Base]) : Queued(Base, o)
  BY <1>1 DEF CommonInv, QueuesOK, WorkOK
<1>3. PICK o : o = Head(queue[Base])
  OBVIOUS
<1>4. work'[Base] = <<o>> /\ Calm
  BY <1>1, <1>2, <1>3 DEF Take, Calm, entries
<1>5. Queued(Base, o)
  BY <1>1, <1>2, <1>3, FirstOut
<1>6. Plain(<<o>>)
  BY <1>5, PlainForms DEF Queued
<1> QED
  BY <1>4, <1>6, CalmPlain

\* What a look, and a next, rely on.
LEMMA Looks ==
  ASSUME NEW x \in Conn \cup {None}, work'[Base] = <<Op("look", x)>>, AgesFall',
         x = None => AllDealt', x \in Conn => Passed(x)'
  PROVE  WalkInv'
<1>1. work'[Base] = <<Op("look", None)>> => AllDealt'
  BY Heads, Op1
<1>2. ASSUME NEW d \in Conn PROVE StepOK(work[Base], d)'
  <2>1. <<Op("look", x)>> # Entry(d) /\ <<Op("look", x)>> # Cutting(d) /\ <<Op("look", x)>> \notin CutShort(d)
    BY Heads, Op1 DEF Entry, Cutting, CutShort, WalkRest
  <2>2. <<Op("look", x)>> = <<Op("look", d)>> => x = d
    BY Heads, Op1
  <2> QED
    BY <2>1, <2>2 DEF StepOK
<1> QED
  BY <1>1, <1>2 DEF WalkInv

LEMMA Nexts ==
  ASSUME NEW c \in Conn, work'[Base] = <<Op("next", c)>>, AgesFall', Passed(c)', Dealt(c)'
  PROVE  WalkInv'
<1>1. work'[Base] # <<Op("look", None)>>
  BY Heads, Op1
<1>2. ASSUME NEW d \in Conn PROVE StepOK(work[Base], d)'
  <2>1. <<Op("next", c)>> # Entry(d) /\ <<Op("next", c)>> \notin {<<Op("look", d)>>, Cutting(d)}
    BY Heads, Op1 DEF Entry, Cutting
  <2>2. <<Op("next", c)>> \in CutShort(d) => c = d
    BY Heads, Op1 DEF CutShort, WalkRest
  <2> QED
    BY <2>1, <2>2 DEF StepOK
<1> QED
  BY <1>1, <1>2 DEF WalkInv

\* A shutdown of the walk comes after what it has passed.
LEMMA CuttingOf ==
  ASSUME NEW c \in Conn, work'[Base] = Cutting(c), AgesFall', Passed(c)'
  PROVE  WalkInv'
<1>1. work'[Base] # <<Op("look", None)>>
  BY Heads, Op1 DEF Cutting
<1>2. ASSUME NEW d \in Conn PROVE StepOK(work[Base], d)'
  <2>1. Cutting(c) # Entry(d) /\ Cutting(c) # <<Op("look", d)>> /\ Cutting(c) \notin CutShort(d)
    BY Heads, Op1 DEF Entry, Cutting, CutShort, WalkRest
  <2>2. Cutting(c) = Cutting(d) => c = d
    BY Heads, Op1 DEF Cutting
  <2> QED
    BY <2>1, <2>2 DEF StepOK
<1> QED
  BY <1>1, <1>2 DEF WalkInv

\* The walk begins at the first entry.
LEMMA IdleTimer ==
  ASSUME CommonInv, WalkInv, OnTimer
  PROVE  WalkInv'
<1>1. PICK x : x = IF list = <<>> THEN None ELSE Head(list)
  OBVIOUS
<1>2. work'[Base] = <<Op("look", x)>> /\ Calm
  BY <1>1, Bases DEF OnTimer, CommonInv, WorkOK, entries, Calm
<1>3. AgesFall'
  BY <1>2, CalmKeeps DEF WalkInv
<1>4. CASE list = <<>>
  <2>1. x = None /\ AllDealt
    BY <1>1, <1>4 DEF AllDealt
  <2> QED
    BY <1>2, <1>3, <2>1, CalmKeeps, NoConnAssumption, Looks
<1>5. CASE list # <<>>
  <2>1. x = list[1] /\ DOMAIN list = 1 .. Len(list) /\ 1 \in DOMAIN list /\ x \in Conn
    BY <1>1, <1>5, FirstOut DEF CommonInv, ListOK
  <2>2. \A j \in DOMAIN list : list[j] = x => j = 1
    BY <2>1 DEF CommonInv, ListOK, IsInjective
  <2>3. \A i \in DOMAIN list : ~ (i < 1)
    BY <2>1
  <2>4. Passed(x)
    BY <2>2, <2>3 DEF Passed
  <2> QED
    BY <1>2, <1>3, <2>1, <2>4, CalmKeeps, NoConnAssumption, Looks
<1> QED
  BY <1>4, <1>5

\* The clock stands still while the base loop walks.
LEMMA IdleTime ==
  ASSUME CommonInv, WalkInv, Tick \/ StepBack
  PROVE  WalkInv'
<1>1. /\ ListOK /\ AgesOK /\ WorkOK /\ work' = work /\ list' = list /\ UNCHANGED state /\ ~ Walking
      /\ Base \in Thread /\ ToSet(list) \subseteq Conn
  BY Bases DEF CommonInv, Tick, StepBack, threads, ListOK, ToSet
<1>2. \A i \in DOMAIN list : list[i] \in Conn /\ list[i] \in Timed
  BY <1>1 DEF ListOK, ToSet, Timed
<1>3. AgeLimit \in Int
  BY IdleAssumption DEF AgeLimit
<1>4. ASSUME NEW c \in Timed, NEW d \in Timed, c \in Conn, d \in Conn, age[c] <= age[d] + stepped
      PROVE  age'[c] <= age'[d] + stepped'
  <2>1. /\ age[c] \in Int /\ age[d] \in Int /\ stepped \in Nat
        /\ age[c] <= AgeLimit /\ age[d] <= AgeLimit
    BY <1>1, <1>4 DEF AgesOK
  <2>2. CASE Tick
    <3>1. /\ age'[c] = IF age[c] < AgeLimit THEN age[c] + 1 ELSE age[c]
          /\ age'[d] = IF age[d] < AgeLimit THEN age[d] + 1 ELSE age[d]
          /\ stepped' = stepped
      BY <1>4, <2>2 DEF Tick
    <3> HIDE DEF AgeLimit
    <3> QED
      BY <1>3, <1>4, <2>1, <3>1
  <2>3. CASE StepBack
    <3>1. age'[c] = age[c] - 1 /\ age'[d] = age[d] - 1 /\ stepped' = stepped + 1
      BY <1>4, <2>3 DEF StepBack
    <3> QED
      BY <1>4, <2>1, <3>1
  <2> QED
    BY <2>2, <2>3
<1>5. AgesFall'
  BY <1>1, <1>2, <1>4 DEF WalkInv, AgesFall
<1>6. ASSUME NEW c \in Conn, work[Base] = Entry(c) PROVE Youngest(c)'
  <2>1. Youngest(c)
    BY <1>6 DEF WalkInv, StepOK
  <2>2. c \in Timed
    <3>1. At(Base, "enlist", c)
      BY <1>6, Heads DEF At, Idle, Entry
    <3> QED
      BY <1>1, <3>1, AtEnlist DEF Entering, Timed
  <2> QED
    BY <1>1, <1>2, <1>4, <2>1, <2>2 DEF Youngest
<1>7. ASSUME NEW s, work[Base] = s, s # <<>>, Last(s).op \in {"look", "next"} PROVE FALSE
  BY <1>1, <1>7 DEF Walking, Idle
<1>8. work[Base] # <<Op("look", None)>>
  BY <1>7, Lasts
<1>9. ASSUME NEW c \in Conn PROVE work[Base] \notin {<<Op("look", c)>>, Cutting(c)} \cup CutShort(c)
  BY <1>7, Lasts DEF Cutting, CutShort, WalkRest
<1> QED
  BY <1>1, <1>5, <1>6, <1>8, <1>9 DEF WalkInv, StepOK

\* None is no entry.
LEMMA NoneListed ==
  ASSUME ListOK
  PROVE  \A i \in DOMAIN list : list[i] # None
BY NoConnAssumption DEF ListOK

\* What the walk has passed when it goes on from an entry it has dealt with.
LEMMA PassedNext ==
  ASSUME ListOK, NEW c \in ToSet(list), Passed(c), Dealt(c), NEW x, x = After(c)
  PROVE  (x = None => AllDealt) /\ (x # None => Passed(x))
<1> DEFINE p == Position(c)
           n == Len(list)
<1>1. /\ n \in Nat /\ p \in 1 .. n /\ list[p] = c /\ DOMAIN list = 1 .. n
      /\ \A i, j \in 1 .. n : list[i] = list[j] => i = j
      /\ x = IF p = n THEN None ELSE list[p + 1]
  BY PositionIs DEF ListOK, IsInjective, After
<1> HIDE DEF p, n
<1>2. \A i \in 1 .. n : i < p => Dealt(list[i])
  BY <1>1 DEF Passed
<1>3. \A i \in 1 .. n : i <= p => Dealt(list[i])
  BY <1>1, <1>2
<1>4. CASE p = n
  <2>1. \A i \in 1 .. n : i <= p
    BY <1>1, <1>4
  <2>2. AllDealt
    BY <1>1, <1>3, <2>1 DEF AllDealt
  <2> QED
    BY <1>1, <1>4, <2>2
<1>5. CASE p # n
  <2>1. p + 1 \in 1 .. n /\ x = list[p + 1] /\ \A i \in 1 .. n : i < p + 1 => i <= p
    BY <1>1, <1>5
  <2>2. \A i, j \in 1 .. n : list[j] = x /\ i < j => Dealt(list[i])
    BY <1>1, <1>3, <2>1
  <2>3. Passed(x)
    BY <1>1, <2>2 DEF Passed
  <2>4. x # None
    BY <1>1, <2>1, NoneListed
  <2> QED
    BY <2>3, <2>4
<1> QED
  BY <1>4, <1>5

\* Every step of the walk.
LEMMA IdleWalk ==
  ASSUME CommonInv, SoleInv, ~ Pooled, WalkInv, WalkStep, ~ Undefined
  PROVE  WalkInv'
<1>1. /\ WorkOK /\ SoleWork(work[Base]) /\ Base \in Thread /\ ListOK /\ AgesOK
      /\ ToSet(list) \subseteq Conn /\ \A d \in Conn : SoleConn(d)
  BY Bases DEF CommonInv, SoleInv, ListOK, ToSet
<1>2. UNCHANGED <<state, stepped>>
  BY DEF WalkStep
<1>3. CASE WalkEnds
  <2>1. work'[Base] = <<>> /\ Calm
    BY <1>1, <1>2, <1>3, AtLook, GoesOn DEF WalkEnds, Calm
  <2> QED
    BY <2>1, CalmPlain, PlainForms
<1>4. ASSUME NEW c \in Conn, WalkNext(c) PROVE WalkInv'
  <2>1. work[Base] = <<Op("next", c)>> /\ Listed(c)
    BY <1>1, <1>4, AtNext, SoleAt DEF WalkNext
  <2>2. Passed(c) /\ Dealt(c)
    BY <2>1 DEF WalkInv, StepOK, CutShort, WalkRest
  <2>3. PICK x : x = After(c)
    OBVIOUS
  <2>4. x \in Conn \cup {None}
    BY <1>1, <2>1, <2>3, AfterIs DEF ListOK, Listed
  <2>5. work'[Base] = <<Op("look", x)>> /\ Calm
    BY <1>1, <1>2, <1>4, <2>1, <2>3, GoesOn DEF WalkNext, Calm
  <2>6. (x = None => AllDealt) /\ (x # None => Passed(x))
    BY <1>1, <2>1, <2>2, <2>3, PassedNext DEF Listed
  <2>7. (x = None => AllDealt') /\ (x # None => Passed(x)') /\ AgesFall'
    BY <2>5, <2>6, CalmKeeps DEF WalkInv
  <2> QED
    BY <2>4, <2>5, <2>7, NoConnAssumption, Looks
<1>5. ASSUME NEW c \in Conn, WalkEntry(c) PROVE WalkInv'
  <2>1. work[Base] = <<Op("look", c)>> /\ Listed(c) /\ Alive(c)
    BY <1>1, <1>5, AtLook, SoleAt DEF WalkEntry, SoleConn, Alive
  <2>2. Passed(c)
    BY <2>1 DEF WalkInv, StepOK
  <2>3. /\ list' = list /\ age' = [age EXCEPT ![c] = IF age[c] < 0 THEN 0 ELSE age[c]]
        /\ Continue(Base, IF age[c] > IdleSeconds THEN CutOff(c)
                          ELSE IF age[c] < 0 THEN <<Op("next", c)>> ELSE <<>>)
    BY <1>5, <2>1 DEF WalkEntry
  <2>4. age[c] \in Int /\ stepped \in Nat /\ - stepped <= age[c] /\ IdleSeconds \in Nat
    BY <1>1, IdleAssumption DEF AgesOK
  <2>5. CASE age[c] < 0
    <3>1. work'[Base] = <<Op("next", c)>>
      BY <1>1, <2>1, <2>3, <2>4, <2>5, GoesOn
    <3>2. age'[c] = 0 /\ \A d \in Conn \ {c} : age'[d] = age[d]
      BY <1>1, <2>3, <2>5 DEF AgesOK
    <3>3. Dealt(c)'
      BY <2>4, <3>2 DEF Dealt
    <3>4. Passed(c)'
      <4>1. \A d \in ToSet(list) : Dealt(d) => Dealt(d)'
        BY <1>1, <1>2, <3>2, <3>3 DEF Dealt
      <4> QED
        BY <2>2, <2>3, <4>1 DEF Passed, ToSet
    <3>5. AgesFall'
      <4>1. ASSUME NEW d \in Conn, NEW e \in Conn, age[e] <= age[d] + stepped
            PROVE  age'[e] <= age'[d] + stepped
        <5>1. /\ age[d] \in Int /\ age[e] \in Int /\ - stepped <= age[d] /\ - stepped <= age[e]
          BY <1>1 DEF AgesOK
        <5>2. age'[d] = (IF d = c THEN 0 ELSE age[d]) /\ age'[e] = (IF e = c THEN 0 ELSE age[e])
          BY <3>2
        <5>3. PICK ad, ae, s \in Int : ad = age[d] /\ ae = age[e] /\ s = stepped
          BY <2>4, <5>1
        <5>4. ad >= - s /\ ae <= ad + s /\ s >= 0 /\ (d = c => ad < 0) /\ (e = c => ae < 0)
          BY <2>4, <2>5, <4>1, <5>1, <5>3
        <5>5. PICK bd, be \in Int : bd = (IF d = c THEN 0 ELSE ad) /\ be = (IF e = c THEN 0 ELSE ae)
          OBVIOUS
        <5>6. be <= bd + s
          BY <5>4, <5>5
        <5> QED
          BY <5>2, <5>3, <5>5, <5>6
      <4>2. \A i \in DOMAIN list : list[i] \in Conn
        BY <1>1 DEF ToSet
      <4> QED
        BY <1>2, <2>3, <4>1, <4>2 DEF WalkInv, AgesFall
    <3> QED
      BY <3>1, <3>3, <3>4, <3>5, Nexts
  <2>6. CASE ~ (age[c] < 0)
    <3>1. age' = age /\ Calm
      BY <1>1, <1>2, <2>3, <2>6 DEF Calm, AgesOK
    <3>2. CASE ~ (age[c] > IdleSeconds)
      <4>1. work'[Base] = <<>>
        BY <1>1, <2>1, <2>3, <2>6, <3>2, GoesOn
      <4> QED
        BY <3>1, <4>1, CalmPlain, PlainForms
    <3>3. CASE age[c] > IdleSeconds /\ state[c] # "Connected"
      <4>1. work'[Base] = <<Op("next", c)>>
        BY <1>1, <2>1, <2>3, <3>3, GoesOn DEF CutOff
      <4>2. Dealt(c)' /\ work'[Base] \in CutShort(c)
        BY <1>2, <3>3, <4>1 DEF Dealt, CutShort, WalkRest
      <4> QED
        BY <2>2, <3>1, <4>2, CalmWalk
    <3>4. CASE age[c] > IdleSeconds /\ state[c] = "Connected"
      <4>1. work'[Base] = Cutting(c)
        BY <1>1, <2>1, <2>3, <3>4, GoesOn DEF CutOff, Cutting
      <4>2. Passed(c)' /\ AgesFall'
        BY <2>2, <3>1, CalmKeeps DEF WalkInv
      <4> QED
        BY <4>1, <4>2, CuttingOf
    <3> QED
      BY <3>2, <3>3, <3>4
  <2> QED
    BY <2>5, <2>6
<1> QED
  BY <1>3, <1>4, <1>5 DEF WalkStep

LEMMA IdleInit ==
  ASSUME ConnInit
  PROVE  IdleInv
<1>1. work[Base] = <<>> /\ DOMAIN list = {}
  BY Bases DEF ConnInit
<1>2. AgesFall
  BY <1>1 DEF AgesFall
<1> QED
  BY <1>1, <1>2, PlainForms DEF IdleInv, WalkInv, Plain, StepOK

LEMMA IdleNext ==
  ASSUME CommonInv, SoleInv, IdleInv, [ConnNext]_connVars
  PROVE  IdleInv'
<1>1. SUFFICES ASSUME ~ Pooled, WalkInv PROVE WalkInv'
  BY ThreadStays DEF IdleInv, Pooled
<1>2. CASE UNCHANGED connVars
  BY <1>1, <1>2 DEF connVars, entries, threads, WalkInv, AgesFall, AllDealt, StepOK, Passed, Dealt,
                    Youngest
<1>3. CASE Times
  BY <1>1, <1>3, IdleTimer DEF Times
<1>4. CASE Ticks
  BY <1>1, <1>4, IdleTime DEF Ticks
<1>5. CASE Outside
  BY <1>1, <1>5, IdleTime, IdleArrives DEF Outside
<1>6. ASSUME NEW t \in Thread, Works(t) PROVE WalkInv'
  BY <1>1, <1>6, IdleCallback, IdleWalk DEF Works
<1>7. ASSUME NEW t \in Thread, Takes(t) PROVE WalkInv'
  BY <1>1, <1>7, IdleTake DEF Takes
<1>8. ASSUME NEW c \in Conn, Forces(c) PROVE WalkInv'
  BY <1>1, <1>8, IdleArrives DEF Forces
<1> QED
  BY <1>2, <1>3, <1>4, <1>5, <1>6, <1>7, <1>8 DEF ConnNext

\* Only the walk takes the base loop from a look to the end of a callback.
LEMMA PassEndsIn ==
  ASSUME CommonInv, [ConnNext]_connVars, PassEnds
  PROVE  WalkStep /\ ~ Undefined
<1>1. WorkOK /\ Base \in Thread /\ ~ Idle(Base) /\ Head(work[Base]).op = "look" /\ work'[Base] = <<>>
  BY Bases DEF CommonInv, PassEnds
<1>2. work'[Base] # work[Base]
  BY <1>1 DEF Idle
<1>3. ASSUME NEW m, m # "look", NEW c PROVE ~ At(Base, m, c)
  BY <1>1, <1>3 DEF At, Op
<1>4. ASSUME NEW t \in Thread, NEW c \in Conn, Callback(t, c) PROVE FALSE
  <2>1. t = Base
    <3>1. CASE Continue(t, <<>>) \/ \E a : Continue(t, a)
      BY <1>1, <1>2, <3>1 DEF Continue, WorkOK
    <3> QED
      BY <1>4, <3>1 DEF Callback, ConnectEstablished, OnConnection, Enlist, SetContext, EraseEntry,
         HandleClose, RemoveConnection, RemoveConnectionInLoop, RunInLoop, Nothing, Shutdown, Delay,
         DelaySet, ForceCloseInLoop
  <2> QED
    BY <1>3, <1>4, <2>1 DEF Callback, ConnectEstablished, OnConnection, Enlist, SetContext, EraseEntry,
         HandleClose, RemoveConnection, RemoveConnectionInLoop, Nothing, Shutdown, Delay,
         DelaySet, ForceCloseInLoop
<1>5. ASSUME NEW t \in Thread, Take(t) PROVE FALSE
  <2>1. t = Base
    BY <1>1, <1>2, <1>5 DEF Take, WorkOK
  <2> QED
    BY <1>1, <1>5, <2>1 DEF Take
<1>6. ~ OnTimer
  BY <1>1 DEF OnTimer
<1>7. UNCHANGED work => FALSE
  BY <1>2
<1>8. ASSUME NEW c \in Conn, PeerCloses(c) \/ InvalidLength(c) PROVE FALSE
  <2>1. loop[c] # Base
    BY <1>1, <1>8 DEF PeerCloses, InvalidLength
  <2> QED
    BY <1>1, <1>2, <1>8, <2>1 DEF PeerCloses, InvalidLength, WorkOK
<1>9. ASSUME NEW c \in Conn, NEW l \in Loops, NewConnection(c, l) PROVE FALSE
  BY <1>1, <1>9 DEF NewConnection
<1>10. ~ Outside
  BY <1>7, <1>8, <1>9 DEF Outside, StepBack, threads
<1>11. ~ Ticks /\ (\A c \in Conn : ~ Forces(c)) /\ ~ UNCHANGED connVars
  BY <1>7 DEF Ticks, Tick, Forces, ForceClose, connVars, threads
<1> QED
  BY <1>4, <1>5, <1>6, <1>10, <1>11 DEF ConnNext, Times, Works, Takes

\* At the end of the list everything was dealt with; a young entry is followed by
\* none that is older by more than the clock was set back.
LEMMA PassEndsWell ==
  ASSUME CommonInv, SoleInv, IdleInv, [ConnNext]_connVars, ~ Pooled, PassEnds,
         NEW c \in ToSet(list), state[c] = "Connected"
  PROVE  age[c] <= IdleSeconds + stepped
<1>1. /\ WorkOK /\ SoleWork(work[Base]) /\ Base \in Thread /\ ListOK /\ AgesOK /\ WalkInv
      /\ ToSet(list) \subseteq Conn /\ \A d \in Conn : SoleConn(d)
  BY Bases DEF CommonInv, SoleInv, ListOK, ToSet, IdleInv
<1>2. WalkStep /\ work'[Base] = <<>> /\ work[Base] # <<>>
  BY PassEndsIn DEF PassEnds, Idle
<1>3. PICK k \in DOMAIN list : list[k] = c
  BY DEF ToSet
<1>4. /\ age[c] \in Int /\ stepped \in Nat /\ IdleSeconds \in Nat /\ DOMAIN list = 1 .. Len(list)
      /\ k \in Nat
  BY <1>1, <1>3, IdleAssumption DEF AgesOK, ListOK
<1>5. Dealt(c) => age[c] <= IdleSeconds + stepped
  BY <1>4 DEF Dealt
<1>6. CASE WalkEnds
  <2>1. work[Base] = <<Op("look", None)>>
    BY <1>1, <1>6, AtLook DEF WalkEnds
  <2> QED
    BY <1>1, <1>3, <1>5, <2>1 DEF WalkInv, AllDealt
<1>7. ASSUME NEW d \in Conn, WalkNext(d) PROVE FALSE
  <2>1. work[Base] = <<Op("next", d)>>
    BY <1>1, <1>7, AtNext DEF WalkNext
  <2>2. work'[Base] = <<Op("look", After(d))>>
    BY <1>1, <1>7, <2>1, GoesOn DEF WalkNext
  <2> QED
    BY <1>2, <2>2, Heads
<1>8. ASSUME NEW d \in Conn, WalkEntry(d) PROVE age[c] <= IdleSeconds + stepped
  <2>1. work[Base] = <<Op("look", d)>> /\ Listed(d) /\ Alive(d)
    BY <1>1, <1>8, AtLook, SoleAt DEF WalkEntry, SoleConn, Alive
  <2>2. Passed(d)
    BY <1>1, <2>1 DEF WalkInv, StepOK
  <2>3. Continue(Base, IF age[d] > IdleSeconds THEN CutOff(d)
                       ELSE IF age[d] < 0 THEN <<Op("next", d)>> ELSE <<>>)
    BY <1>8, <2>1 DEF WalkEntry
  <2>4. ~ (age[d] > IdleSeconds)
    <3>1. SUFFICES ASSUME age[d] > IdleSeconds PROVE FALSE
      OBVIOUS
    <3>2. \/ Continue(Base, <<Op("shutdown", d), Op("delay", d), Op("next", d)>>)
          \/ Continue(Base, <<Op("next", d)>>)
      BY <2>3, <3>1 DEF CutOff
    <3> QED
      BY <1>1, <1>2, <2>1, <3>2, GoesOn, Heads
  <2>5. age[d] \in Int /\ age[d] <= IdleSeconds
    BY <1>1, <1>4, <2>4 DEF AgesOK
  <2>6. PICK m \in DOMAIN list : list[m] = d
    BY <2>1 DEF Listed, ToSet
  <2>7. m \in Nat
    BY <1>4, <2>6
  <2>8. CASE k < m
    BY <1>3, <1>5, <2>2, <2>6, <2>8 DEF Passed
  <2>9. CASE k = m
    BY <1>3, <1>4, <2>5, <2>6, <2>9
  <2>10. CASE m < k
    <3>1. age[c] <= age[d] + stepped
      BY <1>1, <1>3, <2>6, <2>10 DEF WalkInv, AgesFall
    <3> QED
      BY <1>4, <2>5, <3>1
  <2> QED
    BY <1>4, <2>7, <2>8, <2>9, <2>10
<1> QED
  BY <1>2, <1>6, <1>7, <1>8 DEF WalkStep

\* When a pass of onTimer ends with one loop, no connection that is up is idle by
\* more than the clock was set back: everything before the entry it stopped at was
\* dealt with, and what follows that entry entered the list later.
THEOREM IdleAreCut == ConnSpec => IdleCut
<1> DEFINE Inv == CommonInv /\ SoleInv /\ IdleInv
           P == ~ Pooled /\ PassEnds =>
                   \A c \in ToSet(list) : state[c] = "Connected" => age[c] <= IdleSeconds + stepped
<1>1. ConnInit => Inv
  BY CommonInit, SoleInit, IdleInit
<1>2. Inv /\ [ConnNext]_connVars => Inv'
  BY CommonNext, SoleNext, IdleNext
<1>3. Inv /\ [ConnNext]_connVars => [P]_connVars
  BY PassEndsWell
<1> HIDE DEF Inv
<1> QED
  BY <1>1, <1>2, <1>3, PTL DEF ConnSpec, IdleCut

=============================================================================
