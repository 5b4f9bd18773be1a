------------------------------ MODULE LoopProofs ------------------------------
(***************************************************************************)
(* An event loop with any number of threads and functors, a timer queue with *)
(* any timers, and pollers with any channels: each part by an inductive      *)
(* invariant of its own, since one part runs and the others stand still; and *)
(* step by step, that they keep the promises of TaskQueue and Interest.      *)
(***************************************************************************)
EXTENDS MCLoop, FiniteSetTheorems, SequenceTheorems, TLAPS

-----------------------------------------------------------------------------
(* Sequences.                                                               *)

LEMMA AppendedSet ==
    ASSUME NEW T, NEW s \in Seq(T), NEW t \in T
    PROVE  /\ Append(s, t) \in Seq(T)
           /\ ToSet(Append(s, t)) = ToSet(s) \cup {t}
<1>1. /\ Append(s, t) \in Seq(T) /\ Len(Append(s, t)) = Len(s) + 1
      /\ \A i \in 1 .. Len(s) : Append(s, t)[i] = s[i]
      /\ Append(s, t)[Len(s) + 1] = t
  BY AppendProperties
<1>2. DOMAIN Append(s, t) = 1 .. Len(s) + 1 /\ DOMAIN s = 1 .. Len(s) /\ Len(s) \in Nat
  BY <1>1
<1>3. 1 .. Len(s) + 1 = (1 .. Len(s)) \cup {Len(s) + 1}
  BY <1>2
<1>4. \A x : x \in ToSet(Append(s, t)) <=> \E i \in 1 .. Len(s) + 1 : x = Append(s, t)[i]
  BY <1>2 DEF ToSet
<1>5. \A x : x \in ToSet(s) <=> \E i \in 1 .. Len(s) : x = s[i]
  BY <1>2 DEF ToSet
<1>6. ASSUME NEW x PROVE x \in ToSet(Append(s, t)) <=> x \in ToSet(s) \/ x = t
  BY <1>1, <1>3, <1>4, <1>5, Zenon
<1> QED
  BY <1>1, <1>6

\* What is run next is taken from the functors that were swapped out.
LEMMA Concatenated ==
    ASSUME NEW T, NEW s \in Seq(T), NEW q \in Seq(T), NEW t \in T
    PROVE  /\ s \o Append(q, t) = Append(s \o q, t)
           /\ s # <<>> => /\ s \o q # <<>> /\ Head(s) \in T /\ Tail(s) \in Seq(T)
                          /\ Head(s \o q) = Head(s) /\ Tail(s \o q) = Tail(s) \o q
<1>1. Append(q, t) = q \o <<t>> /\ Append(s \o q, t) = (s \o q) \o <<t>>
  OBVIOUS
<1>2. s \o (q \o <<t>>) = (s \o q) \o <<t>>
  <2>1. <<t>> \in Seq(T)
    OBVIOUS
  <2> QED
    BY <2>1, ConcatAssociative
<1>3. ASSUME s # <<>>
      PROVE  /\ s \o q # <<>> /\ Head(s) \in T /\ Tail(s) \in Seq(T)
             /\ Head(s \o q) = Head(s) /\ Tail(s \o q) = Tail(s) \o q
  <2>1. s = <<Head(s)>> \o Tail(s) /\ Head(s) \in T /\ Tail(s) \in Seq(T)
    BY <1>3
  <2>2. s \o q = <<Head(s)>> \o (Tail(s) \o q)
    <3>1. <<Head(s)>> \in Seq(T)
      BY <2>1
    <3> QED
      BY <2>1, <3>1, ConcatAssociative
  <2>3. Tail(s) \o q \in Seq(T)
    BY <2>1
  <2>4. ASSUME NEW h \in T, NEW r \in Seq(T)
        PROVE  <<h>> \o r # <<>> /\ Head(<<h>> \o r) = h /\ Tail(<<h>> \o r) = r
    OBVIOUS
  <2> QED
    BY <2>1, <2>2, <2>3, <2>4
<1> QED
  BY <1>1, <1>2, <1>3

-----------------------------------------------------------------------------
(* The event loop.                                                          *)

\* A wakeup was written, or comes.
Wakes == readable \/ owner = "waking" \/ \E c \in Caller : calls[c]

\* Somebody has queued a functor since loop() began, or another thread before it.
Fresh == ~ ToSet(pending) \subseteq early

\* Without a loop there are no callers, and what the thread queues before loop() is
\* early; from then on a loop that goes to poll will be woken for what it has not seen.
LoopInv ==
    /\ LoopTypeOK
    /\ pointer => at \notin {"none", "init", "gone"}
    /\ owner = "new" => at = "none"
    /\ at = "none" => pending = <<>>
    /\ at = "init" => ~ Fresh
    /\ at \in {"ready", "run", "poll"} /\ Fresh => Wakes
    /\ at = "poll" /\ quit => Wakes

LEMMA LoopStarts == LoopInit => LoopInv
<1> SUFFICES ASSUME LoopInit PROVE LoopInv
  OBVIOUS
<1>1. LoopTypeOK
  <2>1. calls \in [Caller -> BOOLEAN]
    BY DEF LoopInit
  <2>2. pending \in Seq(Task) /\ functors \in Seq(Task) /\ done \in Seq(Task)
    BY DEF LoopInit
  <2> QED
    BY <2>1, <2>2 DEF LoopInit, LoopTypeOK
<1> QED
  BY <1>1 DEF LoopInit, LoopInv, Fresh, ToSet

LEMMA LoopThreadSteps == LoopInv /\ LoopThread => LoopInv'
<1> SUFFICES ASSUME LoopInv, LoopThread PROVE LoopInv'
  OBVIOUS
<1> USE DEF LoopInv
<1>1. CASE Publish
  <2>1. LoopTypeOK'
    BY <1>1 DEF Publish, LoopTypeOK
  <2> QED
    BY <1>1, <2>1 DEF Publish, Fresh, Wakes, LoopTypeOK
<1>2. CASE EnterLoop
  <2>1. LoopTypeOK'
    BY <1>2 DEF EnterLoop, LoopTypeOK
  <2> QED
    BY <1>2, <2>1 DEF EnterLoop, Fresh, Wakes, LoopTypeOK
<1>3. CASE Poll
  <2>1. LoopTypeOK'
    BY <1>3 DEF Poll, LoopTypeOK
  <2> QED
    BY <1>3, <2>1 DEF Poll, Fresh, Wakes, LoopTypeOK
<1>4. CASE HandleRead
  <2>1. LoopTypeOK'
    BY <1>4 DEF HandleRead, LoopTypeOK
  <2> QED
    BY <1>4, <2>1 DEF HandleRead, Fresh, Wakes, LoopTypeOK
<1>5. CASE Swap
  <2>1. LoopTypeOK'
    BY <1>5 DEF Swap, LoopTypeOK
  <2>2. ~ Fresh'
    BY <1>5 DEF Swap, Fresh, ToSet
  <2> QED
    BY <1>5, <2>1, <2>2 DEF Swap, LoopTypeOK
<1>6. CASE RunFunctor
  <2>1. Head(functors) \in Task /\ Tail(functors) \in Seq(Task)
    BY <1>6 DEF RunFunctor, LoopTypeOK
  <2>2. Append(done, Head(functors)) \in Seq(Task)
    BY <2>1 DEF LoopTypeOK
  <2>3. LoopTypeOK'
    BY <1>6, <2>1, <2>2 DEF RunFunctor, LoopTypeOK
  <2> QED
    BY <1>6, <2>3 DEF RunFunctor, Fresh, Wakes, LoopTypeOK
<1>7. CASE NextRound
  <2>1. LoopTypeOK'
    BY <1>7 DEF NextRound, LoopTypeOK
  <2> QED
    BY <1>7, <2>1 DEF NextRound, Fresh, Wakes, LoopTypeOK
<1>8. CASE Return
  <2>1. LoopTypeOK'
    BY <1>8 DEF Return, LoopTypeOK
  <2> QED
    BY <1>8, <2>1 DEF Return, Fresh, Wakes, LoopTypeOK
<1> QED
  BY <1>1, <1>2, <1>3, <1>4, <1>5, <1>6, <1>7, <1>8 DEF LoopThread

LEMMA OwnerSteps == LoopInv /\ OwnerThread => LoopInv'
<1> SUFFICES ASSUME LoopInv, OwnerThread PROVE LoopInv'
  OBVIOUS
<1> USE DEF LoopInv
<1>1. CASE StartLoop
  <2>1. LoopTypeOK'
    BY <1>1 DEF StartLoop, LoopTypeOK
  <2>2. ~ Fresh'
    BY <1>1 DEF StartLoop, Fresh, ToSet
  <2> QED
    BY <1>1, <2>1, <2>2 DEF StartLoop
<1>2. CASE Started
  <2>1. LoopTypeOK'
    BY <1>2 DEF Started, LoopTypeOK
  <2> QED
    BY <1>2, <2>1 DEF Started, Fresh, Wakes, LoopTypeOK
<1>3. CASE Destroy
  <2>1. LoopTypeOK'
    BY <1>3 DEF Destroy, LoopTypeOK
  <2> QED
    BY <1>3, <2>1 DEF Destroy, Fresh, Wakes, LoopTypeOK
<1>4. CASE OwnerQuits
  <2>1. LoopTypeOK'
    BY <1>4 DEF OwnerQuits, LoopTypeOK, Looping
  <2> QED
    BY <1>4, <2>1 DEF OwnerQuits, Fresh, Wakes, LoopTypeOK
<1>5. CASE OwnerWakes
  <2>1. LoopTypeOK'
    BY <1>5 DEF OwnerWakes, LoopTypeOK
  <2> QED
    BY <1>5, <2>1 DEF OwnerWakes, Fresh, Wakes, LoopTypeOK
<1>6. CASE Join
  <2>1. LoopTypeOK'
    BY <1>6 DEF Join, LoopTypeOK
  <2> QED
    BY <1>6, <2>1 DEF Join, Fresh, Wakes, LoopTypeOK
<1> QED
  BY <1>1, <1>2, <1>3, <1>4, <1>5, <1>6 DEF OwnerThread

LEMMA CallSteps ==
    ASSUME LoopInv, NEW c \in Caller, Quit(c) \/ Wakeup(c) \/ \E t \in Task : QueueInLoop(c, t)
    PROVE  LoopInv'
<1> USE DEF LoopInv
<1>0. pending \in Seq(Task)
  BY DEF LoopTypeOK
<1>1. ASSUME NEW t \in Task, QueueInLoop(c, t) PROVE LoopInv'
  <2>1. pending' \in Seq(Task)
    BY <1>0, <1>1, AppendedSet DEF QueueInLoop
  <2>2. calls' \in [Caller -> BOOLEAN] /\ calls'[c]
    BY <1>1 DEF QueueInLoop, LoopTypeOK
  <2>3. LoopTypeOK'
    BY <1>1, <2>1, <2>2 DEF QueueInLoop, LoopTypeOK
  <2>4. Wakes' /\ at \notin {"none", "init"}
    BY <1>1, <2>2 DEF QueueInLoop, Wakes, LoopTypeOK
  <2> QED
    BY <1>1, <2>3, <2>4 DEF QueueInLoop, LoopTypeOK
<1>2. CASE Quit(c)
  <2>1. calls' \in [Caller -> BOOLEAN] /\ calls'[c]
    BY <1>2 DEF Quit, LoopTypeOK
  <2>2. LoopTypeOK'
    BY <1>2, <2>1 DEF Quit, LoopTypeOK, Looping
  <2>3. Wakes'
    BY <1>2, <2>1 DEF Quit, Wakes
  <2> QED
    BY <1>2, <2>2, <2>3 DEF Quit, Fresh, LoopTypeOK
<1>3. CASE Wakeup(c)
  <2>1. LoopTypeOK'
    BY <1>3 DEF Wakeup, LoopTypeOK
  <2> QED
    BY <1>3, <2>1 DEF Wakeup, Fresh, Wakes, LoopTypeOK
<1> QED
  BY <1>1, <1>2, <1>3

LEMMA InnerCallSteps ==
    ASSUME LoopInv, QuitFromLoop \/ \E t \in Task : QueueFromLoop(t)
    PROVE  LoopInv'
<1> USE DEF LoopInv
<1>0. pending \in Seq(Task)
  BY DEF LoopTypeOK
<1>1. ASSUME NEW t \in Task, QueueFromLoop(t) PROVE LoopInv'
  <2>1. pending' \in Seq(Task) /\ ToSet(pending') = ToSet(pending) \cup {t}
    BY <1>0, <1>1, AppendedSet DEF QueueFromLoop
  <2>2. LoopTypeOK'
    BY <1>1, <2>1 DEF QueueFromLoop, LoopTypeOK, NeedsWakeup
  <2>3. at = "init" => ~ Fresh'
    BY <1>1, <2>1 DEF QueueFromLoop, Fresh
  <2>4. at = "run" => Wakes'
    BY <1>1 DEF QueueFromLoop, Wakes, NeedsWakeup
  <2> QED
    BY <1>1, <2>2, <2>3, <2>4 DEF QueueFromLoop, LoopTypeOK
<1>2. CASE QuitFromLoop
  <2>1. LoopTypeOK'
    BY <1>2 DEF QuitFromLoop, LoopTypeOK
  <2> QED
    BY <1>2, <2>1 DEF QuitFromLoop, Fresh, Wakes, LoopTypeOK
<1> QED
  BY <1>1, <1>2

LEMMA LoopRests == LoopInv /\ UNCHANGED loopVars => LoopInv'
<1> SUFFICES ASSUME LoopInv, UNCHANGED loopVars PROVE LoopInv'
  OBVIOUS
<1>1. LoopTypeOK'
  BY DEF LoopInv, LoopTypeOK, loopVars
<1> QED
  BY <1>1 DEF LoopInv, Fresh, Wakes, loopVars

LEMMA LoopSteps == LoopInv /\ LoopNext => LoopInv'
BY LoopThreadSteps, OwnerSteps, CallSteps, InnerCallSteps DEF LoopNext

LEMMA LoopHolds == LoopInv => LoopTypeOK /\ NoLostWakeup
BY DEF LoopInv, NoLostWakeup, Fresh, Wakes

-----------------------------------------------------------------------------
(* The event loop keeps the promises of TaskQueue.                          *)

LEMMA TasksStart == LoopInit => Tasks!TaskInit
BY DEF LoopInit, Tasks!TaskInit

LEMMA TasksStand == UNCHANGED loopVars => UNCHANGED Tasks!taskVars
BY DEF loopVars, Tasks!taskVars

LEMMA TaskSteps ==
    ASSUME LoopInv, LoopNext
    PROVE  Tasks!TaskNext \/ UNCHANGED Tasks!taskVars
<1> DEFINE waiting == functors \o pending
<1>1. /\ functors \in Seq(Task) /\ pending \in Seq(Task)
      /\ functors # <<>> => at = "run"
  BY DEF LoopInv, LoopTypeOK
<1>2. ASSUME NEW t \in Task, UNCHANGED <<functors, done>>, pending' = Append(pending, t)
      PROVE  Tasks!TaskNext
  <2>1. functors \o Append(pending, t) = Append(functors \o pending, t)
    BY <1>1, Concatenated
  <2>2. Tasks!Submit(t)
    BY <1>2, <2>1 DEF Tasks!Submit
  <2> QED
    BY <2>2 DEF Tasks!TaskNext
<1>3. CASE RunFunctor
  <2>1. /\ functors # <<>> /\ done' = Append(done, Head(functors))
        /\ functors' = Tail(functors) /\ pending' = pending
    BY <1>3 DEF RunFunctor
  <2>2. /\ functors \o pending # <<>>
        /\ Head(functors \o pending) = Head(functors)
        /\ Tail(functors \o pending) = Tail(functors) \o pending
    BY <1>1, <2>1, Concatenated
  <2>3. Tasks!RunNext
    BY <2>1, <2>2 DEF Tasks!RunNext
  <2> QED
    BY <2>3 DEF Tasks!TaskNext
<1>4. CASE Swap
  <2>1. functors = <<>> /\ functors' = pending /\ pending' = <<>> /\ done' = done
    BY <1>1, <1>4 DEF Swap
  <2>2. functors' \o pending' = functors \o pending
    BY <1>1, <2>1, ConcatEmptySeq
  <2> QED
    BY <2>1, <2>2 DEF Tasks!taskVars
<1>5. ASSUME UNCHANGED <<functors, pending, done>> PROVE UNCHANGED Tasks!taskVars
  BY <1>5 DEF Tasks!taskVars
<1>6. CASE LoopThread /\ ~ RunFunctor /\ ~ Swap
  BY <1>5, <1>6 DEF LoopThread, Publish, EnterLoop, Poll, HandleRead, NextRound, Return
<1>7. CASE OwnerThread
  BY <1>5, <1>7 DEF OwnerThread, StartLoop, Started, Destroy, OwnerQuits, OwnerWakes, Join
<1>8. CASE QuitFromLoop
  BY <1>5, <1>8 DEF QuitFromLoop
<1>9. CASE \E c \in Caller : Quit(c) \/ Wakeup(c)
  BY <1>5, <1>9 DEF Quit, Wakeup
<1>10. CASE \E t \in Task : QueueFromLoop(t) \/ \E c \in Caller : QueueInLoop(c, t)
  BY <1>2, <1>10 DEF QueueFromLoop, QueueInLoop
<1> QED
  BY <1>3, <1>4, <1>6, <1>7, <1>8, <1>9, <1>10 DEF LoopNext

-----------------------------------------------------------------------------
(* The poller on epoll.                                                     *)

\* The fds in the epoll set are those of the channels whose index says so, with the
\* events they asked for last; a channel that is not in it asks for nothing.
EPollInv ==
    /\ EPollTypeOK
    /\ channels \subseteq Channel
    /\ DOMAIN kernel = {c \in Channel : index[c] = kAdded} /\ DOMAIN kernel \subseteq channels
    /\ \A c \in Channel : IF c \in DOMAIN kernel THEN kernel[c] = events[c] ELSE events[c] = {}

LEMMA AddTo ==
    ASSUME NEW c, NEW ev, kernel' = Add(c, ev)
    PROVE  /\ DOMAIN kernel' = DOMAIN kernel \cup {c} /\ kernel'[c] = ev
           /\ \A d \in DOMAIN kernel : d # c => kernel'[d] = kernel[d]
BY DEF Add

LEMMA DelOf ==
    ASSUME NEW c, kernel' = Del(c)
    PROVE  /\ DOMAIN kernel' = DOMAIN kernel \ {c}
           /\ \A d \in DOMAIN kernel : d # c => kernel'[d] = kernel[d]
BY DEF Del

LEMMA EPollStarts == EPollInit => EPollInv
BY DEF EPollInit, EPollInv, EPollTypeOK, kNew, kAdded, kDeleted

LEMMA EPollUpdates ==
    ASSUME EPollInv, NEW c \in Channel, NEW ev \in SUBSET Event, UpdateChannel(c, ev)
    PROVE  EPollInv'
<1> USE DEF EPollInv
<1>1. /\ events' = [events EXCEPT ![c] = ev] /\ channels' = channels \cup {c}
      /\ events \in [Channel -> SUBSET Event] /\ index \in [Channel -> {kNew, kAdded, kDeleted}]
  BY DEF UpdateChannel, EPollTypeOK
<1>2. /\ events' \in [Channel -> SUBSET Event] /\ events'[c] = ev
      /\ \A d \in Channel : d # c => events'[d] = events[d]
  BY <1>1
<1>3. CASE kernel' = Add(c, ev) /\ index' = [index EXCEPT ![c] = kAdded]
  <2>1. /\ index' \in [Channel -> {kNew, kAdded, kDeleted}] /\ index'[c] = kAdded
        /\ \A d \in Channel : d # c => index'[d] = index[d]
    BY <1>1, <1>3
  <2>2. /\ DOMAIN kernel' = DOMAIN kernel \cup {c} /\ kernel'[c] = ev
        /\ \A d \in DOMAIN kernel : d # c => kernel'[d] = kernel[d]
    BY <1>3, AddTo
  <2>3. DOMAIN kernel' = {d \in Channel : index'[d] = kAdded}
    BY <2>1, <2>2
  <2> QED
    BY <1>1, <1>2, <2>1, <2>2, <2>3 DEF EPollTypeOK
<1>4. CASE index[c] = kAdded /\ ev = {} /\ kernel' = Del(c) /\ index' = [index EXCEPT ![c] = kDeleted]
  <2>1. /\ index' \in [Channel -> {kNew, kAdded, kDeleted}] /\ index'[c] = kDeleted
        /\ \A d \in Channel : d # c => index'[d] = index[d]
    BY <1>1, <1>4
  <2>2. /\ DOMAIN kernel' = DOMAIN kernel \ {c}
        /\ \A d \in DOMAIN kernel : d # c => kernel'[d] = kernel[d]
    BY <1>4, DelOf
  <2>3. DOMAIN kernel' = {d \in Channel : index'[d] = kAdded}
    BY <2>1, <2>2 DEF kAdded, kDeleted
  <2> QED
    BY <1>1, <1>2, <1>4, <2>1, <2>2, <2>3 DEF EPollTypeOK
<1>5. CASE index[c] = kAdded /\ ev # {} /\ kernel' = Add(c, ev) /\ index' = index
  <2>1. index' = [index EXCEPT ![c] = kAdded]
    BY <1>1, <1>5
  <2> QED
    BY <1>3, <1>5, <2>1
<1> QED
  BY <1>3, <1>4, <1>5 DEF UpdateChannel, Ignore

LEMMA EPollRemoves ==
    ASSUME EPollInv, NEW c \in Channel, RemoveChannel(c)
    PROVE  EPollInv'
<1> USE DEF EPollInv
<1>1. /\ events' = events /\ channels' = channels \ {c} /\ events[c] = {}
      /\ index' = [index EXCEPT ![c] = kNew]
      /\ kernel' = IF index[c] = kAdded THEN Del(c) ELSE kernel
      /\ events \in [Channel -> SUBSET Event] /\ index \in [Channel -> {kNew, kAdded, kDeleted}]
  BY DEF RemoveChannel, EPollTypeOK
<1>2. /\ index' \in [Channel -> {kNew, kAdded, kDeleted}] /\ index'[c] = kNew
      /\ \A d \in Channel : d # c => index'[d] = index[d]
  BY <1>1
<1>3. /\ DOMAIN kernel' = DOMAIN kernel \ {c}
      /\ \A d \in DOMAIN kernel : d # c => kernel'[d] = kernel[d]
  BY <1>1, DelOf
<1>4. DOMAIN kernel' = {d \in Channel : index'[d] = kAdded}
  BY <1>2, <1>3 DEF kAdded, kNew
<1> QED
  BY <1>1, <1>2, <1>3, <1>4 DEF EPollTypeOK

LEMMA EPollRests == EPollInv /\ UNCHANGED <<events, index, channels, kernel>> => EPollInv'
BY DEF EPollInv, EPollTypeOK

LEMMA EPollSteps == EPollInv /\ EPollNext => EPollInv'
BY EPollUpdates, EPollRemoves, EPollRests DEF EPollNext, EPoll

LEMMA EPollInterestStarts == EPollInit => EPollInterest!InterestInit
<1> SUFFICES ASSUME EPollInit PROVE EPollInterest!InterestInit
  OBVIOUS
<1>1. DOMAIN kernel = {}
  BY DEF EPollInit
<1>2. {c \in DOMAIN kernel : kernel[c] = {}} = {}
  BY <1>1
<1>3. [c \in Channel |-> Watched(c)] = [c \in Channel |-> {}]
  BY <1>1 DEF Watched
<1> QED
  BY <1>2, <1>3 DEF EPollInterest!InterestInit, EPollInit

LEMMA EPollInterestSteps ==
    ASSUME EPollInv, EPollInv', EPollNext
    PROVE  EPollInterest!InterestNext
<1> DEFINE idle == {c \in DOMAIN kernel : kernel[c] = {}}
<1>1. [c \in Channel |-> Watched(c)] = events /\ [c \in Channel |-> Watched(c)]' = events'
  BY DEF EPollInv, EPollTypeOK, Watched
<1>2. events \in [Channel -> SUBSET Event]
  BY DEF EPollInv, EPollTypeOK
<1>3. ASSUME NEW c \in Channel, NEW ev \in SUBSET Event, UpdateChannel(c, ev)
      PROVE  EPollInterest!Ask(c, ev) \/ EPollInterest!AskNothingAgain(c)
  <2>1. events' = [events EXCEPT ![c] = ev] /\ activeChannels' = activeChannels
    BY <1>3 DEF UpdateChannel
  <2>2. CASE kernel' = Add(c, ev) /\ ev # {}
    <3>1. /\ DOMAIN kernel' = DOMAIN kernel \cup {c} /\ kernel'[c] = ev
          /\ \A d \in DOMAIN kernel : d # c => kernel'[d] = kernel[d]
      BY <2>2, AddTo
    <3>2. idle' = idle \ {c}
      BY <2>2, <3>1
    <3> QED
      BY <1>1, <2>1, <3>2 DEF EPollInterest!Ask
  <2>3. CASE kernel' = Add(c, ev) /\ ev = {} /\ index[c] # kAdded
    <3>1. /\ DOMAIN kernel' = DOMAIN kernel \cup {c} /\ kernel'[c] = ev
          /\ \A d \in DOMAIN kernel : d # c => kernel'[d] = kernel[d]
      BY <2>3, AddTo
    <3>2. idle' = idle \cup {c}
      BY <2>3, <3>1
    <3>3. events[c] = {}
      BY <2>3 DEF EPollInv
    <3>4. events' = events
      BY <1>2, <2>1, <2>3, <3>3
    <3> QED
      BY <1>1, <2>1, <3>2, <3>3, <3>4 DEF EPollInterest!AskNothingAgain
  <2>4. CASE kernel' = Del(c)
    <3>1. /\ DOMAIN kernel' = DOMAIN kernel \ {c}
          /\ \A d \in DOMAIN kernel : d # c => kernel'[d] = kernel[d]
      BY <2>4, DelOf
    <3>2. idle' = idle \ {c}
      BY <3>1
    <3> QED
      BY <1>1, <2>1, <3>2 DEF EPollInterest!Ask
  <2> QED
    BY <1>3, <2>2, <2>3, <2>4 DEF UpdateChannel, Ignore
<1>4. ASSUME NEW c \in Channel, RemoveChannel(c)
      PROVE  EPollInterest!Forget(c)
  <2>1. events' = events /\ events[c] = {} /\ activeChannels' = activeChannels \ {c}
    BY <1>4 DEF RemoveChannel
  <2>2. /\ DOMAIN kernel' = DOMAIN kernel \ {c}
        /\ \A d \in DOMAIN kernel : d # c => kernel'[d] = kernel[d]
    BY <1>4, DelOf DEF RemoveChannel, EPollInv
  <2>3. idle' = idle \ {c}
    BY <2>2
  <2> QED
    BY <1>1, <2>1, <2>3 DEF EPollInterest!Forget
<1>5. ASSUME NEW ready \in SUBSET Channel, EPoll(ready)
      PROVE  EPollInterest!Give(ready)
  <2>1. /\ ready \subseteq DOMAIN kernel /\ activeChannels' = ready
        /\ UNCHANGED <<events, kernel>>
    BY <1>5 DEF EPoll, Fill
  <2>2. \A c \in ready : events[c] # {} \/ c \in idle
    BY <2>1 DEF EPollInv
  <2>3. idle' = idle
    BY <2>1
  <2> QED
    BY <1>1, <2>1, <2>2, <2>3 DEF EPollInterest!Give
<1> QED
  BY <1>3, <1>4, <1>5 DEF EPollNext, EPollInterest!InterestNext

-----------------------------------------------------------------------------
(* The poller on poll(2).                                                   *)

Pollfd == [fd : Channel, events : SUBSET Event, ignored : BOOLEAN]
Indexed == {c \in Channel : pollIndex[c] # NewChannel}

\* The pollfd of a channel.
Entry(c) == pollfds[pollIndex[c]]

\* The indices of the channels and the places in pollfds_ are each other's inverse;
\* nothing that a channel asks for is ignored.
PollInv ==
    /\ pollEvents \in [Channel -> SUBSET Event] /\ pollIndex \in [Channel -> Nat]
    /\ pollfds \in Seq(Pollfd)
    /\ IsFiniteSet(Indexed) /\ Cardinality(Indexed) = Len(pollfds)
    /\ \A c \in Channel \ Indexed : pollEvents[c] = {}
    /\ \A c \in Indexed :
          /\ pollIndex[c] \in 1 .. Len(pollfds)
          /\ pollfds[pollIndex[c]].fd = c /\ pollfds[pollIndex[c]].events = pollEvents[c]
          /\ pollfds[pollIndex[c]].ignored => pollEvents[c] = {}
    /\ \A i \in 1 .. Len(pollfds) : pollIndex[pollfds[i].fd] = i

\* s without its last element, which has come to the place k.
Shorter(s, k) == Front([s EXCEPT ![k] = Last(s)])

LEMMA Shortened ==
    ASSUME NEW T, NEW s \in Seq(T), NEW k \in 1 .. Len(s), NEW r, r = Shorter(s, k)
    PROVE  /\ Last(s) = s[Len(s)] /\ Last(s) \in T
           /\ r \in Seq(T) /\ Len(r) = Len(s) - 1
           /\ \A i \in 1 .. Len(r) : r[i] = IF i = k THEN Last(s) ELSE s[i]
<1> DEFINE n == Len(s)  e == [s EXCEPT ![k] = Last(s)]
<1>1. n \in Nat /\ n >= 1 /\ n \in 1 .. n
  OBVIOUS
<1>2. Last(s) = s[n] /\ Last(s) \in T
  BY <1>1 DEF Last
<1>3. e \in Seq(T) /\ Len(e) = n /\ \A i \in 1 .. n : e[i] = IF i = k THEN Last(s) ELSE s[i]
  BY <1>1, <1>2
<1>4. r = SubSeq(e, 1, n - 1)
  BY <1>3 DEF Front, Shorter
<1> HIDE DEF e
<1>5. r \in Seq(T) /\ Len(r) = n - 1 /\ \A i \in 1 .. n - 1 : r[i] = e[i]
  <2>1. \A i \in 1 .. n - 1 : e[i] \in T
    BY <1>1, <1>3
  <2>2. /\ r \in Seq(T) /\ Len(r) = IF 1 <= n - 1 THEN (n - 1) - 1 + 1 ELSE 0
        /\ \A i \in 1 .. (n - 1) - 1 + 1 : r[i] = e[1 + i - 1]
    BY <1>1, <1>3, <1>4, <2>1, SubSeqProperties
  <2> HIDE DEF n
  <2>3. \A i \in 1 .. n - 1 : i \in 1 .. (n - 1) - 1 + 1 /\ 1 + i - 1 = i
    BY <1>1
  <2> QED
    BY <1>1, <2>2, <2>3
<1>6. \A i \in 1 .. n - 1 : i \in 1 .. n
  BY <1>1
<1> QED
  BY <1>2, <1>3, <1>5, <1>6

LEMMA Extended ==
    ASSUME NEW T, NEW s \in Seq(T), NEW t \in T, NEW r, r = Append(s, t)
    PROVE  /\ r \in Seq(T) /\ Len(r) = Len(s) + 1 /\ Len(s) \in Nat
           /\ r[Len(s) + 1] = t /\ \A i \in 1 .. Len(s) : r[i] = s[i]
OBVIOUS

LEMMA Replaced ==
    ASSUME NEW T, NEW s \in Seq(T), NEW t \in T, NEW k \in 1 .. Len(s),
           NEW r, r = [s EXCEPT ![k] = t]
    PROVE  /\ r \in Seq(T) /\ Len(r) = Len(s) /\ r[k] = t
           /\ \A i \in 1 .. Len(s) : i # k => r[i] = s[i]
OBVIOUS

LEMMA PollStarts == PollInit => PollInv
<1> SUFFICES ASSUME PollInit PROVE PollInv
  OBVIOUS
<1>1. Indexed = {}
  BY DEF PollInit, Indexed
<1>2. pollfds = <<>> /\ Len(pollfds) = 0 /\ pollfds \in Seq(Pollfd)
  BY DEF PollInit
<1>3. IsFiniteSet(Indexed) /\ Cardinality(Indexed) = 0
  BY <1>1, FS_EmptySet
<1> QED
  BY <1>1, <1>2, <1>3 DEF PollInit, PollInv, NewChannel

LEMMA PollfdTyped ==
    PollInv => \A i \in 1 .. Len(pollfds) :
                  /\ pollfds[i] \in Pollfd /\ pollfds[i].fd \in Channel
                  /\ pollIndex[pollfds[i].fd] = i
<1> SUFFICES ASSUME PollInv, NEW i \in 1 .. Len(pollfds)
             PROVE  /\ pollfds[i] \in Pollfd /\ pollfds[i].fd \in Channel
                    /\ pollIndex[pollfds[i].fd] = i
  OBVIOUS
<1>1. pollfds[i] \in Pollfd
  BY DEF PollInv
<1> QED
  BY <1>1 DEF PollInv, Pollfd

LEMMA PollUpdates ==
    ASSUME PollInv, NEW c \in Channel, NEW ev \in SUBSET Event, PollUpdate(c, ev)
    PROVE  /\ PollInv'
           /\ Indexed' = Indexed \cup {c}
           /\ Entry(c)' = IF c \in Indexed THEN PollFd(c, ev)
                          ELSE [PollFd(c, ev) EXCEPT !.ignored = FALSE]
           /\ \A d \in Indexed \ {c} : Entry(d)' = Entry(d)
<1> USE DEF PollInv
<1>1. /\ pollEvents' \in [Channel -> SUBSET Event] /\ pollEvents'[c] = ev
      /\ \A d \in Channel : d # c => pollEvents'[d] = pollEvents[d]
  BY DEF PollUpdate
<1>2. ASSUME NEW f \in Pollfd, f.fd = c, f.events = ev, f.ignored => ev = {},
             pollIndex[c] = NewChannel, pollfds' = Append(pollfds, f),
             pollIndex' = [pollIndex EXCEPT ![c] = Len(pollfds) + 1]
      PROVE  /\ PollInv'
             /\ Indexed' = Indexed \cup {c} /\ c \notin Indexed /\ Entry(c)' = f
             /\ \A d \in Indexed \ {c} : Entry(d)' = Entry(d)
  <2> DEFINE n == Len(pollfds)
  <2>1. /\ pollfds' \in Seq(Pollfd) /\ Len(pollfds') = n + 1 /\ n \in Nat
        /\ pollfds'[n + 1] = f /\ \A i \in 1 .. n : pollfds'[i] = pollfds[i]
    BY <1>2, Extended
  <2>2. /\ pollIndex' \in [Channel -> Nat] /\ pollIndex'[c] = n + 1 /\ n + 1 # 0
        /\ \A d \in Channel : d # c => pollIndex'[d] = pollIndex[d]
    BY <1>2, <2>1
  <2>3. Indexed' = Indexed \cup {c} /\ c \notin Indexed
    BY <1>2, <2>2 DEF Indexed, NewChannel
  <2>4. IsFiniteSet(Indexed') /\ Cardinality(Indexed') = n + 1
    BY <2>3, FS_AddElement
  <2>5. ASSUME NEW d \in Indexed'
        PROVE  /\ pollIndex'[d] \in 1 .. n + 1
               /\ pollfds'[pollIndex'[d]].fd = d /\ pollfds'[pollIndex'[d]].events = pollEvents'[d]
               /\ pollfds'[pollIndex'[d]].ignored => pollEvents'[d] = {}
    <3>1. CASE d = c
      BY <1>1, <1>2, <2>1, <2>2, <3>1
    <3>2. CASE d # c
      <4>1. d \in Indexed /\ d \in Channel /\ pollIndex[d] \in 1 .. n
        BY <2>3, <3>2 DEF Indexed
      <4>2. pollIndex'[d] = pollIndex[d] /\ pollIndex[d] \in 1 .. n + 1
            /\ pollfds'[pollIndex[d]] = pollfds[pollIndex[d]]
        BY <2>1, <2>2, <3>2, <4>1
      <4> QED
        BY <1>1, <3>2, <4>1, <4>2
    <3> QED
      BY <3>1, <3>2
  <2>6. ASSUME NEW i \in 1 .. n + 1 PROVE pollIndex'[pollfds'[i].fd] = i
    <3>1. CASE i = n + 1
      BY <1>2, <2>1, <2>2, <3>1
    <3>2. CASE i # n + 1
      <4>1. i \in 1 .. n /\ i # 0
        BY <2>1, <3>2
      <4>2. pollfds[i].fd \in Channel /\ pollIndex[pollfds[i].fd] = i /\ pollfds'[i] = pollfds[i]
        BY <2>1, <4>1, PollfdTyped
      <4>3. pollfds[i].fd # c
        BY <1>2, <4>1, <4>2 DEF NewChannel
      <4> QED
        BY <2>2, <4>2, <4>3
    <3> QED
      BY <3>1, <3>2
  <2>7. \A d \in Channel \ Indexed' : pollEvents'[d] = {}
    BY <1>1, <2>3
  <2>8. PollInv'
    BY <1>1, <2>1, <2>2, <2>4, <2>5, <2>6, <2>7
  <2>9. Entry(c)' = f
    BY <2>1, <2>2 DEF Entry
  <2>10. ASSUME NEW d \in Indexed \ {c} PROVE Entry(d)' = Entry(d)
    <3>1. pollIndex[d] \in 1 .. n /\ pollIndex'[d] = pollIndex[d]
      BY <2>2 DEF Indexed
    <3> QED
      BY <2>1, <3>1 DEF Entry
  <2> QED
    BY <2>3, <2>8, <2>9, <2>10
<1>3. ASSUME NEW f \in Pollfd, f.fd = c, f.events = ev, f.ignored => ev = {},
             pollIndex[c] # NewChannel, pollfds' = [pollfds EXCEPT ![pollIndex[c]] = f],
             pollIndex' = pollIndex
      PROVE  /\ PollInv'
             /\ Indexed' = Indexed \cup {c} /\ c \in Indexed /\ Entry(c)' = f
             /\ \A d \in Indexed \ {c} : Entry(d)' = Entry(d)
  <2> DEFINE n == Len(pollfds)  k == pollIndex[c]
  <2>1. Indexed' = Indexed /\ c \in Indexed /\ k \in 1 .. n
    BY <1>3 DEF Indexed
  <2>2. /\ pollfds' \in Seq(Pollfd) /\ Len(pollfds') = n /\ pollfds'[k] = f
        /\ \A i \in 1 .. n : i # k => pollfds'[i] = pollfds[i]
    BY <1>3, <2>1, Replaced
  <2>3. pollfds[k].fd = c
    BY <2>1
  <2>4. ASSUME NEW d \in Indexed
        PROVE  /\ pollfds'[pollIndex[d]].fd = d /\ pollfds'[pollIndex[d]].events = pollEvents'[d]
               /\ pollfds'[pollIndex[d]].ignored => pollEvents'[d] = {}
    <3>1. d \in Channel /\ pollIndex[d] \in 1 .. n /\ pollfds[pollIndex[d]].fd = d
      BY DEF Indexed
    <3>2. CASE d = c
      BY <1>1, <1>3, <2>2, <3>2
    <3>3. CASE d # c
      BY <1>1, <2>2, <2>3, <3>1, <3>3
    <3> QED
      BY <3>2, <3>3
  <2>5. \A i \in 1 .. n : pollfds'[i].fd = pollfds[i].fd
    BY <1>3, <2>2, <2>3
  <2>6. \A d \in Channel \ Indexed' : pollEvents'[d] = {}
    BY <1>1, <2>1
  <2>7. PollInv'
    BY <1>1, <1>3, <2>1, <2>2, <2>4, <2>5, <2>6
  <2>8. Entry(c)' = f
    BY <1>3, <2>2 DEF Entry
  <2>9. ASSUME NEW d \in Indexed \ {c} PROVE Entry(d)' = Entry(d)
    <3>1. pollIndex[d] \in 1 .. n /\ pollfds[pollIndex[d]].fd = d /\ pollIndex[d] # k
      BY <2>3
    <3> QED
      BY <1>3, <2>2, <3>1 DEF Entry
  <2> QED
    BY <2>1, <2>7, <2>8, <2>9
<1>4. PollFd(c, ev) \in Pollfd /\ [PollFd(c, ev) EXCEPT !.ignored = FALSE] \in Pollfd
  BY DEF PollFd, Pollfd
<1>5. /\ PollFd(c, ev).fd = c /\ PollFd(c, ev).events = ev
      /\ PollFd(c, ev).ignored => ev = {}
      /\ [PollFd(c, ev) EXCEPT !.ignored = FALSE].fd = c
      /\ [PollFd(c, ev) EXCEPT !.ignored = FALSE].events = ev
      /\ ~ [PollFd(c, ev) EXCEPT !.ignored = FALSE].ignored
  BY DEF PollFd
<1>6. CASE pollIndex[c] = NewChannel
  <2>1. /\ pollfds' = Append(pollfds, [PollFd(c, ev) EXCEPT !.ignored = FALSE])
        /\ pollIndex' = [pollIndex EXCEPT ![c] = Len(pollfds) + 1]
    BY <1>6 DEF PollUpdate
  <2> QED
    BY <1>2, <1>4, <1>5, <1>6, <2>1
<1>7. CASE pollIndex[c] # NewChannel
  <2>1. /\ pollfds' = [pollfds EXCEPT ![pollIndex[c]] = PollFd(c, ev)]
        /\ pollIndex' = pollIndex
    BY <1>7 DEF PollUpdate
  <2> QED
    BY <1>3, <1>4, <1>5, <1>7, <2>1
<1> QED
  BY <1>6, <1>7

LEMMA PollRemoves ==
    ASSUME PollInv, NEW c \in Channel, PollRemove(c)
    PROVE  /\ PollInv'
           /\ Indexed' = Indexed \ {c}
           /\ \A d \in Indexed' : Entry(d)' = Entry(d)
<1> USE DEF PollInv
<1> DEFINE n == Len(pollfds)  k == pollIndex[c]  z == Last(pollfds)
<1>1. /\ k # NewChannel /\ pollEvents[c] = {} /\ pollEvents' = pollEvents
      /\ pollfds' = Shorter(pollfds, k)
      /\ pollIndex' = [[pollIndex EXCEPT ![z.fd] = k] EXCEPT ![c] = NewChannel]
  BY DEF PollRemove, MoveIndex, Shorter
<1>2. c \in Indexed /\ k \in 1 .. n /\ n \in Nat /\ n \in 1 .. n
  BY <1>1 DEF Indexed
<1>3. z = pollfds[n] /\ z \in Pollfd
  BY <1>1, <1>2, Shortened
<1>4. /\ pollfds' \in Seq(Pollfd) /\ Len(pollfds') = n - 1
      /\ \A i \in 1 .. n - 1 : pollfds'[i] = IF i = k THEN z ELSE pollfds[i]
  <2>1. /\ pollfds \in Seq(Pollfd) /\ k \in 1 .. Len(pollfds) /\ pollfds' = Shorter(pollfds, k)
    BY <1>1, <1>2
  <2>2. Len(pollfds') = Len(pollfds) - 1
    BY <2>1, Shortened
  <2>3. \A i \in 1 .. Len(pollfds') : pollfds'[i] = IF i = k THEN Last(pollfds) ELSE pollfds[i]
    BY <2>1, Shortened
  <2>4. pollfds' \in Seq(Pollfd)
    BY <2>1, Shortened
  <2> QED
    BY <2>2, <2>3, <2>4
<1>5. z.fd \in Channel /\ pollIndex[z.fd] = n /\ (z.fd = c <=> k = n)
  <2>1. z.fd \in Channel /\ pollIndex[z.fd] = n
    BY <1>2, <1>3, PollfdTyped
  <2>2. pollfds[k].fd = c
    BY <1>2
  <2> QED
    BY <1>3, <2>1, <2>2
<1>6. /\ pollIndex' \in [Channel -> Nat] /\ pollIndex'[c] = 0
      /\ \A d \in Channel : d # c => pollIndex'[d] = IF d = z.fd THEN k ELSE pollIndex[d]
  <2>1. ASSUME NEW ix \in [Channel -> Nat], NEW f \in Channel, NEW m \in Nat,
               NEW r, r = [[ix EXCEPT ![f] = m] EXCEPT ![c] = 0]
        PROVE  /\ r \in [Channel -> Nat] /\ r[c] = 0
               /\ \A d \in Channel : d # c => r[d] = IF d = f THEN m ELSE ix[d]
    BY <2>1
  <2>2. k \in Nat /\ pollIndex \in [Channel -> Nat]
    BY <1>2
  <2>3. pollIndex' = [[pollIndex EXCEPT ![z.fd] = k] EXCEPT ![c] = 0]
    BY <1>1 DEF NewChannel
  <2> HIDE DEF k, z
  <2> QED
    BY <1>5, <2>1, <2>2, <2>3
<1>7. Indexed' = Indexed \ {c}
  BY <1>2, <1>5, <1>6 DEF Indexed, NewChannel
<1>8. IsFiniteSet(Indexed') /\ Cardinality(Indexed') = n - 1
  BY <1>2, <1>7, FS_RemoveElement
<1>9. ASSUME NEW d \in Indexed'
      PROVE  /\ pollIndex'[d] \in 1 .. n - 1
             /\ pollfds'[pollIndex'[d]].fd = d /\ pollfds'[pollIndex'[d]].events = pollEvents[d]
             /\ pollfds'[pollIndex'[d]].ignored => pollEvents[d] = {}
             /\ pollfds'[pollIndex'[d]] = pollfds[pollIndex[d]]
  <2>1. /\ d \in Channel /\ d # c /\ pollIndex[d] \in 1 .. n
        /\ pollfds[pollIndex[d]].fd = d /\ pollfds[pollIndex[d]].events = pollEvents[d]
        /\ pollfds[pollIndex[d]].ignored => pollEvents[d] = {}
    BY <1>7 DEF Indexed
  <2>2. CASE d = z.fd
    <3>1. pollIndex'[d] = k /\ k # n /\ pollIndex[d] = n
      BY <1>5, <1>6, <2>1, <2>2
    <3>2. k \in 1 .. n - 1
      BY <1>2, <3>1
    <3>3. pollfds'[k] = pollfds[n]
      BY <1>3, <1>4, <3>2
    <3> QED
      BY <2>1, <3>1, <3>2, <3>3
  <2>3. CASE d # z.fd
    <3>1. pollIndex'[d] = pollIndex[d] /\ pollIndex[d] # n /\ pollIndex[d] # k
      BY <1>2, <1>3, <1>6, <2>1, <2>3
    <3>2. pollIndex[d] \in 1 .. n - 1
      BY <1>2, <2>1, <3>1
    <3>3. pollfds'[pollIndex[d]] = pollfds[pollIndex[d]]
      BY <1>4, <3>1, <3>2
    <3> QED
      BY <2>1, <3>1, <3>2, <3>3
  <2> QED
    BY <2>2, <2>3
<1>10. ASSUME NEW i \in 1 .. n - 1 PROVE pollIndex'[pollfds'[i].fd] = i
  <2>1. i \in 1 .. n /\ i # n
    BY <1>2
  <2>2. CASE i = k
    <3>1. pollfds'[i].fd = z.fd /\ z.fd # c
      BY <1>4, <1>5, <2>1, <2>2
    <3> QED
      BY <1>5, <1>6, <2>2, <3>1
  <2>3. CASE i # k
    <3>1. pollfds'[i] = pollfds[i] /\ pollfds[i].fd \in Channel /\ pollIndex[pollfds[i].fd] = i
      BY <1>4, <2>1, <2>3, PollfdTyped
    <3>2. pollfds[i].fd # c /\ pollfds[i].fd # z.fd
      BY <1>5, <2>1, <2>3, <3>1
    <3> QED
      BY <1>6, <3>1, <3>2
  <2> QED
    BY <2>2, <2>3
<1>11. \A d \in Channel \ Indexed' : pollEvents'[d] = {}
  BY <1>1, <1>7
<1>12. pollEvents' \in [Channel -> SUBSET Event]
  BY <1>1
<1>13. PollInv'
  <2>1. Len(pollfds') = n - 1 /\ pollEvents' = pollEvents
    BY <1>1, <1>4
  <2>2. /\ \A d \in Indexed' :
              /\ pollIndex'[d] \in 1 .. Len(pollfds')
              /\ pollfds'[pollIndex'[d]].fd = d /\ pollfds'[pollIndex'[d]].events = pollEvents'[d]
              /\ pollfds'[pollIndex'[d]].ignored => pollEvents'[d] = {}
        /\ \A i \in 1 .. Len(pollfds') : pollIndex'[pollfds'[i].fd] = i
    BY <1>9, <1>10, <2>1
  <2>3. pollfds' \in Seq(Pollfd) /\ Cardinality(Indexed') = Len(pollfds')
    BY <1>4, <1>8
  <2> QED
    BY <1>6, <1>8, <1>11, <1>12, <2>2, <2>3
<1>14. \A d \in Indexed' : Entry(d)' = Entry(d)
  BY <1>9 DEF Entry
<1> QED
  BY <1>7, <1>13, <1>14

LEMMA PollRests == PollInv /\ UNCHANGED <<pollEvents, pollIndex, pollfds>> => PollInv'
BY DEF PollInv, Indexed

LEMMA PollSteps == PollInv /\ PollNext => PollInv'
BY PollUpdates, PollRemoves, PollRests DEF PollNext, PollPoll

LEMMA PollHolds == PollInv => PollTypeOK
<1> SUFFICES ASSUME PollInv PROVE PollTypeOK
  OBVIOUS
<1>1. DOMAIN pollfds = 1 .. Len(pollfds)
  BY DEF PollInv
<1> QED
  BY <1>1 DEF PollInv, PollTypeOK, Indexed

\* What poll is asked about, and what it watches for nothing, by channel.
LEMMA PollWatches ==
    PollInv =>
           /\ [c \in Channel |-> UNION {pollfds[i].events :
                                   i \in {j \in Listened : pollfds[j].fd = c}}] = pollEvents
           /\ {pollfds[i].fd : i \in {j \in Listened : pollfds[j].events = {}}}
              = {c \in Indexed : ~ Entry(c).ignored /\ pollEvents[c] = {}}
           /\ {pollfds[i].fd : i \in Listened} = {c \in Indexed : ~ Entry(c).ignored}
<1> SUFFICES ASSUME PollInv
             PROVE  /\ [c \in Channel |-> UNION {pollfds[i].events :
                                       i \in {j \in Listened : pollfds[j].fd = c}}] = pollEvents
                    /\ {pollfds[i].fd : i \in {j \in Listened : pollfds[j].events = {}}}
                       = {c \in Indexed : ~ Entry(c).ignored /\ pollEvents[c] = {}}
                    /\ {pollfds[i].fd : i \in Listened} = {c \in Indexed : ~ Entry(c).ignored}
  OBVIOUS
<1> USE DEF PollInv
<1>1. DOMAIN pollfds = 1 .. Len(pollfds)
  OBVIOUS
<1>2. ASSUME NEW i \in DOMAIN pollfds
      PROVE  /\ pollfds[i].fd \in Indexed /\ pollIndex[pollfds[i].fd] = i
             /\ pollfds[i].events = pollEvents[pollfds[i].fd]
  <2>1. pollfds[i].fd \in Channel /\ pollIndex[pollfds[i].fd] = i /\ i # NewChannel
    BY <1>1, PollfdTyped DEF NewChannel
  <2> QED
    BY <2>1 DEF Indexed
<1>3. ASSUME NEW c \in Indexed
      PROVE  /\ c \in Channel /\ pollIndex[c] \in DOMAIN pollfds /\ Entry(c).fd = c
             /\ Entry(c).events = pollEvents[c]
             /\ Entry(c).ignored => pollEvents[c] = {}
  BY <1>1 DEF Entry, Indexed
<1>4. ASSUME NEW c \in Channel
      PROVE  UNION {pollfds[i].events : i \in {j \in Listened : pollfds[j].fd = c}} = pollEvents[c]
  <2>1. CASE c \in Indexed /\ ~ Entry(c).ignored
    <3>1. {j \in Listened : pollfds[j].fd = c} = {pollIndex[c]}
      BY <1>2, <1>3, <2>1 DEF Listened, Entry
    <3> QED
      BY <1>3, <2>1, <3>1 DEF Entry
  <2>2. CASE c \in Indexed /\ Entry(c).ignored
    <3>1. {j \in Listened : pollfds[j].fd = c} = {}
      BY <1>2, <2>2 DEF Listened, Entry
    <3> QED
      BY <1>3, <2>2, <3>1
  <2>3. CASE c \notin Indexed
    <3>1. {j \in Listened : pollfds[j].fd = c} = {}
      BY <1>2, <2>3 DEF Listened
    <3> QED
      BY <2>3, <3>1
  <2> QED
    BY <2>1, <2>2, <2>3
<1>5. {pollfds[i].fd : i \in {j \in Listened : pollfds[j].events = {}}}
      = {c \in Indexed : ~ Entry(c).ignored /\ pollEvents[c] = {}}
  BY <1>2, <1>3 DEF Listened, Entry
<1>6. {pollfds[i].fd : i \in Listened} = {c \in Indexed : ~ Entry(c).ignored}
  BY <1>2, <1>3 DEF Listened, Entry
<1> QED
  BY <1>4, <1>5, <1>6

LEMMA PollInterestStarts == PollInit => PollInterest!InterestInit
<1> SUFFICES ASSUME PollInit PROVE PollInterest!InterestInit
  OBVIOUS
<1>1. PollInv /\ Indexed = {} /\ pollEvents = [c \in Channel |-> {}]
  BY PollStarts DEF PollInit, Indexed
<1>2. /\ [c \in Channel |-> UNION {pollfds[i].events :
                              i \in {j \in Listened : pollfds[j].fd = c}}] = pollEvents
      /\ {pollfds[i].fd : i \in {j \in Listened : pollfds[j].events = {}}} = {}
  BY <1>1, PollWatches
<1> QED
  BY <1>1, <1>2 DEF PollInterest!InterestInit, PollInit

LEMMA PollInterestSteps ==
    ASSUME PollInv, PollInv', PollNext
    PROVE  PollInterest!InterestNext
<1> DEFINE watched == [c \in Channel |-> UNION {pollfds[i].events :
                                          i \in {j \in Listened : pollfds[j].fd = c}}]
           idle == {pollfds[i].fd : i \in {j \in Listened : pollfds[j].events = {}}}
           idling == {c \in Indexed : ~ Entry(c).ignored /\ pollEvents[c] = {}}
<1>1. watched = pollEvents /\ idle = idling
  BY PollWatches
<1>2. (watched = pollEvents /\ idle = idling)'
  BY PollWatches, PTL
<1> HIDE DEF watched, idle
<1>3. pollEvents \in [Channel -> SUBSET Event]
  BY DEF PollInv
<1>4. ASSUME NEW c \in Channel, NEW ev \in SUBSET Event, PollUpdate(c, ev)
      PROVE  PollInterest!Ask(c, ev) \/ PollInterest!AskNothingAgain(c)
  <2>1. /\ pollEvents' = [pollEvents EXCEPT ![c] = ev] /\ pollActive' = pollActive
        /\ pollEvents'[c] = ev /\ \A d \in Channel : d # c => pollEvents'[d] = pollEvents[d]
    BY <1>3, <1>4 DEF PollUpdate
  <2>2. /\ Indexed' = Indexed \cup {c}
        /\ Entry(c)' = IF c \in Indexed THEN PollFd(c, ev)
                       ELSE [PollFd(c, ev) EXCEPT !.ignored = FALSE]
        /\ \A d \in Indexed \ {c} : Entry(d)' = Entry(d)
    BY <1>4, PollUpdates
  <2>3. Indexed \subseteq Channel
    BY DEF Indexed
  <2>4. CASE c \in Indexed \/ ev # {}
    <3>1. Entry(c)'.ignored \/ pollEvents'[c] # {}
      <4>1. ASSUME ev = {} PROVE Entry(c)'.ignored
        <5>1. Entry(c)' = PollFd(c, ev)
          BY <2>2, <2>4, <4>1
        <5>2. PollFd(c, ev).ignored
          BY <4>1, Zenon DEF PollFd
        <5> QED
          BY <5>1, <5>2, Zenon
      <4> QED
        BY <2>1, <4>1
    <3>2. idling' = idling \ {c}
      BY <2>1, <2>2, <2>3, <2>4, <3>1 DEF PollFd
    <3> QED
      BY <1>1, <1>2, <2>1, <3>2 DEF PollInterest!Ask, watched, idle
  <2>5. CASE c \notin Indexed /\ ev = {}
    <3>1. pollEvents[c] = {}
      BY <2>5 DEF PollInv
    <3>2. pollEvents' = pollEvents
      BY <1>3, <2>1, <2>5, <3>1
    <3>3. idling' = idling \cup {c}
      BY <2>1, <2>2, <2>3, <2>5 DEF PollFd
    <3> QED
      BY <1>1, <1>2, <2>1, <3>1, <3>2, <3>3 DEF PollInterest!AskNothingAgain, watched, idle
  <2> QED
    BY <2>4, <2>5
<1>5. ASSUME NEW c \in Channel, PollRemove(c)
      PROVE  PollInterest!Forget(c)
  <2>1. /\ pollEvents' = pollEvents /\ pollEvents[c] = {}
        /\ pollActive' = pollActive \ {c}
    BY <1>5 DEF PollRemove
  <2>2. Indexed' = Indexed \ {c} /\ \A d \in Indexed' : Entry(d)' = Entry(d)
    BY <1>5, PollRemoves
  <2>3. idling' = idling \ {c}
    BY <2>1, <2>2
  <2> QED
    BY <1>1, <1>2, <2>1, <2>3 DEF PollInterest!Forget, watched, idle
<1>6. ASSUME NEW ready \in SUBSET Channel, PollPoll(ready)
      PROVE  PollInterest!Give(ready)
  <2>1. /\ pollActive' = ready /\ UNCHANGED <<pollEvents, pollIndex, pollfds>>
        /\ ready \subseteq {pollfds[i].fd : i \in Listened}
    BY <1>6 DEF PollPoll, Listened
  <2>2. ready \subseteq {c \in Indexed : ~ Entry(c).ignored}
    BY <2>1, PollWatches
  <2>3. \A c \in ready : pollEvents[c] # {} \/ c \in idling
    BY <2>2
  <2>4. idling' = idling
    BY <2>1 DEF Indexed, Entry
  <2> QED
    BY <1>1, <1>2, <2>1, <2>3, <2>4 DEF PollInterest!Give, watched, idle
<1> QED
  BY <1>4, <1>5, <1>6 DEF PollNext, PollInterest!InterestNext

-----------------------------------------------------------------------------
(* The timers.                                                              *)

\* The objects: no two have the same sequence number, and TimerIds are of them.
HeapInv ==
    /\ heap \in [Addr -> Timer \cup {NoTimer}] /\ created \in Nat
    /\ \A a \in Addr : heap[a] # NoTimer => heap[a].seq \in 1 .. created
    /\ \A a, b \in Addr : heap[a] # NoTimer /\ heap[b] # NoTimer /\ heap[a].seq = heap[b].seq
                          => a = b
    /\ ids \subseteq Addr \X (1 .. created)

\* timers_ and activeTimers_ hold the same objects.
SetsInv ==
    /\ timers \subseteq Addr /\ IsFiniteSet(timers)
    /\ \A a \in timers : heap[a] # NoTimer
    /\ activeTimers = {<<a, heap[a].seq>> : a \in timers}

\* The timers that are being run are objects, but wait no more.
BatchInv ==
    /\ phase \in {"poll", "events", "calling", "functors"} /\ reported \in BOOLEAN
    /\ batch \in Seq(Addr) /\ next \in 1 .. Len(batch) + 1
    /\ phase # "calling" => batch = <<>> /\ next = 1
    /\ IsFiniteSet(ToSet(batch)) /\ \A a \in ToSet(batch) : heap[a] # NoTimer /\ a \notin timers

\* A timer that is still to be added is an object that nobody else holds.
Added(o) ==
    o.op = "add" =>
        /\ heap[o.id[1]] # NoTimer /\ heap[o.id[1]].seq = o.id[2]
        /\ o.id[1] \notin timers /\ o.id[1] \notin ToSet(batch)
        /\ o.id[2] \notin cancelled

TimerTask == [op : {"add", "cancel"}, id : Addr \X Nat]
TasksInv ==
    /\ tasks \in Seq(TimerTask) /\ round \in 0 .. Len(tasks)
    /\ \A i \in 1 .. Len(tasks) : Added(tasks[i])
    /\ \A i, j \in 1 .. Len(tasks) :
          tasks[i].op = "add" /\ tasks[j].op = "add" /\ tasks[i].id[1] = tasks[j].id[1] => i = j

\* A timer that cancelInLoop knew waits no more, and one that is being run is
\* remembered in cancelingTimers_.
CancelInv ==
    /\ cancelled \subseteq 1 .. created
    /\ \A a \in timers : heap[a].seq \notin cancelled
    /\ phase = "calling" =>
          \A a \in ToSet(batch) : heap[a].seq \in cancelled <=> <<a, heap[a].seq>> \in canceling

ArmedInv == armed \in Nat \cup {NoTimer} /\ clockStep \in {-1, 0, 1} /\ ArmedInTime

TimerInv == HeapInv /\ SetsInv /\ BatchInv /\ TasksInv /\ CancelInv /\ ArmedInv

LEMMA AtLeast0Int == \A n \in Int : AtLeast0(n) \in Nat /\ AtLeast0(n) >= n
                                    /\ (n <= 0 => AtLeast0(n) = 0) /\ (n > 0 => AtLeast0(n) = n)
BY DEF AtLeast0

LEMMA TimerStarts == TimerInit => TimerInv
<1> SUFFICES ASSUME TimerInit PROVE TimerInv
  OBVIOUS
<1>1. HeapInv
  BY DEF TimerInit, HeapInv
<1>2. SetsInv
  BY FS_EmptySet DEF TimerInit, SetsInv
<1>3. BatchInv
  <2>1. batch = <<>> /\ Len(batch) = 0 /\ batch \in Seq(Addr) /\ ToSet(batch) = {}
    BY DEF TimerInit, ToSet
  <2>2. next = 1 /\ 1 \in 1 .. Len(batch) + 1
    BY <2>1 DEF TimerInit
  <2> QED
    BY <2>1, <2>2, FS_EmptySet DEF TimerInit, BatchInv
<1>4. TasksInv
  <2>1. tasks = <<>> /\ Len(tasks) = 0 /\ round = 0 /\ tasks \in Seq(TimerTask)
    BY DEF TimerInit
  <2> QED
    BY <2>1 DEF TasksInv
<1>5. CancelInv
  BY DEF TimerInit, CancelInv
<1>6. ArmedInv
  BY DEF TimerInit, ArmedInv, ArmedInTime
<1> QED
  BY <1>1, <1>2, <1>3, <1>4, <1>5, <1>6 DEF TimerInv

\* What is given with a TimerId that is found.
LEMMA ActiveTimer ==
    ASSUME TimerInv, NEW id \in activeTimers
    PROVE  /\ id \in Addr \X Nat /\ id = <<id[1], id[2]>>
           /\ id[1] \in timers /\ heap[id[1]] # NoTimer /\ heap[id[1]] \in Timer
           /\ heap[id[1]].seq = id[2]
<1>1. PICK a \in timers : id = <<a, heap[a].seq>>
  BY DEF TimerInv, SetsInv
<1>2. a \in Addr /\ heap[a] # NoTimer /\ heap[a] \in Timer /\ heap[a].seq \in Nat
  BY <1>1 DEF TimerInv, SetsInv, HeapInv, Timer
<1> QED
  BY <1>1, <1>2

LEMMA TaskTyped ==
    TimerInv => \A i \in 1 .. Len(tasks) :
                   /\ tasks[i] \in TimerTask /\ tasks[i].id \in Addr \X Nat /\ tasks[i].id[1] \in Addr
                   /\ Added(tasks[i])
<1> SUFFICES ASSUME TimerInv, NEW i \in 1 .. Len(tasks)
             PROVE  /\ tasks[i] \in TimerTask /\ tasks[i].id \in Addr \X Nat
                    /\ tasks[i].id[1] \in Addr /\ Added(tasks[i])
  OBVIOUS
<1>1. tasks \in Seq(TimerTask) /\ Added(tasks[i])
  BY DEF TimerInv, TasksInv
<1>2. tasks[i] \in TimerTask
  BY <1>1
<1> QED
  BY <1>1, <1>2 DEF TimerTask

\* What is queued is added as before while nobody else takes it.
LEMMA TasksKept ==
    ASSUME TimerInv, UNCHANGED <<tasks, round>>,
           \A o \in TimerTask : Added(o) /\ (o.op = "add" => \E i \in 1 .. Len(tasks) : tasks[i] = o)
                              => Added(o)'
    PROVE  TasksInv'
<1>1. ASSUME NEW i \in 1 .. Len(tasks) PROVE Added(tasks[i])'
  <2>1. PICK o : o = tasks[i]
    OBVIOUS
  <2>2. o \in TimerTask /\ Added(o)
    BY <2>1, TaskTyped
  <2>3. Added(o)'
    BY <2>1, <2>2
  <2> QED
    BY <2>1, <2>3 DEF Added
<1> QED
  BY <1>1 DEF TimerInv, TasksInv

\* new Timer.
LEMMA Creates ==
    ASSUME TimerInv, NEW a \in Addr, NEW delay \in Delays, NEW every \in {0, delay},
           Create(a, delay, every)
    PROVE  /\ HeapInv'
           /\ created \in Nat /\ created' = created + 1 /\ ids' = ids \cup {<<a, created + 1>>}
           /\ heap[a] = NoTimer /\ heap'[a] # NoTimer /\ heap'[a] \in Timer
           /\ heap'[a].seq = created + 1
           /\ \A b \in Addr : b # a => heap'[b] = heap[b]
           /\ a \notin timers /\ a \notin ToSet(batch)
           /\ \A i \in 1 .. Len(tasks) : tasks[i].op = "add" => tasks[i].id[1] # a
<1> DEFINE t == [seq |-> created + 1, due |-> delay, every |-> every]
<1>1. /\ heap[a] = NoTimer /\ heap' = [heap EXCEPT ![a] = t]
      /\ created' = created + 1 /\ ids' = ids \cup {<<a, created + 1>>}
  BY DEF Create
<1>2. /\ heap \in [Addr -> Timer \cup {NoTimer}] /\ created \in Nat
  BY DEF TimerInv, HeapInv
<1>3. t \in Timer /\ t # NoTimer /\ t.seq = created + 1
  BY <1>2, DelayAssumption DEF Timer
<1> HIDE DEF t
<1>4. /\ heap' \in [Addr -> Timer \cup {NoTimer}] /\ heap'[a] = t
      /\ \A b \in Addr : b # a => heap'[b] = heap[b]
  BY <1>1, <1>2, <1>3
<1>5. \A n \in 1 .. created : n \in 1 .. created + 1 /\ n # created + 1
  BY <1>2
<1>6. created + 1 \in 1 .. created + 1 /\ created + 1 \in Nat
  BY <1>2
<1>7. HeapInv'
  <2>1. \A b \in Addr : heap'[b] # NoTimer => heap'[b].seq \in 1 .. created + 1
    BY <1>3, <1>4, <1>5, <1>6 DEF TimerInv, HeapInv
  <2>2. \A b, c \in Addr : heap'[b] # NoTimer /\ heap'[c] # NoTimer /\ heap'[b].seq = heap'[c].seq
                           => b = c
    BY <1>3, <1>4, <1>5 DEF TimerInv, HeapInv
  <2>3. ids' \subseteq Addr \X (1 .. created + 1)
    BY <1>1, <1>5, <1>6 DEF TimerInv, HeapInv
  <2> QED
    BY <1>1, <1>4, <1>6, <2>1, <2>2, <2>3 DEF HeapInv
<1>8. a \notin timers /\ a \notin ToSet(batch)
  BY <1>1 DEF TimerInv, SetsInv, BatchInv
<1>9. \A i \in 1 .. Len(tasks) : tasks[i].op = "add" => tasks[i].id[1] # a
  BY <1>1 DEF TimerInv, TasksInv, Added
<1> QED
  BY <1>1, <1>2, <1>3, <1>4, <1>7, <1>8, <1>9

\* addTimerInLoop of an object that is not held yet.
LEMMA Inserts ==
    ASSUME TimerInv, HeapInv', NEW a \in Addr, AddTimerInLoop(heap', a),
           heap'[a] # NoTimer, a \notin timers, \A b \in Addr : b # a => heap'[b] = heap[b]
    PROVE  /\ SetsInv' /\ timers' = timers \cup {a} /\ armed' \in Nat \cup {NoTimer}
           /\ activeTimers' = activeTimers \cup {<<a, heap'[a].seq>>}
           /\ UNCHANGED <<phase, clockStep>> => ArmedInv'
<1>1. /\ timers' = timers \cup {a} /\ activeTimers' = activeTimers \cup {<<a, heap'[a].seq>>}
      /\ armed' = IF EarliestChanged(heap', a) THEN TimeFromNow(heap'[a].due) ELSE armed
  BY DEF AddTimerInLoop
<1>2. timers \subseteq Addr /\ a \notin timers /\ \A b \in timers : heap'[b] = heap[b]
  BY DEF TimerInv, SetsInv
<1>3. SetsInv'
  <2>1. IsFiniteSet(timers')
    BY <1>1, FS_AddElement DEF TimerInv, SetsInv
  <2> QED
    BY <1>1, <1>2, <2>1 DEF TimerInv, SetsInv
<1>4. \A b \in timers' : heap'[b] \in Timer /\ heap'[b].due \in Int
  BY <1>3 DEF HeapInv, SetsInv, Timer
<1>5. armed' \in Nat \cup {NoTimer}
  BY <1>1, <1>4, AtLeast0Int DEF TimerInv, ArmedInv, TimeFromNow
<1>6. ASSUME UNCHANGED <<phase, clockStep>>, phase # "calling"
      PROVE  /\ armed' # NoTimer
             /\ \A b \in timers' : armed' <= AtLeast0(heap'[b].due) + AtLeast0(clockStep)
  <2>1. AtLeast0(clockStep) \in Nat
    BY AtLeast0Int DEF TimerInv, ArmedInv
  <2>2. CASE EarliestChanged(heap', a)
    <3>1. armed' = AtLeast0(heap'[a].due) /\ armed' \in Nat /\ a \in timers'
      BY <1>1, <1>4, <2>2, AtLeast0Int DEF TimeFromNow
    <3>2. \A b \in timers : heap'[a].due < heap'[b].due
      BY <2>2 DEF EarliestChanged, Earlier
    <3>3. armed' # NoTimer
      BY <3>1, DelayAssumption
    <3>4. ASSUME NEW b \in timers' PROVE armed' <= AtLeast0(heap'[b].due) + AtLeast0(clockStep)
      <4>1. heap'[a].due <= heap'[b].due /\ heap'[a].due \in Int /\ heap'[b].due \in Int
        BY <1>1, <1>4, <3>1, <3>2
      <4> QED
        BY <2>1, <3>1, <4>1 DEF AtLeast0
    <3> QED
      BY <3>3, <3>4
  <2>3. CASE ~ EarliestChanged(heap', a)
    <3>1. PICK b \in timers : ~ (heap'[a].due < heap'[b].due)
      BY <2>3 DEF EarliestChanged, Earlier
    <3>2. /\ armed' = armed /\ armed # NoTimer
          /\ \A c \in timers : armed <= AtLeast0(heap[c].due) + AtLeast0(clockStep)
      BY <1>1, <1>6, <2>3, <3>1 DEF TimerInv, ArmedInv, ArmedInTime
    <3>3. armed \in Nat
      BY <3>2 DEF TimerInv, ArmedInv
    <3>4. armed <= AtLeast0(heap'[a].due) + AtLeast0(clockStep)
      <4>1. heap'[a].due \in Int /\ heap'[b].due \in Int /\ heap'[b] = heap[b]
        BY <1>1, <1>2, <1>4, <3>1
      <4>2. armed <= AtLeast0(heap'[b].due) + AtLeast0(clockStep)
        BY <3>2, <4>1
      <4> QED
        BY <2>1, <3>1, <3>3, <4>1, <4>2 DEF AtLeast0
    <3> QED
      BY <1>1, <1>2, <3>2, <3>4
  <2> QED
    BY <2>2, <2>3
<1>7. ASSUME UNCHANGED <<phase, clockStep>> PROVE ArmedInv'
  BY <1>5, <1>6, <1>7 DEF TimerInv, ArmedInv, ArmedInTime
<1> QED
  BY <1>1, <1>3, <1>5, <1>7

LEMMA AddsFromLoop ==
    ASSUME TimerInv, NEW a \in Addr, NEW delay \in Delays, NEW every \in {0, delay},
           AddFromLoop(a, delay, every)
    PROVE  TimerInv'
<1>1. /\ Create(a, delay, every) /\ AddTimerInLoop(heap', a)
      /\ UNCHANGED <<phase, reported, batch, next, canceling, tasks, round, cancelled, clockStep>>
  BY DEF AddFromLoop, batchVars
<1>2. /\ HeapInv'
      /\ created \in Nat /\ created' = created + 1
      /\ heap'[a] # NoTimer /\ heap'[a].seq = created + 1
      /\ \A b \in Addr : b # a => heap'[b] = heap[b]
      /\ a \notin timers /\ a \notin ToSet(batch)
      /\ \A i \in 1 .. Len(tasks) : tasks[i].op = "add" => tasks[i].id[1] # a
  BY <1>1, Creates
<1>3. /\ SetsInv' /\ timers' = timers \cup {a} /\ ArmedInv'
  BY <1>1, <1>2, Inserts
<1>4. \A b \in ToSet(batch) : b \in Addr /\ b # a
  BY <1>2 DEF TimerInv, BatchInv, ToSet
<1>5. BatchInv'
  BY <1>1, <1>2, <1>3, <1>4 DEF TimerInv, BatchInv
<1>6. TasksInv'
  <2>1. ASSUME NEW o \in TimerTask, Added(o),
               o.op = "add" => \E i \in 1 .. Len(tasks) : tasks[i] = o
        PROVE  Added(o)'
    <3>1. o.id[1] \in Addr /\ (o.op = "add" => o.id[1] # a)
      BY <1>2, <2>1 DEF TimerTask
    <3> QED
      BY <1>1, <1>2, <1>3, <2>1, <3>1 DEF Added
  <2> QED
    BY <1>1, <2>1, TasksKept
<1>7. CancelInv'
  <2>1. created + 1 \notin cancelled /\ cancelled \subseteq 1 .. created + 1
    BY <1>2 DEF TimerInv, CancelInv
  <2>2. timers \subseteq Addr
    BY DEF TimerInv, SetsInv
  <2> QED
    BY <1>1, <1>2, <1>3, <1>4, <2>1, <2>2 DEF TimerInv, CancelInv
<1> QED
  BY <1>2, <1>3, <1>5, <1>6, <1>7 DEF TimerInv

\* One more functor.
LEMMA TaskAppended ==
    ASSUME NEW T, NEW s \in Seq(T), NEW t \in T, NEW r, r = Append(s, t)
    PROVE  /\ r \in Seq(T) /\ Len(r) = Len(s) + 1 /\ Len(s) \in Nat
           /\ r[Len(s) + 1] = t
           /\ \A i \in 1 .. Len(s) : i \in 1 .. Len(r) /\ r[i] = s[i] /\ i # Len(s) + 1
           /\ \A i \in 1 .. Len(r) : i = Len(s) + 1 \/ i \in 1 .. Len(s)
OBVIOUS

LEMMA AddsFromElsewhere ==
    ASSUME TimerInv, NEW a \in Addr, NEW delay \in Delays, NEW every \in {0, delay},
           AddTimer(a, delay, every)
    PROVE  TimerInv'
<1>0. PICK o : o = [op |-> "add", id |-> <<a, created + 1>>]
  OBVIOUS
<1>1. /\ Create(a, delay, every) /\ tasks' = Append(tasks, o)
      /\ UNCHANGED <<timers, activeTimers, armed, phase, reported, batch, next, canceling,
                     round, cancelled, clockStep>>
  BY <1>0 DEF AddTimer, sets, batchVars
<1>2. /\ HeapInv'
      /\ created \in Nat /\ created' = created + 1
      /\ heap'[a] # NoTimer /\ heap'[a].seq = created + 1
      /\ \A b \in Addr : b # a => heap'[b] = heap[b]
      /\ a \notin timers /\ a \notin ToSet(batch)
      /\ \A i \in 1 .. Len(tasks) : tasks[i].op = "add" => tasks[i].id[1] # a
  BY <1>1, Creates
<1>3. \A b \in timers \cup ToSet(batch) : b \in Addr /\ b # a /\ heap'[b] = heap[b]
  BY <1>2 DEF TimerInv, SetsInv, BatchInv, ToSet
<1>4. SetsInv'
  BY <1>1, <1>3 DEF TimerInv, SetsInv
<1>5. BatchInv'
  BY <1>1, <1>3 DEF TimerInv, BatchInv
<1>6. created + 1 \notin cancelled /\ cancelled \subseteq 1 .. created + 1
  BY <1>2 DEF TimerInv, CancelInv
<1>7. TasksInv'
  <2> DEFINE n == Len(tasks)
  <2>1. o \in TimerTask /\ o.op = "add" /\ o.id[1] = a /\ o.id[2] = created + 1
    BY <1>0, <1>2 DEF TimerTask
  <2>2. /\ tasks' \in Seq(TimerTask) /\ Len(tasks') = n + 1 /\ n \in Nat /\ tasks'[n + 1] = o
        /\ \A i \in 1 .. n : tasks'[i] = tasks[i]
        /\ \A i \in 1 .. Len(tasks') : i = n + 1 \/ i \in 1 .. n
    BY <1>1, <2>1, TaskAppended DEF TimerInv, TasksInv
  <2>3. ASSUME NEW i \in 1 .. Len(tasks') PROVE Added(tasks[i])'
    <3>1. PICK p : p = tasks'[i]
      OBVIOUS
    <3>2. CASE i \in 1 .. n
      <4>1. p = tasks[i] /\ Added(p) /\ p.id[1] \in Addr /\ (p.op = "add" => p.id[1] # a)
        BY <1>2, <2>2, <3>1, <3>2, TaskTyped
      <4>2. Added(p)'
        BY <1>1, <1>2, <4>1 DEF Added
      <4> QED
        BY <3>1, <4>2 DEF Added
    <3>3. CASE i = n + 1
      <4>1. Added(o)'
        BY <1>1, <1>2, <1>6, <2>1 DEF Added
      <4> QED
        BY <2>2, <3>3, <4>1 DEF Added
    <3> QED
      BY <2>2, <3>2, <3>3
  <2>4. \A i, j \in 1 .. Len(tasks') :
           tasks'[i].op = "add" /\ tasks'[j].op = "add" /\ tasks'[i].id[1] = tasks'[j].id[1] => i = j
    BY <1>2, <2>1, <2>2 DEF TimerInv, TasksInv
  <2>5. round' \in 0 .. Len(tasks')
    BY <1>1, <2>2 DEF TimerInv, TasksInv
  <2> QED
    BY <2>2, <2>3, <2>4, <2>5 DEF TasksInv
<1>8. CancelInv'
  BY <1>1, <1>2, <1>3, <1>6 DEF TimerInv, CancelInv
<1>9. ArmedInv'
  BY <1>1, <1>3 DEF TimerInv, ArmedInv, ArmedInTime
<1> QED
  BY <1>2, <1>4, <1>5, <1>7, <1>8, <1>9 DEF TimerInv

\* cancelInLoop.
LEMMA Cancels ==
    ASSUME TimerInv, NEW id \in Addr \X Nat, CancelInLoop(id),
           UNCHANGED <<armed, phase, reported, batch, next, created, ids, clockStep>>
    PROVE  /\ HeapInv' /\ SetsInv' /\ BatchInv' /\ CancelInv' /\ ArmedInv'
           /\ timers' \subseteq timers
           /\ \A o \in TimerTask : Added(o) => Added(o)'
<1>1. /\ activeTimers' = activeTimers \ Find(id) /\ timers' = timers \ {x[1] : x \in Find(id)}
      /\ heap' = [a \in Addr |-> IF \E x \in Find(id) : x[1] = a THEN NoTimer ELSE heap[a]]
      /\ canceling' = IF Find(id) = {} /\ phase = "calling" THEN canceling \cup {id} ELSE canceling
      /\ cancelled' = IF Findable(id) THEN cancelled \cup {id[2]} ELSE cancelled
  BY DEF CancelInLoop
<1>2. heap \in [Addr -> Timer \cup {NoTimer}]
  BY DEF TimerInv, HeapInv
<1>3. timers \subseteq Addr /\ \A b \in ToSet(batch) : b \in Addr /\ b \notin timers /\ heap[b] # NoTimer
  BY DEF TimerInv, SetsInv, BatchInv, ToSet
<1>4. ASSUME NEW a \in Addr, NEW b \in Addr, heap[a] # NoTimer, heap[b] # NoTimer,
             heap[a].seq = heap[b].seq
      PROVE  a = b
  BY <1>4 DEF TimerInv, HeapInv
<1>5. \A o \in TimerTask : o.id[1] \in Addr
  BY DEF TimerTask
<1>6. CASE id \in activeTimers
  <2> DEFINE a == id[1]
  <2>1. Find(id) = {id} /\ Findable(id)
    BY <1>6 DEF Find, Findable
  <2>2. a \in timers /\ heap[a] # NoTimer /\ heap[a].seq = id[2] /\ id = <<a, id[2]>> /\ a \in Addr
    BY <1>3, <1>6, ActiveTimer
  <2>3. /\ activeTimers' = activeTimers \ {id} /\ timers' = timers \ {a}
        /\ heap'[a] = NoTimer /\ \A b \in Addr : b # a => heap'[b] = heap[b]
        /\ heap' \in [Addr -> Timer \cup {NoTimer}]
        /\ canceling' = canceling /\ cancelled' = cancelled \cup {id[2]}
    BY <1>1, <1>2, <2>1, <2>2
  <2>4. HeapInv'
    BY <1>4, <2>3 DEF TimerInv, HeapInv
  <2>5. SetsInv'
    <3>1. IsFiniteSet(timers')
      BY <2>3, FS_RemoveElement DEF TimerInv, SetsInv
    <3> QED
      BY <1>3, <2>2, <2>3, <3>1 DEF TimerInv, SetsInv
  <2>6. BatchInv'
    BY <1>3, <2>2, <2>3 DEF TimerInv, BatchInv
  <2>7. id[2] \in 1 .. created
    BY <2>2 DEF TimerInv, HeapInv
  <2>8. \A b \in Addr : b # a /\ heap[b] # NoTimer => heap[b].seq # id[2]
    BY <1>4, <2>2
  <2>9. CancelInv'
    <3>1. cancelled' \subseteq 1 .. created'
      BY <2>3, <2>7 DEF TimerInv, CancelInv
    <3>2. \A b \in timers' : heap'[b].seq \notin cancelled'
      BY <1>3, <2>3, <2>8 DEF TimerInv, CancelInv, SetsInv
    <3>3. ASSUME phase = "calling", NEW b \in ToSet(batch)
          PROVE  heap'[b].seq \in cancelled' <=> <<b, heap'[b].seq>> \in canceling'
      <4>1. b \in Addr /\ b # a /\ heap'[b] = heap[b] /\ heap[b].seq # id[2]
        BY <1>3, <2>2, <2>3, <2>8
      <4> QED
        BY <2>3, <3>3, <4>1 DEF TimerInv, CancelInv
    <3> QED
      BY <3>1, <3>2, <3>3 DEF CancelInv
  <2>10. ArmedInv'
    <3>1. \A b \in timers' : b \in timers /\ heap'[b] = heap[b]
      BY <1>3, <2>3
    <3> QED
      BY <3>1 DEF TimerInv, ArmedInv, ArmedInTime
  <2>11. ASSUME NEW o \in TimerTask, Added(o) PROVE Added(o)'
    <3>1. CASE o.op = "add"
      <4>1. /\ o.id[1] \in Addr /\ o.id[1] # a /\ heap[o.id[1]] # NoTimer
            /\ heap[o.id[1]].seq = o.id[2]
        BY <1>5, <2>2, <2>11, <3>1 DEF Added
      <4> QED
        BY <2>3, <2>8, <2>11, <4>1 DEF Added
    <3> QED
      BY <3>1 DEF Added
  <2> QED
    BY <2>3, <2>4, <2>5, <2>6, <2>9, <2>10, <2>11
<1>7. CASE id \notin activeTimers
  <2>1. Find(id) = {}
    BY <1>7 DEF Find
  <2>2. /\ activeTimers' = activeTimers /\ timers' = timers /\ heap' = heap
        /\ canceling' = IF phase = "calling" THEN canceling \cup {id} ELSE canceling
        /\ cancelled' = IF InBatch(id) THEN cancelled \cup {id[2]} ELSE cancelled
    BY <1>1, <1>2, <1>7, <2>1 DEF Findable
  <2>3. HeapInv' /\ SetsInv' /\ BatchInv' /\ ArmedInv'
    BY <2>2 DEF TimerInv, HeapInv, SetsInv, BatchInv, ArmedInv, ArmedInTime
  <2>4. ASSUME InBatch(id)
        PROVE  /\ id[1] \in ToSet(batch) /\ heap[id[1]] # NoTimer /\ heap[id[1]].seq = id[2]
               /\ id[1] \in Addr /\ id[2] \in 1 .. created
               /\ \A b \in Addr : heap[b] # NoTimer /\ heap[b].seq = id[2] => b = id[1]
    <3>1. id[1] \in ToSet(batch) /\ heap[id[1]] # NoTimer /\ heap[id[1]].seq = id[2] /\ id[1] \in Addr
      BY <2>4 DEF InBatch
    <3> QED
      BY <1>4, <3>1 DEF TimerInv, HeapInv
  <2>5. CancelInv'
    <3>1. cancelled' \subseteq 1 .. created'
      BY <2>2, <2>4 DEF TimerInv, CancelInv
    <3>2. \A b \in timers : heap[b].seq \notin cancelled'
      <4>1. \A b \in timers : b \in Addr /\ heap[b] # NoTimer /\ heap[b].seq \notin cancelled
                              /\ b \notin ToSet(batch)
        BY <1>3 DEF TimerInv, CancelInv, SetsInv
      <4> QED
        BY <2>2, <2>4, <4>1
    <3>3. ASSUME phase = "calling", NEW b \in ToSet(batch)
          PROVE  heap[b].seq \in cancelled' <=> <<b, heap[b].seq>> \in canceling'
      <4>1. b \in Addr /\ heap[b] # NoTimer
            /\ (heap[b].seq \in cancelled <=> <<b, heap[b].seq>> \in canceling)
        BY <1>3, <3>3 DEF TimerInv, CancelInv
      <4>2. InBatch(<<b, heap[b].seq>>)
        BY <4>1 DEF InBatch
      <4>3. CASE id = <<b, heap[b].seq>>
        BY <2>2, <3>3, <4>2, <4>3
      <4>4. CASE id # <<b, heap[b].seq>>
        <5>1. <<b, heap[b].seq>> \in canceling' <=> <<b, heap[b].seq>> \in canceling
          BY <2>2, <4>4
        <5>2. ASSUME InBatch(id) PROVE heap[b].seq # id[2]
          <6>1. id = <<id[1], id[2]>>
            OBVIOUS
          <6> QED
            BY <2>4, <4>1, <4>4, <5>2, <6>1
        <5> QED
          BY <2>2, <4>1, <5>1, <5>2
      <4> QED
        BY <4>3, <4>4
    <3> QED
      BY <2>2, <3>1, <3>2, <3>3 DEF CancelInv
  <2>6. ASSUME NEW o \in TimerTask, Added(o) PROVE Added(o)'
    <3>1. CASE o.op = "add"
      <4>1. /\ o.id[1] \in Addr /\ o.id[1] \notin ToSet(batch) /\ heap[o.id[1]] # NoTimer
            /\ heap[o.id[1]].seq = o.id[2]
        BY <1>5, <2>6, <3>1 DEF Added
      <4>2. InBatch(id) => o.id[2] # id[2]
        BY <2>4, <4>1
      <4> QED
        BY <2>2, <2>6, <4>1, <4>2 DEF Added
    <3> QED
      BY <3>1 DEF Added
  <2> QED
    BY <2>2, <2>3, <2>5, <2>6
<1> QED
  BY <1>6, <1>7

LEMMA CancelsFromLoop ==
    ASSUME TimerInv, NEW id \in ids, CancelFromLoop(id)
    PROVE  TimerInv'
<1>1. /\ CancelInLoop(id)
      /\ UNCHANGED <<armed, phase, reported, batch, next, tasks, round, created, ids, clockStep>>
  BY DEF CancelFromLoop
<1>2. id \in Addr \X Nat
  BY DEF TimerInv, HeapInv
<1>3. /\ HeapInv' /\ SetsInv' /\ BatchInv' /\ CancelInv' /\ ArmedInv'
      /\ \A o \in TimerTask : Added(o) => Added(o)'
  BY <1>1, <1>2, Cancels
<1>4. TasksInv'
  BY <1>1, <1>3, TasksKept
<1> QED
  BY <1>3, <1>4 DEF TimerInv

LEMMA CancelsFromElsewhere ==
    ASSUME TimerInv, NEW id \in ids, Cancel(id)
    PROVE  TimerInv'
<1>0. PICK o : o = [op |-> "cancel", id |-> id]
  OBVIOUS
<1>1. /\ tasks' = Append(tasks, o)
      /\ UNCHANGED <<heap, created, ids, timers, activeTimers, armed, phase, reported, batch, next,
                     canceling, round, cancelled, clockStep>>
  BY <1>0 DEF Cancel, objects, sets, batchVars
<1>2. id \in Addr \X Nat
  BY DEF TimerInv, HeapInv
<1>3. HeapInv' /\ SetsInv' /\ BatchInv' /\ CancelInv' /\ ArmedInv'
  BY <1>1 DEF TimerInv, HeapInv, SetsInv, BatchInv, CancelInv, ArmedInv, ArmedInTime
<1>4. TasksInv'
  <2> DEFINE n == Len(tasks)
  <2>1. o \in TimerTask /\ o.op # "add"
    BY <1>0, <1>2 DEF TimerTask
  <2>2. /\ tasks' \in Seq(TimerTask) /\ Len(tasks') = n + 1 /\ n \in Nat /\ tasks'[n + 1] = o
        /\ \A i \in 1 .. n : tasks'[i] = tasks[i]
        /\ \A i \in 1 .. Len(tasks') : i = n + 1 \/ i \in 1 .. n
    BY <1>1, <2>1, TaskAppended DEF TimerInv, TasksInv
  <2>3. ASSUME NEW i \in 1 .. Len(tasks') PROVE Added(tasks[i])'
    <3>1. PICK p : p = tasks'[i]
      OBVIOUS
    <3>2. Added(p)
      BY <2>1, <2>2, <3>1, TaskTyped DEF Added
    <3>3. Added(p)'
      BY <1>1, <3>2 DEF Added
    <3> QED
      BY <3>1, <3>3 DEF Added
  <2>4. \A i, j \in 1 .. Len(tasks') :
           tasks'[i].op = "add" /\ tasks'[j].op = "add" /\ tasks'[i].id[1] = tasks'[j].id[1] => i = j
    BY <2>1, <2>2 DEF TimerInv, TasksInv
  <2>5. round' \in 0 .. Len(tasks')
    BY <1>1, <2>2 DEF TimerInv, TasksInv
  <2> QED
    BY <2>2, <2>3, <2>4, <2>5 DEF TasksInv
<1> QED
  BY <1>3, <1>4 DEF TimerInv

\* One functor less.
LEMMA TaskTaken ==
    ASSUME NEW T, NEW s \in Seq(T), s # <<>>, NEW r, r = Tail(s)
    PROVE  /\ r \in Seq(T) /\ Len(r) = Len(s) - 1 /\ Len(s) \in Nat /\ Len(s) > 0
           /\ Head(s) = s[1] /\ Head(s) \in T /\ 1 \in 1 .. Len(s)
           /\ \A i \in 1 .. Len(r) : i + 1 \in 1 .. Len(s) /\ r[i] = s[i + 1] /\ i + 1 # 1
OBVIOUS

LEMMA TasksTaken ==
    ASSUME TimerInv, round > 0, tasks' = Tail(tasks), round' = round - 1,
           NEW h, h = Head(tasks),
           \A o \in TimerTask : Added(o) /\ (o.op = "add" /\ h.op = "add" => o.id[1] # h.id[1])
                              => Added(o)'
    PROVE  TasksInv'
<1> DEFINE n == Len(tasks)
<1>1. tasks \in Seq(TimerTask) /\ round \in 0 .. n /\ tasks # <<>>
  BY DEF TimerInv, TasksInv
<1>2. /\ tasks' \in Seq(TimerTask) /\ Len(tasks') = n - 1 /\ n \in Nat /\ n > 0
      /\ h = tasks[1] /\ h \in TimerTask /\ 1 \in 1 .. n
      /\ \A i \in 1 .. Len(tasks') : i + 1 \in 1 .. n /\ tasks'[i] = tasks[i + 1] /\ i + 1 # 1
  BY <1>1, TaskTaken
<1>3. ASSUME NEW i \in 1 .. Len(tasks') PROVE Added(tasks[i])'
  <2>1. PICK p : p = tasks'[i]
    OBVIOUS
  <2>2. PICK j : j = i + 1
    OBVIOUS
  <2>3. j \in 1 .. n /\ p = tasks[j] /\ j # 1
    BY <1>2, <2>1, <2>2
  <2>4. p \in TimerTask /\ Added(p)
    BY <2>3, TaskTyped
  <2>5. p.op = "add" /\ h.op = "add" => p.id[1] # h.id[1]
    BY <1>2, <2>3 DEF TimerInv, TasksInv
  <2>6. Added(p)'
    BY <2>4, <2>5
  <2> QED
    BY <2>1, <2>6 DEF Added
<1>4. ASSUME NEW i \in 1 .. Len(tasks'), NEW j \in 1 .. Len(tasks'),
             tasks'[i].op = "add", tasks'[j].op = "add", tasks'[i].id[1] = tasks'[j].id[1]
      PROVE  i = j
  <2>1. /\ i + 1 \in 1 .. n /\ tasks'[i] = tasks[i + 1]
        /\ j + 1 \in 1 .. n /\ tasks'[j] = tasks[j + 1]
    BY <1>2
  <2>2. i + 1 = j + 1
    BY <1>4, <2>1 DEF TimerInv, TasksInv
  <2>3. i \in Int /\ j \in Int
    BY <1>2
  <2> QED
    BY <2>2, <2>3
<1>5. round' \in 0 .. Len(tasks')
  BY <1>1, <1>2
<1> QED
  BY <1>2, <1>3, <1>4, <1>5 DEF TasksInv

LEMMA RunsTask == TimerInv /\ RunTask => TimerInv'
<1> SUFFICES ASSUME TimerInv, RunTask PROVE TimerInv'
  OBVIOUS
<1>0. PICK h : h = Head(tasks)
  OBVIOUS
<1>1. /\ phase = "functors" /\ round > 0 /\ tasks' = Tail(tasks) /\ round' = round - 1
      /\ UNCHANGED <<created, ids, phase, reported, batch, next, clockStep>>
      /\ \/ /\ h.op = "add" /\ AddTimerInLoop(heap, h.id[1])
            /\ UNCHANGED <<heap, canceling, cancelled>>
         \/ h.op = "cancel" /\ CancelInLoop(h.id) /\ armed' = armed
  BY <1>0 DEF RunTask
<1>2. /\ h = tasks[1] /\ 1 \in 1 .. Len(tasks)
  <2>1. tasks \in Seq(TimerTask) /\ round \in 0 .. Len(tasks) /\ tasks # <<>>
    BY <1>1 DEF TimerInv, TasksInv
  <2> QED
    BY <1>0, <2>1, TaskTaken
<1>3. h \in TimerTask /\ h.id \in Addr \X Nat /\ h.id[1] \in Addr /\ Added(h)
  BY <1>2, TaskTyped
<1>4. CASE h.op = "add" /\ AddTimerInLoop(heap, h.id[1]) /\ UNCHANGED <<heap, canceling, cancelled>>
  <2> DEFINE a == h.id[1]
  <2>1. /\ heap[a] # NoTimer /\ heap[a].seq = h.id[2] /\ a \notin timers /\ a \notin ToSet(batch)
        /\ h.id[2] \notin cancelled
    BY <1>3, <1>4 DEF Added
  <2>2. HeapInv'
    BY <1>1, <1>4 DEF TimerInv, HeapInv
  <2>3. AddTimerInLoop(heap', a)
    BY <1>4
  <2>4. SetsInv' /\ timers' = timers \cup {a} /\ ArmedInv'
    BY <1>1, <1>3, <1>4, <2>1, <2>2, <2>3, Inserts
  <2>5. BatchInv'
    BY <1>1, <1>4, <2>1, <2>4 DEF TimerInv, BatchInv
  <2>6. CancelInv'
    BY <1>1, <1>4, <2>1, <2>4 DEF TimerInv, CancelInv
  <2>7. ASSUME NEW o \in TimerTask, Added(o), o.op = "add" => o.id[1] # a PROVE Added(o)'
    BY <1>1, <1>4, <2>4, <2>7 DEF Added
  <2>8. TasksInv'
    BY <1>0, <1>1, <1>4, <2>7, TasksTaken
  <2> QED
    BY <2>2, <2>4, <2>5, <2>6, <2>8 DEF TimerInv
<1>5. CASE h.op = "cancel" /\ CancelInLoop(h.id) /\ armed' = armed
  <2>1. /\ HeapInv' /\ SetsInv' /\ BatchInv' /\ CancelInv' /\ ArmedInv'
        /\ \A o \in TimerTask : Added(o) => Added(o)'
    BY <1>1, <1>3, <1>5, Cancels
  <2>2. TasksInv'
    BY <1>0, <1>1, <2>1, TasksTaken
  <2> QED
    BY <2>1, <2>2 DEF TimerInv
<1> QED
  BY <1>1, <1>4, <1>5

\* Steps that change no object and no set.
LEMMA TimerWaits ==
    ASSUME TimerInv, UNCHANGED <<heap, created, ids, timers, activeTimers, armed, batch, tasks,
                                 canceling, cancelled, clockStep>>,
           \/ /\ phase' \in {"poll", "events", "functors"} /\ phase # "calling"
              /\ next' = next
           \/ /\ phase' = phase /\ next' \in 1 .. Len(batch) + 1
              /\ next' # next => phase = "calling",
           reported' \in BOOLEAN, round' \in 0 .. Len(tasks)
    PROVE  TimerInv'
<1>1. HeapInv' /\ SetsInv' /\ CancelInv' /\ ArmedInv'
  BY DEF TimerInv, HeapInv, SetsInv, CancelInv, ArmedInv, ArmedInTime
<1>2. BatchInv'
  BY DEF TimerInv, BatchInv
<1>3. TasksInv'
  BY DEF TimerInv, TasksInv, Added
<1> QED
  BY <1>1, <1>2, <1>3 DEF TimerInv

LEMMA Polls ==
    ASSUME TimerInv, PollTimers \/ TakeTasks \/ EndRound \/ RunTimer
    PROVE  TimerInv'
<1>1. /\ round \in 0 .. Len(tasks) /\ reported \in BOOLEAN /\ Len(tasks) \in 0 .. Len(tasks)
      /\ batch \in Seq(Addr) /\ next \in 1 .. Len(batch) + 1
  BY DEF TimerInv, TasksInv, BatchInv
<1>2. CASE PollTimers
  BY <1>1, <1>2, TimerWaits DEF PollTimers, objects, sets
<1>3. CASE TakeTasks
  BY <1>1, <1>3, TimerWaits DEF TakeTasks, objects, sets
<1>4. CASE EndRound
  BY <1>1, <1>4, TimerWaits DEF EndRound, objects, sets
<1>5. CASE RunTimer
  <2>1. next + 1 \in 1 .. Len(batch) + 1
    BY <1>1, <1>5 DEF RunTimer
  <2> QED
    BY <1>1, <1>5, <2>1, TimerWaits DEF RunTimer, objects, sets
<1> QED
  BY <1>2, <1>3, <1>4, <1>5

LEMMA TimerRests == TimerInv /\ UNCHANGED timerVars => TimerInv'
<1> SUFFICES ASSUME TimerInv, UNCHANGED timerVars PROVE TimerInv'
  OBVIOUS
<1>1. round \in 0 .. Len(tasks) /\ reported \in BOOLEAN /\ next \in 1 .. Len(batch) + 1
  BY DEF TimerInv, TasksInv, BatchInv
<1> QED
  BY <1>1, TimerWaits DEF timerVars

\* handleRead: what is due leaves both sets.
LEMMA Expires == TimerInv /\ HandleTimers => TimerInv'
<1> SUFFICES ASSUME TimerInv, HandleTimers PROVE TimerInv'
  OBVIOUS
<1> DEFINE expired == {a \in timers : heap[a].due <= 0}
<1>1. /\ batch' \in InOrder(expired) /\ timers' = timers \ expired
      /\ activeTimers' = {x \in activeTimers : x[1] \notin expired}
      /\ armed' = IF armed = 0 THEN NoTimer ELSE armed
      /\ phase' = "calling" /\ reported' = FALSE /\ next' = 1 /\ canceling' = {}
      /\ UNCHANGED <<heap, created, ids, tasks, round, cancelled, clockStep>>
  BY DEF HandleTimers, objects
<1>2. expired \subseteq timers /\ timers \subseteq Addr /\ IsFiniteSet(expired)
  <2>1. expired \subseteq timers /\ timers \subseteq Addr /\ IsFiniteSet(timers)
    BY DEF TimerInv, SetsInv
  <2> QED
    BY <2>1, FS_Subset
<1>3. batch' \in Seq(Addr) /\ ToSet(batch') \subseteq expired /\ Len(batch') \in Nat
  <2>1. Cardinality(expired) \in Nat /\ batch' \in [1 .. Cardinality(expired) -> expired]
    BY <1>1, <1>2, FS_CardinalityType DEF InOrder
  <2> HIDE DEF expired
  <2>2. batch' \in Seq(expired)
    BY <2>1
  <2> QED
    BY <1>2, <2>1, <2>2 DEF ToSet
<1> HIDE DEF expired
<1>4. HeapInv'
  BY <1>1 DEF TimerInv, HeapInv
<1>5. SetsInv'
  <2>1. activeTimers' = {<<a, heap[a].seq>> : a \in timers'}
    BY <1>1, <1>2 DEF TimerInv, SetsInv
  <2>2. IsFiniteSet(timers')
    BY <1>1, FS_Subset DEF TimerInv, SetsInv
  <2> QED
    BY <1>1, <2>1, <2>2 DEF TimerInv, SetsInv
<1>6. BatchInv'
  <2>1. next' \in 1 .. Len(batch') + 1
    BY <1>1, <1>3
  <2>2. \A a \in ToSet(batch') : heap'[a] # NoTimer /\ a \notin timers'
    BY <1>1, <1>2, <1>3 DEF TimerInv, SetsInv
  <2>3. IsFiniteSet(ToSet(batch'))
    BY <1>2, <1>3, FS_Subset
  <2> QED
    BY <1>1, <1>3, <2>1, <2>2, <2>3 DEF BatchInv
<1>7. TasksInv'
  <2>1. ASSUME NEW o \in TimerTask, Added(o) PROVE Added(o)'
    BY <1>1, <1>2, <1>3, <2>1 DEF Added
  <2> QED
    BY <1>1, <2>1, TasksKept
<1>8. CancelInv'
  BY <1>1, <1>2, <1>3 DEF TimerInv, CancelInv
<1>9. ArmedInv'
  BY <1>1 DEF TimerInv, ArmedInv, ArmedInTime
<1> QED
  BY <1>4, <1>5, <1>6, <1>7, <1>8, <1>9 DEF TimerInv

\* reset: repeated timers wait again, the others are deleted.
LEMMA Resets == TimerInv /\ Reset => TimerInv'
<1> SUFFICES ASSUME TimerInv, Reset PROVE TimerInv'
  OBVIOUS
<1> DEFINE again == {a \in ToSet(batch) : Restarts(a)}
<1>1. /\ heap' = [a \in Addr |-> IF a \in again THEN [heap[a] EXCEPT !.due = heap[a].every]
                                 ELSE IF a \in ToSet(batch) THEN NoTimer ELSE heap[a]]
      /\ timers' = timers \cup again
      /\ activeTimers' = activeTimers \cup {<<a, heap[a].seq>> : a \in again}
      /\ NextExpire(heap', again, timers')
      /\ phase = "calling" /\ phase' = "events" /\ batch' = <<>> /\ next' = 1
      /\ UNCHANGED <<created, ids, reported, canceling, tasks, round, cancelled, clockStep>>
  BY DEF Reset
<1>2. /\ again \subseteq ToSet(batch) /\ ToSet(batch) \subseteq Addr
      /\ \A a \in ToSet(batch) : heap[a] # NoTimer /\ a \notin timers
      /\ \A a \in again : <<a, heap[a].seq>> \notin canceling
  BY DEF TimerInv, BatchInv, ToSet, Restarts
<1>3. IsFiniteSet(again)
  BY <1>2, FS_Subset DEF TimerInv, BatchInv
<1> HIDE DEF again
<1>4. \A a \in Addr : heap[a] # NoTimer => heap[a] \in Timer
  BY DEF TimerInv, HeapInv
<1>5. /\ \A a \in again : heap'[a] \in Timer /\ heap'[a] # NoTimer /\ heap'[a].seq = heap[a].seq
      /\ \A a \in ToSet(batch) \ again : heap'[a] = NoTimer
      /\ \A a \in Addr \ ToSet(batch) : heap'[a] = heap[a]
  BY <1>1, <1>2, <1>4, DelayAssumption DEF Timer
<1>6. HeapInv'
  <2>1. heap' \in [Addr -> Timer \cup {NoTimer}]
    <3>1. \A a \in Addr : heap'[a] \in Timer \cup {NoTimer}
      BY <1>4, <1>5
    <3> QED
      BY <1>1, <3>1
  <2>2. \A a \in Addr : heap'[a] # NoTimer => heap[a] # NoTimer /\ heap'[a].seq = heap[a].seq
    BY <1>2, <1>5
  <2> QED
    BY <1>1, <2>1, <2>2 DEF TimerInv, HeapInv
<1>7. \A a \in timers : a \in Addr /\ a \notin ToSet(batch) /\ heap'[a] = heap[a]
  BY <1>2, <1>5 DEF TimerInv, SetsInv
<1>8. SetsInv'
  <2>1. IsFiniteSet(timers')
    BY <1>1, <1>3, FS_Union DEF TimerInv, SetsInv
  <2>2. activeTimers' = {<<a, heap'[a].seq>> : a \in timers'}
    <3>1. \A a \in timers' : heap'[a].seq = heap[a].seq
      BY <1>1, <1>5, <1>7
    <3>2. activeTimers = {<<a, heap[a].seq>> : a \in timers}
      BY DEF TimerInv, SetsInv
    <3>3. activeTimers' = {<<a, heap[a].seq>> : a \in timers'}
      BY <1>1, <3>2
    <3> QED
      BY <3>1, <3>3
  <2> QED
    BY <1>1, <1>2, <1>5, <1>7, <2>1, <2>2 DEF TimerInv, SetsInv
<1>9. batch' \in Seq(Addr) /\ Len(batch') = 0 /\ ToSet(batch') = {} /\ IsFiniteSet(ToSet(batch'))
  <2>1. batch' \in Seq(Addr) /\ Len(batch') = 0 /\ ToSet(batch') = {}
    BY <1>1 DEF ToSet
  <2> QED
    BY <2>1, FS_EmptySet
<1>10. BatchInv'
  <2>1. next' \in 1 .. Len(batch') + 1
    BY <1>1, <1>9
  <2> QED
    BY <1>1, <1>9, <2>1 DEF TimerInv, BatchInv
<1>11. TasksInv'
  <2>1. ASSUME NEW o \in TimerTask, Added(o) PROVE Added(o)'
    <3>1. o.id[1] \in Addr
      BY DEF TimerTask
    <3> QED
      BY <1>1, <1>2, <1>5, <1>9, <2>1, <3>1 DEF Added
  <2> QED
    BY <1>1, <2>1, TasksKept
<1>12. CancelInv'
  <2>1. \A a \in again : heap[a].seq \notin cancelled
    BY <1>1, <1>2 DEF TimerInv, CancelInv
  <2>2. \A a \in timers' : heap'[a].seq \notin cancelled
    BY <1>1, <1>5, <1>7, <2>1 DEF TimerInv, CancelInv
  <2> QED
    BY <1>1, <2>2 DEF TimerInv, CancelInv
<1>13. ArmedInv'
  <2>1. CASE timers' = {}
    BY <1>1, <2>1 DEF TimerInv, ArmedInv, ArmedInTime, NextExpire
  <2>2. CASE timers' # {}
    <3>1. PICK a \in Earliest(heap', timers') : armed' = AtLeast0(heap'[a].due)
      BY <1>1, <2>2 DEF NextExpire, TimeFromNow
    <3>2. \A b \in timers' : heap'[b].due \in Int
      BY <1>6, <1>8 DEF HeapInv, SetsInv, Timer
    <3>3. a \in timers' /\ \A b \in timers' : heap'[a].due <= heap'[b].due
      BY <3>1 DEF Earliest
    <3>4. armed' \in Nat /\ armed' # NoTimer
      BY <3>1, <3>2, <3>3, AtLeast0Int, DelayAssumption
    <3>5. ASSUME NEW b \in timers' PROVE armed' <= AtLeast0(heap'[b].due) + AtLeast0(clockStep)
      <4>1. heap'[a].due <= heap'[b].due /\ heap'[a].due \in Int /\ heap'[b].due \in Int
        BY <3>2, <3>3
      <4>2. AtLeast0(clockStep) \in Nat
        BY AtLeast0Int DEF TimerInv, ArmedInv
      <4> QED
        BY <3>1, <4>1, <4>2 DEF AtLeast0
    <3> QED
      BY <1>1, <3>4, <3>5 DEF TimerInv, ArmedInv, ArmedInTime
  <2> QED
    BY <2>1, <2>2
<1> QED
  BY <1>6, <1>8, <1>10, <1>11, <1>12, <1>13 DEF TimerInv

\* The clocks: what was given to a timer stays, but for when it is due.
LEMMA Shifted ==
    ASSUME TimerInv, NEW n \in Int, heap' = Shift(n), phase # "calling",
           UNCHANGED <<created, ids, timers, activeTimers, phase, reported, batch, next, canceling,
                       tasks, round, cancelled>>
    PROVE  /\ HeapInv' /\ SetsInv' /\ BatchInv' /\ TasksInv' /\ CancelInv'
           /\ \A a \in timers : heap[a].due \in Int /\ heap'[a].due = heap[a].due + n
<1>1. heap \in [Addr -> Timer \cup {NoTimer}] /\ NoTimer \notin Timer
  BY DelayAssumption DEF TimerInv, HeapInv
<1>2. ASSUME NEW a \in Addr
      PROVE  /\ heap'[a] \in Timer \cup {NoTimer}
             /\ heap'[a] = NoTimer <=> heap[a] = NoTimer
             /\ heap[a] # NoTimer => /\ heap'[a].seq = heap[a].seq /\ heap[a].due \in Int
                                     /\ heap'[a].due = heap[a].due + n
  <2>1. CASE heap[a] = NoTimer
    BY <2>1 DEF Shift
  <2>2. CASE heap[a] # NoTimer
    <3>1. heap[a] \in Timer
      BY <1>1, <2>2
    <3>2. heap'[a] = [heap[a] EXCEPT !.due = heap[a].due + n]
      BY <2>2 DEF Shift
    <3>3. heap'[a] \in Timer /\ heap'[a].seq = heap[a].seq /\ heap[a].due \in Int
          /\ heap'[a].due = heap[a].due + n
      BY <3>1, <3>2 DEF Timer
    <3> QED
      BY <1>1, <2>2, <3>3
  <2> QED
    BY <2>1, <2>2
<1>3. HeapInv'
  <2>1. heap' \in [Addr -> Timer \cup {NoTimer}]
    <3>1. \A a \in Addr : heap'[a] \in Timer \cup {NoTimer}
      BY <1>2
    <3> QED
      BY <3>1 DEF Shift
  <2> QED
    BY <1>2, <2>1 DEF TimerInv, HeapInv
<1>4. timers \subseteq Addr /\ \A a \in timers : heap[a] # NoTimer
  BY DEF TimerInv, SetsInv
<1>5. SetsInv'
  BY <1>2, <1>4 DEF TimerInv, SetsInv
<1>6. BatchInv'
  <2>1. \A a \in ToSet(batch) : a \in Addr
    BY DEF TimerInv, BatchInv, ToSet
  <2> QED
    BY <1>2, <2>1 DEF TimerInv, BatchInv
<1>7. TasksInv'
  <2>1. ASSUME NEW o \in TimerTask, Added(o) PROVE Added(o)'
    <3>1. o.id[1] \in Addr
      BY DEF TimerTask
    <3> QED
      BY <1>2, <2>1, <3>1 DEF Added
  <2> QED
    BY <2>1, TasksKept
<1>8. CancelInv'
  BY <1>2, <1>4 DEF TimerInv, CancelInv
<1> QED
  BY <1>2, <1>3, <1>4, <1>5, <1>6, <1>7, <1>8

LEMMA ClocksGoOn ==
    ASSUME TimerInv, TimePasses \/ SetAhead \/ SetBack
    PROVE  TimerInv'
<1> USE DEF batchVars, sets
<1>1. /\ armed \in Nat \cup {NoTimer} /\ clockStep \in {-1, 0, 1} /\ NoTimer \notin Int
      /\ phase # "calling" /\ timers # {} =>
            armed # NoTimer /\ \A a \in timers : armed <= AtLeast0(heap[a].due) + AtLeast0(clockStep)
  BY DelayAssumption DEF TimerInv, ArmedInv, ArmedInTime
<1>2. CASE TimePasses
  <2>1. /\ heap' = Shift(-1) /\ phase # "calling" /\ -1 \in Int
        /\ armed' = IF armed = NoTimer THEN NoTimer ELSE AtLeast0(armed - 1)
        /\ UNCHANGED <<created, ids, timers, activeTimers, phase, reported, batch, next, canceling,
                       tasks, round, cancelled, clockStep>>
    BY <1>2 DEF TimePasses
  <2>2. /\ HeapInv' /\ SetsInv' /\ BatchInv' /\ TasksInv' /\ CancelInv'
        /\ \A a \in timers : heap[a].due \in Int /\ heap'[a].due = heap[a].due + -1
    BY <2>1, Shifted
  <2>3. ASSUME NEW a \in timers
        PROVE  armed' # NoTimer /\ armed' <= AtLeast0(heap'[a].due) + AtLeast0(clockStep')
    <3>1. /\ armed \in Nat /\ armed' = AtLeast0(armed - 1)
          /\ armed <= AtLeast0(heap[a].due) + AtLeast0(clockStep)
      BY <1>1, <2>1
    <3>2. heap[a].due \in Int /\ heap'[a].due = heap[a].due + -1 /\ clockStep' = clockStep
      BY <2>1, <2>2
    <3>3. ASSUME NEW m \in Nat, NEW d \in Int, NEW e \in Int, NEW s \in {-1, 0, 1},
                 m <= AtLeast0(d) + AtLeast0(s), e = d + -1
          PROVE  AtLeast0(m - 1) <= AtLeast0(e) + AtLeast0(s) /\ AtLeast0(m - 1) \in Nat
      BY <3>3 DEF AtLeast0
    <3>4. heap'[a].due \in Int
      BY <3>2
    <3> QED
      BY <1>1, <3>1, <3>2, <3>3, <3>4
  <2>4. armed' \in Nat \cup {NoTimer}
    BY <1>1, <2>1 DEF AtLeast0
  <2>5. ArmedInv'
    BY <1>1, <2>1, <2>3, <2>4 DEF ArmedInv, ArmedInTime
  <2> QED
    BY <2>2, <2>5 DEF TimerInv
<1>3. CASE SetAhead
  <2>1. /\ heap' = Shift(-1) /\ phase # "calling" /\ -1 \in Int /\ clockStep = 0 /\ clockStep' = 1
        /\ UNCHANGED <<created, ids, timers, activeTimers, armed, phase, reported, batch, next,
                       canceling, tasks, round, cancelled>>
    BY <1>3 DEF SetAhead
  <2>2. /\ HeapInv' /\ SetsInv' /\ BatchInv' /\ TasksInv' /\ CancelInv'
        /\ \A a \in timers : heap[a].due \in Int /\ heap'[a].due = heap[a].due + -1
    BY <2>1, Shifted
  <2>3. ASSUME NEW a \in timers
        PROVE  armed # NoTimer /\ armed <= AtLeast0(heap'[a].due) + AtLeast0(clockStep')
    <3>1. /\ armed \in Nat /\ armed <= AtLeast0(heap[a].due) + AtLeast0(clockStep)
      BY <1>1, <2>1
    <3>2. heap[a].due \in Int /\ heap'[a].due = heap[a].due + -1
      BY <2>2
    <3>3. ASSUME NEW m \in Nat, NEW d \in Int, NEW e \in Int,
                 m <= AtLeast0(d) + AtLeast0(0), e = d + -1
          PROVE  m <= AtLeast0(e) + AtLeast0(1)
      BY <3>3 DEF AtLeast0
    <3>4. heap'[a].due \in Int
      BY <3>2
    <3> QED
      BY <1>1, <2>1, <3>1, <3>2, <3>3, <3>4
  <2>4. ArmedInv'
    BY <1>1, <2>1, <2>3 DEF ArmedInv, ArmedInTime
  <2> QED
    BY <2>2, <2>4 DEF TimerInv
<1>4. CASE SetBack
  <2>1. /\ heap' = Shift(1) /\ phase # "calling" /\ 1 \in Int /\ clockStep = 0 /\ clockStep' = -1
        /\ UNCHANGED <<created, ids, timers, activeTimers, armed, phase, reported, batch, next,
                       canceling, tasks, round, cancelled>>
    BY <1>4 DEF SetBack
  <2>2. /\ HeapInv' /\ SetsInv' /\ BatchInv' /\ TasksInv' /\ CancelInv'
        /\ \A a \in timers : heap[a].due \in Int /\ heap'[a].due = heap[a].due + 1
    BY <2>1, Shifted
  <2>3. ASSUME NEW a \in timers
        PROVE  armed # NoTimer /\ armed <= AtLeast0(heap'[a].due) + AtLeast0(clockStep')
    <3>1. /\ armed \in Nat /\ armed <= AtLeast0(heap[a].due) + AtLeast0(clockStep)
      BY <1>1, <2>1
    <3>2. heap[a].due \in Int /\ heap'[a].due = heap[a].due + 1
      BY <2>2
    <3>3. ASSUME NEW m \in Nat, NEW d \in Int, NEW e \in Int,
                 m <= AtLeast0(d) + AtLeast0(0), e = d + 1
          PROVE  m <= AtLeast0(e) + AtLeast0(-1)
      BY <3>3 DEF AtLeast0
    <3>4. heap'[a].due \in Int
      BY <3>2
    <3> QED
      BY <1>1, <2>1, <3>1, <3>2, <3>3, <3>4
  <2>4. ArmedInv'
    BY <1>1, <2>1, <2>3 DEF ArmedInv, ArmedInTime
  <2> QED
    BY <2>2, <2>4 DEF TimerInv
<1> QED
  BY <1>2, <1>3, <1>4

LEMMA TimerSteps == TimerInv /\ TimerNext => TimerInv'
BY Polls, Expires, Resets, RunsTask, ClocksGoOn, CancelsFromElsewhere, CancelsFromLoop,
   AddsFromElsewhere, AddsFromLoop
   DEF TimerNext, TimerLoop

LEMMA TimerHolds == TimerInv => TimerTypeOK /\ ArmedInTime
<1> SUFFICES ASSUME TimerInv PROVE TimerTypeOK
  BY DEF TimerInv, ArmedInv
<1>1. timers = {x[1] : x \in activeTimers}
  <2>1. \A x \in activeTimers : x[1] \in timers
    BY ActiveTimer
  <2>2. ASSUME NEW a \in timers PROVE \E x \in activeTimers : x[1] = a
    <3>1. <<a, heap[a].seq>> \in activeTimers /\ <<a, heap[a].seq>>[1] = a
      BY DEF TimerInv, SetsInv
    <3> QED
      BY <3>1
  <2> QED
    BY <2>1, <2>2
<1>2. \A id \in activeTimers : heap[id[1]] # NoTimer /\ heap[id[1]].seq = id[2]
  BY ActiveTimer
<1>3. ASSUME NEW id \in {o.id : o \in {t \in ToSet(tasks) : t.op = "add"}}
      PROVE  heap[id[1]] # NoTimer /\ heap[id[1]].seq = id[2]
  <2>1. tasks \in Seq(TimerTask) /\ DOMAIN tasks = 1 .. Len(tasks)
    BY DEF TimerInv, TasksInv
  <2>2. PICK i \in 1 .. Len(tasks) : id = tasks[i].id /\ tasks[i].op = "add"
    BY <2>1 DEF ToSet
  <2> QED
    BY <2>2, TaskTyped DEF Added
<1> QED
  BY <1>1, <1>2, <1>3 DEF TimerInv, TimerTypeOK, HeapInv, BatchInv, TasksInv, ArmedInv

\* cancel() is exact: a repeated timer that is waiting or run is so after the step, unless
\* it was cancelled.
FoundOn(id) ==
    Findable(id) /\ heap[id[1]].every > 0 /\ id[2] \notin cancelled' => Findable(id)'

LEMMA FoundAgain ==
    ASSUME TimerInv, UNCHANGED <<batch, cancelled>>, activeTimers \subseteq activeTimers',
           \A a \in ToSet(batch) : heap'[a] # NoTimer /\ heap'[a].seq = heap[a].seq,
           NEW id \in ids
    PROVE  FoundOn(id)
BY DEF FoundOn, Findable, InBatch

LEMMA FoundAfterCreate ==
    ASSUME TimerInv, NEW a \in Addr, NEW delay \in Delays, NEW every \in {0, delay},
           Create(a, delay, every)
    PROVE  \A b \in ToSet(batch) : heap'[b] # NoTimer /\ heap'[b].seq = heap[b].seq
<1>1. /\ \A b \in Addr : b # a => heap'[b] = heap[b]
      /\ a \notin ToSet(batch)
  BY Creates
<1> QED
  BY <1>1 DEF TimerInv, BatchInv, ToSet

LEMMA FoundAfterCancel ==
    ASSUME TimerInv, NEW id \in ids, NEW other \in Addr \X Nat, CancelInLoop(other), UNCHANGED batch
    PROVE  FoundOn(id)
<1> SUFFICES ASSUME Findable(id), id[2] \notin cancelled' PROVE Findable(id)'
  BY DEF FoundOn
<1>1. /\ activeTimers' = activeTimers \ Find(other)
      /\ heap' = [a \in Addr |-> IF \E x \in Find(other) : x[1] = a THEN NoTimer ELSE heap[a]]
      /\ cancelled' = IF Findable(other) THEN cancelled \cup {other[2]} ELSE cancelled
      /\ Find(other) = activeTimers \cap {other}
  BY DEF CancelInLoop, Find
<1>2. CASE id \in activeTimers
  <2>1. id \notin Find(other)
    BY <1>1, <1>2 DEF Findable
  <2> QED
    BY <1>1, <1>2, <2>1 DEF Findable
<1>3. CASE InBatch(id)
  <2>1. id[1] \in ToSet(batch) /\ id[1] \in Addr /\ id[1] \notin timers
    BY <1>3 DEF InBatch, TimerInv, BatchInv, ToSet
  <2>2. \A x \in Find(other) : x[1] # id[1]
    BY <1>1, <2>1, ActiveTimer
  <2>3. heap'[id[1]] = heap[id[1]]
    BY <1>1, <2>1, <2>2
  <2> QED
    BY <1>3, <2>3 DEF InBatch, Findable
<1> QED
  BY <1>2, <1>3 DEF Findable

LEMMA FoundAfterExpiry ==
    ASSUME TimerInv, HandleTimers, NEW id \in ids
    PROVE  FoundOn(id)
<1> SUFFICES ASSUME Findable(id) PROVE Findable(id)'
  BY DEF FoundOn
<1> DEFINE expired == {a \in timers : heap[a].due <= 0}
<1>1. /\ phase = "events" /\ batch' \in InOrder(expired) /\ heap' = heap
      /\ activeTimers' = {x \in activeTimers : x[1] \notin expired}
  BY DEF HandleTimers, objects
<1> HIDE DEF expired
<1>2. ~ InBatch(id)
  BY <1>1 DEF TimerInv, BatchInv, InBatch, ToSet
<1>3. id \in activeTimers /\ heap[id[1]] # NoTimer /\ heap[id[1]].seq = id[2]
  BY <1>2, ActiveTimer DEF Findable
<1>4. CASE id[1] \in expired
  <2>1. \E i \in DOMAIN batch' : batch'[i] = id[1]
    BY <1>1, <1>4 DEF InOrder
  <2> QED
    BY <1>1, <1>3, <2>1 DEF Findable, InBatch, ToSet
<1>5. CASE id[1] \notin expired
  BY <1>1, <1>3, <1>5 DEF Findable
<1> QED
  BY <1>4, <1>5

LEMMA FoundAfterReset ==
    ASSUME TimerInv, Reset, NEW id \in ids
    PROVE  FoundOn(id)
<1> SUFFICES ASSUME Findable(id), heap[id[1]].every > 0, id[2] \notin cancelled'
             PROVE  Findable(id)'
  BY DEF FoundOn
<1> DEFINE again == {a \in ToSet(batch) : Restarts(a)}
<1>1. /\ activeTimers' = activeTimers \cup {<<a, heap[a].seq>> : a \in again}
      /\ phase = "calling" /\ cancelled' = cancelled
  BY DEF Reset
<1>2. id = <<id[1], id[2]>>
  BY DEF TimerInv, HeapInv
<1>3. CASE InBatch(id)
  <2>1. id[1] \in ToSet(batch) /\ heap[id[1]].seq = id[2]
    BY <1>3 DEF InBatch
  <2>2. id \notin canceling
    BY <1>1, <1>2, <2>1 DEF TimerInv, CancelInv
  <2>3. id[1] \in again
    BY <1>2, <2>1, <2>2 DEF Restarts
  <2> QED
    BY <1>1, <1>2, <2>1, <2>3 DEF Findable
<1> QED
  BY <1>1, <1>3 DEF Findable

LEMMA CancelExactStep ==
    ASSUME TimerInv, [TimerNext]_timerVars, NEW id \in ids
    PROVE  FoundOn(id)
<1>0. /\ \A a \in ToSet(batch) : heap[a] # NoTimer
      /\ phase # "calling" => ToSet(batch) = {}
  BY DEF TimerInv, BatchInv, ToSet
<1>1. CASE UNCHANGED timerVars
  BY <1>0, <1>1, FoundAgain DEF timerVars
<1>2. CASE PollTimers \/ RunTimer \/ TakeTasks \/ EndRound
  BY <1>0, <1>2, FoundAgain DEF PollTimers, RunTimer, TakeTasks, EndRound, objects, sets
<1>3. CASE HandleTimers
  BY <1>3, FoundAfterExpiry
<1>4. CASE Reset
  BY <1>4, FoundAfterReset
<1>5. CASE RunTask
  <2> DEFINE h == Head(tasks)
  <2>1. tasks \in Seq(TimerTask) /\ round \in 0 .. Len(tasks) /\ tasks # <<>>
    BY <1>5 DEF RunTask, TimerInv, TasksInv
  <2>2. h \in TimerTask
    BY <2>1, TaskTaken
  <2>3. h.id \in Addr \X Nat
    BY <2>2 DEF TimerTask
  <2>4. CASE h.op = "add" /\ AddTimerInLoop(heap, h.id[1]) /\ UNCHANGED <<heap, canceling, cancelled>>
    BY <1>0, <1>5, <2>4, FoundAgain DEF RunTask, AddTimerInLoop
  <2>5. CASE h.op = "cancel" /\ CancelInLoop(h.id)
    BY <1>5, <2>3, <2>5, FoundAfterCancel DEF RunTask
  <2> QED
    BY <1>5, <2>4, <2>5 DEF RunTask
<1>6. CASE TimePasses \/ SetAhead \/ SetBack
  BY <1>0, <1>6, FoundAgain DEF TimePasses, SetAhead, SetBack, batchVars, sets
<1>7. ASSUME NEW other \in ids, Cancel(other) PROVE FoundOn(id)
  BY <1>0, <1>7, FoundAgain DEF Cancel, objects, sets, batchVars
<1>8. ASSUME NEW other \in ids, CancelFromLoop(other) PROVE FoundOn(id)
  <2>1. other \in Addr \X Nat
    BY DEF TimerInv, HeapInv
  <2> QED
    BY <1>8, <2>1, FoundAfterCancel DEF CancelFromLoop
<1>9. ASSUME NEW a \in Addr, NEW d \in Delays, NEW every \in {0, d}, AddTimer(a, d, every)
      PROVE  FoundOn(id)
  BY <1>9, FoundAfterCreate, FoundAgain DEF AddTimer, sets, batchVars
<1>10. ASSUME NEW a \in Addr, NEW d \in Delays, NEW every \in {0, d}, AddFromLoop(a, d, every)
       PROVE  FoundOn(id)
  BY <1>10, FoundAfterCreate, FoundAgain DEF AddFromLoop, AddTimerInLoop, batchVars
<1> QED
  BY <1>1, <1>2, <1>3, <1>4, <1>5, <1>6, <1>7, <1>8, <1>9, <1>10 DEF TimerNext, TimerLoop

LEMMA CancelStopsStep ==
    ASSUME TimerInv, [TimerNext]_timerVars, NEW a \in Addr,
           phase = "calling", next' = next + 1, a = batch[next], heap[a].seq \in cancelled
    PROVE  <<a, heap[a].seq>> \in canceling
<1>1. batch \in Seq(Addr) /\ next \in 1 .. Len(batch) + 1 /\ next \in Int /\ next # 0
  BY DEF TimerInv, BatchInv
<1>2. RunTimer
  <2>1. next' # next /\ next' # 1
    BY <1>1
  <2> QED
    BY <2>1 DEF TimerNext, TimerLoop, timerVars, PollTimers, HandleTimers, Reset, TakeTasks, RunTask,
       EndRound, TimePasses, SetAhead, SetBack, Cancel, CancelFromLoop, AddTimer, AddFromLoop,
       batchVars
<1>3. next \in 1 .. Len(batch) /\ DOMAIN batch = 1 .. Len(batch)
  BY <1>1, <1>2 DEF RunTimer
<1>4. a \in ToSet(batch)
  BY <1>3 DEF ToSet
<1> QED
  BY <1>4 DEF TimerInv, CancelInv

-----------------------------------------------------------------------------
(* The parts together.                                                      *)

Inv == LoopInv /\ TimerInv /\ EPollInv /\ PollInv

LEMMA PartSteps ==
    ASSUME Next \/ UNCHANGED vars
    PROVE  /\ LoopNext \/ UNCHANGED loopVars
           /\ TimerNext \/ UNCHANGED timerVars
           /\ EPollNext \/ UNCHANGED epollVars
           /\ PollNext \/ UNCHANGED pollVars
BY DEF Next, OfLoop, OfTimers, Only, vars

LEMMA Starts == Init => Inv
BY LoopStarts, TimerStarts, EPollStarts, PollStarts DEF Init, Inv

LEMMA Steps == Inv /\ [Next]_vars => Inv'
<1> SUFFICES ASSUME Inv, [Next]_vars PROVE Inv'
  OBVIOUS
<1>1. LoopInv'
  BY PartSteps, LoopSteps, LoopRests DEF Inv
<1>2. TimerInv'
  BY PartSteps, TimerSteps, TimerRests DEF Inv
<1>3. EPollInv'
  BY PartSteps, EPollSteps, EPollRests DEF Inv, epollVars
<1>4. PollInv'
  BY PartSteps, PollSteps, PollRests DEF Inv, pollVars
<1> QED
  BY <1>1, <1>2, <1>3, <1>4 DEF Inv

LEMMA SpecSteps == Spec => Init /\ [][Next]_vars
BY PTL DEF Spec

\* Of a loop with any threads, functors, timers and channels: no wakeup is lost, the timerfd
\* is armed in time, no object is freed that is still held, and the pollers know every
\* channel by its index (EventLoop.cc, TimerQueue.cc, EPollPoller.cc, PollPoller.cc).
THEOREM LoopKept == Spec => []LoopSafe
<1>1. Inv => LoopSafe
  BY LoopHolds, TimerHolds, PollHolds DEF Inv, LoopSafe, EPollInv
<1> QED
  BY <1>1, Starts, Steps, SpecSteps, PTL

\* The functors are run once each, in the order in which they were queued, and both pollers
\* watch each channel for what it asked for last: the loop implements TaskQueue and the
\* pollers Interest (doPendingFunctors, updateChannel, removeChannel).
THEOREM PromisesKept == Spec => KeepsPromises
<1>1. Init => Tasks!TaskInit /\ EPollInterest!InterestInit /\ PollInterest!InterestInit
  BY TasksStart, EPollInterestStarts, PollInterestStarts DEF Init
<1>2. Inv /\ [Next]_vars => [Tasks!TaskNext]_(Tasks!taskVars)
  <2> SUFFICES ASSUME Inv, [Next]_vars PROVE Tasks!TaskNext \/ UNCHANGED Tasks!taskVars
    OBVIOUS
  <2> QED
    BY PartSteps, TaskSteps, TasksStand DEF Inv
<1>3. Inv /\ Inv' /\ [Next]_vars
      => [EPollInterest!InterestNext]_<<[c \in Channel |-> Watched(c)],
                                        {c \in DOMAIN kernel : kernel[c] = {}}, activeChannels>>
  <2> SUFFICES ASSUME Inv, Inv', EPollNext \/ UNCHANGED epollVars
               PROVE  \/ EPollInterest!InterestNext
                      \/ UNCHANGED <<[c \in Channel |-> Watched(c)],
                                     {c \in DOMAIN kernel : kernel[c] = {}}, activeChannels>>
    BY PartSteps
  <2>1. CASE EPollNext
    BY <2>1, EPollInterestSteps DEF Inv
  <2>2. CASE UNCHANGED epollVars
    BY <2>2 DEF epollVars, Watched
  <2> QED
    BY <2>1, <2>2
<1>4. Inv /\ Inv' /\ [Next]_vars
      => [PollInterest!InterestNext]_<<[c \in Channel |-> UNION {pollfds[i].events :
                                            i \in {j \in Listened : pollfds[j].fd = c}}],
                                       {pollfds[i].fd : i \in {j \in Listened : pollfds[j].events = {}}},
                                       pollActive>>
  <2> SUFFICES ASSUME Inv, Inv', PollNext \/ UNCHANGED pollVars
               PROVE  \/ PollInterest!InterestNext
                      \/ UNCHANGED <<[c \in Channel |-> UNION {pollfds[i].events :
                                            i \in {j \in Listened : pollfds[j].fd = c}}],
                                     {pollfds[i].fd : i \in {j \in Listened : pollfds[j].events = {}}},
                                     pollActive>>
    BY PartSteps
  <2>1. CASE PollNext
    BY <2>1, PollInterestSteps DEF Inv
  <2>2. CASE UNCHANGED pollVars
    BY <2>2 DEF pollVars, Listened
  <2> QED
    BY <2>1, <2>2
<1>5. Spec => []Inv
  BY Starts, Steps, SpecSteps, PTL
<1>6. Spec => ImplementsTaskQueue
  BY <1>1, <1>2, <1>5, SpecSteps, PTL DEF ImplementsTaskQueue, Tasks!TaskSpec
<1>7. Spec => EPollGivesInterest
  BY <1>1, <1>3, <1>5, SpecSteps, PTL DEF EPollGivesInterest, EPollInterest!InterestSpec
<1>8. Spec => PollGivesInterest
  BY <1>1, <1>4, <1>5, SpecSteps, PTL DEF PollGivesInterest, PollInterest!InterestSpec
<1> QED
  BY <1>6, <1>7, <1>8 DEF KeepsPromises

\* cancel() stops the timer that its TimerId names, at once or after the batch it is in, and
\* no other, though addresses are used again (cancelInLoop, getExpired, reset).
THEOREM CancelsKept == Spec => CancelRight
<1>1. Inv /\ [Next]_vars
      => [\A id \in ids : Findable(id) /\ heap[id[1]].every > 0 /\ id[2] \notin cancelled'
                          => Findable(id)']_timerVars
  <2> SUFFICES ASSUME Inv, [Next]_vars, NEW id \in ids PROVE FoundOn(id)
    BY DEF FoundOn
  <2> QED
    BY PartSteps, CancelExactStep DEF Inv
<1>2. Inv /\ [Next]_vars
      => [\A a \in Addr : phase = "calling" /\ next' = next + 1 /\ a = batch[next]
                          /\ heap[a].seq \in cancelled
                          => <<a, heap[a].seq>> \in canceling]_timerVars
  <2> SUFFICES ASSUME Inv, [Next]_vars, NEW a \in Addr, phase = "calling", next' = next + 1,
                      a = batch[next], heap[a].seq \in cancelled
               PROVE  <<a, heap[a].seq>> \in canceling
    OBVIOUS
  <2> QED
    BY PartSteps, CancelStopsStep DEF Inv
<1>3. Spec => []Inv
  BY Starts, Steps, SpecSteps, PTL
<1>4. Spec => CancelExact
  BY <1>1, <1>3, SpecSteps, PTL DEF CancelExact
<1>5. Spec => CancelStops
  BY <1>2, <1>3, SpecSteps, PTL DEF CancelStops
<1> QED
  BY <1>4, <1>5 DEF CancelRight

=============================================================================
