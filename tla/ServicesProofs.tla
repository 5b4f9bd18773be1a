---------------------------- MODULE ServicesProofs ----------------------------
(***************************************************************************)
(* What holds of the threads of muduo for every number of workers and       *)
(* producers, every capacity and all the work there may be; of the calls of *)
(* one RPC channel; and of the balancer between RPC clients and backends.   *)
(***************************************************************************)
EXTENDS Threads, Protocols, Relays, FiniteSetTheorems, SequenceTheorems, TLAPS

-----------------------------------------------------------------------------
(* The pool: producers that are busy have their work counted already.       *)

Taking == {w \in Worker : worker[w] = "take"}
Putting == {p \in Producer : producer[p] = "put"}
Giving == {p \in Producer : producer[p] # "idle"}

QueueOK ==
    /\ queue \in Seq(1 .. MaxWork) /\ put \in Nat
    /\ put + Cardinality(Giving) <= MaxWork
    /\ capacity > 0 => Len(queue) <= capacity

WorkersOK ==
    /\ worker \in [Worker -> {"check", "take", "asleep", "run", "exit"}]
    /\ held \in [Worker -> 0 .. MaxWork]
    /\ \A w \in Worker : held[w] > 0 <=> worker[w] = "run"

FlagsOK ==
    /\ capacity \in Capacities /\ pooled \in BOOLEAN /\ running \in BOOLEAN
    /\ producer \in [Producer -> {"idle", "put", "blocked"}]
    /\ stopper \in {"idle", "join", "joined"}

\* Only a queue with a limit has producers that wait.
Limited == Blocked # {} => capacity > 0

WorkInv ==
    /\ FlagsOK /\ QueueOK /\ WorkersOK /\ Limited
    /\ NoSleepOverWork /\ NoWaitOverRoom

-----------------------------------------------------------------------------
(* How many are in a state, before and after a step.                        *)

LEMMA Counted ==
  ASSUME NEW S, IsFiniteSet(S)
  PROVE  \A T \in SUBSET S : IsFiniteSet(T) /\ Cardinality(T) \in Nat
BY FS_Subset, FS_CardinalityType

LEMMA OneMore ==
  ASSUME NEW T, IsFiniteSet(T), NEW x, x \notin T
  PROVE  Cardinality(T \cup {x}) = Cardinality(T) + 1
BY FS_AddElement

LEMMA OneLess ==
  ASSUME NEW T, IsFiniteSet(T), NEW x, x \in T
  PROVE  Cardinality(T \ {x}) = Cardinality(T) - 1
BY FS_RemoveElement

LEMMA NoMore ==
  ASSUME NEW S, IsFiniteSet(S), NEW T, T \subseteq S
  PROVE  Cardinality(T) <= Cardinality(S)
BY FS_Subset

LEMMA Numbers ==
  /\ capacity \in Capacities => capacity \in Nat
  /\ MaxWork \in Nat
  /\ IsFiniteSet(Asleep) /\ IsFiniteSet(Taking) /\ IsFiniteSet(Blocked)
  /\ IsFiniteSet(Putting) /\ IsFiniteSet(Giving)
  /\ Cardinality(Taking) \in Nat /\ Cardinality(Putting) \in Nat /\ Cardinality(Giving) \in Nat
<1>1. Asleep \in SUBSET Worker /\ Taking \in SUBSET Worker
  BY DEF Asleep, Taking
<1>2. Blocked \in SUBSET Producer /\ Putting \in SUBSET Producer /\ Giving \in SUBSET Producer
  BY DEF Blocked, Putting, Giving
<1> QED
  BY <1>1, <1>2, Counted, CapacitiesAreNumbers, ThreadsAreFew

LEMMA WorkStarts == WorkInit => WorkInv
<1> SUFFICES ASSUME WorkInit PROVE WorkInv
  OBVIOUS
<1>1. Asleep = {} /\ Blocked = {} /\ Giving = {}
  BY DEF WorkInit, Asleep, Blocked, Giving
<1>2. Cardinality(Giving) = 0
  BY <1>1, FS_EmptySet
<1>3. capacity \in Nat /\ MaxWork \in Nat
  BY Numbers DEF WorkInit
<1>4. queue \in Seq(1 .. MaxWork) /\ Len(queue) = 0
  BY DEF WorkInit
<1> QED
  BY <1>1, <1>2, <1>3, <1>4 DEF WorkInit, WorkInv, FlagsOK, QueueOK, WorkersOK, Limited, NoSleepOverWork,
                          NoWaitOverRoom

\* A call of put() begins.
LEMMA GiveKeeps ==
  ASSUME WorkInv, NEW p \in Producer, Give(p)
  PROVE  WorkInv'
<1>1. /\ producer' = [producer EXCEPT ![p] = "put"] /\ producer[p] = "idle"
      /\ put + Cardinality({q \in Producer : producer[q] # "idle"}) < MaxWork
      /\ UNCHANGED <<capacity, pooled, queue, put, running, worker, held, ran, stopper>>
  BY DEF Give
<1>2. FlagsOK /\ FlagsOK' /\ WorkersOK'
  BY <1>1 DEF WorkInv, FlagsOK, WorkersOK
<1>3. Giving' = Giving \cup {p} /\ p \notin Giving /\ Putting' = Putting \cup {p} /\ p \notin Putting
      /\ Blocked' = Blocked
  BY <1>1, <1>2 DEF Giving, Putting, Blocked, FlagsOK
<1>4. Cardinality(Giving') = Cardinality(Giving) + 1 /\ Cardinality(Putting') = Cardinality(Putting) + 1
  BY <1>3, OneMore, Numbers
<1>5. QueueOK'
  BY <1>1, <1>4, Numbers DEF WorkInv, QueueOK, Giving
<1>6. NoSleepOverWork'
  BY <1>1 DEF WorkInv, NoSleepOverWork, Asleep
<1>7. NoWaitOverRoom'
  <2>1. capacity \in Nat /\ Len(queue) \in Nat
    BY <1>2, Numbers DEF FlagsOK, WorkInv, QueueOK
  <2> QED
    BY <1>1, <1>3, <1>4, <2>1, Numbers DEF WorkInv, NoWaitOverRoom, Putting
<1> QED
  BY <1>1, <1>2, <1>3, <1>5, <1>6, <1>7 DEF WorkInv, Limited

(* A thread goes from one state to another.                                 *)

LEMMA WorkerGoes ==
  ASSUME WorkersOK, NEW w \in Worker, NEW x \in {"check", "take", "asleep", "run", "exit"},
         worker' = [worker EXCEPT ![w] = x]
  PROVE  /\ worker' \in [Worker -> {"check", "take", "asleep", "run", "exit"}]
         /\ Asleep' = IF x = "asleep" THEN Asleep \cup {w} ELSE Asleep \ {w}
         /\ Taking' = IF x = "take" THEN Taking \cup {w} ELSE Taking \ {w}
BY DEF WorkersOK, Asleep, Taking

LEMMA ProducerGoes ==
  ASSUME FlagsOK, NEW p \in Producer, NEW x \in {"idle", "put", "blocked"},
         producer' = [producer EXCEPT ![p] = x]
  PROVE  /\ producer' \in [Producer -> {"idle", "put", "blocked"}]
         /\ Blocked' = IF x = "blocked" THEN Blocked \cup {p} ELSE Blocked \ {p}
         /\ Putting' = IF x = "put" THEN Putting \cup {p} ELSE Putting \ {p}
         /\ Giving' = IF x # "idle" THEN Giving \cup {p} ELSE Giving \ {p}
BY DEF FlagsOK, Blocked, Putting, Giving

\* One worker that slept is on its way, or none slept.
LEMMA WorkerNotified ==
  ASSUME WorkersOK, NotifyWorker
  PROVE  /\ worker' \in [Worker -> {"check", "take", "asleep", "run", "exit"}]
         /\ \A w \in Worker : worker'[w] = "run" <=> worker[w] = "run"
         /\ Asleep' # {} => Cardinality(Taking') = Cardinality(Taking) + 1
<1>1. CASE Asleep = {}
  <2>1. worker' = worker
    BY <1>1 DEF NotifyWorker, Notify
  <2> QED
    BY <1>1, <2>1 DEF WorkersOK, Asleep
<1>2. CASE Asleep # {}
  <2>1. PICK t \in Asleep : worker' = [worker EXCEPT ![t] = "take"]
    BY <1>2 DEF NotifyWorker, Notify
  <2>2. t \in Worker /\ worker[t] = "asleep" /\ t \notin Taking
    BY <2>1 DEF Asleep, Taking
  <2>3. Taking' = Taking \cup {t}
    BY <2>1, <2>2, WorkerGoes
  <2>4. Cardinality(Taking') = Cardinality(Taking) + 1
    BY <2>2, <2>3, OneMore, Numbers
  <2>5. \A w \in Worker : worker'[w] = "run" <=> worker[w] = "run"
    BY <2>1, <2>2 DEF WorkersOK
  <2> QED
    BY <2>1, <2>2, <2>4, <2>5, WorkerGoes
<1> QED
  BY <1>1, <1>2

LEMMA ProducerNotified ==
  ASSUME FlagsOK, NotifyProducer
  PROVE  /\ producer' \in [Producer -> {"idle", "put", "blocked"}]
         /\ Giving' = Giving /\ Blocked' \subseteq Blocked
         /\ Blocked' # {} => Cardinality(Putting') = Cardinality(Putting) + 1
<1>1. CASE Blocked = {}
  <2>1. producer' = producer
    BY <1>1 DEF NotifyProducer, Notify
  <2> QED
    BY <1>1, <2>1 DEF FlagsOK, Blocked, Giving
<1>2. CASE Blocked # {}
  <2>1. PICK t \in Blocked : producer' = [producer EXCEPT ![t] = "put"]
    BY <1>2 DEF NotifyProducer, Notify
  <2>2. t \in Producer /\ producer[t] = "blocked" /\ t \notin Putting /\ t \in Giving
    BY <2>1 DEF Blocked, Putting, Giving
  <2>3. /\ producer' \in [Producer -> {"idle", "put", "blocked"}]
        /\ Putting' = Putting \cup {t} /\ Giving' = Giving \cup {t} /\ Blocked' = Blocked \ {t}
    BY <2>1, <2>2, ProducerGoes
  <2>4. Cardinality(Putting') = Cardinality(Putting) + 1
    BY <2>2, <2>3, OneMore, Numbers
  <2> QED
    BY <2>2, <2>3, <2>4
<1> QED
  BY <1>1, <1>2

LEMMA Queues ==
  ASSUME NEW q \in Seq(1 .. MaxWork), NEW x \in 1 .. MaxWork
  PROVE  /\ Len(q) \in Nat
         /\ Append(q, x) \in Seq(1 .. MaxWork) /\ Len(Append(q, x)) = Len(q) + 1
         /\ q # <<>> => /\ Len(q) > 0 /\ Head(q) \in 1 .. MaxWork
                        /\ Tail(q) \in Seq(1 .. MaxWork) /\ Len(Tail(q)) = Len(q) - 1
         /\ q = <<>> => Len(q) = 0
<1>1. Len(q) \in Nat /\ (q = <<>> => Len(q) = 0)
  OBVIOUS
<1>2. Append(q, x) \in Seq(1 .. MaxWork) /\ Len(Append(q, x)) = Len(q) + 1
  BY AppendProperties
<1>3. ASSUME q # <<>>
      PROVE  /\ Len(q) > 0 /\ Head(q) \in 1 .. MaxWork
             /\ Tail(q) \in Seq(1 .. MaxWork) /\ Len(Tail(q)) = Len(q) - 1
  <2>1. Len(q) > 0
    BY <1>3, EmptySeq
  <2>2. Head(q) \in 1 .. MaxWork /\ Tail(q) \in Seq(1 .. MaxWork)
    BY <1>3, HeadTailProperties
  <2>3. Len(Tail(q)) = Len(q) - 1
    BY <1>3, HeadTailProperties
  <2> QED
    BY <2>1, <2>2, <2>3
<1> QED
  BY <1>1, <1>2, <1>3

\* put(): the work goes into the queue, or the producer waits.
LEMMA PutKeeps ==
  ASSUME WorkInv, NEW p \in Producer, Put(p)
  PROVE  WorkInv'
<1>1. /\ producer[p] = "put" /\ p \in Putting /\ p \in Giving
      /\ UNCHANGED <<capacity, pooled, running, held, ran, stopper>>
      /\ FlagsOK /\ QueueOK /\ WorkersOK /\ Limited /\ NoSleepOverWork /\ NoWaitOverRoom
  BY DEF Put, WorkInv, Putting, Giving
<1>2. capacity \in Nat /\ MaxWork \in Nat /\ put \in Nat /\ Len(queue) \in Nat
      /\ Cardinality(Giving) \in Nat /\ Cardinality(Putting) \in Nat
  BY <1>1, Numbers DEF FlagsOK, QueueOK
<1>3. Cardinality(Putting \ {p}) = Cardinality(Putting) - 1
      /\ Cardinality(Giving \ {p}) = Cardinality(Giving) - 1
      /\ Cardinality(Putting \ {p}) \in Nat /\ Cardinality(Giving \ {p}) \in Nat
  <2>1. Putting \ {p} \in SUBSET Producer /\ Giving \ {p} \in SUBSET Producer
    BY DEF Putting, Giving
  <2> QED
    BY <1>1, <2>1, OneLess, Numbers, Counted, ThreadsAreFew
<1>4. CASE IsFull
  <2>1. producer' = [producer EXCEPT ![p] = "blocked"] /\ UNCHANGED <<queue, put, worker>>
    BY <1>4 DEF Put
  <2>2. /\ producer' \in [Producer -> {"idle", "put", "blocked"}]
        /\ Putting' = Putting \ {p} /\ Giving' = Giving \cup {p}
    BY <1>1, <2>1, ProducerGoes
  <2>3. Giving' = Giving /\ Cardinality(Putting') \in Nat
    BY <1>1, <1>3, <2>2
  <2>4. capacity > 0 /\ capacity - Len(queue) <= 0
    BY <1>2, <1>4 DEF IsFull
  <2>5. NoWaitOverRoom'
    BY <1>1, <1>2, <2>1, <2>3, <2>4 DEF NoWaitOverRoom, Putting
  <2>6. FlagsOK' /\ WorkersOK' /\ NoSleepOverWork' /\ Limited'
    BY <1>1, <2>1, <2>2, <2>4 DEF FlagsOK, WorkersOK, NoSleepOverWork, Asleep, Limited
  <2>7. QueueOK'
    BY <1>1, <2>1, <2>3 DEF QueueOK
  <2> QED
    BY <2>5, <2>6, <2>7 DEF WorkInv
<1>5. CASE ~IsFull
  <2>1. /\ put' = put + 1 /\ queue' = Append(queue, put') /\ NotifyWorker
        /\ producer' = [producer EXCEPT ![p] = "idle"]
    BY <1>5 DEF Put
  <2>2. /\ producer' \in [Producer -> {"idle", "put", "blocked"}]
        /\ Putting' = Putting \ {p} /\ Giving' = Giving \ {p} /\ Blocked' = Blocked
    <3>1. Blocked \ {p} = Blocked
      BY <1>1 DEF Blocked
    <3> QED
      BY <1>1, <2>1, <3>1, ProducerGoes
  <2>3. put' \in 1 .. MaxWork /\ put' + Cardinality(Giving') <= MaxWork
    BY <1>1, <1>2, <1>3, <2>1, <2>2 DEF QueueOK
  <2>4. queue' \in Seq(1 .. MaxWork) /\ Len(queue') = Len(queue) + 1
    BY <1>1, <2>1, <2>3, Queues DEF QueueOK
  <2>5. capacity > 0 => Len(queue') <= capacity
    BY <1>2, <1>5, <2>4 DEF IsFull
  <2>6. QueueOK'
    BY <1>1, <1>2, <2>3, <2>4, <2>5 DEF QueueOK
  <2>7. FlagsOK' /\ Limited'
    BY <1>1, <2>2 DEF FlagsOK, Limited
  <2>8. WorkersOK'
    BY <1>1, <2>1, WorkerNotified DEF WorkersOK
  <2>9. NoWaitOverRoom'
    <3>1. Blocked # {} => capacity - Len(queue) <= Cardinality(Putting)
      BY <1>1 DEF NoWaitOverRoom, Putting
    <3>2. Blocked' # {} => capacity' - Len(queue') <= Cardinality(Putting')
      BY <1>1, <1>2, <1>3, <2>2, <2>4, <3>1
    <3> QED
      BY <3>2 DEF NoWaitOverRoom, Putting
  <2>10. NoSleepOverWork'
    <3>1. Asleep # {} => Len(queue) <= Cardinality(Taking)
      BY <1>1 DEF NoSleepOverWork, Taking
    <3>2. Asleep' # {} => Asleep # {} /\ Cardinality(Taking') = Cardinality(Taking) + 1
      BY <1>1, <2>1, WorkerNotified DEF NotifyWorker, Notify, Asleep
    <3>3. Asleep' # {} => Len(queue') <= Cardinality(Taking')
      BY <1>2, <2>4, <3>1, <3>2, Numbers
    <3> QED
      BY <3>3 DEF NoSleepOverWork, Taking
  <2> QED
    BY <2>6, <2>7, <2>8, <2>9, <2>10 DEF WorkInv
<1> QED
  BY <1>4, <1>5

\* take(): work is taken and a producer notified, or there is none.
LEMMA TakeKeeps ==
  ASSUME WorkInv, NEW w \in Worker, Take(w)
  PROVE  WorkInv'
<1>1. /\ worker[w] = "take" /\ w \in Taking
      /\ UNCHANGED <<capacity, pooled, put, running, ran, stopper>>
      /\ FlagsOK /\ QueueOK /\ WorkersOK /\ Limited /\ NoSleepOverWork /\ NoWaitOverRoom
  BY DEF Take, WorkInv, Taking
<1>2. capacity \in Nat /\ MaxWork \in Nat /\ put \in Nat /\ Len(queue) \in Nat
      /\ queue \in Seq(1 .. MaxWork)
  BY <1>1, Numbers DEF FlagsOK, QueueOK
<1>3. Cardinality(Taking \ {w}) = Cardinality(Taking) - 1 /\ Cardinality(Taking \ {w}) \in Nat
  <2>1. Taking \ {w} \in SUBSET Worker
    BY DEF Taking
  <2> QED
    BY <1>1, <2>1, OneLess, Numbers, Counted, ThreadsAreFew
<1>4. CASE queue # <<>>
  <2>1. /\ queue' = Tail(queue) /\ worker' = [worker EXCEPT ![w] = "run"]
        /\ held' = [held EXCEPT ![w] = Head(queue)] /\ NotifyProducer
    BY <1>4 DEF Take
  <2>2. MaxWork \in 1 .. MaxWork
    <3>1. Head(queue) \in 1 .. MaxWork
      BY <1>2, <1>4
    <3> QED
      BY <1>2, <3>1
  <2>3. /\ queue' \in Seq(1 .. MaxWork) /\ Len(queue') = Len(queue) - 1 /\ Len(queue) > 0
        /\ Head(queue) \in 1 .. MaxWork
    BY <1>2, <1>4, <2>1, <2>2, Queues
  <2>4. /\ worker' \in [Worker -> {"check", "take", "asleep", "run", "exit"}]
        /\ Taking' = Taking \ {w} /\ Asleep' = Asleep
    <3>1. Asleep \ {w} = Asleep
      BY <1>1 DEF Asleep
    <3> QED
      BY <1>1, <2>1, <3>1, WorkerGoes
  <2>5. /\ producer' \in [Producer -> {"idle", "put", "blocked"}]
        /\ Giving' = Giving /\ Blocked' \subseteq Blocked
        /\ Blocked' # {} => Cardinality(Putting') = Cardinality(Putting) + 1
    BY <1>1, <2>1, ProducerNotified
  <2>6. FlagsOK' /\ Limited'
    BY <1>1, <2>5 DEF FlagsOK, Limited
  <2>7. capacity > 0 => Len(queue') <= capacity
    BY <1>1, <1>2, <2>3 DEF QueueOK
  <2>8. QueueOK'
    BY <1>1, <2>3, <2>5, <2>7 DEF QueueOK
  <2>9. WorkersOK'
    <3>1. held' \in [Worker -> 0 .. MaxWork]
      BY <1>1, <1>2, <2>1, <2>3 DEF WorkersOK
    <3>2. ASSUME NEW v \in Worker PROVE held'[v] > 0 <=> worker'[v] = "run"
      BY <1>1, <2>1, <2>3 DEF WorkersOK
    <3> QED
      BY <2>4, <3>1, <3>2 DEF WorkersOK
  <2>10. NoSleepOverWork'
    <3>1. Asleep # {} => Len(queue) <= Cardinality(Taking)
      BY <1>1 DEF NoSleepOverWork, Taking
    <3>2. Asleep # {} => Len(queue) - 1 <= Cardinality(Taking) - 1
      BY <1>2, <3>1, Numbers
    <3>3. Len(queue') = Len(queue) - 1 /\ Cardinality(Taking') = Cardinality(Taking) - 1
      BY <1>3, <2>3, <2>4
    <3>4. Asleep' # {} => Len(queue') <= Cardinality(Taking')
      BY <2>4, <3>2, <3>3
    <3> QED
      BY <3>4, Zenon DEF NoSleepOverWork, Taking
  <2>11. NoWaitOverRoom'
    <3>1. Blocked # {} => capacity - Len(queue) <= Cardinality(Putting)
      BY <1>1 DEF NoWaitOverRoom, Putting
    <3>2. Blocked' # {} => capacity' - Len(queue') <= Cardinality(Putting')
      BY <1>1, <1>2, <2>3, <2>5, <3>1, Numbers
    <3> QED
      BY <3>2 DEF NoWaitOverRoom, Putting
  <2> QED
    BY <2>6, <2>8, <2>9, <2>10, <2>11 DEF WorkInv
<1>5. CASE queue = <<>>
  <2>1. worker' = [worker EXCEPT ![w] = IF running THEN "asleep" ELSE "check"]
        /\ UNCHANGED <<queue, held, producer>>
    BY <1>5 DEF Take
  <2> DEFINE x == IF running THEN "asleep" ELSE "check"
  <2>2. x \in {"asleep", "check"} /\ worker' = [worker EXCEPT ![w] = x]
    BY <2>1
  <2>3. worker' \in [Worker -> {"check", "take", "asleep", "run", "exit"}] /\ Taking' = Taking \ {w}
    <3> HIDE DEF x
    <3> QED
      BY <1>1, <2>2, WorkerGoes
  <2>4. WorkersOK'
    <3>1. ASSUME NEW v \in Worker PROVE held'[v] > 0 <=> worker'[v] = "run"
      BY <1>1, <2>1 DEF WorkersOK
    <3> QED
      BY <1>1, <2>1, <2>3, <3>1 DEF WorkersOK
  <2>5. NoSleepOverWork'
    <3>1. Len(queue') = 0 /\ Cardinality(Taking') \in Nat
      BY <1>3, <1>5, <2>1, <2>3
    <3> QED
      BY <3>1 DEF NoSleepOverWork, Taking
  <2>6. NoWaitOverRoom' /\ FlagsOK' /\ QueueOK' /\ Limited'
    BY <1>1, <2>1 DEF NoWaitOverRoom, FlagsOK, QueueOK, Limited, Blocked, Giving
  <2> QED
    BY <2>4, <2>5, <2>6 DEF WorkInv
<1> QED
  BY <1>4, <1>5

\* A worker looks at running_, or runs its work.
LEMMA WorkerKeeps ==
  ASSUME WorkInv, NEW w \in Worker, Check(w) \/ Run(w)
  PROVE  WorkInv'
<1>1. FlagsOK /\ QueueOK /\ WorkersOK /\ Limited /\ NoSleepOverWork /\ NoWaitOverRoom
  BY DEF WorkInv
<1>2. PICK x \in {"check", "take", "exit"} :
        /\ worker' = [worker EXCEPT ![w] = x] /\ worker[w] \notin {"take", "asleep"}
        /\ UNCHANGED <<capacity, pooled, queue, put, running, producer, stopper>>
  <2>1. CASE Check(w)
    BY <2>1 DEF Check
  <2>2. CASE Run(w)
    BY <2>2 DEF Run
  <2> QED
    BY <2>1, <2>2
<1>3. /\ worker' \in [Worker -> {"check", "take", "asleep", "run", "exit"}]
      /\ Asleep' = Asleep /\ (Taking' = Taking \cup {w} \/ Taking' = Taking) /\ w \notin Taking
  <2>1. w \notin Asleep /\ w \notin Taking
    BY <1>2 DEF Asleep, Taking
  <2>2. /\ worker' \in [Worker -> {"check", "take", "asleep", "run", "exit"}]
        /\ Asleep' = IF x = "asleep" THEN Asleep \cup {w} ELSE Asleep \ {w}
        /\ Taking' = IF x = "take" THEN Taking \cup {w} ELSE Taking \ {w}
    BY <1>1, <1>2, WorkerGoes
  <2> QED
    BY <2>1, <2>2
<1>4. Cardinality(Taking') \in Nat /\ Cardinality(Taking') >= Cardinality(Taking)
  BY <1>3, OneMore, Numbers
<1>5. WorkersOK'
  <2>1. CASE Check(w)
    <3>1. ASSUME NEW v \in Worker PROVE held'[v] > 0 <=> worker'[v] = "run"
      BY <1>1, <2>1 DEF WorkersOK, Check
    <3> QED
      BY <1>1, <1>3, <2>1, <3>1 DEF WorkersOK, Check
  <2>2. CASE Run(w)
    <3>1. held' = [held EXCEPT ![w] = 0] /\ worker' = [worker EXCEPT ![w] = "check"]
      BY <2>2 DEF Run
    <3>2. ASSUME NEW v \in Worker PROVE held'[v] > 0 <=> worker'[v] = "run"
      BY <1>1, <3>1 DEF WorkersOK
    <3>3. held' \in [Worker -> 0 .. MaxWork]
      BY <1>1, <3>1, CapacitiesAreNumbers DEF WorkersOK
    <3> QED
      BY <1>3, <3>2, <3>3 DEF WorkersOK
  <2> QED
    BY <2>1, <2>2
<1>6. NoSleepOverWork'
  <2>1. Asleep # {} => Len(queue) <= Cardinality(Taking)
    BY <1>1 DEF NoSleepOverWork, Taking
  <2>2. Len(queue) \in Nat
    BY <1>1, Queues DEF QueueOK
  <2>3. Asleep' # {} => Len(queue') <= Cardinality(Taking')
    BY <1>2, <1>3, <1>4, <2>1, <2>2, Numbers
  <2> QED
    BY <2>3 DEF NoSleepOverWork, Taking
<1>7. NoWaitOverRoom' /\ FlagsOK' /\ QueueOK' /\ Limited'
  BY <1>1, <1>2 DEF NoWaitOverRoom, FlagsOK, QueueOK, Limited, Blocked, Giving
<1> QED
  BY <1>5, <1>6, <1>7 DEF WorkInv

\* A wait returns unasked.
LEMMA SpuriousKeeps == WorkInv /\ Spurious => WorkInv'
<1> SUFFICES ASSUME WorkInv, Spurious PROVE WorkInv'
  OBVIOUS
<1>1. /\ FlagsOK /\ QueueOK /\ WorkersOK /\ Limited /\ NoSleepOverWork /\ NoWaitOverRoom
      /\ UNCHANGED <<capacity, pooled, queue, put, running, held, ran, stopper>>
  BY DEF WorkInv, Spurious
<1>2. Len(queue) \in Nat /\ capacity \in Nat
  BY <1>1, Numbers DEF QueueOK, FlagsOK
<1>3. ASSUME NEW w \in Asleep, worker' = [worker EXCEPT ![w] = "take"], UNCHANGED producer
      PROVE  WorkInv'
  <2>1. w \in Worker /\ worker[w] = "asleep" /\ w \notin Taking
    BY <1>3 DEF Asleep, Taking
  <2>2. /\ worker' \in [Worker -> {"check", "take", "asleep", "run", "exit"}]
        /\ Taking' = Taking \cup {w}
    BY <1>1, <1>3, <2>1, WorkerGoes
  <2>3. Cardinality(Taking') = Cardinality(Taking) + 1
    BY <2>1, <2>2, OneMore, Numbers
  <2>4. Asleep # {} => Len(queue) <= Cardinality(Taking)
    BY <1>1 DEF NoSleepOverWork, Taking
  <2>5. Len(queue') <= Cardinality(Taking')
    BY <1>1, <1>2, <1>3, <2>3, <2>4, Numbers
  <2>6. WorkersOK'
    <3>1. ASSUME NEW v \in Worker PROVE held'[v] > 0 <=> worker'[v] = "run"
      BY <1>1, <1>3, <2>1 DEF WorkersOK
    <3> QED
      BY <1>1, <2>2, <3>1 DEF WorkersOK
  <2>7. NoSleepOverWork'
    BY <2>5 DEF NoSleepOverWork, Taking
  <2> QED
    BY <1>1, <1>3, <2>6, <2>7
    DEF WorkInv, FlagsOK, QueueOK, Limited, NoWaitOverRoom, Blocked, Giving
<1>4. ASSUME NEW p \in Blocked, producer' = [producer EXCEPT ![p] = "put"], UNCHANGED worker
      PROVE  WorkInv'
  <2>1. p \in Producer /\ producer[p] = "blocked" /\ p \notin Putting /\ p \in Giving
    BY <1>4 DEF Blocked, Putting, Giving
  <2>2. /\ producer' \in [Producer -> {"idle", "put", "blocked"}]
        /\ Putting' = Putting \cup {p} /\ Giving' = Giving \cup {p} /\ Blocked' = Blocked \ {p}
    BY <1>1, <1>4, <2>1, ProducerGoes
  <2>3. Cardinality(Putting') = Cardinality(Putting) + 1 /\ Giving' = Giving
    BY <2>1, <2>2, OneMore, Numbers
  <2>4. Blocked # {} => capacity - Len(queue) <= Cardinality(Putting)
    BY <1>1 DEF NoWaitOverRoom, Putting
  <2>5. Blocked # {} /\ capacity' - Len(queue') <= Cardinality(Putting')
    BY <1>1, <1>2, <1>4, <2>3, <2>4, Numbers
  <2>6. NoWaitOverRoom'
    BY <2>5 DEF NoWaitOverRoom, Putting
  <2>7. FlagsOK' /\ Limited' /\ QueueOK'
    BY <1>1, <1>4, <2>2, <2>3 DEF FlagsOK, Limited, QueueOK
  <2>8. WorkersOK' /\ NoSleepOverWork'
    BY <1>1, <1>4 DEF WorkersOK, NoSleepOverWork, Asleep
  <2> QED
    BY <2>6, <2>7, <2>8 DEF WorkInv
<1> QED
  BY <1>3, <1>4 DEF Spurious

\* stop() wakes every worker, and waits for them.
LEMMA StopKeeps == WorkInv /\ (Stop \/ Joined) => WorkInv'
<1> SUFFICES ASSUME WorkInv, Stop \/ Joined PROVE WorkInv'
  OBVIOUS
<1>1. FlagsOK /\ QueueOK /\ WorkersOK /\ Limited /\ NoSleepOverWork /\ NoWaitOverRoom
  BY DEF WorkInv
<1>2. CASE Stop
  <2>1. /\ running' = FALSE /\ worker' = NotifyAll /\ stopper' = "join"
        /\ UNCHANGED <<capacity, pooled, queue, put, held, producer, ran>>
    BY <1>2 DEF Stop
  <2>2. /\ worker' \in [Worker -> {"check", "take", "asleep", "run", "exit"}]
        /\ \A w \in Worker : worker'[w] # "asleep" /\ (worker'[w] = "run" <=> worker[w] = "run")
    BY <1>1, <2>1 DEF NotifyAll, WorkersOK, Asleep
  <2>3. Asleep' = {}
    BY <2>2 DEF Asleep
  <2>4. NoSleepOverWork'
    BY <2>3 DEF NoSleepOverWork
  <2>5. WorkersOK'
    BY <1>1, <2>1, <2>2 DEF WorkersOK
  <2> QED
    BY <1>1, <2>1, <2>4, <2>5
    DEF WorkInv, FlagsOK, QueueOK, Limited, NoWaitOverRoom, Blocked, Giving
<1>3. CASE Joined
  <2>1. stopper' = "joined"
        /\ UNCHANGED <<capacity, pooled, queue, put, running, worker, held, producer, ran>>
    BY <1>3 DEF Joined
  <2> QED
    BY <1>1, <2>1 DEF WorkInv, FlagsOK, QueueOK, Limited, WorkersOK, NoSleepOverWork, NoWaitOverRoom,
                      Asleep, Blocked, Giving
<1> QED
  BY <1>2, <1>3

LEMMA WorkKept == WorkInv /\ (WorkNext \/ UNCHANGED workVars) => WorkInv'
<1>1. WorkInv /\ UNCHANGED workVars => WorkInv'
  BY DEF WorkInv, workVars, FlagsOK, QueueOK, Limited, WorkersOK, NoSleepOverWork, NoWaitOverRoom,
         Asleep, Blocked, Giving
<1>2. WorkInv /\ WorkNext => WorkInv'
  BY GiveKeeps, PutKeeps, TakeKeeps, WorkerKeeps, SpuriousKeeps, StopKeeps DEF WorkNext, WorkerGoesOn
<1> QED
  BY <1>1, <1>2

LEMMA WorkSafe == WorkInv => WorkTypeOK /\ NoSleepOverWork /\ NoWaitOverRoom
<1> SUFFICES ASSUME WorkInv PROVE WorkTypeOK
  BY DEF WorkInv
<1>1. put \in 0 .. MaxWork
  BY Numbers DEF WorkInv, QueueOK
<1> QED
  BY <1>1 DEF WorkInv, FlagsOK, QueueOK, WorkersOK, WorkTypeOK

-----------------------------------------------------------------------------
(* start(): who is between lock() and unlock() has the mutex, and the latch *)
(* and the thread's id follow the child.                                    *)

PlacesOK ==
    /\ pc \in [{Starter, Child} -> {"new", "wait", "test", "wake", "unlock", "started", "gone",
                                    "aborted", "tid", "lock", "down", "notify", "func", "finished"}]
    /\ pc[Starter] \in {"new", "wait", "test", "wake", "started", "gone", "aborted"}
    /\ pc[Child] \in {"new", "tid", "lock", "down", "notify", "unlock", "func", "finished"}

\* The mutex, and who is in a critical section of it.
MutexOK ==
    /\ mutex \in {Nobody, Starter, Child} /\ holder = mutex
    /\ mutex = Starter <=> pc[Starter] = "test"
    /\ mutex = Child <=> pc[Child] \in {"down", "notify", "unlock"}

LatchOK ==
    /\ count = IF pc[Child] \in {"new", "tid", "lock", "down"} THEN 1 ELSE 0
    /\ tid = IF pc[Child] \in {"new", "tid"} THEN 0 ELSE 1
    /\ sleeping \in BOOLEAN /\ joins \in BOOLEAN /\ alive \in BOOLEAN

\* The starter is in start() until the latch is down and the mutex is free again.
StarterWaits ==
    /\ pc[Starter] \in {"started", "gone"} => pc[Child] \in {"func", "finished"}
    /\ pc[Starter] # "gone" => alive
    /\ pc[Starter] \in {"new", "aborted"} => pc[Child] = "new"

StartInv == PlacesOK /\ MutexOK /\ LatchOK /\ StarterWaits

LEMMA StartStarts == StartInit => StartInv
BY ThreadsDiffer DEF StartInit, StartInv, PlacesOK, MutexOK, LatchOK, StarterWaits

LEMMA StartKept == StartInv /\ (StartNext \/ UNCHANGED startVars) => StartInv'
<1> SUFFICES ASSUME StartInv, StartNext \/ UNCHANGED startVars PROVE StartInv'
  OBVIOUS
<1> USE ThreadsDiffer DEF At, Goes, Locked, Unlocked, StartInv, PlacesOK, MutexOK, LatchOK, StarterWaits
<1>1. CASE Create
  BY <1>1 DEF Create
<1>2. CASE CreateFails
  BY <1>2 DEF CreateFails
<1>3. CASE WaitLocks
  BY <1>3 DEF WaitLocks
<1>4. CASE WaitSleeps
  BY <1>4 DEF WaitSleeps, UnassignGuard
<1>5. CASE WaitWakes
  BY <1>5 DEF WaitWakes, BackToTheTest
<1>6. CASE WaitIsOver
  BY <1>6 DEF WaitIsOver
<1>7. CASE DestroyThread
  BY <1>7 DEF DestroyThread
<1>8. CASE SetTid
  BY <1>8 DEF SetTid
<1>9. CASE CountDownLocks
  BY <1>9 DEF CountDownLocks
<1>10. CASE CountDown
  BY <1>10 DEF CountDown, StaysLocked
<1>11. CASE NotifyWaiters
  BY <1>11 DEF NotifyWaiters, NotifiesAll
<1>12. CASE CountDownUnlocks
  BY <1>12 DEF CountDownUnlocks
<1>13. CASE Finish
  BY <1>13 DEF Finish
<1>14. CASE Wakes
  BY <1>14 DEF Wakes
<1>15. CASE UNCHANGED startVars
  BY <1>15 DEF startVars
<1> QED
  BY <1>1, <1>2, <1>3, <1>4, <1>5, <1>6, <1>7, <1>8, <1>9, <1>10, <1>11, <1>12, <1>13, <1>14, <1>15
  DEF StartNext, StarterGoesOn, ChildGoesOn

LEMMA StartSafe == StartInv => StartTypeOK /\ HolderTrue /\ StartedRightly
BY ThreadsDiffer DEF StartInv, PlacesOK, MutexOK, LatchOK, StarterWaits, StartTypeOK, HolderTrue,
                     StartedRightly

-----------------------------------------------------------------------------
\* Whatever the number of workers and producers, nobody sleeps over work or room, and
\* start() returns with the thread's id and with its latch no longer in use
\* (muduo/base/ThreadPool.cc, BlockingQueue.h, Thread.cc, CountDownLatch.cc).
THEOREM ThreadsKept == ThreadsSpec => []ThreadsSafe
<1>1. ThreadsInit => WorkInv /\ StartInv
  BY WorkStarts, StartStarts DEF ThreadsInit
<1>2. WorkInv /\ StartInv /\ [ThreadsNext]_<<workVars, startVars>> => (WorkInv /\ StartInv)'
  BY WorkKept, StartKept DEF ThreadsNext
<1>3. WorkInv /\ StartInv => ThreadsSafe
  BY WorkSafe, StartSafe DEF ThreadsSafe
<1> QED
  BY <1>1, <1>2, <1>3, PTL DEF ThreadsSpec

-----------------------------------------------------------------------------
(* Sequences without repetition.                                            *)

Distinct(s) == \A i, j \in DOMAIN s : s[i] = s[j] => i = j

LEMMA OneTaken ==
  ASSUME NEW S, NEW s \in Seq(S), s # <<>>
  PROVE  /\ Tail(s) \in Seq(S) /\ Head(s) \in S
         /\ ToSet(s) = ToSet(Tail(s)) \cup {Head(s)}
         /\ Distinct(s) => Distinct(Tail(s)) /\ Head(s) \notin ToSet(Tail(s))
<1>1. Tail(s) \in Seq(S) /\ Head(s) \in S /\ Len(Tail(s)) = Len(s) - 1 /\ Head(s) = s[1]
  BY HeadTailProperties
<1>2. Len(s) \in Nat /\ Len(s) > 0 /\ DOMAIN s = 1 .. Len(s) /\ DOMAIN Tail(s) = 1 .. Len(s) - 1
  BY <1>1, EmptySeq, LenProperties
<1>3. \A i \in 1 .. Len(s) - 1 : Tail(s)[i] = s[i + 1]
  BY <1>1, HeadTailProperties
<1>4. ToSet(s) = ToSet(Tail(s)) \cup {Head(s)}
  <2>1. ASSUME NEW i \in DOMAIN s PROVE s[i] \in ToSet(Tail(s)) \cup {Head(s)}
    <3>1. CASE i = 1
      BY <1>1, <3>1
    <3>2. CASE i # 1
      <4>1. i - 1 \in DOMAIN Tail(s) /\ Tail(s)[i - 1] = s[i]
        BY <1>2, <1>3, <2>1, <3>2
      <4> QED
        BY <4>1 DEF ToSet
    <3> QED
      BY <3>1, <3>2
  <2>2. ASSUME NEW i \in DOMAIN Tail(s) PROVE Tail(s)[i] \in ToSet(s)
    <3>1. i + 1 \in DOMAIN s /\ Tail(s)[i] = s[i + 1]
      BY <1>2, <1>3, <2>2
    <3> QED
      BY <3>1 DEF ToSet
  <2>3. Head(s) \in ToSet(s)
    BY <1>1, <1>2 DEF ToSet
  <2> QED
    BY <2>1, <2>2, <2>3 DEF ToSet
<1>5. ASSUME Distinct(s) PROVE Distinct(Tail(s)) /\ Head(s) \notin ToSet(Tail(s))
  <2>1. ASSUME NEW i \in DOMAIN Tail(s) PROVE Tail(s)[i] # s[1]
    <3>1. i + 1 \in DOMAIN s /\ Tail(s)[i] = s[i + 1] /\ 1 \in DOMAIN s /\ i + 1 # 1
      BY <1>2, <1>3, <2>1
    <3> QED
      BY <1>5, <3>1 DEF Distinct
  <2>2. ASSUME NEW i \in DOMAIN Tail(s), NEW j \in DOMAIN Tail(s), Tail(s)[i] = Tail(s)[j] PROVE i = j
    <3>1. i + 1 \in DOMAIN s /\ Tail(s)[i] = s[i + 1] /\ j + 1 \in DOMAIN s /\ Tail(s)[j] = s[j + 1]
      BY <1>2, <1>3, <2>2
    <3>2. i + 1 = j + 1
      BY <1>5, <2>2, <3>1 DEF Distinct
    <3> QED
      BY <1>2, <2>2, <3>2
  <2> QED
    BY <1>1, <2>1, <2>2 DEF Distinct, ToSet
<1> QED
  BY <1>1, <1>4, <1>5

LEMMA OneAdded ==
  ASSUME NEW S, NEW s \in Seq(S), NEW x \in S
  PROVE  /\ Append(s, x) \in Seq(S)
         /\ ToSet(Append(s, x)) = ToSet(s) \cup {x}
         /\ Distinct(s) /\ x \notin ToSet(s) => Distinct(Append(s, x))
<1> DEFINE a == Append(s, x)
<1>1. /\ a \in Seq(S) /\ Len(a) = Len(s) + 1 /\ a[Len(s) + 1] = x
      /\ \A i \in 1 .. Len(s) : a[i] = s[i]
  BY AppendProperties
<1>2. Len(s) \in Nat /\ DOMAIN s = 1 .. Len(s) /\ DOMAIN a = 1 .. Len(s) + 1
  <2>1. DOMAIN a = 1 .. Len(a)
    BY <1>1, LenProperties
  <2> QED
    BY <1>1, <2>1, LenProperties
<1>3. DOMAIN a = DOMAIN s \cup {Len(s) + 1} /\ Len(s) + 1 \notin DOMAIN s
  BY <1>2
<1> HIDE DEF a
<1>4. ToSet(a) = ToSet(s) \cup {x}
  BY <1>1, <1>2, <1>3 DEF ToSet
<1>5. Distinct(s) /\ x \notin ToSet(s) => Distinct(a)
  BY <1>1, <1>2, <1>3 DEF ToSet, Distinct
<1> QED
  BY <1>1, <1>4, <1>5 DEF a

-----------------------------------------------------------------------------
(* RPC: where a call can be.                                                *)

Response == [id : Call, error : BOOLEAN]

RpcTypeOK ==
    /\ id \in 0 .. MaxCalls
    /\ calling \in [RpcCaller -> [at : {"idle", "insert", "send"}, id : 0 .. MaxCalls]]
    /\ outstandings \in SUBSET Call /\ serving \in SUBSET Call
    /\ requests \in Seq(Call) /\ responses \in Seq(Response)
    /\ ranDone \in [Call -> {0, 1}]
    /\ outcome \in [Call -> {"none", "response", "error", "deleted"}]
    /\ rpcLink \in BOOLEAN /\ channel \in BOOLEAN

ResponseIds == {m.id : m \in ToSet(responses)}
Travelling == ToSet(requests) \cup serving \cup ResponseIds

\* No call is in two places.
PlacesApart ==
    /\ \A t, u \in RpcCaller : calling[t].at # "idle" /\ calling[t].id = calling[u].id => t = u
    /\ \A t \in RpcCaller : calling[t].at # "idle" => calling[t].id \notin Travelling
    /\ ToSet(requests) \cap serving = {} /\ ToSet(requests) \cap ResponseIds = {}
    /\ serving \cap ResponseIds = {}
    /\ Distinct(requests) /\ Distinct(responses)
    /\ \A m, n \in ToSet(responses) : m.id = n.id => m = n

\* A call is put down before its request is sent and until its answer is taken.
PutDown ==
    /\ \A t \in RpcCaller :
          /\ calling[t].at = "idle" => calling[t].id = 0
          /\ calling[t].at = "insert" => /\ calling[t].id \in Call /\ calling[t].id \notin outstandings
                                         /\ outcome[calling[t].id] = "none"
          /\ calling[t].at = "send" => calling[t].id \in outstandings
    /\ Travelling \subseteq outstandings

Made == 1 .. id

Outcomes ==
    /\ \A c \in outstandings : outcome[c] = "none" /\ c \in Made
    /\ \A t \in RpcCaller : calling[t].at # "idle" => calling[t].id \in Made
    /\ \A c \in Call : ranDone[c] = 1 <=> outcome[c] \in {"response", "error"}
    /\ \A c \in Call : outcome[c] = "deleted" => ~rpcLink
    /\ \A c \in Call : c \notin Made => outcome[c] = "none"
    /\ rpcLink => \A c \in Made : outcome[c] # "none" \/ c \in Travelling
                                     \/ \E t \in RpcCaller : calling[t].id = c
    /\ ~channel => ~rpcLink /\ \A t \in RpcCaller : calling[t].at = "idle"
    /\ ~rpcLink => requests = <<>> /\ responses = <<>> /\ serving = {}

RpcInv == RpcTypeOK /\ PlacesApart /\ PutDown /\ Outcomes

LEMMA NoneOnTheWay == ToSet(<<>>) = {} /\ Distinct(<<>>)
BY DEF ToSet, Distinct

LEMMA MadeAreCalls == RpcTypeOK => Made \subseteq Call
BY CallsAreNumbered DEF Made, RpcTypeOK, Call

LEMMA RpcStarts == RpcInit => RpcInv
<1> SUFFICES ASSUME RpcInit PROVE RpcInv
  OBVIOUS
<1>1. RpcTypeOK
  BY CallsAreNumbered DEF RpcInit, RpcTypeOK, NoCall
<1>2. Travelling = {} /\ ToSet(requests) = {} /\ ResponseIds = {} /\ serving = {}
  BY NoneOnTheWay DEF RpcInit, Travelling, ResponseIds
<1>3. PlacesApart
  BY <1>2, NoneOnTheWay DEF RpcInit, PlacesApart, NoCall
<1>4. PutDown
  BY <1>2 DEF RpcInit, PutDown, NoCall
<1>5. Made = {}
  BY DEF RpcInit, Made
<1>6. Outcomes
  BY <1>5 DEF RpcInit, Outcomes, NoCall
<1> QED
  BY <1>1, <1>3, <1>4, <1>6 DEF RpcInv

LEMMA CallMethodKeeps ==
  ASSUME RpcInv, NEW t \in RpcCaller, CallMethod(t)
  PROVE  RpcInv'
<1>1. /\ calling[t] = NoCall /\ id < MaxCalls /\ channel /\ id' = id + 1
      /\ calling' = [calling EXCEPT ![t] = [at |-> "insert", id |-> id + 1]]
      /\ UNCHANGED <<outstandings, requests, responses, serving, ranDone, outcome, rpcLink, channel>>
  BY DEF CallMethod, InsertsFirst
<1>2. RpcTypeOK /\ PlacesApart /\ PutDown /\ Outcomes
  BY DEF RpcInv
<1>3. /\ id + 1 \in Call /\ id' \in 0 .. MaxCalls /\ Made' = Made \cup {id + 1} /\ id + 1 \notin Made
      /\ id + 1 \in 0 .. MaxCalls
  BY <1>1, <1>2, CallsAreNumbered DEF RpcTypeOK, Call, Made
<1> DEFINE new == id + 1
<1> HIDE DEF new
<1>4. /\ new \in Call /\ Made' = Made \cup {new} /\ new \notin Made /\ new \in 0 .. MaxCalls
      /\ calling' = [calling EXCEPT ![t] = [at |-> "insert", id |-> new]]
  BY <1>1, <1>3 DEF new
<1>5. RpcTypeOK'
  BY <1>1, <1>2, <1>3, <1>4 DEF RpcTypeOK
<1>6. UNCHANGED <<Travelling, ResponseIds, ToSet(requests)>>
  BY <1>1 DEF Travelling, ResponseIds
<1>7. new \notin outstandings /\ new \notin Travelling /\ outcome[new] = "none"
      /\ \A u \in RpcCaller : calling[u].at # "idle" => calling[u].id # new
  BY <1>2, <1>4 DEF Outcomes, PutDown
<1>8. \A u \in RpcCaller : calling'[u] = IF u = t THEN [at |-> "insert", id |-> new] ELSE calling[u]
  BY <1>2, <1>4 DEF RpcTypeOK
<1>9. PlacesApart'
  <2>1. \A u, v \in RpcCaller : calling'[u].at # "idle" /\ calling'[u].id = calling'[v].id => u = v
    <3>1. ASSUME NEW v \in RpcCaller, v # t PROVE calling[v].id # new
      <4>1. new # 0
        BY <1>4 DEF Call
      <4> QED
        BY <1>2, <1>7, <3>1, <4>1 DEF PutDown
    <3> QED
      BY <1>2, <1>8, <3>1 DEF PlacesApart
  <2>2. \A u \in RpcCaller : calling'[u].at # "idle" => calling'[u].id \notin Travelling'
    BY <1>2, <1>6, <1>7, <1>8 DEF PlacesApart
  <2> QED
    BY <1>1, <1>2, <1>6, <2>1, <2>2 DEF PlacesApart
<1>10. PutDown'
  BY <1>1, <1>2, <1>4, <1>6, <1>7, <1>8 DEF PutDown
<1>11. Outcomes'
  <2>1. \A u \in RpcCaller : calling'[u].at # "idle" => calling'[u].id \in Made'
    BY <1>2, <1>4, <1>8 DEF Outcomes
  <2>2. ASSUME rpcLink', NEW c \in Made'
        PROVE  outcome'[c] # "none" \/ c \in Travelling' \/ \E u \in RpcCaller : calling'[u].id = c
    <3>1. CASE c = new
      BY <1>8, <3>1
    <3>2. CASE c # new
      <4>1. c \in Made /\ rpcLink
        BY <1>1, <1>4, <2>2, <3>2
      <4>2. ASSUME NEW u \in RpcCaller, calling[u].id = c PROVE calling'[u].id = c
        <5>1. c # 0
          BY <4>1, <1>2 DEF Made, RpcTypeOK
        <5>2. u # t
          BY <1>1, <4>2, <5>1 DEF NoCall
        <5> QED
          BY <1>8, <4>2, <5>2
      <4> QED
        BY <1>1, <1>2, <1>6, <4>1, <4>2 DEF Outcomes
    <3> QED
      BY <3>1, <3>2
  <2>3. \A c \in outstandings' : outcome'[c] = "none" /\ c \in Made'
    BY <1>1, <1>2, <1>4 DEF Outcomes
  <2>4. \A c \in Call : c \notin Made' => outcome'[c] = "none"
    BY <1>1, <1>2, <1>4 DEF Outcomes
  <2> QED
    BY <1>1, <1>2, <2>1, <2>2, <2>3, <2>4 DEF Outcomes
<1> QED
  BY <1>5, <1>9, <1>10, <1>11 DEF RpcInv

LEMMA InsertKeeps ==
  ASSUME RpcInv, NEW t \in RpcCaller, InsertCall(t)
  PROVE  RpcInv'
<1> DEFINE k == calling[t].id
<1>1. /\ calling[t].at = "insert" /\ outstandings' = outstandings \cup {k}
      /\ calling' = [calling EXCEPT ![t] = [calling[t] EXCEPT !.at = "send"]]
      /\ UNCHANGED <<id, requests, responses, serving, ranDone, outcome, rpcLink, channel>>
  BY DEF InsertCall, InsertsFirst, Then
<1>2. RpcTypeOK /\ PlacesApart /\ PutDown /\ Outcomes
  BY DEF RpcInv
<1>3. k \in Call /\ k \notin outstandings /\ outcome[k] = "none" /\ k \in Made
  BY <1>1, <1>2 DEF PutDown, Outcomes
<1>4. \A u \in RpcCaller : calling'[u] = IF u = t THEN [at |-> "send", id |-> k] ELSE calling[u]
  BY <1>1, <1>2 DEF RpcTypeOK
<1> HIDE DEF k
<1>5. /\ \A u \in RpcCaller : calling'[u].id = calling[u].id
      /\ \A u \in RpcCaller : calling'[u].at = "idle" <=> calling[u].at = "idle"
  BY <1>1, <1>4 DEF k
<1>6. UNCHANGED <<Travelling, ResponseIds, ToSet(requests), Made>>
  BY <1>1 DEF Travelling, ResponseIds, Made
<1>7. RpcTypeOK'
  BY <1>1, <1>2, <1>3 DEF RpcTypeOK
<1>8. PlacesApart'
  BY <1>1, <1>2, <1>5, <1>6 DEF PlacesApart
<1>9. PutDown'
  <2>1. ASSUME NEW u \in RpcCaller, u # t, calling[u].at = "insert" PROVE calling[u].id # k
    BY <1>1, <1>2, <2>1 DEF PlacesApart, k
  <2> QED
    BY <1>1, <1>2, <1>4, <1>5, <1>6, <2>1 DEF PutDown
<1>10. Outcomes'
  BY <1>1, <1>2, <1>3, <1>5, <1>6 DEF Outcomes
<1> QED
  BY <1>7, <1>8, <1>9, <1>10 DEF RpcInv

LEMMA SendKeeps ==
  ASSUME RpcInv, NEW t \in RpcCaller, SendRequest(t)
  PROVE  RpcInv'
<1> DEFINE k == calling[t].id
<1>1. /\ calling[t].at = "send" /\ calling' = [calling EXCEPT ![t] = NoCall]
      /\ requests' = IF rpcLink THEN Append(requests, k) ELSE requests
      /\ UNCHANGED <<id, outstandings, responses, serving, ranDone, outcome, rpcLink, channel>>
  BY DEF SendRequest, InsertsFirst, Then
<1>2. RpcTypeOK /\ PlacesApart /\ PutDown /\ Outcomes
  BY DEF RpcInv
<1>3. k \in outstandings /\ k \in Call /\ k \notin Travelling /\ k \notin ToSet(requests)
  BY <1>1, <1>2 DEF PutDown, PlacesApart, RpcTypeOK, Travelling
<1>4. \A u \in RpcCaller : calling'[u] = IF u = t THEN NoCall ELSE calling[u]
  BY <1>1, <1>2 DEF RpcTypeOK
<1>5. \A u \in RpcCaller : u # t => calling[u].id # k
  BY <1>1, <1>2 DEF PlacesApart
<1> HIDE DEF k
<1>6. /\ requests' \in Seq(Call) /\ Distinct(requests')
      /\ ToSet(requests') = ToSet(requests) \cup (IF rpcLink THEN {k} ELSE {})
  BY <1>1, <1>2, <1>3, OneAdded DEF RpcTypeOK, PlacesApart
<1>7. /\ ResponseIds' = ResponseIds /\ Made' = Made
      /\ Travelling' = Travelling \cup (IF rpcLink THEN {k} ELSE {})
  BY <1>1, <1>6 DEF Travelling, ResponseIds, Made
<1>8. RpcTypeOK'
  BY <1>1, <1>2, <1>6, CallsAreNumbered DEF RpcTypeOK, NoCall
<1>9. PlacesApart'
  <2>1. \A u, v \in RpcCaller : calling'[u].at # "idle" /\ calling'[u].id = calling'[v].id => u = v
    <3>1. \A u \in RpcCaller : calling[u].at # "idle" => calling[u].id # 0
      <4>1. 0 \notin Call
        BY DEF Call
      <4> QED
        BY <1>2, <4>1 DEF PutDown, RpcTypeOK
    <3> QED
      BY <1>2, <1>4, <3>1 DEF PlacesApart, NoCall
  <2>2. \A u \in RpcCaller : calling'[u].at # "idle" => calling'[u].id \notin Travelling'
    BY <1>2, <1>4, <1>5, <1>7 DEF PlacesApart, NoCall
  <2>3. k \notin serving /\ k \notin ResponseIds
    BY <1>3 DEF Travelling
  <2> QED
    BY <1>1, <1>2, <1>6, <1>7, <2>1, <2>2, <2>3 DEF PlacesApart
<1>10. PutDown'
  BY <1>1, <1>2, <1>3, <1>4, <1>7 DEF PutDown, NoCall
<1>11. Outcomes'
  <2>1. ASSUME rpcLink', NEW c \in Made'
        PROVE  outcome'[c] # "none" \/ c \in Travelling' \/ \E u \in RpcCaller : calling'[u].id = c
    <3>1. CASE c = k
      BY <1>1, <1>7, <2>1, <3>1
    <3>2. ASSUME c # k, NEW u \in RpcCaller, calling[u].id = c PROVE calling'[u].id = c
      BY <1>4, <3>2 DEF k
    <3> QED
      BY <1>1, <1>2, <1>7, <2>1, <3>1, <3>2 DEF Outcomes
  <2>2. \A u \in RpcCaller : calling'[u].at # "idle" => calling[u].at # "idle" /\ calling'[u].id = calling[u].id
    BY <1>4 DEF NoCall
  <2>3. channel /\ (~rpcLink => requests' = requests)
    BY <1>1, <1>2 DEF Outcomes
  <2> QED
    BY <1>1, <1>2, <1>7, <2>1, <2>2, <2>3 DEF Outcomes
<1> QED
  BY <1>8, <1>9, <1>10, <1>11 DEF RpcInv

\* A call goes from one place of its way to the next.
LEMMA MovesOn ==
  ASSUME RpcInv, rpcLink, NEW c \in Travelling,
         UNCHANGED <<id, calling, outstandings, ranDone, outcome, rpcLink, channel>>,
         requests' \in Seq(Call), responses' \in Seq(Response), serving' \in SUBSET Call,
         Distinct(requests'), Distinct(responses'),
         \A m, n \in ToSet(responses') : m.id = n.id => m = n,
         ToSet(requests') \cap serving' = {}, ToSet(requests') \cap ResponseIds' = {},
         serving' \cap ResponseIds' = {}, Travelling' = Travelling
  PROVE  RpcInv'
<1>1. RpcTypeOK /\ PlacesApart /\ PutDown /\ Outcomes
  BY DEF RpcInv
<1>2. RpcTypeOK'
  BY <1>1 DEF RpcTypeOK
<1>3. PlacesApart'
  BY <1>1 DEF PlacesApart
<1>4. PutDown'
  BY <1>1 DEF PutDown
<1>5. Made' = Made
  BY DEF Made
<1>6. Outcomes'
  BY <1>1, <1>5 DEF Outcomes
<1> QED
  BY <1>2, <1>3, <1>4, <1>6 DEF RpcInv

LEMMA AnswerAdded ==
  ASSUME RpcInv, NEW c \in Call, NEW e \in BOOLEAN, c \notin ResponseIds,
         responses' = Append(responses, [id |-> c, error |-> e])
  PROVE  /\ responses' \in Seq(Response) /\ Distinct(responses')
         /\ ResponseIds' = ResponseIds \cup {c}
         /\ \A m, n \in ToSet(responses') : m.id = n.id => m = n
<1> DEFINE r == [id |-> c, error |-> e]
<1>1. r \in Response /\ r.id = c
  BY DEF Response
<1>2. responses \in Seq(Response) /\ Distinct(responses) /\ \A m, n \in ToSet(responses) : m.id = n.id => m = n
  BY DEF RpcInv, RpcTypeOK, PlacesApart
<1>3. r \notin ToSet(responses)
  BY <1>1 DEF ResponseIds
<1> HIDE DEF r
<1>4. responses' = Append(responses, r)
  BY DEF r
<1>5. /\ responses' \in Seq(Response) /\ Distinct(responses')
      /\ ToSet(responses') = ToSet(responses) \cup {r}
  BY <1>1, <1>2, <1>3, <1>4, OneAdded
<1>6. ResponseIds' = ResponseIds \cup {c}
  BY <1>1, <1>5 DEF ResponseIds
<1>7. ASSUME NEW m \in ToSet(responses'), NEW n \in ToSet(responses'), m.id = n.id PROVE m = n
  BY <1>1, <1>2, <1>5, <1>7 DEF ResponseIds
<1> QED
  BY <1>5, <1>6, <1>7

LEMMA RequestMessageKeeps == RpcInv /\ OnRequestMessage => RpcInv'
<1> SUFFICES ASSUME RpcInv, OnRequestMessage PROVE RpcInv'
  OBVIOUS
<1> DEFINE c == Head(requests)
<1>1. /\ rpcLink /\ requests # <<>> /\ requests' = Tail(requests)
      /\ UNCHANGED <<id, calling, outstandings, ranDone, outcome, rpcLink, channel>>
  BY DEF OnRequestMessage
<1>2. RpcTypeOK /\ PlacesApart
  BY DEF RpcInv
<1>3. /\ requests' \in Seq(Call) /\ c \in Call /\ ToSet(requests) = ToSet(requests') \cup {c}
      /\ Distinct(requests') /\ c \notin ToSet(requests')
  BY <1>1, <1>2, OneTaken DEF RpcTypeOK, PlacesApart
<1>4. c \notin serving /\ c \notin ResponseIds /\ c \in Travelling
  BY <1>2, <1>3 DEF PlacesApart, Travelling
<1>5. CASE serving' = serving \cup {c} /\ UNCHANGED responses
  <2>1. ResponseIds' = ResponseIds
    BY <1>5 DEF ResponseIds
  <2>2. Travelling' = Travelling
    BY <1>3, <1>5, <2>1 DEF Travelling
  <2> QED
    BY <1>1, <1>2, <1>3, <1>4, <1>5, <2>1, <2>2, MovesOn DEF RpcTypeOK, PlacesApart
<1>6. CASE responses' = Append(responses, [id |-> c, error |-> TRUE]) /\ UNCHANGED serving
  <2>1. /\ responses' \in Seq(Response) /\ Distinct(responses')
        /\ ResponseIds' = ResponseIds \cup {c}
        /\ \A m, n \in ToSet(responses') : m.id = n.id => m = n
    <3> HIDE DEF c
    <3> QED
      BY <1>3, <1>4, <1>6, AnswerAdded
  <2>2. Travelling' = Travelling
    BY <1>3, <1>6, <2>1 DEF Travelling
  <2> QED
    BY <1>1, <1>2, <1>3, <1>4, <1>6, <2>1, <2>2, MovesOn DEF RpcTypeOK, PlacesApart
<1> QED
  BY <1>5, <1>6 DEF OnRequestMessage

LEMMA DoneCallbackKeeps == RpcInv /\ DoneCallback => RpcInv'
<1> SUFFICES ASSUME RpcInv, DoneCallback PROVE RpcInv'
  OBVIOUS
<1>1. PICK c \in serving : /\ serving' = serving \ {c}
                           /\ responses' = Append(responses, [id |-> c, error |-> FALSE])
  BY DEF DoneCallback
<1>2. rpcLink /\ UNCHANGED <<id, calling, outstandings, requests, ranDone, outcome, rpcLink, channel>>
  BY DEF DoneCallback
<1>3. RpcTypeOK /\ PlacesApart
  BY DEF RpcInv
<1>4. c \in Call /\ c \in Travelling /\ c \notin ResponseIds /\ c \notin ToSet(requests)
  BY <1>3 DEF RpcTypeOK, PlacesApart, Travelling
<1>5. /\ responses' \in Seq(Response) /\ Distinct(responses')
      /\ ResponseIds' = ResponseIds \cup {c}
      /\ \A m, n \in ToSet(responses') : m.id = n.id => m = n
  BY <1>1, <1>4, AnswerAdded
<1>6. Travelling' = Travelling
  BY <1>1, <1>2, <1>5 DEF Travelling
<1> QED
  BY <1>1, <1>2, <1>3, <1>4, <1>5, <1>6, MovesOn DEF RpcTypeOK, PlacesApart

\* The answer finds its call, which is over then.
LEMMA ResponseMessageKeeps == RpcInv /\ OnResponseMessage => RpcInv'
<1> SUFFICES ASSUME RpcInv, OnResponseMessage PROVE RpcInv'
  OBVIOUS
<1> DEFINE m == Head(responses)
           c == m.id
<1>1. /\ rpcLink /\ channel /\ responses # <<>> /\ responses' = Tail(responses)
      /\ UNCHANGED <<id, calling, requests, serving, rpcLink, channel>>
  BY DEF OnResponseMessage
<1>2. RpcTypeOK /\ PlacesApart /\ PutDown /\ Outcomes
  BY DEF RpcInv
<1>3. /\ responses' \in Seq(Response) /\ m \in Response
      /\ ToSet(responses) = ToSet(responses') \cup {m}
      /\ Distinct(responses') /\ m \notin ToSet(responses')
  BY <1>1, <1>2, OneTaken DEF RpcTypeOK, PlacesApart
<1>4. c \in ResponseIds /\ c \in Call /\ c \in Travelling /\ c \in outstandings
  BY <1>2, <1>3 DEF ResponseIds, Travelling, PutDown, Response
<1>5. /\ outstandings' = outstandings \ {c}
      /\ ranDone' = [ranDone EXCEPT ![c] = @ + 1]
      /\ outcome' = [outcome EXCEPT ![c] = IF m.error THEN "error" ELSE "response"]
  BY <1>4 DEF OnResponseMessage, TakenOut
<1>6. outcome[c] = "none" /\ c \in Made /\ ranDone[c] = 0
  BY <1>2, <1>4 DEF Outcomes, RpcTypeOK
<1>7. ResponseIds' = ResponseIds \ {c}
  BY <1>2, <1>3 DEF ResponseIds, PlacesApart
<1> HIDE DEF m, c
<1>8. /\ \A d \in Call : ranDone'[d] = IF d = c THEN 1 ELSE ranDone[d]
      /\ \A d \in Call : d # c => outcome'[d] = outcome[d]
      /\ outcome'[c] \in {"response", "error"}
      /\ outcome' \in [Call -> {"none", "response", "error", "deleted"}]
      /\ ranDone' \in [Call -> {0, 1}]
  BY <1>2, <1>4, <1>5, <1>6 DEF RpcTypeOK
<1>9. Travelling' = Travelling \ {c} /\ Made' = Made
  BY <1>1, <1>2, <1>4, <1>7 DEF Travelling, PlacesApart, Made
<1>10. \A t \in RpcCaller : calling[t].at # "idle" => calling[t].id # c
  BY <1>2, <1>4 DEF PlacesApart
<1>11. RpcTypeOK'
  BY <1>1, <1>2, <1>3, <1>5, <1>8 DEF RpcTypeOK
<1>12. PlacesApart'
  <2>1. \A p, q \in ToSet(responses') : p.id = q.id => p = q
    BY <1>2, <1>3 DEF PlacesApart
  <2> QED
    BY <1>1, <1>2, <1>3, <1>7, <1>9, <2>1 DEF PlacesApart
<1>13. PutDown'
  <2>1. \A t \in RpcCaller : calling[t].at \in {"insert", "send"} => calling[t].id \in Call
    BY <1>2 DEF PutDown, RpcTypeOK
  <2> QED
    BY <1>1, <1>2, <1>5, <1>8, <1>9, <1>10, <2>1 DEF PutDown
<1>14. Outcomes'
  <2>1. \A d \in outstandings' : outcome'[d] = "none" /\ d \in Made'
    BY <1>2, <1>5, <1>8, <1>9 DEF Outcomes, RpcTypeOK
  <2>2. ASSUME NEW d \in Call
        PROVE  /\ ranDone'[d] = 1 <=> outcome'[d] \in {"response", "error"}
               /\ outcome'[d] # "deleted"
               /\ d \notin Made' => outcome'[d] = "none"
    BY <1>1, <1>2, <1>6, <1>8, <1>9 DEF Outcomes
  <2>3. ASSUME NEW d \in Made'
        PROVE  outcome'[d] # "none" \/ d \in Travelling' \/ \E u \in RpcCaller : calling'[u].id = d
    <3>1. d \in Call
      BY <1>2, <1>9, <2>3, MadeAreCalls
    <3>2. CASE d = c
      BY <1>8, <3>2
    <3>3. CASE d # c
      BY <1>1, <1>2, <1>8, <1>9, <2>3, <3>1, <3>3 DEF Outcomes
    <3> QED
      BY <3>2, <3>3
  <2> QED
    BY <1>1, <1>2, <1>9, <2>1, <2>2, <2>3 DEF Outcomes
<1> QED
  BY <1>11, <1>12, <1>13, <1>14 DEF RpcInv

LEMMA LinkDownKeeps == RpcInv /\ RpcLinkDown => RpcInv'
<1> SUFFICES ASSUME RpcInv, RpcLinkDown PROVE RpcInv'
  OBVIOUS
<1>1. /\ rpcLink' = FALSE /\ requests' = <<>> /\ responses' = <<>> /\ serving' = {}
      /\ UNCHANGED <<id, calling, outstandings, ranDone, outcome, channel>>
  BY DEF RpcLinkDown
<1>2. RpcTypeOK /\ PlacesApart /\ PutDown /\ Outcomes
  BY DEF RpcInv
<1>3. ToSet(requests') = {} /\ ToSet(responses') = {} /\ Distinct(requests') /\ Distinct(responses')
  BY <1>1, NoneOnTheWay
<1>4. ResponseIds' = {} /\ Travelling' = {} /\ Made' = Made
  BY <1>1, <1>3 DEF ResponseIds, Travelling, Made
<1>5. RpcTypeOK'
  <2>1. requests' \in Seq(Call) /\ responses' \in Seq(Response)
    BY <1>1, EmptySeq
  <2> QED
    BY <1>1, <1>2, <2>1 DEF RpcTypeOK
<1>6. PlacesApart'
  BY <1>1, <1>2, <1>3, <1>4 DEF PlacesApart
<1>7. PutDown'
  BY <1>1, <1>2, <1>4 DEF PutDown
<1>8. Outcomes'
  BY <1>1, <1>2, <1>4 DEF Outcomes
<1> QED
  BY <1>5, <1>6, <1>7, <1>8 DEF RpcInv

LEMMA ChannelGoneKeeps == RpcInv /\ DestroyChannel => RpcInv'
<1> SUFFICES ASSUME RpcInv, DestroyChannel PROVE RpcInv'
  OBVIOUS
<1>1. /\ ~rpcLink /\ \A t \in RpcCaller : calling[t] = NoCall
      /\ channel' = FALSE /\ outstandings' = {}
      /\ outcome' = [c \in Call |-> IF c \in outstandings THEN "deleted" ELSE outcome[c]]
      /\ UNCHANGED <<id, calling, requests, responses, serving, ranDone, rpcLink>>
  BY DEF DestroyChannel
<1>2. RpcTypeOK /\ PlacesApart /\ PutDown /\ Outcomes
  BY DEF RpcInv
<1>3. ResponseIds' = ResponseIds /\ Travelling' = Travelling /\ Made' = Made
  BY <1>1 DEF ResponseIds, Travelling, Made
<1>4. Travelling = {}
  <2>1. requests = <<>> /\ responses = <<>> /\ serving = {}
    BY <1>1, <1>2 DEF Outcomes
  <2> QED
    BY <2>1, NoneOnTheWay DEF Travelling, ResponseIds
<1>5. RpcTypeOK'
  <2>1. outcome' \in [Call -> {"none", "response", "error", "deleted"}]
    BY <1>1, <1>2 DEF RpcTypeOK
  <2> QED
    BY <1>1, <1>2, <2>1 DEF RpcTypeOK
<1>6. PlacesApart'
  BY <1>1, <1>2, <1>3 DEF PlacesApart
<1>7. PutDown'
  BY <1>1, <1>2, <1>3, <1>4 DEF PutDown, NoCall
<1>8. Outcomes'
  <2>1. ASSUME NEW c \in Call
        PROVE  /\ ranDone'[c] = 1 <=> outcome'[c] \in {"response", "error"}
               /\ c \notin Made' => outcome'[c] = "none"
    <3>1. CASE c \in outstandings
      <4>1. outcome[c] = "none" /\ c \in Made /\ outcome'[c] = "deleted"
        BY <1>1, <1>2, <3>1 DEF Outcomes
      <4> QED
        BY <1>1, <1>2, <1>3, <4>1 DEF Outcomes
    <3>2. CASE c \notin outstandings
      <4>1. outcome'[c] = outcome[c]
        BY <1>1, <3>2
      <4> QED
        BY <1>1, <1>2, <1>3, <4>1 DEF Outcomes
    <3> QED
      BY <3>1, <3>2
  <2> QED
    BY <1>1, <1>2, <1>3, <2>1 DEF Outcomes, NoCall
<1> QED
  BY <1>5, <1>6, <1>7, <1>8 DEF RpcInv

LEMMA RpcIsRight == RpcInv => RpcRight
<1> SUFFICES ASSUME RpcInv PROVE RpcRight
  OBVIOUS
<1>1. RpcTypeOK /\ PlacesApart /\ PutDown /\ Outcomes
  BY DEF RpcInv
<1>2. ASSUME NEW c \in Travelling PROVE InRpc(c)
  BY DEF Travelling, ResponseIds, ToSet, InRpc
<1>3. ASSUME NEW c \in Call
      PROVE  /\ ranDone[c] <= 1
             /\ ranDone[c] = 1 <=> outcome[c] \in {"response", "error"}
             /\ outcome[c] = "deleted" => ~rpcLink
             /\ c \in outstandings => outcome[c] = "none"
  <2>1. ranDone[c] \in {0, 1}
    BY <1>1 DEF RpcTypeOK
  <2>2. ranDone[c] <= 1
    BY <2>1
  <2> QED
    BY <1>1, <2>2 DEF Outcomes
<1>4. ASSUME NEW c \in Call, rpcLink, c <= id PROVE outcome[c] # "none" \/ InRpc(c)
  <2>1. c \in Made
    BY <1>4 DEF Call, Made
  <2> QED
    BY <1>1, <1>2, <1>4, <2>1 DEF Outcomes, InRpc
<1>5. ASSUME NEW i \in DOMAIN responses PROVE responses[i].id \in outstandings
  BY <1>1 DEF PutDown, Travelling, ResponseIds, ToSet
<1> QED
  BY <1>3, <1>4, <1>5 DEF RpcRight

\* Whatever the number of callers and calls, and however calls, answers and the end of the
\* connection cross: RpcRight (muduo/net/protorpc/RpcChannel.cc, RpcServer.cc).
THEOREM RpcKept == RpcSpec => []RpcRight
<1>1. RpcInv /\ [RpcNext]_rpcVars => RpcInv'
  <2>1. RpcInv /\ UNCHANGED rpcVars => RpcInv'
    BY DEF rpcVars, RpcInv, RpcTypeOK, PlacesApart, PutDown, Outcomes, Travelling, ResponseIds, Made
  <2>2. RpcInv /\ RpcNext => RpcInv'
    BY CallMethodKeeps, InsertKeeps, SendKeeps, RequestMessageKeeps, DoneCallbackKeeps,
       ResponseMessageKeeps, LinkDownKeeps, ChannelGoneKeeps DEF RpcNext
  <2> QED
    BY <2>1, <2>2
<1> QED
  BY <1>1, RpcStarts, RpcIsRight, PTL DEF RpcSpec

LEMMA OneGone ==
  ASSUME NEW S, NEW s \in Seq(S), NEW i \in DOMAIN s
  PROVE  /\ RemoveAt(s, i) \in Seq(S) /\ s[i] \in S
         /\ ToSet(s) = ToSet(RemoveAt(s, i)) \cup {s[i]}
         /\ Distinct(s) => Distinct(RemoveAt(s, i)) /\ s[i] \notin ToSet(RemoveAt(s, i))
<1> DEFINE n == Len(s)
           p == SubSeq(s, 1, i - 1)
           q == SubSeq(s, i + 1, n)
           a == RemoveAt(s, i)
<1>1. n \in Nat /\ DOMAIN s = 1 .. n /\ i \in 1 .. n /\ \A j \in 1 .. n : s[j] \in S
  BY LenProperties
<1>2. p \in Seq(S) /\ Len(p) = i - 1 /\ \A j \in 1 .. i - 1 : p[j] = s[j]
  <2>1. i - 1 \in Int /\ 1 \in Int /\ \A j \in 1 .. i - 1 : s[j] \in S
    BY <1>1
  <2>2. /\ p \in Seq(S) /\ Len(p) = IF 1 <= i - 1 THEN (i - 1) - 1 + 1 ELSE 0
        /\ \A j \in 1 .. (i - 1) - 1 + 1 : p[j] = s[1 + j - 1]
    BY <2>1, SubSeqProperties
  <2> HIDE DEF p
  <2> QED
    BY <1>1, <2>2
<1>3. q \in Seq(S) /\ Len(q) = n - i /\ \A j \in 1 .. n - i : q[j] = s[i + j]
  <2>1. i + 1 \in Int /\ n \in Int /\ \A j \in i + 1 .. n : s[j] \in S
    BY <1>1
  <2>2. /\ q \in Seq(S) /\ Len(q) = IF i + 1 <= n THEN n - (i + 1) + 1 ELSE 0
        /\ \A j \in 1 .. n - (i + 1) + 1 : q[j] = s[(i + 1) + j - 1]
    BY <2>1, SubSeqProperties
  <2> HIDE DEF q
  <2>3. Len(q) = n - i
    BY <1>1, <2>2
  <2>4. ASSUME NEW j \in 1 .. n - i PROVE q[j] = s[i + j]
    <3>1. j \in 1 .. n - (i + 1) + 1 /\ (i + 1) + j - 1 = i + j
      BY <1>1, <2>4
    <3>2. q[j] = s[(i + 1) + j - 1]
      BY <2>2, <3>1
    <3> QED
      BY <3>1, <3>2
  <2> QED
    BY <2>2, <2>3, <2>4
<1> HIDE DEF n, p, q
<1>4. /\ a \in Seq(S) /\ Len(a) = n - 1
      /\ \A j \in 1 .. n - 1 : a[j] = IF j < i THEN s[j] ELSE s[j + 1]
  <2>1. a = p \o q
    BY DEF RemoveAt, p, q, n
  <2>2. /\ a \in Seq(S) /\ Len(a) = Len(p) + Len(q)
        /\ \A j \in 1 .. Len(p) + Len(q) : a[j] = IF j <= Len(p) THEN p[j] ELSE q[j - Len(p)]
    BY <1>2, <1>3, <2>1, ConcatProperties
  <2> HIDE DEF a
  <2>3. ASSUME NEW j \in 1 .. n - 1 PROVE a[j] = IF j < i THEN s[j] ELSE s[j + 1]
    <3>1. CASE j < i
      BY <1>1, <1>2, <1>3, <2>2, <2>3, <3>1
    <3>2. CASE ~(j < i)
      <4>1. j - Len(p) \in 1 .. n - i /\ i + (j - Len(p)) = j + 1 /\ ~(j <= Len(p))
            /\ j \in 1 .. Len(p) + Len(q)
        BY <1>1, <1>2, <1>3, <2>3, <3>2
      <4>2. a[j] = q[j - Len(p)] /\ q[j - Len(p)] = s[i + (j - Len(p))]
        BY <1>3, <2>2, <4>1
      <4> QED
        BY <3>2, <4>1, <4>2
    <3> QED
      BY <3>1, <3>2
  <2> QED
    BY <1>1, <1>2, <1>3, <2>2, <2>3
<1> HIDE DEF a
<1>5. DOMAIN a = 1 .. n - 1
  BY <1>4, LenProperties
<1> DEFINE at(j) == IF j < i THEN j ELSE j + 1
<1>6. ASSUME NEW j \in DOMAIN a PROVE at(j) \in DOMAIN s /\ at(j) # i /\ a[j] = s[at(j)]
  BY <1>1, <1>4, <1>5, <1>6
<1>7. ASSUME NEW j \in DOMAIN a, NEW k \in DOMAIN a, at(j) = at(k) PROVE j = k
  BY <1>1, <1>5, <1>7
<1>8. ASSUME NEW k \in DOMAIN s, k # i PROVE \E j \in DOMAIN a : at(j) = k
  <2>1. CASE k < i
    BY <1>1, <1>5, <1>8, <2>1
  <2>2. CASE ~(k < i)
    <3>1. k - 1 \in DOMAIN a /\ at(k - 1) = k
      BY <1>1, <1>5, <1>8, <2>2
    <3> QED
      BY <3>1
  <2> QED
    BY <2>1, <2>2
<1> HIDE DEF at
<1>9. ToSet(s) = ToSet(a) \cup {s[i]}
  BY <1>6, <1>8 DEF ToSet
<1>10. ASSUME Distinct(s) PROVE Distinct(a) /\ s[i] \notin ToSet(a)
  BY <1>6, <1>7, <1>10 DEF Distinct, ToSet
<1> QED
  BY <1>1, <1>4, <1>9, <1>10 DEF a

LEMMA Remainder == ASSUME NEW n \in Nat, NEW r \in Nat \ {0} PROVE n % r \in 0 .. r - 1
OBVIOUS

LEMMA RemainderSame == ASSUME NEW r \in Nat \ {0}, NEW n \in 0 .. r - 1 PROVE n % r = n
OBVIOUS

-----------------------------------------------------------------------------
(* The RPC balancer: a call is pending under one id of one backend, or it    *)
(* is answered.                                                             *)

Message == [id : Nat, of : RpcClient \X Nat, sum : Nat]
Entry == [origId : Nat, client : RpcClient]

BalancerTypeOK ==
    /\ raw \in BOOLEAN /\ current \in Backend
    /\ clientIsUp \in [RpcClient -> BOOLEAN] /\ askedCalls \in [RpcClient -> Nat]
    /\ answersOf \in [RpcClient -> Seq(Message)]
    /\ backendUp \in [Backend -> BOOLEAN] /\ nextId \in [Backend -> Nat]
    /\ pending = [b \in Backend |-> pending[b]]
    /\ forwarded \in [Backend -> Seq(Message)] /\ returning \in [Backend -> Seq(Message)]

OnTheWay(b) == ToSet(forwarded[b]) \cup ToSet(returning[b])

\* Each message on its way has an id of its own, and is what is pending under it.
WayOK(b) ==
    /\ Distinct(forwarded[b]) /\ Distinct(returning[b])
    /\ ToSet(forwarded[b]) \cap ToSet(returning[b]) = {}
    /\ \A m, n \in OnTheWay(b) : m.id = n.id => m = n
    /\ \A m \in OnTheWay(b) :
          /\ m.sum = m.id /\ m.id \in DOMAIN pending[b]
          /\ m.of = <<pending[b][m.id].client, pending[b][m.id].origId>>

\* What is pending was asked.
PendingOK(b) ==
    \A n \in DOMAIN pending[b] :
        /\ n \in 1 .. nextId[b] /\ pending[b][n] \in Entry
        /\ pending[b][n].origId \in 1 .. askedCalls[pending[b][n].client]

\* No call is pending twice.
PendingOnce ==
    \A b, d \in Backend : \A n \in DOMAIN pending[b], k \in DOMAIN pending[d] :
        pending[b][n] = pending[d][k] => b = d /\ n = k

AnswersTrue(c) ==
    /\ \A m \in ToSet(answersOf[c]) :
          m.of = <<c, m.id>> /\ m.sum = m.id /\ m.id \in 1 .. askedCalls[c]
    /\ IsFiniteSet(ToSet(answersOf[c])) /\ Cardinality(ToSet(answersOf[c])) = Len(answersOf[c])

\* What is answered is no longer pending.
Over ==
    \A c \in RpcClient, b \in Backend : \A m \in ToSet(answersOf[c]), n \in DOMAIN pending[b] :
        ~(pending[b][n].client = c /\ pending[b][n].origId = m.id)

BalancerInv ==
    /\ BalancerTypeOK
    /\ \A b \in Backend : WayOK(b) /\ PendingOK(b)
    /\ PendingOnce /\ Over
    /\ \A c \in RpcClient : AnswersTrue(c)

LEMMA NothingYet == ToSet(<<>>) = {} /\ Distinct(<<>>) /\ DOMAIN <<>> = {} /\ Len(<<>>) = 0
BY DEF ToSet, Distinct

LEMMA BalancerStarts == BalancerInit => BalancerInv
<1> SUFFICES ASSUME BalancerInit PROVE BalancerInv
  OBVIOUS
<1>1. 0 \in Backend
  BY BackendsGiven DEF Backend
<1>2. <<>> \in Seq(Message)
  BY EmptySeq
<1>3. BalancerTypeOK
  BY <1>1, <1>2 DEF BalancerInit, BalancerTypeOK
<1>4. \A b \in Backend : pending[b] = <<>> /\ forwarded[b] = <<>> /\ returning[b] = <<>>
  BY DEF BalancerInit
<1>5. \A b \in Backend : OnTheWay(b) = {} /\ DOMAIN pending[b] = {}
  BY <1>4, NothingYet DEF OnTheWay
<1>6. \A b \in Backend : WayOK(b) /\ PendingOK(b)
  BY <1>4, <1>5, NothingYet DEF WayOK, PendingOK
<1>7. PendingOnce /\ Over
  BY <1>5 DEF PendingOnce, Over
<1>8. ASSUME NEW c \in RpcClient PROVE AnswersTrue(c)
  <2>1. answersOf[c] = <<>>
    BY DEF BalancerInit
  <2> QED
    BY <2>1, NothingYet, FS_EmptySet DEF AnswersTrue
<1> QED
  BY <1>3, <1>6, <1>7, <1>8 DEF BalancerInv

\* The turn.
LEMMA StepsAreBackends == ASSUME BalancerTypeOK, NEW n \in Nat PROVE Steps(n) \in Backend
<1>1. current + n \in Nat
  BY DEF BalancerTypeOK, Backend
<1> QED
  BY <1>1, Remainder, BackendsGiven DEF Steps, Backend

LEMMA FirstSteps ==
  ASSUME BalancerTypeOK, NEW n \in FirstUp
  PROVE  /\ n \in Nat /\ Steps(n) \in Backend /\ NextTurn(n) \in Backend
         /\ (\A d \in Backend : backendUp[d])
              => Steps(n) = current /\ NextTurn(n) = (current + 1) % Backends
<1>1. n \in Nat /\ n + 1 \in Nat
  BY DEF FirstUp, Backend
<1>2. Steps(n) \in Backend /\ NextTurn(n) \in Backend
  BY <1>1, StepsAreBackends DEF NextTurn
<1>3. ASSUME \A d \in Backend : backendUp[d]
      PROVE  Steps(n) = current /\ NextTurn(n) = (current + 1) % Backends
  <2>1. n = 0
    <3>1. SUFFICES ASSUME n # 0 PROVE FALSE
      OBVIOUS
    <3>2. 0 \in 0 .. n - 1 /\ Steps(0) \in Backend
      BY <1>1, <3>1, StepsAreBackends
    <3> QED
      BY <1>3, <3>2 DEF FirstUp
  <2>2. Steps(0) = current
    <3>1. current \in 0 .. Backends - 1 /\ current + 0 = current
      BY DEF BalancerTypeOK, Backend
    <3> QED
      BY <3>1, RemainderSame, BackendsGiven DEF Steps
  <2> QED
    BY <2>1, <2>2 DEF NextTurn, Steps
<1> QED
  BY <1>1, <1>2, <1>3

LEMMA Updated ==
  ASSUME raw \in BOOLEAN, NEW m \in Message, NEW n
  PROVE  UpdateId(m, n) = [id |-> n, of |-> m.of, sum |-> n]
BY DEF UpdateId, Frame, Message

\* A request is dropped, for there is no backend.
LEMMA DroppedKeeps ==
  ASSUME BalancerInv, NEW c \in RpcClient, askedCalls' = [askedCalls EXCEPT ![c] = @ + 1],
         UNCHANGED <<nextId, pending, forwarded, current, raw, clientIsUp, answersOf, backendUp,
                     returning>>
  PROVE  BalancerInv'
<1>1. BalancerTypeOK /\ PendingOnce /\ Over
  BY DEF BalancerInv
<1>2. BalancerTypeOK' /\ PendingOnce' /\ Over'
  BY <1>1 DEF BalancerTypeOK, PendingOnce, Over
<1>3. \A d \in RpcClient : askedCalls'[d] \in Nat /\ askedCalls[d] \in Nat /\ askedCalls'[d] >= askedCalls[d]
  BY <1>1 DEF BalancerTypeOK
<1>4. ASSUME NEW b \in Backend PROVE WayOK(b)' /\ PendingOK(b)'
  <2>1. WayOK(b) /\ PendingOK(b)
    BY DEF BalancerInv
  <2>2. WayOK(b)'
    BY <2>1 DEF WayOK, OnTheWay
  <2>3. ASSUME NEW n \in DOMAIN pending[b]
        PROVE  pending[b][n].origId \in 1 .. askedCalls'[pending[b][n].client]
    <3>1. /\ pending[b][n].client \in RpcClient
          /\ pending[b][n].origId \in 1 .. askedCalls[pending[b][n].client]
      BY <2>1 DEF PendingOK, Entry
    <3> QED
      BY <1>3, <3>1
  <2> QED
    BY <2>1, <2>2, <2>3 DEF PendingOK
<1>5. ASSUME NEW d \in RpcClient PROVE AnswersTrue(d)'
  <2>1. AnswersTrue(d)
    BY DEF BalancerInv
  <2>2. ASSUME NEW i \in 1 .. askedCalls[d] PROVE i \in 1 .. askedCalls'[d]
    BY <1>3
  <2> QED
    BY <2>1, <2>2 DEF AnswersTrue
<1> QED
  BY <1>2, <1>4, <1>5 DEF BalancerInv

\* A request goes to a backend, under its next id.
LEMMA ForwardedKeeps ==
  ASSUME BalancerInv, NEW c \in RpcClient, NEW b \in Backend,
         askedCalls' = [askedCalls EXCEPT ![c] = @ + 1],
         SendToBackend(b, Frame(askedCalls'[c], <<c, askedCalls'[c]>>), c),
         current' \in Backend,
         UNCHANGED <<raw, clientIsUp, answersOf, backendUp, returning>>
  PROVE  BalancerInv'
<1> DEFINE k == askedCalls[c] + 1
           n == nextId[b] + 1
           r == [origId |-> k, client |-> c]
           m == [id |-> n, of |-> <<c, k>>, sum |-> n]
<1>1. BalancerTypeOK /\ PendingOnce /\ Over /\ WayOK(b) /\ PendingOK(b)
  BY DEF BalancerInv
<1>2. /\ askedCalls[c] \in Nat /\ nextId[b] \in Nat /\ k \in Nat /\ n \in Nat
      /\ k \notin 1 .. askedCalls[c] /\ n \notin 1 .. nextId[b] /\ k \in 1 .. k /\ n \in 1 .. n
      /\ \A i \in 1 .. askedCalls[c] : i \in 1 .. k
      /\ \A i \in 1 .. nextId[b] : i \in 1 .. n
  <2>1. askedCalls[c] \in Nat /\ nextId[b] \in Nat
    BY <1>1 DEF BalancerTypeOK
  <2> QED
    BY <2>1
<1>3. askedCalls'[c] = k
  BY <1>1 DEF BalancerTypeOK
<1> HIDE DEF k, n
<1>4. m \in Message /\ r \in Entry
  BY <1>2 DEF Message, Entry
<1>5. UpdateId(Frame(k, <<c, k>>), n) = m
  <2>1. Frame(k, <<c, k>>) \in Message
    BY <1>2 DEF Frame, Message
  <2>2. Frame(k, <<c, k>>).of = <<c, k>>
    BY DEF Frame
  <2> QED
    BY <1>1, <2>1, <2>2, Updated DEF BalancerTypeOK
<1>6. /\ nextId' = [nextId EXCEPT ![b] = n]
      /\ pending' = [pending EXCEPT ![b] = Entered(pending[b], n, r)]
      /\ forwarded' = [forwarded EXCEPT ![b] = Append(forwarded[b], m)]
  <2>1. Frame(k, <<c, k>>).id = k
    BY DEF Frame
  <2> QED
    BY <1>3, <1>5, <2>1 DEF SendToBackend, n
<1> HIDE DEF m, r
<1>7. n \notin DOMAIN pending[b]
  BY <1>1, <1>2 DEF PendingOK
<1>8. m \notin OnTheWay(b) /\ m.id = n /\ m.sum = n /\ m.of = <<c, k>>
      /\ \A p \in OnTheWay(b) : p.id # n
  BY <1>1, <1>7 DEF WayOK, m
<1>9. /\ forwarded'[b] \in Seq(Message) /\ Distinct(forwarded'[b])
      /\ ToSet(forwarded'[b]) = ToSet(forwarded[b]) \cup {m}
      /\ forwarded' \in [Backend -> Seq(Message)]
      /\ \A d \in Backend : d # b => forwarded'[d] = forwarded[d]
  <2>1. forwarded[b] \in Seq(Message) /\ Distinct(forwarded[b]) /\ m \notin ToSet(forwarded[b])
    BY <1>1, <1>8 DEF BalancerTypeOK, WayOK, OnTheWay
  <2>2. /\ Append(forwarded[b], m) \in Seq(Message) /\ Distinct(Append(forwarded[b], m))
        /\ ToSet(Append(forwarded[b], m)) = ToSet(forwarded[b]) \cup {m}
    BY <1>4, <2>1, OneAdded
  <2>3. forwarded'[b] = Append(forwarded[b], m)
    BY <1>1, <1>6 DEF BalancerTypeOK
  <2> QED
    BY <1>1, <1>6, <2>2, <2>3 DEF BalancerTypeOK
<1>10. /\ pending' = [d \in Backend |-> pending'[d]]
       /\ \A d \in Backend : d # b => pending'[d] = pending[d]
       /\ DOMAIN pending'[b] = DOMAIN pending[b] \cup {n} /\ pending'[b][n] = r
       /\ \A i \in DOMAIN pending[b] : pending'[b][i] = pending[b][i]
  <2>1. pending'[b] = Entered(pending[b], n, r)
    BY <1>1, <1>6 DEF BalancerTypeOK
  <2>2. pending' = [d \in Backend |-> pending'[d]] /\ \A d \in Backend : d # b => pending'[d] = pending[d]
    BY <1>1, <1>6 DEF BalancerTypeOK
  <2> QED
    BY <1>7, <2>1, <2>2 DEF Entered
<1>11. /\ nextId' \in [Backend -> Nat] /\ nextId'[b] = n
       /\ \A d \in Backend : d # b => nextId'[d] = nextId[d]
       /\ askedCalls' \in [RpcClient -> Nat]
       /\ \A d \in RpcClient : d # c => askedCalls'[d] = askedCalls[d]
  <2>1. nextId \in [Backend -> Nat] /\ askedCalls \in [RpcClient -> Nat]
    BY <1>1 DEF BalancerTypeOK
  <2>2. nextId' = [nextId EXCEPT ![b] = n] /\ askedCalls' = [askedCalls EXCEPT ![c] = k]
    BY <1>6, <2>1 DEF k
  <2> QED
    BY <1>2, <2>1, <2>2
<1>12. BalancerTypeOK'
  BY <1>1, <1>9, <1>10, <1>11 DEF BalancerTypeOK
<1>13. r.client = c /\ r.origId = k
  BY DEF r
\* The call was not there before.
<1>14. ASSUME NEW d \in Backend, NEW i \in DOMAIN pending[d] PROVE pending[d][i] # r
  <2>1. /\ pending[d][i] \in Entry
        /\ pending[d][i].origId \in 1 .. askedCalls[pending[d][i].client]
    BY <1>14 DEF BalancerInv, PendingOK
  <2> QED
    BY <1>2, <1>13, <2>1
<1>15. ASSUME NEW d \in Backend PROVE WayOK(d)'
  <2>1. WayOK(d)
    BY DEF BalancerInv
  <2>2. CASE d # b
    BY <1>9, <1>10, <2>1, <2>2 DEF WayOK, OnTheWay
  <2>3. CASE d = b
    <3>1. OnTheWay(b)' = OnTheWay(b) \cup {m}
      BY <1>9 DEF OnTheWay
    <3>2. ASSUME NEW p \in OnTheWay(b)'
          PROVE  /\ p.sum = p.id /\ p.id \in DOMAIN pending'[b]
                 /\ p.of = <<pending'[b][p.id].client, pending'[b][p.id].origId>>
      <4>1. CASE p = m
        BY <1>8, <1>10, <1>13, <4>1
      <4>2. CASE p \in OnTheWay(b)
        <5>1. /\ p.sum = p.id /\ p.id \in DOMAIN pending[b]
              /\ p.of = <<pending[b][p.id].client, pending[b][p.id].origId>>
          BY <1>1, <4>2 DEF WayOK
        <5> QED
          BY <1>10, <5>1
      <4> QED
        BY <3>1, <3>2, <4>1, <4>2
    <3>3. \A p, q \in OnTheWay(b)' : p.id = q.id => p = q
      BY <1>1, <1>8, <3>1 DEF WayOK
    <3>4. ToSet(forwarded'[b]) \cap ToSet(returning'[b]) = {} /\ Distinct(returning'[b])
      BY <1>1, <1>8, <1>9 DEF WayOK, OnTheWay
    <3> QED
      BY <1>9, <2>3, <3>2, <3>3, <3>4 DEF WayOK
  <2> QED
    BY <2>2, <2>3
<1>16. ASSUME NEW d \in Backend PROVE PendingOK(d)'
  <2>1. ASSUME NEW i \in DOMAIN pending[d]
        PROVE  /\ i \in 1 .. nextId'[d] /\ pending[d][i] \in Entry
               /\ pending[d][i].origId \in 1 .. askedCalls'[pending[d][i].client]
    <3>1. /\ i \in 1 .. nextId[d] /\ pending[d][i] \in Entry
          /\ pending[d][i].origId \in 1 .. askedCalls[pending[d][i].client]
      BY <2>1 DEF BalancerInv, PendingOK
    <3>2. pending[d][i].client \in RpcClient
      BY <3>1 DEF Entry
    <3>3. i \in 1 .. nextId'[d]
      BY <1>2, <1>11, <3>1
    <3>4. pending[d][i].origId \in 1 .. askedCalls'[pending[d][i].client]
      BY <1>2, <1>3, <1>11, <3>1, <3>2
    <3> QED
      BY <3>1, <3>3, <3>4
  <2>2. CASE d # b
    BY <1>10, <2>1, <2>2 DEF PendingOK
  <2>3. CASE d = b
    BY <1>2, <1>3, <1>4, <1>10, <1>11, <1>13, <2>1, <2>3 DEF PendingOK
  <2> QED
    BY <2>2, <2>3
<1>17. PendingOnce'
  <2>1. ASSUME NEW d \in Backend, NEW e \in Backend, NEW i \in DOMAIN pending'[d], NEW j \in DOMAIN pending'[e],
               pending'[d][i] = pending'[e][j]
        PROVE  d = e /\ i = j
    <3>1. \/ i \in DOMAIN pending[d] /\ pending'[d][i] = pending[d][i]
          \/ d = b /\ i = n /\ pending'[d][i] = r
      BY <1>10, <2>1
    <3>2. \/ j \in DOMAIN pending[e] /\ pending'[e][j] = pending[e][j]
          \/ e = b /\ j = n /\ pending'[e][j] = r
      BY <1>10, <2>1
    <3> QED
      BY <1>1, <1>14, <2>1, <3>1, <3>2 DEF PendingOnce
  <2> QED
    BY <2>1 DEF PendingOnce
<1>18. Over'
  <2>1. ASSUME NEW d \in RpcClient, NEW e \in Backend, NEW p \in ToSet(answersOf[d]), NEW i \in DOMAIN pending'[e],
               pending'[e][i].client = d, pending'[e][i].origId = p.id
        PROVE  FALSE
    <3>1. \/ i \in DOMAIN pending[e] /\ pending'[e][i] = pending[e][i]
          \/ e = b /\ i = n /\ pending'[e][i] = r
      BY <1>10, <2>1
    <3>2. p.id \in 1 .. askedCalls[d]
      BY <2>1 DEF BalancerInv, AnswersTrue
    <3> QED
      BY <1>1, <1>2, <1>13, <2>1, <3>1, <3>2 DEF Over
  <2> QED
    BY <2>1 DEF Over
<1>19. ASSUME NEW d \in RpcClient PROVE AnswersTrue(d)'
  <2>1. AnswersTrue(d)
    BY DEF BalancerInv
  <2>2. ASSUME NEW i \in 1 .. askedCalls[d] PROVE i \in 1 .. askedCalls'[d]
    BY <1>2, <1>3, <1>11
  <2> QED
    BY <2>1, <2>2 DEF AnswersTrue
<1> QED
  BY <1>12, <1>15, <1>16, <1>17, <1>18, <1>19 DEF BalancerInv

LEMMA RequestKeeps ==
  ASSUME BalancerInv, NEW c \in RpcClient, OnRequest(c)
  PROVE  BalancerInv'
<1>1. /\ askedCalls' = [askedCalls EXCEPT ![c] = @ + 1]
      /\ UNCHANGED <<raw, clientIsUp, answersOf, backendUp, returning, outages, evenAt>>
  BY DEF OnRequest
<1>2. CASE FirstUp = {}
  BY <1>1, <1>2, DroppedKeeps DEF OnRequest
<1>3. CASE FirstUp # {}
  <2>1. PICK n \in FirstUp :
          /\ SendToBackend(Steps(n), Frame(askedCalls'[c], <<c, askedCalls'[c]>>), c)
          /\ current' = NextTurn(n)
    BY <1>3 DEF OnRequest
  <2>2. Steps(n) \in Backend /\ current' \in Backend
    BY <2>1, FirstSteps DEF BalancerInv
  <2> QED
    BY <1>1, <2>1, <2>2, ForwardedKeeps
<1> QED
  BY <1>2, <1>3

\* Messages of one backend go on their way, or are lost.
LEMMA WayKeeps ==
  ASSUME BalancerInv, NEW b \in Backend,
         UNCHANGED <<raw, clientIsUp, askedCalls, answersOf, nextId, pending, current>>,
         backendUp' \in [Backend -> BOOLEAN],
         forwarded' \in [Backend -> Seq(Message)], returning' \in [Backend -> Seq(Message)],
         \A d \in Backend : d # b => forwarded'[d] = forwarded[d] /\ returning'[d] = returning[d],
         Distinct(forwarded'[b]), Distinct(returning'[b]),
         ToSet(forwarded'[b]) \cap ToSet(returning'[b]) = {}, OnTheWay(b)' \subseteq OnTheWay(b)
  PROVE  BalancerInv'
<1>1. BalancerTypeOK'
  BY DEF BalancerInv, BalancerTypeOK
<1> PendingOnce' /\ Over'
  BY DEF BalancerInv, PendingOnce, Over
<1>2. ASSUME NEW c \in RpcClient PROVE AnswersTrue(c)'
  BY DEF BalancerInv, AnswersTrue
<1>3. ASSUME NEW d \in Backend PROVE PendingOK(d)'
  BY DEF BalancerInv, PendingOK
<1>4. ASSUME NEW d \in Backend PROVE WayOK(d)'
  <2>1. WayOK(d)
    BY DEF BalancerInv
  <2>2. CASE d = b
    BY <2>1, <2>2 DEF WayOK
  <2>3. CASE d # b
    BY <2>1, <2>3 DEF WayOK, OnTheWay
  <2> QED
    BY <2>2, <2>3
<1> QED
  BY <1>1, <1>2, <1>3, <1>4 DEF BalancerInv

LEMMA BackendAnswersKeeps ==
  ASSUME BalancerInv, NEW b \in Backend, BackendAnswers(b)
  PROVE  BalancerInv'
<1>1. PICK i \in DOMAIN forwarded[b] :
        /\ returning' = [returning EXCEPT ![b] = Append(returning[b], forwarded[b][i])]
        /\ forwarded' = [forwarded EXCEPT ![b] = RemoveAt(forwarded[b], i)]
  BY DEF BackendAnswers
<1>2. UNCHANGED <<raw, clientIsUp, askedCalls, answersOf, backendUp, nextId, pending, current>>
  BY DEF BackendAnswers
<1>3. BalancerTypeOK /\ WayOK(b)
  BY DEF BalancerInv
<1>4. forwarded[b] \in Seq(Message) /\ returning[b] \in Seq(Message)
  BY <1>3 DEF BalancerTypeOK
<1> DEFINE m == forwarded[b][i]
<1>5. /\ RemoveAt(forwarded[b], i) \in Seq(Message) /\ m \in Message
      /\ ToSet(forwarded[b]) = ToSet(RemoveAt(forwarded[b], i)) \cup {m}
      /\ Distinct(RemoveAt(forwarded[b], i)) /\ m \notin ToSet(RemoveAt(forwarded[b], i))
  BY <1>1, <1>3, <1>4, OneGone DEF WayOK
<1> HIDE DEF m
<1>6. m \notin ToSet(returning[b])
  BY <1>3, <1>5 DEF WayOK
<1>7. /\ Append(returning[b], m) \in Seq(Message) /\ Distinct(Append(returning[b], m))
      /\ ToSet(Append(returning[b], m)) = ToSet(returning[b]) \cup {m}
  BY <1>3, <1>4, <1>5, <1>6, OneAdded DEF WayOK
<1>8. /\ forwarded'[b] = RemoveAt(forwarded[b], i) /\ returning'[b] = Append(returning[b], m)
      /\ forwarded' \in [Backend -> Seq(Message)] /\ returning' \in [Backend -> Seq(Message)]
      /\ \A d \in Backend : d # b => forwarded'[d] = forwarded[d] /\ returning'[d] = returning[d]
  BY <1>1, <1>3, <1>5, <1>7 DEF BalancerTypeOK, m
<1>9. OnTheWay(b)' \subseteq OnTheWay(b)
  BY <1>5, <1>7, <1>8 DEF OnTheWay
<1>10. ToSet(forwarded'[b]) \cap ToSet(returning'[b]) = {}
  BY <1>3, <1>5, <1>7, <1>8 DEF WayOK
<1>11. backendUp' \in [Backend -> BOOLEAN]
  BY <1>2, <1>3 DEF BalancerTypeOK
<1> QED
  BY <1>2, <1>5, <1>7, <1>8, <1>9, <1>10, <1>11, WayKeeps

LEMMA DownUpKeeps ==
  ASSUME BalancerInv, NEW b \in Backend, BackendDownUp(b)
  PROVE  BalancerInv'
<1>1. /\ backendUp' = [backendUp EXCEPT ![b] = ~@]
      /\ forwarded' = [forwarded EXCEPT ![b] = <<>>] /\ returning' = [returning EXCEPT ![b] = <<>>]
      /\ UNCHANGED <<raw, clientIsUp, askedCalls, answersOf, nextId, pending, current>>
  BY DEF BackendDownUp
<1>2. BalancerTypeOK
  BY DEF BalancerInv
<1>3. <<>> \in Seq(Message)
  BY EmptySeq
<1>4. /\ forwarded'[b] = <<>> /\ returning'[b] = <<>>
      /\ forwarded' \in [Backend -> Seq(Message)] /\ returning' \in [Backend -> Seq(Message)]
      /\ \A d \in Backend : d # b => forwarded'[d] = forwarded[d] /\ returning'[d] = returning[d]
  BY <1>1, <1>2, <1>3 DEF BalancerTypeOK
<1>5. backendUp' \in [Backend -> BOOLEAN]
  BY <1>1, <1>2 DEF BalancerTypeOK
<1>6. ToSet(forwarded'[b]) = {} /\ ToSet(returning'[b]) = {} /\ Distinct(forwarded'[b]) /\ Distinct(returning'[b])
  BY <1>4, NothingYet
<1>7. OnTheWay(b)' \subseteq OnTheWay(b)
  BY <1>6 DEF OnTheWay
<1> QED
  BY <1>1, <1>4, <1>5, <1>6, <1>7, WayKeeps

\* The answer finds what is pending, and goes to its client unless that has left.
LEMMA AnswerKeeps ==
  ASSUME BalancerInv, NEW b \in Backend, OnBackendAnswer(b)
  PROVE  BalancerInv'
<1> DEFINE m == Head(returning[b])
           n == m.id
           r == pending[b][n]
           c == r.client
           k == r.origId
           a == [id |-> k, of |-> m.of, sum |-> k]
<1>1. BalancerTypeOK /\ PendingOnce /\ Over /\ WayOK(b) /\ PendingOK(b)
  BY DEF BalancerInv
<1>2. /\ returning[b] # <<>> /\ returning' = [returning EXCEPT ![b] = Tail(returning[b])]
      /\ UNCHANGED <<raw, clientIsUp, askedCalls, backendUp, nextId, current, forwarded, outages,
                     evenAt>>
  BY DEF OnBackendAnswer
<1>3. /\ Tail(returning[b]) \in Seq(Message) /\ m \in Message
      /\ ToSet(returning[b]) = ToSet(Tail(returning[b])) \cup {m}
      /\ Distinct(Tail(returning[b])) /\ m \notin ToSet(Tail(returning[b]))
  BY <1>1, <1>2, OneTaken DEF BalancerTypeOK, WayOK
<1>4. /\ returning'[b] = Tail(returning[b]) /\ returning' \in [Backend -> Seq(Message)]
      /\ \A d \in Backend : d # b => returning'[d] = returning[d]
  BY <1>1, <1>2, <1>3 DEF BalancerTypeOK
<1>5. m \in OnTheWay(b)
  BY <1>3 DEF OnTheWay
<1>6. n \in DOMAIN pending[b] /\ m.of = <<c, k>>
  BY <1>1, <1>5 DEF WayOK
<1>7. r \in Entry /\ c \in RpcClient /\ k \in 1 .. askedCalls[c] /\ k \in Nat
  BY <1>1, <1>6 DEF PendingOK, Entry
<1>8. UpdateId(m, k) = a
  BY <1>1, <1>3, Updated DEF BalancerTypeOK
<1>9. /\ pending' = [pending EXCEPT ![b] = [i \in DOMAIN pending[b] \ {n} |-> pending[b][i]]]
      /\ answersOf' = IF clientIsUp[c] THEN [answersOf EXCEPT ![c] = Append(answersOf[c], a)]
                       ELSE answersOf
  BY <1>6, <1>8 DEF OnBackendAnswer, Restored
<1>10. /\ pending' = [d \in Backend |-> pending'[d]]
       /\ \A d \in Backend : d # b => pending'[d] = pending[d]
       /\ DOMAIN pending'[b] = DOMAIN pending[b] \ {n}
       /\ \A i \in DOMAIN pending'[b] : pending'[b][i] = pending[b][i]
  BY <1>1, <1>9 DEF BalancerTypeOK
<1>11. a \in Message /\ a.id = k /\ a.sum = k /\ a.of = <<c, k>>
  BY <1>3, <1>6, <1>7 DEF Message
<1>12. ASSUME NEW p \in ToSet(answersOf[c]) PROVE p.id # k
  BY <1>1, <1>6, <1>7, <1>12 DEF Over
<1> HIDE DEF a, m, r, n, c, k
<1>13. a \notin ToSet(answersOf[c]) /\ answersOf[c] \in Seq(Message)
  BY <1>1, <1>7, <1>11, <1>12 DEF BalancerTypeOK
<1>14. /\ answersOf' \in [RpcClient -> Seq(Message)]
       /\ \A d \in RpcClient : d # c => answersOf'[d] = answersOf[d]
       /\ answersOf'[c] = answersOf[c] \/ answersOf'[c] = Append(answersOf[c], a)
  <2>1. Append(answersOf[c], a) \in Seq(Message)
    BY <1>11, <1>13, OneAdded
  <2> QED
    BY <1>1, <1>7, <1>9, <2>1 DEF BalancerTypeOK
<1>15. ToSet(Append(answersOf[c], a)) = ToSet(answersOf[c]) \cup {a}
       /\ Len(Append(answersOf[c], a)) = Len(answersOf[c]) + 1
  BY <1>11, <1>13, OneAdded, AppendProperties
<1>16. BalancerTypeOK'
  BY <1>1, <1>2, <1>4, <1>10, <1>14 DEF BalancerTypeOK
<1>17. ASSUME NEW d \in Backend PROVE WayOK(d)' /\ PendingOK(d)'
  <2>1. WayOK(d) /\ PendingOK(d)
    BY DEF BalancerInv
  <2>2. CASE d # b
    BY <1>2, <1>4, <1>10, <2>1, <2>2 DEF WayOK, PendingOK, OnTheWay
  <2>3. CASE d = b
    <3>1. OnTheWay(b)' \subseteq OnTheWay(b) /\ m \notin OnTheWay(b)'
      <4>1. m \notin ToSet(forwarded[b])
        BY <1>1, <1>3 DEF WayOK
      <4> QED
        BY <1>2, <1>3, <1>4, <4>1 DEF OnTheWay
    <3>2. ASSUME NEW p \in OnTheWay(b)' PROVE p.id # n
      BY <1>1, <1>5, <3>1, <3>2 DEF WayOK, n
    <3>3. \A p \in OnTheWay(b)' : /\ p.sum = p.id /\ p.id \in DOMAIN pending'[b]
                                  /\ p.of = <<pending'[b][p.id].client, pending'[b][p.id].origId>>
      BY <1>1, <1>10, <3>1, <3>2 DEF WayOK
    <3>4. WayOK(b)'
      BY <1>1, <1>2, <1>3, <1>4, <3>1, <3>3 DEF WayOK
    <3>5. PendingOK(b)'
      BY <1>1, <1>2, <1>10 DEF PendingOK
    <3> QED
      BY <2>3, <3>4, <3>5
  <2> QED
    BY <2>2, <2>3
<1>18. \A d \in Backend : \A i \in DOMAIN pending'[d] :
          i \in DOMAIN pending[d] /\ pending'[d][i] = pending[d][i] /\ ~(d = b /\ i = n)
  BY <1>10
<1>19. PendingOnce'
  BY <1>1, <1>18 DEF PendingOnce
<1>20. Over'
  <2>1. ASSUME NEW d \in RpcClient, NEW e \in Backend, NEW p \in ToSet(answersOf'[d]), NEW i \in DOMAIN pending'[e],
               pending'[e][i].client = d, pending'[e][i].origId = p.id
        PROVE  FALSE
    <3>1. i \in DOMAIN pending[e] /\ pending'[e][i] = pending[e][i] /\ ~(e = b /\ i = n)
      BY <1>18, <2>1
    <3>2. CASE p \in ToSet(answersOf[d])
      BY <1>1, <2>1, <3>1, <3>2 DEF Over
    <3>3. CASE p \notin ToSet(answersOf[d])
      <4>1. d = c /\ p = a
        <5>1. answersOf'[d] # answersOf[d]
          BY <2>1, <3>3
        <5>2. d = c /\ answersOf'[d] = Append(answersOf[c], a)
          BY <1>14, <5>1
        <5> QED
          BY <1>15, <2>1, <3>3, <5>2
      <4>2. pending[e][i].client = c /\ pending[e][i].origId = k /\ pending[e][i] \in Entry
        BY <1>11, <2>1, <3>1, <4>1 DEF BalancerInv, PendingOK
      <4>3. pending[e][i] = r
        BY <1>7, <4>2 DEF c, k, Entry
      <4> QED
        BY <1>1, <1>6, <3>1, <4>3 DEF PendingOnce, r
    <3> QED
      BY <3>2, <3>3
  <2> QED
    BY <2>1 DEF Over
<1>21. ASSUME NEW d \in RpcClient PROVE AnswersTrue(d)'
  <2>1. AnswersTrue(d)
    BY DEF BalancerInv
  <2>2. CASE answersOf'[d] = answersOf[d]
    BY <1>2, <2>1, <2>2 DEF AnswersTrue
  <2>3. CASE d = c /\ answersOf'[c] = Append(answersOf[c], a)
    <3>1. Cardinality(ToSet(answersOf[c]) \cup {a}) = Cardinality(ToSet(answersOf[c])) + 1
          /\ IsFiniteSet(ToSet(answersOf[c]) \cup {a})
      BY <1>13, <2>1, <2>3, FS_AddElement DEF AnswersTrue
    <3>2. IsFiniteSet(ToSet(answersOf'[c])) /\ Cardinality(ToSet(answersOf'[c])) = Len(answersOf'[c])
      BY <1>15, <2>1, <2>3, <3>1 DEF AnswersTrue
    <3>3. \A p \in ToSet(answersOf'[c]) : p.of = <<c, p.id>> /\ p.sum = p.id /\ p.id \in 1 .. askedCalls[c]
      BY <1>7, <1>11, <1>15, <2>1, <2>3 DEF AnswersTrue
    <3> QED
      BY <1>2, <2>3, <3>2, <3>3 DEF AnswersTrue
  <2> QED
    BY <1>14, <2>2, <2>3
<1> QED
  BY <1>16, <1>17, <1>19, <1>20, <1>21 DEF BalancerInv

LEMMA LeavesKeeps ==
  ASSUME BalancerInv, NEW c \in RpcClient, RpcClientLeaves(c)
  PROVE  BalancerInv'
<1>1. /\ clientIsUp' = [clientIsUp EXCEPT ![c] = FALSE]
      /\ UNCHANGED <<raw, askedCalls, answersOf, backendUp, nextId, pending, current, forwarded, returning>>
  BY DEF RpcClientLeaves
<1>2. BalancerTypeOK' /\ PendingOnce' /\ Over'
  BY <1>1 DEF BalancerInv, BalancerTypeOK, PendingOnce, Over
<1>3. ASSUME NEW b \in Backend PROVE WayOK(b)' /\ PendingOK(b)'
  BY <1>1 DEF BalancerInv, WayOK, PendingOK, OnTheWay
<1>4. ASSUME NEW d \in RpcClient PROVE AnswersTrue(d)'
  BY <1>1 DEF BalancerInv, AnswersTrue
<1> QED
  BY <1>2, <1>3, <1>4 DEF BalancerInv

LEMMA BalancerKeeps == BalancerInv /\ [BalancerNext]_balancerVars => BalancerInv'
<1>1. BalancerInv /\ UNCHANGED balancerVars => BalancerInv'
  <2> SUFFICES ASSUME BalancerInv, UNCHANGED balancerVars PROVE BalancerInv'
    OBVIOUS
  <2>1. UNCHANGED <<raw, clientIsUp, askedCalls, answersOf, backendUp, nextId, pending, current,
                    forwarded, returning>>
    BY DEF balancerVars
  <2>2. BalancerTypeOK' /\ PendingOnce' /\ Over'
    BY <2>1 DEF BalancerInv, BalancerTypeOK, PendingOnce, Over
  <2>3. ASSUME NEW b \in Backend PROVE WayOK(b)' /\ PendingOK(b)'
    BY <2>1 DEF BalancerInv, WayOK, PendingOK, OnTheWay
  <2>4. ASSUME NEW d \in RpcClient PROVE AnswersTrue(d)'
    BY <2>1 DEF BalancerInv, AnswersTrue
  <2> QED
    BY <2>2, <2>3, <2>4 DEF BalancerInv
<1>2. BalancerInv /\ BalancerNext => BalancerInv'
  BY RequestKeeps, LeavesKeeps, BackendAnswersKeeps, AnswerKeeps, DownUpKeeps DEF BalancerNext
<1> QED
  BY <1>1, <1>2

LEMMA BalancerIsRight == BalancerInv => BalancerRight
<1> SUFFICES ASSUME BalancerInv PROVE BalancerRight
  OBVIOUS
<1>1. \A b \in Backend : WayOK(b)
  BY DEF BalancerInv
<1>2. \A c \in RpcClient : AnswersTrue(c)
  BY DEF BalancerInv
<1> QED
  BY <1>1, <1>2 DEF BalancerRight, WayOK, OnTheWay, AnswersTrue

\* However requests, answers, clients that leave and backends that fail cross, each answer
\* goes to the call it is for, once (examples/protobuf/rpcbalancer/balancer.cc).
THEOREM BalancerKept == BalancerSpec => []BalancerRight
BY BalancerStarts, BalancerKeeps, BalancerIsRight, PTL DEF BalancerSpec

-----------------------------------------------------------------------------
(* The turn: since the last backend came, when the turn was at s, each has   *)
(* been given q requests, and those between s and the turn one more.         *)

Ahead(q, s, here, b) ==
    q + (IF s <= here THEN (IF s <= b /\ b < here THEN 1 ELSE 0)
                      ELSE (IF s <= b \/ b < here THEN 1 ELSE 0))

TurnInv ==
    /\ evenAt \in [Backend -> Nat]
    /\ (\A b \in Backend : backendUp[b])
         => \E s \in Backend, q \in Nat :
               \A b \in Backend : nextId[b] = evenAt[b] + Ahead(q, s, current, b)

\* The turn goes round.
LEMMA NextPlace ==
  ASSUME NEW n \in Nat \ {0}, NEW here \in 0 .. n - 1
  PROVE  (here + 1) % n = IF here = n - 1 THEN 0 ELSE here + 1
<1>1. CASE here = n - 1
  <2>1. here + 1 = n /\ n % n = 0
    BY <1>1
  <2> QED
    BY <1>1, <2>1
<1>2. CASE here # n - 1
  <2>1. here + 1 \in 0 .. n - 1
    BY <1>2
  <2> QED
    BY <1>2, <2>1, RemainderSame
<1> QED
  BY <1>1, <1>2

LEMMA TurnStarts == BalancerInit => TurnInv
<1> SUFFICES ASSUME BalancerInit PROVE TurnInv
  OBVIOUS
<1>1. 0 \in Backend /\ ~ backendUp[0]
  BY BackendsGiven DEF BalancerInit, Backend
<1> QED
  BY <1>1 DEF BalancerInit, TurnInv

\* A backend comes or goes: a new count begins.
LEMMA TurnBegins ==
  ASSUME BalancerInv, NEW b \in Backend, BackendDownUp(b)
  PROVE  TurnInv'
<1>1. /\ evenAt' = nextId /\ nextId' = nextId /\ current' = current
      /\ nextId \in [Backend -> Nat] /\ current \in Backend
  BY DEF BackendDownUp, BalancerInv, BalancerTypeOK
<1>2. ASSUME NEW d \in Backend PROVE nextId[d] = nextId[d] + Ahead(0, current, current, d)
  BY <1>1, <1>2 DEF Ahead, Backend
<1> QED
  BY <1>1, <1>2 DEF TurnInv

\* A request goes to the backend whose turn it is.
LEMMA TurnPasses ==
  ASSUME BalancerInv, TurnInv, NEW c \in RpcClient, OnRequest(c)
  PROVE  TurnInv'
<1>1. /\ evenAt' = evenAt /\ backendUp' = backendUp /\ evenAt \in [Backend -> Nat]
      /\ BalancerTypeOK /\ nextId \in [Backend -> Nat] /\ current \in Backend
  BY DEF OnRequest, TurnInv, BalancerInv, BalancerTypeOK
<1> SUFFICES ASSUME \A b \in Backend : backendUp[b]
             PROVE  \E s \in Backend, r \in Nat :
                       \A b \in Backend : nextId'[b] = evenAt[b] + Ahead(r, s, current', b)
  BY <1>1 DEF TurnInv
<1>2. PICK s \in Backend, q \in Nat :
         \A b \in Backend : nextId[b] = evenAt[b] + Ahead(q, s, current, b)
  BY DEF TurnInv
<1>3. CASE FirstUp = {}
  BY <1>2, <1>3 DEF OnRequest
<1>4. CASE FirstUp # {}
  <2>1. PICK n \in FirstUp : /\ nextId' = [nextId EXCEPT ![Steps(n)] = nextId[Steps(n)] + 1]
                             /\ current' = NextTurn(n)
    BY <1>4 DEF OnRequest, SendToBackend
  <2>2. /\ nextId' = [nextId EXCEPT ![current] = nextId[current] + 1]
        /\ current' = (current + 1) % Backends
    BY <1>1, <2>1, FirstSteps
  <2> DEFINE r == IF current' = s THEN q + 1 ELSE q
  <2>3. r \in Nat /\ r = IF current' = s THEN q + 1 ELSE q
    OBVIOUS
  <2> HIDE DEF r
  <2>4. ASSUME NEW b \in Backend PROVE nextId'[b] = evenAt[b] + Ahead(r, s, current', b)
    <3>1. s \in 0 .. Backends - 1 /\ current \in 0 .. Backends - 1 /\ b \in 0 .. Backends - 1
      BY <1>1, <1>2, <2>4 DEF Backend
    <3>2. Ahead(r, s, current', b) = Ahead(q, s, current, b) + (IF b = current THEN 1 ELSE 0)
      <4>1. current' = IF current = Backends - 1 THEN 0 ELSE current + 1
        BY <2>2, <3>1, NextPlace, BackendsGiven
      <4>2. CASE current' = s
        BY <2>3, <3>1, <4>1, <4>2, BackendsGiven DEF Ahead
      <4>3. CASE current' # s
        BY <2>3, <3>1, <4>1, <4>3, BackendsGiven DEF Ahead
      <4> QED
        BY <4>2, <4>3
    <3> DEFINE a == Ahead(q, s, current, b)
    <3>3. nextId'[b] = nextId[b] + (IF b = current THEN 1 ELSE 0)
      BY <1>1, <2>2
    <3>4. nextId[b] = evenAt[b] + a /\ evenAt[b] \in Nat
      BY <1>1, <1>2
    <3>5. a \in Int
      BY <1>1, <1>2 DEF Ahead, Backend
    <3>6. Ahead(r, s, current', b) = a + (IF b = current THEN 1 ELSE 0)
      BY <3>2
    <3> HIDE DEF a
    <3> QED
      BY <3>3, <3>4, <3>5, <3>6
  <2> QED
    BY <2>3, <2>4
<1> QED
  BY <1>3, <1>4

LEMMA TurnKeeps == BalancerInv /\ TurnInv /\ [BalancerNext]_balancerVars => TurnInv'
<1> SUFFICES ASSUME BalancerInv, TurnInv, [BalancerNext]_balancerVars PROVE TurnInv'
  OBVIOUS
<1>1. ASSUME UNCHANGED <<nextId, evenAt, current, backendUp>> PROVE TurnInv'
  BY <1>1 DEF TurnInv
<1>2. CASE UNCHANGED balancerVars
  BY <1>1, <1>2 DEF balancerVars
<1>3. CASE \E c \in RpcClient : RpcClientLeaves(c)
  BY <1>1, <1>3 DEF RpcClientLeaves
<1>4. CASE \E b \in Backend : BackendAnswers(b) \/ OnBackendAnswer(b)
  BY <1>1, <1>4 DEF BackendAnswers, OnBackendAnswer
<1>5. CASE \E c \in RpcClient : OnRequest(c)
  BY <1>5, TurnPasses
<1>6. CASE \E b \in Backend : BackendDownUp(b)
  BY <1>6, TurnBegins
<1> QED
  BY <1>2, <1>3, <1>4, <1>5, <1>6 DEF BalancerNext

LEMMA TurnIsTaken == TurnInv => TurnsTaken
<1> SUFFICES ASSUME TurnInv, \A b \in Backend : backendUp[b], NEW b \in Backend, NEW d \in Backend
             PROVE  nextId[b] - evenAt[b] <= nextId[d] - evenAt[d] + 1
  BY DEF TurnsTaken
<1>1. PICK s \in Backend, q \in Nat :
         \A e \in Backend : nextId[e] = evenAt[e] + Ahead(q, s, current, e)
  BY DEF TurnInv
<1>2. \A e \in Backend : evenAt[e] \in Nat /\ Ahead(q, s, current, e) \in {q, q + 1}
  BY <1>1 DEF TurnInv, Ahead
<1> DEFINE x == Ahead(q, s, current, b)
           y == Ahead(q, s, current, d)
<1>3. /\ nextId[b] = evenAt[b] + x /\ nextId[d] = evenAt[d] + y
      /\ x \in {q, q + 1} /\ y \in {q, q + 1} /\ evenAt[b] \in Nat /\ evenAt[d] \in Nat
  BY <1>1, <1>2
<1> HIDE DEF x, y
<1> QED
  BY <1>3

\* While all backends are up, each is given as many requests as another, or one more
\* (onMessageT of the balancer).
THEOREM TurnsKept == BalancerSpec => []TurnsTaken
<1>1. BalancerInit => BalancerInv /\ TurnInv
  BY BalancerStarts, TurnStarts
<1>2. BalancerInv /\ TurnInv /\ [BalancerNext]_balancerVars => (BalancerInv /\ TurnInv)'
  BY BalancerKeeps, TurnKeeps
<1> QED
  BY <1>1, <1>2, TurnIsTaken, PTL DEF BalancerSpec
=============================================================================
