------------------------------- MODULE Threads -------------------------------
(***************************************************************************)
(* muduo's BlockingQueue, BoundedBlockingQueue and ThreadPool: producers    *)
(* put work into a deque under a mutex, workers take it out, and both sleep *)
(* on conditions. A critical section is one step; wait() lets the mutex go  *)
(* and is a step of its own, from which a thread returns when it is         *)
(* notified, or spuriously, to test its condition again. Work is a number,  *)
(* given in the order it is put. A ThreadPool without threads runs a task   *)
(* in run() and has no state.                                               *)
(***************************************************************************)
EXTENDS Naturals, Sequences, FiniteSets

CONSTANTS Worker, Producer,
          Capacities,  \* the values of maxQueueSize_: 0 is without a limit
          MaxWork      \* bound: how much work is put

ASSUME CapacitiesAreNumbers == Capacities \subseteq Nat /\ MaxWork \in Nat
ASSUME ThreadsAreFew == IsFiniteSet(Worker) /\ IsFiniteSet(Producer)

VARIABLES capacity,   \* maxQueueSize_, or the capacity of the circular buffer
          pooled,     \* ThreadPool, whose workers see running_; else a bare queue
          queue, put,
          running,    \* running_
          worker,     \* "check" | "take" | "asleep" (notEmpty_) | "run" | "exit"
          held,       \* the work that a worker runs, or 0
          producer,   \* "idle" | "put" | "blocked" (notFull_)
          ran,        \* work that was run
          stopper     \* the thread in stop(): "idle" | "join" | "joined"

workVars == <<capacity, pooled, queue, put, running, worker, held, producer, ran, stopper>>

Asleep == {w \in Worker : worker[w] = "asleep"}
Blocked == {p \in Producer : producer[p] = "blocked"}

\* Room for one too many.
IsOverfull == capacity > 0 /\ Len(queue) > capacity

IsFull == capacity > 0 /\ Len(queue) >= capacity

\* pthread_cond_signal: one of the sleepers goes on to test its condition.
Notify(threads, sleepers, awake, threads2) ==
    IF sleepers = {} THEN threads2 = threads
    ELSE \E t \in sleepers : threads2 = [threads EXCEPT ![t] = awake]

\* Code that notifies a worker only of the first work in the queue, and a producer
\* only when the queue was full.
WakesWorkerRarely == IF queue # <<>> THEN worker' = worker
                     ELSE Notify(worker, Asleep, "take", worker')
WakesProducerRarely == IF ~IsFull THEN producer' = producer
                       ELSE Notify(producer, Blocked, "put", producer')

NotifyWorker == Notify(worker, Asleep, "take", worker')

NotifyProducer == Notify(producer, Blocked, "put", producer')

\* run() or put() is called.
Give(p) ==
    /\ producer[p] = "idle"
    /\ put + Cardinality({q \in Producer : producer[q] # "idle"}) < MaxWork
    /\ producer' = [producer EXCEPT ![p] = "put"]
    /\ UNCHANGED <<capacity, pooled, queue, put, running, worker, held, ran, stopper>>

Put(p) ==
    /\ producer[p] = "put"
    /\ IF IsFull
         THEN /\ producer' = [producer EXCEPT ![p] = "blocked"]
              /\ UNCHANGED <<queue, put, worker>>
         ELSE /\ put' = put + 1
              /\ queue' = Append(queue, put')
              /\ NotifyWorker
              /\ producer' = [producer EXCEPT ![p] = "idle"]
    /\ UNCHANGED <<capacity, pooled, running, held, ran, stopper>>

\* runInThread() reads running_ without the mutex; a bare queue's user takes for ever.
Check(w) ==
    /\ worker[w] = "check"
    /\ worker' = [worker EXCEPT ![w] = IF running THEN "take" ELSE "exit"]
    /\ UNCHANGED <<capacity, pooled, queue, put, running, held, producer, ran, stopper>>

\* take(): the first work, no work once the pool is stopped, or a wait.
Take(w) ==
    /\ worker[w] = "take"
    /\ IF queue # <<>>
         THEN /\ queue' = Tail(queue)
              /\ worker' = [worker EXCEPT ![w] = "run"]
              /\ held' = [held EXCEPT ![w] = Head(queue)]
              /\ NotifyProducer
         ELSE /\ worker' = [worker EXCEPT ![w] = IF running THEN "asleep" ELSE "check"]
              /\ UNCHANGED <<queue, held, producer>>
    /\ UNCHANGED <<capacity, pooled, put, running, ran, stopper>>

Run(w) ==
    /\ worker[w] = "run"
    /\ ran' = Append(ran, held[w])
    /\ held' = [held EXCEPT ![w] = 0]
    /\ worker' = [worker EXCEPT ![w] = "check"]
    /\ UNCHANGED <<capacity, pooled, queue, put, running, producer, stopper>>

\* pthread_cond_wait may return without a notification.
Spurious ==
    /\ \/ \E w \in Asleep : worker' = [worker EXCEPT ![w] = "take"] /\ UNCHANGED producer
       \/ \E p \in Blocked : producer' = [producer EXCEPT ![p] = "put"] /\ UNCHANGED worker
    /\ UNCHANGED <<capacity, pooled, queue, put, running, held, ran, stopper>>

\* A stop() that notifies one worker.
NotifyOne == LET first == CHOOSE w \in Worker : Asleep = {} \/ w \in Asleep
             IN [w \in Worker |-> IF w \in Asleep /\ w = first THEN "take" ELSE worker[w]]

\* stop(): the workers that wait are notified, the producers that wait are not.
NotifyAll == [w \in Worker |-> IF w \in Asleep THEN "take" ELSE worker[w]]

Stop ==
    /\ pooled /\ stopper = "idle"
    /\ running' = FALSE
    /\ worker' = NotifyAll
    /\ stopper' = "join"
    /\ UNCHANGED <<capacity, pooled, queue, put, held, producer, ran>>

Joined ==
    /\ stopper = "join" /\ \A w \in Worker : worker[w] = "exit"
    /\ stopper' = "joined"
    /\ UNCHANGED <<capacity, pooled, queue, put, running, worker, held, producer, ran>>

WorkInit ==
    /\ capacity \in Capacities /\ pooled \in BOOLEAN
    /\ queue = <<>> /\ put = 0 /\ running = TRUE /\ ran = <<>>
    /\ worker = [w \in Worker |-> "check"] /\ held = [w \in Worker |-> 0]
    /\ producer = [p \in Producer |-> "idle"]
    /\ stopper = "idle"

WorkerGoesOn(w) == Check(w) \/ Take(w) \/ Run(w)

WorkNext ==
    \/ \E p \in Producer : Give(p) \/ Put(p)
    \/ \E w \in Worker : WorkerGoesOn(w)
    \/ Spurious \/ Stop \/ Joined

-----------------------------------------------------------------------------
WorkTypeOK ==
    /\ capacity \in Capacities /\ pooled \in BOOLEAN /\ running \in BOOLEAN
    /\ queue \in Seq(1 .. MaxWork) /\ put \in 0 .. MaxWork
    /\ capacity > 0 => Len(queue) <= capacity
    /\ worker \in [Worker -> {"check", "take", "asleep", "run", "exit"}]
    /\ held \in [Worker -> 0 .. MaxWork] /\ \A w \in Worker : held[w] > 0 <=> worker[w] = "run"
    /\ producer \in [Producer -> {"idle", "put", "blocked"}]
    /\ stopper \in {"idle", "join", "joined"}

\* While a worker sleeps there is a worker on its way for every task of the queue
\* (ThreadPool.cc:92, 132: one notification for each task, and while, not if).
NoSleepOverWork ==
    Asleep # {} => Len(queue) <= Cardinality({w \in Worker : worker[w] = "take"})

\* While a producer waits for room there is a producer on its way for every free
\* place (ThreadPool.cc:127: one notification for each task that is taken).
NoWaitOverRoom ==
    Blocked # {} => capacity - Len(queue) <= Cardinality({p \in Producer : producer[p] = "put"})

\* Promises, [asked ~> kept]. stop() returns, whatever the workers were doing.
StopReturns == [asked |-> stopper = "join", kept |-> stopper = "joined"]

\* The queue is emptied and producers that wait get their work in, unless the pool is
\* stopped: stop() leaves the queue as it is and wakes none of them (ThreadPool.cc:53).
WorkIsRun == [asked |-> queue # <<>>, kept |-> queue = <<>> \/ ~running]
WorkGetsIn == [asked |-> Blocked # {}, kept |-> Blocked = {} \/ ~running]

-----------------------------------------------------------------------------
(***************************************************************************)
(* Thread::start() of muduo, with the MutexLock, the Condition and the      *)
(* CountDownLatch it is built from. The latch is a member of the Thread,    *)
(* which the starter may destroy as soon as start() has returned; the new   *)
(* thread counts the latch down through a pointer. holder_ is what          *)
(* isLockedByThisThread() and the assertions read.                          *)
(***************************************************************************)
CONSTANTS Starter, Child, Nobody

ASSUME ThreadsDiffer == Starter # Child /\ Nobody \notin {Starter, Child}

VARIABLES mutex,    \* who has the pthread mutex
          holder,   \* holder_
          count,    \* count_ of the latch
          sleeping, \* the starter is in pthread_cond_wait
          pc,       \* where the two threads are
          tid,      \* tid_
          alive,    \* the Thread, with its latch, is there
          joins     \* the starter joins before it destroys the Thread

startVars == <<mutex, holder, count, sleeping, pc, tid, alive, joins>>

At(t, place) == pc[t] = place

Goes(t, place) == pc' = [pc EXCEPT ![t] = place]

Locked(t) == mutex = Nobody /\ mutex' = t /\ holder' = t

Unlocked == mutex' = Nobody /\ holder' = Nobody

\* pthread_create succeeds: the child runs with &tid_ and &latch_.
Create ==
    /\ At(Starter, "new")
    /\ pc' = [pc EXCEPT ![Starter] = "wait", ![Child] = "tid"]
    /\ UNCHANGED <<mutex, holder, count, sleeping, tid, alive, joins>>

\* pthread_create fails: LOG_SYSFATAL.
CreateFails ==
    /\ At(Starter, "new") /\ Goes(Starter, "aborted")
    /\ UNCHANGED <<mutex, holder, count, sleeping, tid, alive, joins>>

\* latch_.wait(): lock, while (count_ > 0), unlock.
WaitLocks ==
    /\ At(Starter, "wait") /\ Locked(Starter) /\ Goes(Starter, "test")
    /\ UNCHANGED <<count, sleeping, tid, alive, joins>>

\* Condition::wait lets holder_ go before the mutex and takes it after.
GuardForgotten == holder' = holder
UnassignGuard == holder' = Nobody

WaitSleeps ==
    /\ At(Starter, "test") /\ count > 0
    /\ UnassignGuard /\ mutex' = Nobody /\ sleeping' = TRUE /\ Goes(Starter, "wake")
    /\ UNCHANGED <<count, tid, alive, joins>>

\* A wait that is a test, not a loop.
BackToTheEnd == "unlock"
BackToTheTest == "test"

WaitWakes ==
    /\ At(Starter, "wake") /\ ~sleeping /\ Locked(Starter) /\ Goes(Starter, BackToTheTest)
    /\ UNCHANGED <<count, sleeping, tid, alive, joins>>

WaitIsOver ==
    /\ \/ At(Starter, "test") /\ count = 0
       \/ At(Starter, "unlock")
    /\ Unlocked /\ Goes(Starter, "started")
    /\ UNCHANGED <<count, sleeping, tid, alive, joins>>

\* pthread_cond_wait may return without a notification.
Wakes == /\ sleeping /\ sleeping' = FALSE
         /\ UNCHANGED <<mutex, holder, count, pc, tid, alive, joins>>

SetTid ==
    /\ At(Child, "tid") /\ tid' = 1 /\ Goes(Child, "lock")
    /\ UNCHANGED <<mutex, holder, count, sleeping, alive, joins>>

CountDownLocks ==
    /\ At(Child, "lock") /\ Locked(Child) /\ Goes(Child, "down")
    /\ UNCHANGED <<count, sleeping, tid, alive, joins>>

\* A countDown() that lets the mutex go before it notifies.
LocksNoMore == Unlocked
StaysLocked == UNCHANGED <<mutex, holder>>

CountDown ==
    /\ At(Child, "down") /\ count' = count - 1 /\ StaysLocked
    /\ Goes(Child, IF count' = 0 THEN "notify" ELSE "unlock")
    /\ UNCHANGED <<sleeping, tid, alive, joins>>

NotifiesNobody == FALSE
NotifiesAll == TRUE

NotifyWaiters ==
    /\ At(Child, "notify") /\ Goes(Child, "unlock")
    /\ sleeping' = (sleeping /\ ~NotifiesAll)
    /\ UNCHANGED <<mutex, holder, count, tid, alive, joins>>

CountDownUnlocks ==
    /\ At(Child, "unlock")
    /\ IF mutex = Child THEN Unlocked ELSE UNCHANGED <<mutex, holder>>
    /\ Goes(Child, "func")
    /\ UNCHANGED <<count, sleeping, tid, alive, joins>>

Finish ==
    /\ At(Child, "func") /\ Goes(Child, "finished")
    /\ UNCHANGED <<mutex, holder, count, sleeping, tid, alive, joins>>

\* ~Thread, after join() or with the thread detached.
DestroyThread ==
    /\ At(Starter, "started") /\ (joins => At(Child, "finished"))
    /\ alive' = FALSE /\ Goes(Starter, "gone")
    /\ UNCHANGED <<mutex, holder, count, sleeping, tid, joins>>

StartInit ==
    /\ mutex = Nobody /\ holder = Nobody /\ count = 1 /\ sleeping = FALSE
    /\ pc = [t \in {Starter, Child} |-> "new"] /\ tid = 0
    /\ alive = TRUE /\ joins \in BOOLEAN

StarterGoesOn == \/ Create \/ WaitLocks \/ WaitSleeps \/ WaitWakes \/ WaitIsOver
                 \/ DestroyThread
ChildGoesOn == SetTid \/ CountDownLocks \/ CountDown \/ NotifyWaiters \/ CountDownUnlocks \/ Finish

StartNext == StarterGoesOn \/ ChildGoesOn \/ CreateFails \/ Wakes

-----------------------------------------------------------------------------
StartTypeOK ==
    /\ mutex \in {Nobody, Starter, Child} /\ holder \in {Nobody, Starter, Child}
    /\ count \in {0, 1} /\ sleeping \in BOOLEAN /\ tid \in {0, 1}
    /\ alive \in BOOLEAN /\ joins \in BOOLEAN

\* holder_ names the thread that is between lock() and unlock(), across wait() too, so
\* that assertLocked() holds there and ~MutexLock finds nobody (Mutex.h:60, 122).
HolderTrue == holder = mutex

\* start() returns when the thread's id is known (Thread.cc:208), and what the new
\* thread uses of the Thread is there however early the starter destroys it.
StartedRightly ==
    /\ pc[Starter] \in {"started", "gone"} => tid > 0 /\ count = 0
    /\ pc[Child] \in {"tid", "lock", "down", "notify", "unlock"} => alive

\* What holds of the threads: nobody sleeps over work or room, and start() and its latch
\* outlive nothing that is used.
ThreadsInit == WorkInit /\ StartInit
ThreadsNext == (WorkNext /\ UNCHANGED startVars) \/ (StartNext /\ UNCHANGED workVars)
ThreadsSpec == ThreadsInit /\ [][ThreadsNext]_<<workVars, startVars>>

ThreadsSafe == /\ WorkTypeOK /\ NoSleepOverWork /\ NoWaitOverRoom
               /\ StartTypeOK /\ HolderTrue /\ StartedRightly

\* A promise: start() returns.
StartReturns == [asked |-> At(Starter, "wait"), kept |-> pc[Starter] \in {"started", "gone"}]
=============================================================================
