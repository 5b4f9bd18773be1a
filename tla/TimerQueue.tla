------------------------------ MODULE TimerQueue ------------------------------
(***************************************************************************)
(* muduo's TimerQueue in the loop it belongs to. Timers are objects on the  *)
(* heap that callers know by address and sequence number; timers_ orders    *)
(* them by time, activeTimers_ finds them by their TimerId. Times are       *)
(* relative to the wall clock, which may be set; the timerfd is not.        *)
(***************************************************************************)
EXTENDS Integers, Sequences, SequencesExt

CONSTANTS
    Addr,      \* addresses that new Timer may return
    MaxTimers, \* bound: timers that are ever made
    Delays,    \* delays, in ticks; 0 is the present, as Inspector asks for
    MaxLate,   \* bound: how late the loop may be
    MaxTasks,  \* bound: functors of other threads that wait
    NoTimer    \* no object; a timerfd that is not armed

Timer == [seq : Nat, due : Int, every : Nat]

ASSUME DelayAssumption == /\ Delays \subseteq Nat /\ MaxLate \in Nat
                          /\ NoTimer \notin Int \cup Addr \cup Timer

VARIABLES
    heap,      \* what is at an address: [seq, due, every], due relative to now
    timers,    \* timers_: addresses, ordered by due
    activeTimers,    \* activeTimers_: <<address, sequence number>>
    armed,     \* ticks until the timerfd is readable
    phase,     \* where the loop is
    reported,  \* poll has reported the timerfd
    batch,     \* the expired timers, in order
    next,      \* the first of them that has not been run
    canceling, \* cancelingTimers_
    tasks,     \* functors of other threads: addTimerInLoop, cancelInLoop
    round,     \* how many of them this round runs
    created,   \* s_numCreated_
    ids,       \* TimerIds that were given out
    cancelled, \* history: sequence numbers of the timers that cancelInLoop knew
    clockStep  \* history: by how much the wall clock was set, once at most

timerVars == <<heap, timers, activeTimers, armed, phase, reported, batch, next, canceling, tasks,
               round, created, ids, cancelled, clockStep>>
objects == <<heap, created, ids>>
sets == <<timers, activeTimers, armed>>
batchVars == <<phase, reported, batch, next, canceling>>

AtLeast0(n) == IF n > 0 THEN n ELSE 0
Earlier(h, a, b) == h[a].due < h[b].due
Earliest(h, S) == {a \in S : \A b \in S : h[a].due <= h[b].due}

\* howMuchTimeFromNow: no less than 100 microseconds, which is no tick.
TimeFromNow(due) == AtLeast0(due)

\* Code of the program runs in the loop: a handler, a functor or a timer callback.
InLoop == \/ phase \in {"events", "functors"}
          \/ phase = "calling" /\ next > 1

-----------------------------------------------------------------------------
(* addTimer and cancel.                                                     *)

\* new Timer, and the TimerId of it.
Create(a, delay, every) ==
    /\ heap[a] = NoTimer /\ created < MaxTimers
    /\ heap' = [heap EXCEPT ![a] = [seq |-> created + 1, due |-> delay, every |-> every]]
    /\ created' = created + 1
    /\ ids' = ids \cup {<<a, created + 1>>}

\* The faulty insert that misses the first timer of an empty list.
NeverFirst(h, a) == timers # {} /\ \A b \in timers : Earlier(h, a, b)

\* insert: whether the earliest expiration changed.
EarliestChanged(h, a) == \A b \in timers : Earlier(h, a, b)

\* addTimerInLoop, with insert: the timerfd is set if the timer comes first.
AddTimerInLoop(h, a) ==
    /\ timers' = timers \cup {a}
    /\ activeTimers' = activeTimers \cup {<<a, h[a].seq>>}
    /\ armed' = IF EarliestChanged(h, a) THEN TimeFromNow(h[a].due) ELSE armed

\* A timer that waits or is being run. A cancel() in the loop does not know one that
\* another thread has just added: addTimerInLoop is still a functor.
InBatch(id) == id[1] \in ToSet(batch) /\ heap[id[1]] # NoTimer /\ heap[id[1]].seq = id[2]
Findable(id) == id \in activeTimers \/ InBatch(id)

\* The faulty cancel that does not look at the sequence number.
FindByAddress(id) == {x \in activeTimers : x[1] = id[1]}

\* The faulty cancel that deletes the timer that is being run.
FindRunning(id) == IF Findable(id) THEN {id} ELSE {}

\* activeTimers_.find.
Find(id) == activeTimers \cap {id}

\* cancelInLoop: a timer that waits is deleted, one that is being run is remembered.
CancelInLoop(id) ==
    LET found == Find(id) IN
    /\ activeTimers' = activeTimers \ found
    /\ timers' = timers \ {x[1] : x \in found}
    /\ heap' = [a \in Addr |-> IF \E x \in found : x[1] = a THEN NoTimer ELSE heap[a]]
    /\ canceling' = IF found = {} /\ phase = "calling" THEN canceling \cup {id} ELSE canceling
    /\ cancelled' = IF Findable(id) THEN cancelled \cup {id[2]} ELSE cancelled

AddFromLoop(a, delay, every) ==
    /\ InLoop /\ Create(a, delay, every)
    /\ AddTimerInLoop(heap', a)
    /\ UNCHANGED <<batchVars, tasks, round, cancelled, clockStep>>

CancelFromLoop(id) ==
    /\ InLoop /\ id[2] \notin cancelled
    /\ CancelInLoop(id)
    /\ UNCHANGED <<armed, phase, reported, batch, next, tasks, round, created, ids, clockStep>>

\* From another thread both go through the functors of the loop.
AddTimer(a, delay, every) ==
    /\ Len(tasks) < MaxTasks /\ Create(a, delay, every)
    /\ tasks' = Append(tasks, [op |-> "add", id |-> <<a, created + 1>>])
    /\ UNCHANGED <<sets, batchVars, round, cancelled, clockStep>>

Cancel(id) ==
    /\ Len(tasks) < MaxTasks /\ id[2] \notin cancelled
    /\ [op |-> "cancel", id |-> id] \notin ToSet(tasks)
    /\ tasks' = Append(tasks, [op |-> "cancel", id |-> id])
    /\ UNCHANGED <<objects, sets, batchVars, round, cancelled, clockStep>>

-----------------------------------------------------------------------------
(* The loop.                                                                *)

\* poll returns.
PollTimers ==
    /\ phase = "poll"
    /\ phase' = "events" /\ reported' = (armed = 0)
    /\ UNCHANGED <<objects, sets, batch, next, canceling, tasks, round, cancelled, clockStep>>

\* The orders of timers_: by due, and those of the same moment by address.
InOrder(S) ==
    {s \in [1 .. Cardinality(S) -> S] :
        /\ \A a \in S : \E i \in DOMAIN s : s[i] = a
        /\ \A i, j \in DOMAIN s : i < j => s[i] # s[j] /\ heap[s[i]].due <= heap[s[j]].due}

\* handleRead with readTimerfd and getExpired: what is due leaves both sets.
HandleTimers ==
    /\ phase = "events" /\ reported
    /\ LET expired == {a \in timers : heap[a].due <= 0}
       IN  /\ batch' \in InOrder(expired)
           /\ timers' = timers \ expired
           /\ activeTimers' = {x \in activeTimers : x[1] \notin expired}
    /\ armed' = IF armed = 0 THEN NoTimer ELSE armed
    /\ phase' = "calling" /\ reported' = FALSE /\ next' = 1 /\ canceling' = {}
    /\ UNCHANGED <<objects, tasks, round, cancelled, clockStep>>

\* The callback of the next timer.
RunTimer ==
    /\ phase = "calling" /\ next <= Len(batch)
    /\ next' = next + 1
    /\ UNCHANGED <<objects, sets, phase, reported, batch, canceling, tasks, round, cancelled,
                   clockStep>>

\* The faulty reset that forgets what was cancelled from a callback.
RestartsAnyway(a) == heap[a].every > 0

\* Whether a timer of the batch goes on.
Restarts(a) == heap[a].every > 0 /\ <<a, heap[a].seq>> \notin canceling

\* The faulty timerfd that is set for restarted timers only.
NextExpireOfBatch(h, again, all) ==
    IF again = {} THEN UNCHANGED armed
    ELSE \E a \in Earliest(h, again) : armed' = TimeFromNow(h[a].due)

\* reset: the timerfd is set for the first of all timers that wait now.
NextExpire(h, again, all) ==
    IF all = {} THEN UNCHANGED armed
    ELSE \E a \in Earliest(h, all) : armed' = TimeFromNow(h[a].due)

\* reset: repeated timers are started again from the time of handleRead, the others
\* are deleted.
Reset ==
    /\ phase = "calling" /\ next > Len(batch)
    /\ LET again == {a \in ToSet(batch) : Restarts(a)}
           h == [a \in Addr |->
                   IF a \in again THEN [heap[a] EXCEPT !.due = heap[a].every]
                   ELSE IF a \in ToSet(batch) THEN NoTimer ELSE heap[a]]
       IN  /\ heap' = h
           /\ timers' = timers \cup again
           /\ activeTimers' = activeTimers \cup {<<a, heap[a].seq>> : a \in again}
           /\ NextExpire(h, again, timers \cup again)
    /\ phase' = "events" /\ batch' = <<>> /\ next' = 1
    /\ UNCHANGED <<created, ids, reported, canceling, tasks, round, cancelled, clockStep>>

\* doPendingFunctors takes what is there.
TakeTasks ==
    /\ phase = "events" /\ ~ reported
    /\ phase' = "functors" /\ round' = Len(tasks)
    /\ UNCHANGED <<objects, sets, reported, batch, next, canceling, tasks, cancelled, clockStep>>

RunTask ==
    /\ phase = "functors" /\ round > 0
    /\ LET o == Head(tasks) IN
       \/ /\ o.op = "add"
          /\ AddTimerInLoop(heap, o.id[1])
          /\ UNCHANGED <<heap, canceling, cancelled>>
       \/ /\ o.op = "cancel"
          /\ CancelInLoop(o.id)
          /\ UNCHANGED armed
    /\ tasks' = Tail(tasks) /\ round' = round - 1
    /\ UNCHANGED <<created, ids, phase, reported, batch, next, clockStep>>

EndRound ==
    /\ phase = "functors" /\ round = 0
    /\ phase' = "poll"
    /\ UNCHANGED <<objects, sets, reported, batch, next, canceling, tasks, round, cancelled,
                   clockStep>>

-----------------------------------------------------------------------------
(* The clocks.                                                              *)

Shift(n) == [a \in Addr |-> IF heap[a] = NoTimer THEN NoTimer
                            ELSE [heap[a] EXCEPT !.due = @ + n]]
NotLate == \A a \in Addr : heap[a] # NoTimer => heap[a].due > - MaxLate

\* A callback takes no tick: the time of handleRead is that of reset.
TimePasses ==
    /\ NotLate /\ phase # "calling"
    /\ heap' = Shift(-1)
    /\ armed' = IF armed = NoTimer THEN NoTimer ELSE AtLeast0(armed - 1)
    /\ UNCHANGED <<created, ids, timers, activeTimers, batchVars, tasks, round, cancelled, clockStep>>

\* The wall clock is set by a tick, ahead or back; the timerfd does not notice.
SetAhead ==
    /\ NotLate /\ phase # "calling" /\ clockStep = 0
    /\ heap' = Shift(-1) /\ clockStep' = 1
    /\ UNCHANGED <<created, ids, sets, batchVars, tasks, round, cancelled>>

SetBack ==
    /\ phase # "calling" /\ clockStep = 0
    /\ heap' = Shift(1) /\ clockStep' = -1
    /\ UNCHANGED <<created, ids, sets, batchVars, tasks, round, cancelled>>

-----------------------------------------------------------------------------
TimerInit ==
    /\ heap = [a \in Addr |-> NoTimer]
    /\ timers = {} /\ activeTimers = {} /\ armed = NoTimer
    /\ phase = "poll" /\ reported = FALSE /\ batch = <<>> /\ next = 1 /\ canceling = {}
    /\ tasks = <<>> /\ round = 0 /\ created = 0 /\ ids = {} /\ cancelled = {}
    /\ clockStep = 0

TimerLoop == PollTimers \/ HandleTimers \/ RunTimer \/ Reset \/ TakeTasks \/ RunTask \/ EndRound

TimerNext ==
    \/ TimerLoop \/ TimePasses \/ SetAhead \/ SetBack
    \/ \E id \in ids : Cancel(id) \/ CancelFromLoop(id)
    \/ \E a \in Addr, d \in Delays : \E every \in {0, d} :
          AddTimer(a, d, every) \/ AddFromLoop(a, d, every)

TimerSpec == TimerInit /\ [][TimerNext]_timerVars

\* The loop goes on; poll returns when the timerfd is readable or a functor came.
TimerLoopGoesOn == TimerLoop /\ (phase = "poll" => armed = 0 \/ tasks # <<>>)
TimerFairness == WF_timerVars(TimerLoopGoesOn) /\ WF_timerVars(TimePasses)

-----------------------------------------------------------------------------
(* Correctness.                                                             *)

Waiting(id) == [op |-> "add", id |-> id] \in ToSet(tasks)

\* Type invariant; the two sets hold the same timers, and an object that is deleted
\* is in neither, nor among the timers that are being run or still to be added.
TimerTypeOK ==
    /\ phase \in {"poll", "events", "calling", "functors"} /\ reported \in BOOLEAN
    /\ armed \in Nat \cup {NoTimer}
    /\ \A a \in Addr : heap[a] # NoTimer => heap[a].seq \in 1 .. created
    /\ round \in 0 .. Len(tasks) /\ next \in 1 .. Len(batch) + 1
    /\ timers = {x[1] : x \in activeTimers}
    /\ \A id \in activeTimers \cup {o.id : o \in {t \in ToSet(tasks) : t.op = "add"}} :
          heap[id[1]] # NoTimer /\ heap[id[1]].seq = id[2]
    /\ \A a \in ToSet(batch) : heap[a] # NoTimer /\ a \notin timers

\* While a timer waits the timerfd is armed, and for no later than the first of
\* them, but for what the wall clock was set ahead: whatever was added, cancelled
\* and restarted from callbacks, from functors and while the clock was set.
ArmedInTime ==
    phase # "calling" /\ timers # {} =>
        /\ armed # NoTimer
        /\ \A a \in timers : armed <= AtLeast0(heap[a].due) + AtLeast0(clockStep)

\* cancel() stops the timer it was called for and no other, although its address
\* may have been reused since.
CancelExact ==
    [][\A id \in ids :
          Findable(id) /\ heap[id[1]].every > 0
             /\ id[2] \notin cancelled' =>
                Findable(id)']_timerVars

\* A timer that was cancelled is run once more at most, if it had expired together
\* with the one that cancelled it; a repeated timer can stop itself.
CancelStops ==
    [][\A a \in Addr :
          phase = "calling" /\ next' = next + 1 /\ a = batch[next]
             /\ heap[a].seq \in cancelled =>
                <<a, heap[a].seq>> \in canceling]_timerVars

\* A timer that waits is run in the end, however the wall clock was set.
TimerExpires ==
    \A a \in Addr, n \in 1 .. MaxTimers :
        (<<a, n>> \in activeTimers \/ Waiting(<<a, n>>)) ~> (InBatch(<<a, n>>) \/ n \in cancelled)

=============================================================================
