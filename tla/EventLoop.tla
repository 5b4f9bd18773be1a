------------------------------- MODULE EventLoop -------------------------------
(***************************************************************************)
(* muduo's EventLoop in a thread of its own (EventLoopThread): the wakeup   *)
(* descriptor, pendingFunctors_ under its mutex, quit_ without one, and the *)
(* life of the loop, a variable on the stack of threadFunc.                 *)
(* Callers are threads that got the loop from startLoop; a functor or an    *)
(* event handler of the loop itself calls from inside the loop.             *)
(***************************************************************************)
EXTENDS Naturals, Sequences, SequencesExt

CONSTANTS
    Task,   \* bound: the functors that are ever queued
    Caller  \* the threads that queue functors, and may call quit

VARIABLES
    at,       \* where threadFunc and loop() are
    pointer,  \* EventLoopThread::loop_ is not null
    owner,    \* where the owner of the EventLoopThread is
    calls,    \* per caller, whether it has yet to call wakeup()
    quit,     \* quit_
    pending,  \* pendingFunctors_
    functors, \* the local vector of doPendingFunctors
    readable, \* the eventfd has been written to
    woken,   \* the wakeup channel is among activeChannels_
    early,    \* history: queued by the thread itself before loop()
    heeded,   \* history: quit() was called when loop() had been entered
    done      \* history: the functors that were run, in order

loopVars == <<at, pointer, owner, calls, quit, pending, functors, readable, woken,
              early, heeded, done>>

Known == ToSet(pending) \cup ToSet(functors) \cup ToSet(done)
Looping == at \in {"poll", "events", "run"}

-----------------------------------------------------------------------------
(* EventLoopThread.                                                         *)

\* startLoop: the thread is created; the constructor of the loop and callback_ run.
StartLoop ==
    /\ owner = "new" /\ at = "none"
    /\ owner' = "starting" /\ at' = "init"
    /\ UNCHANGED <<pointer, calls, quit, pending, functors, readable, woken, early,
                   heeded, done>>

\* threadFunc: loop_ is set under the mutex, and the owner is notified.
Publish ==
    /\ at = "init"
    /\ pointer' = TRUE /\ at' = "ready"
    /\ UNCHANGED <<owner, calls, quit, pending, functors, readable, woken, early,
                   heeded, done>>

\* startLoop: the wait for loop_ is over.
Started ==
    /\ owner = "starting" /\ pointer
    /\ owner' = "running"
    /\ UNCHANGED <<at, pointer, calls, quit, pending, functors, readable, woken, early,
                   heeded, done>>

\* The destructor, when no caller uses the loop any more: its test of loop_.
Destroy ==
    /\ owner = "running" /\ \A c \in Caller : ~ calls[c]
    /\ owner' = IF pointer THEN "quitting" ELSE "left"
    /\ UNCHANGED <<at, pointer, calls, quit, pending, functors, readable, woken, early,
                   heeded, done>>

\* The destructor calls quit(): first quit_, then wakeup(). The loop may be gone by
\* then, as the comments of both classes say; the model ends there.
OwnerQuits ==
    /\ owner = "quitting" /\ at # "gone"
    /\ quit' = TRUE /\ owner' = "waking" /\ heeded' = (heeded \/ Looping)
    /\ UNCHANGED <<at, pointer, calls, pending, functors, readable, woken, early, done>>

OwnerWakes ==
    /\ owner = "waking" /\ at # "gone"
    /\ readable' = TRUE /\ owner' = "joining"
    /\ UNCHANGED <<at, pointer, calls, quit, pending, functors, woken, early, heeded, done>>

Join ==
    /\ owner = "joining" /\ at = "gone"
    /\ owner' = "left"
    /\ UNCHANGED <<at, pointer, calls, quit, pending, functors, readable, woken, early,
                   heeded, done>>

\* threadFunc returns: loop_ is reset without the mutex, and the loop destroyed.
Return ==
    /\ at = "out"
    /\ pointer' = FALSE /\ at' = "gone"
    /\ UNCHANGED <<owner, calls, quit, pending, functors, readable, woken, early,
                   heeded, done>>

-----------------------------------------------------------------------------
(* loop().                                                                  *)

\* loop() begins, and forgets a quit() that came before it.
EnterLoop ==
    /\ at = "ready"
    /\ at' = "poll" /\ quit' = FALSE
    /\ UNCHANGED <<pointer, owner, calls, pending, functors, readable, woken, early,
                   heeded, done>>

\* poll returns: for the wakeup channel, another channel or after kPollTimeMs. What
\* is readable is reported.
Poll ==
    /\ at = "poll"
    /\ at' = "events" /\ woken' = readable
    /\ UNCHANGED <<pointer, owner, calls, quit, pending, functors, readable, early,
                   heeded, done>>

\* handleRead of the wakeup channel.
HandleRead ==
    /\ at = "events" /\ woken
    /\ woken' = FALSE /\ readable' = FALSE
    /\ UNCHANGED <<at, pointer, owner, calls, quit, pending, functors, early, heeded, done>>

\* The faulty swap that leaves the functors where they were.
SwapCopies ==
    /\ at = "events" /\ ~ woken
    /\ at' = "run" /\ functors' = pending
    /\ UNCHANGED <<pointer, owner, calls, quit, pending, readable, woken, early,
                   heeded, done>>

\* doPendingFunctors: the functors are swapped out under the mutex.
Swap ==
    /\ at = "events" /\ ~ woken
    /\ at' = "run" /\ functors' = pending /\ pending' = <<>>
    /\ UNCHANGED <<pointer, owner, calls, quit, readable, woken, early, heeded, done>>

\* The faulty loop over the functors that stops one too early.
RunAllButLast ==
    /\ at = "run" /\ functors # <<>>
    /\ done' = IF Len(functors) = 1 THEN done ELSE Append(done, Head(functors))
    /\ functors' = Tail(functors)
    /\ UNCHANGED <<at, pointer, owner, calls, quit, pending, readable, woken, early, heeded>>

RunFunctor ==
    /\ at = "run" /\ functors # <<>>
    /\ done' = Append(done, Head(functors)) /\ functors' = Tail(functors)
    /\ UNCHANGED <<at, pointer, owner, calls, quit, pending, readable, woken, early, heeded>>

\* The faulty round that ends with the first functor that quits.
NextRoundAtOnce ==
    /\ at = "run" /\ (functors = <<>> \/ quit)
    /\ at' = IF quit THEN "out" ELSE "poll"
    /\ UNCHANGED <<pointer, owner, calls, quit, pending, functors, readable, woken, early,
                   heeded, done>>

\* The end of a round: while (!quit_).
NextRound ==
    /\ at = "run" /\ functors = <<>>
    /\ at' = IF quit THEN "out" ELSE "poll"
    /\ UNCHANGED <<pointer, owner, calls, quit, pending, functors, readable, woken, early,
                   heeded, done>>

-----------------------------------------------------------------------------
(* queueInLoop and quit.                                                    *)

\* From another thread: push_back under the mutex, and then wakeup().
QueueInLoop(c, t) ==
    /\ owner = "running" /\ at # "gone" /\ ~ calls[c] /\ t \notin Known
    /\ pending' = Append(pending, t)
    /\ calls' = [calls EXCEPT ![c] = TRUE]
    /\ UNCHANGED <<at, pointer, owner, quit, functors, readable, woken, early, heeded, done>>

\* The faulty quit that does not wake the loop.
QuitUnwoken(c) ==
    /\ owner = "running" /\ at # "gone" /\ ~ calls[c] /\ ~ quit
    /\ quit' = TRUE /\ heeded' = (heeded \/ Looping)
    /\ UNCHANGED <<at, pointer, owner, calls, pending, functors, readable, woken, early, done>>

Quit(c) ==
    /\ owner = "running" /\ at # "gone" /\ ~ calls[c] /\ ~ quit
    /\ quit' = TRUE /\ heeded' = (heeded \/ Looping)
    /\ calls' = [calls EXCEPT ![c] = TRUE]
    /\ UNCHANGED <<at, pointer, owner, pending, functors, readable, woken, early, done>>

Wakeup(c) ==
    /\ calls[c] /\ at # "gone"
    /\ readable' = TRUE
    /\ calls' = [calls EXCEPT ![c] = FALSE]
    /\ UNCHANGED <<at, pointer, owner, quit, pending, functors, woken, early, heeded, done>>

\* The faulty test that leaves the wakeup out in the loop's own thread.
NeverWakes == FALSE

\* In the thread of the loop: before loop() in callback_, in an event handler or in
\* a functor (callingPendingFunctors_). Only in the last is a wakeup needed.
NeedsWakeup == at = "run"

QueueFromLoop(t) ==
    /\ at \in {"init", "events", "run"} /\ t \notin Known
    /\ pending' = Append(pending, t)
    /\ readable' = (readable \/ NeedsWakeup)
    /\ early' = IF at = "init" THEN early \cup {t} ELSE early
    /\ UNCHANGED <<at, pointer, owner, calls, quit, functors, woken, heeded, done>>

QuitFromLoop ==
    /\ at \in {"events", "run"} /\ ~ quit
    /\ quit' = TRUE /\ heeded' = TRUE
    /\ UNCHANGED <<at, pointer, owner, calls, pending, functors, readable, woken, early, done>>

-----------------------------------------------------------------------------
LoopInit ==
    /\ at = "none" /\ pointer = FALSE /\ owner = "new"
    /\ calls = [c \in Caller |-> FALSE]
    /\ quit = FALSE /\ pending = <<>> /\ functors = <<>>
    /\ readable = FALSE /\ woken = FALSE
    /\ early = {} /\ heeded = FALSE /\ done = <<>>

LoopThread ==
    \/ Publish \/ EnterLoop \/ Poll \/ HandleRead \/ Swap \/ RunFunctor \/ NextRound \/ Return

OwnerThread ==
    \/ StartLoop \/ Started \/ Destroy \/ OwnerQuits \/ OwnerWakes \/ Join

LoopNext ==
    \/ LoopThread \/ OwnerThread \/ QuitFromLoop
    \/ \E t \in Task : QueueFromLoop(t) \/ \E c \in Caller : QueueInLoop(c, t)
    \/ \E c \in Caller : Quit(c) \/ Wakeup(c)

LoopSpec == LoopInit /\ [][LoopNext]_loopVars

\* Every thread goes on. That poll returns after kPollTimeMs is left out: it would
\* hide a wakeup that is lost.
LoopGoesOn == LoopThread /\ (at = "poll" => readable)
OwnerGoesOn == Started \/ OwnerQuits \/ OwnerWakes \/ Join
LoopFairness ==
    /\ WF_loopVars(LoopGoesOn) /\ WF_loopVars(OwnerGoesOn)
    /\ \A c \in Caller : WF_loopVars(Wakeup(c))

-----------------------------------------------------------------------------
(* Correctness.                                                             *)

\* Type invariant; functors are swapped out only inside doPendingFunctors, and the
\* owner gets no loop before it exists.
LoopTypeOK ==
    /\ at \in {"none", "init", "ready", "poll", "events", "run", "out", "gone"}
    /\ pointer \in BOOLEAN /\ quit \in BOOLEAN /\ readable \in BOOLEAN
    /\ woken \in BOOLEAN /\ heeded \in BOOLEAN
    /\ owner \in {"new", "starting", "running", "quitting", "waking", "joining", "left"}
    /\ calls \in [Caller -> BOOLEAN]
    /\ pending \in Seq(Task) /\ functors \in Seq(Task) /\ done \in Seq(Task)
    /\ early \subseteq Task
    /\ functors # <<>> => at = "run"
    /\ woken => at = "events" /\ readable
    /\ owner = "running" => at \notin {"none", "init"}

\* queueInLoop and quit call wakeup() after the mutex is released, or not at all: a
\* loop in poll never sleeps on a functor that came after loop(), or on a quit(),
\* unless the call that left it is about to wake it.
NoLostWakeup ==
    at = "poll" /\ (quit \/ ~ ToSet(pending) \subseteq early) =>
        readable \/ owner = "waking" \/ \E c \in Caller : calls[c]

\* Whatever threads queue while others are run, each functor is run once, and in
\* the order of queueInLoop.
Tasks == INSTANCE TaskQueue WITH waiting <- functors \o pending, ran <- done
ImplementsTaskQueue == Tasks!TaskSpec

\* A functor that was queued is run without waiting for another event, unless the
\* loop is told to quit, which drops what the last round has not taken.
QueuedIsRun ==
    \A t \in Task :
        (t \in ToSet(pending) \ early) ~> (t \in ToSet(done) \/ quit)

\* A quit() that finds the loop running ends it, and with it the join of the
\* destructor; one that comes before loop() is forgotten.
QuitHeeded == heeded ~> at = "gone"

=============================================================================
