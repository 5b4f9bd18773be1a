------------------------------- MODULE MCLoop -------------------------------
(***************************************************************************)
(* The parts of an event loop side by side: in a behaviour one of them runs *)
(* and the others stand still.                                              *)
(***************************************************************************)
EXTENDS EventLoop, TimerQueue, Pollers

VARIABLE part

vars == <<part, loopVars, timerVars, epollVars, pollVars>>

Only(p, A, others) == part = p /\ A /\ UNCHANGED <<part, others>>

OfLoop(A) == Only("loop", A, <<timerVars, epollVars, pollVars>>)
OfTimers(A) == Only("timers", A, <<loopVars, epollVars, pollVars>>)

Init == /\ part \in {"loop", "timers", "epoll", "poll"}
        /\ LoopInit /\ TimerInit /\ EPollInit /\ PollInit

Next ==
    \/ OfLoop(LoopNext)
    \/ OfTimers(TimerNext)
    \/ Only("epoll", EPollNext, <<loopVars, timerVars, pollVars>>)
    \/ Only("poll", PollNext, <<loopVars, timerVars, epollVars>>)

\* The fairness of the part that runs: LoopFairness or TimerFairness.
Spec ==
    /\ Init /\ [][Next]_vars
    /\ WF_vars(OfLoop(LoopGoesOn)) /\ WF_vars(OfLoop(OwnerGoesOn))
    /\ \A c \in Caller : WF_vars(OfLoop(Wakeup(c)))
    /\ WF_vars(OfTimers(TimerLoopGoesOn)) /\ WF_vars(OfTimers(TimePasses))

-----------------------------------------------------------------------------
\* What holds of a loop at any time: no wakeup is lost, the timerfd is armed in time,
\* and the pollers know every channel by its index.
LoopSafe == /\ LoopTypeOK /\ NoLostWakeup /\ TimerTypeOK /\ ArmedInTime
            /\ EPollTypeOK /\ PollTypeOK

\* The event loop and both pollers keep the promises of TaskQueue and Interest.
KeepsPromises == ImplementsTaskQueue /\ EPollGivesInterest /\ PollGivesInterest

\* cancel() stops the timer that it names, at once or after the batch it is in, and
\* no other.
CancelRight == CancelExact /\ CancelStops

\* Functors are run, quit() is heeded and timers expire.
LoopGoesThrough == QueuedIsRun /\ QuitHeeded /\ TimerExpires

=============================================================================
