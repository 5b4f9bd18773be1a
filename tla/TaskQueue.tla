------------------------------- MODULE TaskQueue -------------------------------
(***************************************************************************)
(* What an EventLoop promises those who hand it functors: each is run once, *)
(* and they are run in the order in which they were queued.                 *)
(***************************************************************************)
EXTENDS Sequences

CONSTANT Task

VARIABLES
    waiting, \* queued and not yet run, in order
    ran      \* run, in order

taskVars == <<waiting, ran>>

Submit(t) == waiting' = Append(waiting, t) /\ UNCHANGED ran

RunNext ==
    /\ waiting # <<>>
    /\ ran' = Append(ran, Head(waiting))
    /\ waiting' = Tail(waiting)

TaskInit == waiting = <<>> /\ ran = <<>>
TaskNext == RunNext \/ \E t \in Task : Submit(t)
TaskSpec == TaskInit /\ [][TaskNext]_taskVars

=============================================================================
