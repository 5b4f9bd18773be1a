------------------------------- MODULE Interest -------------------------------
(***************************************************************************)
(* What a poller promises to the channels of its loop: it watches each fd   *)
(* for the events the channel asked for last, and a channel is only given   *)
(* as active while it asks for something. One that asks for nothing twice   *)
(* may be given all the same: every fd that is watched reports a hang-up.   *)
(***************************************************************************)
CONSTANTS Channel, Event

VARIABLES watched,  \* the events each channel is watched for
          idle,     \* watched for nothing, but watched
          given     \* the active channels of the last poll

Ask(c, ev) ==
    /\ watched' = [watched EXCEPT ![c] = ev]
    /\ idle' = idle \ {c} /\ UNCHANGED given

AskNothingAgain(c) ==
    /\ watched[c] = {} /\ idle' = idle \cup {c}
    /\ UNCHANGED <<watched, given>>

Forget(c) ==
    /\ watched[c] = {} /\ idle' = idle \ {c}
    /\ given' = given \ {c} /\ UNCHANGED watched

Give(active) ==
    /\ \A c \in active : watched[c] # {} \/ c \in idle
    /\ given' = active /\ UNCHANGED <<watched, idle>>

InterestInit == watched = [c \in Channel |-> {}] /\ idle = {} /\ given = {}
InterestNext == \/ \E c \in Channel : \/ \E ev \in SUBSET Event : Ask(c, ev)
                                      \/ AskNothingAgain(c) \/ Forget(c)
                \/ \E active \in SUBSET Channel : Give(active)
InterestSpec == InterestInit /\ [][InterestNext]_<<watched, idle, given>>
=============================================================================
