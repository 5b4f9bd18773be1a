--------------------------- MODULE LicenseRegistry ---------------------------
(***************************************************************************)
(* What licensetool promises about the table, however it goes about it: a   *)
(* licence appears in a row with its certificate and version in one step,   *)
(* lasts at most PeriodLimit from that moment and not beyond the node's     *)
(* period, and is signed by a listed key.  LicenseWatcher implements this;  *)
(* UCenter is checked against it.                                           *)
(***************************************************************************)
EXTENDS LicenseTable

\* The row of coin c with a licence until p signed with key version v.
Licensed(c, p, v) ==
    [db[c] EXCEPT !.validdate = p, !.version = v,
                  !.certificate = [coin |-> c, period |-> p, version |-> v]]

\* Some runner stores a licence; it may be shorter than the one it replaces,
\* and its node may have lost the forum's confirmation meanwhile.
Grant(c) ==
    /\ db[c].status # "none"
    /\ \E p \in 1 .. now + PeriodLimit, v \in 1 .. confkeys :
          /\ p <= db[c].node_period
          /\ db' = [db EXCEPT ![c] = Licensed(c, p, v)]
    /\ UNCHANGED <<now, confkeys, events>>

\* The operator runs "licensetool clear".
ClearAll ==
    /\ db' = [c \in Coin |-> Cleared(db[c])]
    /\ Disturb
    /\ UNCHANGED <<now, confkeys>>

\* Operators and processes of licensetool come and go.
Elsewhere == Disturb /\ UNCHANGED <<db, now, confkeys>>

RegistryNext == TableEnv \/ ClearAll \/ Elsewhere \/ \E c \in Coin : Grant(c)

RegistrySpec == TableInit /\ [][RegistryNext]_tableVars
=============================================================================
