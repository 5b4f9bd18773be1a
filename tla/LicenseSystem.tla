---------------------------- MODULE LicenseSystem ----------------------------
(***************************************************************************)
(* licensetool and ulordcenter together.  They share nothing but the table, *)
(* the clock and the configuration file: licensetool writes the table,      *)
(* ulordcenter reads it into its cache, and each loads the keys of the file *)
(* when it starts and never again.                                          *)
(***************************************************************************)
EXTENDS LicenseWatcher, UCenter

CONSTANT CenterFirst   \* is ulordcenter restarted before licensetool uses a new key?

ASSUME DisciplineAssumption == CenterFirst \in BOOLEAN

VARIABLE lastConfirmed \* history: when the row of each coin was last confirmed

progVars == <<tableVars, runnerVars, centerVars>>
systemVars == <<progVars, lastConfirmed>>

\* Under CenterFirst a runner starts only if ulordcenter has, or will load, the
\* keys it is about to load itself.
Released(r) == CenterFirst /\ stage[r] = "off" => ckeys \in {0, confkeys}

SystemInit ==
    /\ WatcherInit
    /\ CenterInit
    /\ lastConfirmed = [c \in Coin |-> -1]

RunnerMoves(r) ==
    /\ Released(r)
    /\ RunnerStep(r)
    /\ UNCHANGED centerVars

CenterMoves == CenterNext /\ UNCHANGED runnerVars

OperatorMoves ==
    /\ ClearLicenses \/ \E r \in Runner : Crash(r)
    /\ UNCHANGED centerVars

TableMoves == TableEnv /\ UNCHANGED <<runnerVars, centerVars>>

SystemNext ==
    /\ \/ CenterMoves \/ OperatorMoves \/ TableMoves
       \/ \E r \in Runner : RunnerMoves(r)
    /\ lastConfirmed' = [c \in Coin |-> IF db'[c].status = "confirmed"
                                           THEN now' ELSE lastConfirmed[c]]

SystemSpec == SystemInit /\ [][SystemNext]_systemVars

\* licensetool and ulordcenter run and are restarted when they died; neither the
\* statements of the one nor those of the other fail for ever; masternode c does
\* not give up asking.
SystemFairness ==
    /\ \A r \in Daemon :
          /\ WF_progVars(RunnerMoves(r))
          /\ SF_progVars(RunnerMoves(r) /\ Select(r))
          /\ SF_progVars(RunnerMoves(r) /\ Execute(r))
    /\ WF_progVars(CenterMoves /\ Boot)
    /\ \A t \in IoThread :
          /\ SF_progVars(CenterMoves /\ (Hit(t) \/ Miss(t)))
          /\ SF_progVars(CenterMoves /\ Refresh(t))
          /\ \A c \in Coin : SF_progVars(CenterMoves /\ Ask(t, c))

SystemFairSpec == SystemSpec /\ SystemFairness

-----------------------------------------------------------------------------
\* The certificate a masternode is sent was made with a key ulordcenter publishes
\* in its answer to MST_QUEST_KEY: the two programs load privkey1, privkey2, ...
\* at different times (InitWatcherKey, InitUCenterKey), and what keeps them in
\* step is only the order in which the operator restarts them.
ServedVersionPublished ==
    \A t \in IoThread :
        answer[t] # None /\ answer[t].mn # None /\ answer[t].mn.licence # None
        => answer[t].mn.licversion <= ckeys

\* Once the forum withdraws a confirmation, no answer gives a licence that ends
\* more than PeriodLimit later: neither the renewal that was under way in
\* licensetool, nor the cache, which is never emptied, reaches further.
WithdrawalTakesEffect ==
    \A t \in IoThread :
        answer[t] # None /\ answer[t].mn # None
        => answer[t].mn.licperiod <= lastConfirmed[answer[t].coin] + PeriodLimit

\* ulordcenter beside the real licensetool behaves as it does over the table that
\* LicenseRegistry describes, so what holds of UCenter holds of the system.
ImplementsCenter == CenterSpec

\* A masternode that stays confirmed, has a valid privkey and a long period, and
\* asks again and again is told again and again of a licence that is valid, once
\* ulordcenter has loaded the keys that the discipline asks for.  When
\* validdate is exactly now + NeedUpdate the row is not yet due for licensetool
\* (<) and no longer fetched by ulordcenter (>): a second that passes, except at
\* the horizon of the model, so it is excluded there.
EventuallyServed ==
    \A c \in KeyedCoin :
        <>[](/\ Confirmed(c)
             /\ db[c].node_period > MaxTime
             /\ db[c].validdate # now + NeedUpdate
             /\ ckeys = confkeys)
        => []<>(\E t \in IoThread : /\ answer[t] # None
                                    /\ answer[t].coin = c
                                    /\ answer[t].mn # None
                                    /\ answer[t].mn.licperiod > now)

\* What a masternode is told holds for the two programs together: the key of its
\* licence is published, and the licence ends soon after a withdrawal.
AnswersBounded == ServedVersionPublished /\ WithdrawalTakesEffect

=============================================================================
