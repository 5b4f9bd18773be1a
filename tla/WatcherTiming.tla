---------------------------- MODULE WatcherTiming ----------------------------
(***************************************************************************)
(* How late a renewal can be.  LicenseWatcher lets time pass anywhere; here *)
(* it passes only while the daemon sleeps or while something is broken: the *)
(* database is unreachable (the sleeps of ping and execute are then part of *)
(* the outage) or the daemon is down.  The steps are those of               *)
(* LicenseWatcher; what is added is when they may happen, and history.      *)
(***************************************************************************)
EXTENDS LicenseWatcher

CONSTANTS
    Minute,      \* 60 in the unit of runinterval
    MaxOutages,  \* bound: outages of the database and crashes
    MaxLost      \* bound: time spent in outages, all together

ASSUME TimingAssumption ==
    /\ RunInterval > 0
    /\ Minute \in Nat
    /\ MaxOutages \in Nat
    /\ MaxLost \in Nat
    /\ PeriodLimit > NeedUpdate
    /\ 1 .. MaxKey \subseteq VerifiableKey

VARIABLES
    outage,    \* the database cannot be reached
    outages,   \* outages and crashes so far
    lost,      \* time spent in outages so far
    dueSince   \* dueSince[c]: since when row c waits for a renewal, or -1

outageVars == <<outage, outages, lost>>
timingVars == <<watcherVars, outageVars, dueSince>>

\* The row calls for a renewal that SignMNLicense would make.
Due(c) ==
    /\ c \in KeyedCoin
    /\ db[c].status = "confirmed"
    /\ db[c].validdate < Smaller(now + NeedUpdate, db[c].node_period)
    /\ now < db[c].node_period

Down == outage \/ \E r \in Daemon : stage[r] = "off"

\* While nothing is broken a pass takes no time.
TimePasses ==
    /\ IF Down
          THEN lost < MaxLost /\ lost' = lost + 1
          ELSE (\A r \in Daemon : stage[r] = "sleep" /\ now < wakeAt[r]) /\ UNCHANGED lost
    /\ Tick
    /\ UNCHANGED <<runnerVars, outage, outages>>

Outage ==
    /\ ~ outage
    /\ outages < MaxOutages
    /\ outage' = TRUE
    /\ outages' = outages + 1
    /\ UNCHANGED <<watcherVars, lost>>

Recovery ==
    /\ outage
    /\ outage' = FALSE
    /\ UNCHANGED <<watcherVars, outages, lost>>

TimedCrash(r) ==
    /\ outages < MaxOutages
    /\ Crash(r)
    /\ outages' = outages + 1
    /\ UNCHANGED <<outage, lost>>

\* The steps that need the database, those that fail without it, the others.
TimedRunnerStep(r) ==
    /\ \/ ~ outage /\ (Select(r) \/ Execute(r))
       \/ outage /\ (SelectFail(r) \/ ExecuteFail(r) \/ ExecuteRetry(r) \/ ExecuteLost(r))
       \/ Start(r) \/ Scan(r) \/ PassDone(r) \/ Wake(r)
       \/ \E mn \in vecnode[r] : Skip(r, mn) \/ Sign(r, mn)
    /\ UNCHANGED outageVars

TimedTable ==
    /\ AddKey \/ \E c \in Coin : Bind(c) \/ Audit(c)
    /\ UNCHANGED <<runnerVars, outageVars>>

TimedClear == ClearLicenses /\ UNCHANGED outageVars

TimingInit ==
    /\ WatcherInit
    /\ outage = FALSE
    /\ outages = 0
    /\ lost = 0
    /\ dueSince = [c \in Coin |-> -1]

\* A renewal made of a row selected before its node_period was extended may
\* leave the row due: it then waits anew.
Waits(c) == Due(c)' /\ dueSince[c] # -1 /\ db'[c].certificate = db[c].certificate

TimingNext ==
    /\ \/ TimePasses \/ Outage \/ Recovery \/ TimedTable \/ TimedClear
       \/ \E r \in Runner : TimedRunnerStep(r) \/ TimedCrash(r)
    /\ dueSince' = [c \in Coin |-> IF Waits(c) THEN dueSince[c]
                                   ELSE IF Due(c)' THEN now' ELSE -1]

TimingSpec == TimingInit /\ [][TimingNext]_timingVars

-----------------------------------------------------------------------------
\* A renewal waits for one run interval, for one more after each outage, and
\* for as long as the outages last.  A licence is selected NeedUpdate before
\* its end, so it never lapses while this is less than NeedUpdate: the margin
\* that needupdate is there to give (Run, SelectNeedUpdateMNData, UpdateDB).
RenewedInTime ==
    \A c \in Coin : dueSince[c] # -1
                    => now - dueSince[c] <= RunInterval * (1 + outages) + lost

=============================================================================
