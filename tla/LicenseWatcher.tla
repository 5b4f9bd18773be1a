--------------------------- MODULE LicenseWatcher ---------------------------
(***************************************************************************)
(* licensetool (CLicenseWatcher and the part of CUlordDb it drives).  A     *)
(* runner is one process: a daemon repeats passes for ever, "licensetool    *)
(* test" makes a single pass.  A pass reads the clock, selects the rows     *)
(* whose licence ends soon, and signs and stores a new licence for each.    *)
(* Between any two of these steps the forum, the clock, the operator and    *)
(* the other runners move, the process may die and the database may fail.   *)
(***************************************************************************)
EXTENDS LicenseTable

CONSTANTS
    Runner,         \* processes of licensetool
    Daemon,         \* those started without an argument: Run()
    RunInterval,    \* runInterval_, in seconds
    MaxRetry,       \* how often execute() repeats a statement: 3 in the code
    VerifiableKey   \* versions VerifyLicense() knows the public key of

ASSUME WatcherAssumption ==
    /\ Daemon \subseteq Runner
    /\ RunInterval \in Nat
    /\ MaxRetry \in Nat
    /\ VerifiableKey \subseteq Int

VARIABLES
    stage,    \* where the runner is in its pass
    keyver,   \* keyVersion_: the newest private key it loaded
    asof,     \* tnow of SelectNeedUpdateMNData, kept to the end of the pass
    vecnode,  \* the selected nodes still to be looked at
    pending,  \* the signed node UpdateLicense is storing, or None
    tries,    \* queryTimes of the statement being executed
    wakeAt    \* when MilliSleep returns

runnerVars == <<stage, keyver, asof, vecnode, pending, tries, wakeAt>>
watcherVars == <<tableVars, runnerVars>>

Stage == {"off", "scan", "select", "update", "execute", "sleep"}

Smaller(a, b) == IF a < b THEN a ELSE b

-----------------------------------------------------------------------------
(* SelectNeedUpdateMNData and SignMNLicense.                                *)

\* The faulty filter without a look at node_period.
NeedsUpdateExpired(c, t) ==
    /\ db[c].status = "confirmed"
    /\ db[c].validdate < t + NeedUpdate

\* The filters of the scan that read the clock at t, over the BIGINT columns.
NeedsUpdate(c, t) ==
    /\ db[c].status = "confirmed"
    /\ db[c].validdate < t + NeedUpdate
    /\ db[c].node_period > t

\* The early returns of SignMNLicense.
Renewable(mn) ==
    /\ mn.licperiod < mn.nodeperiod
    /\ mn.licperiod <= now + NeedUpdate
    /\ mn.status = "confirmed"
    /\ mn.coin \in KeyedCoin

\* The faulty end of licence, not clipped to the period of the node.
PeriodUnclipped(mn) == now + PeriodLimit

\* The faulty end of licence that is a duration: it forgets tnow.
PeriodAsDuration(mn) == Smaller(PeriodLimit, mn.nodeperiod - now)

\* _licperiod = tnow + licPeriodLimit_, but not beyond _nodeperiod.
NewPeriod(mn) == Smaller(now + PeriodLimit, mn.nodeperiod)

\* The faulty signature, made before _licperiod and _licversion are assigned.
SignedEarly(mn, v) ==
    [mn EXCEPT !.licperiod = NewPeriod(mn), !.licversion = v,
               !.licence   = [coin |-> mn.coin, period |-> mn.licperiod,
                              version |-> mn.licversion]]

\* mn after SignMNLicense with key version v.
Signed(mn, v) ==
    [mn EXCEPT !.licperiod = NewPeriod(mn), !.licversion = v,
               !.licence   = [coin |-> mn.coin, period |-> NewPeriod(mn),
                              version |-> v]]

\* The faulty SignMNLicense that does not verify what it signed.
UnverifiedSignable(mn, v) == Renewable(mn)

\* SignMNLicense returns true: VerifyLicense finds the key of version v.
Signable(mn, v) == Renewable(mn) /\ v \in VerifiableKey

-----------------------------------------------------------------------------
(* The steps of a runner.                                                   *)

\* The runner is in stage s and moves to stage u.
Moves(r, s, u) ==
    /\ stage[r] = s
    /\ stage' = [stage EXCEPT ![r] = u]

\* The process starts: InitWatcherKey loads every key listed so far and
\* keyVersion_ is the last of them.
Start(r) ==
    /\ Moves(r, "off", "scan")
    /\ keyver' = [keyver EXCEPT ![r] = confkeys]
    /\ IF r \in Daemon THEN UNCHANGED events ELSE Disturb
    /\ UNCHANGED <<db, now, confkeys, asof, vecnode, pending, tries, wakeAt>>

\* SelectNeedUpdateMNData reads the clock and composes its statement.
Scan(r) ==
    /\ Moves(r, "scan", "select")
    /\ asof' = [asof EXCEPT ![r] = now]
    /\ UNCHANGED <<tableVars, keyver, vecnode, pending, tries, wakeAt>>

\* The database answers the statement.
Select(r) ==
    /\ Moves(r, "select", "update")
    /\ vecnode' = [vecnode EXCEPT
                     ![r] = {ReadRow(c) : c \in {d \in Coin : NeedsUpdate(d, asof[r])}}]
    /\ UNCHANGED <<tableVars, keyver, asof, pending, tries, wakeAt>>

\* The database is not online, the query fails, or its rows are lost: vecnode
\* stays empty.
SelectFail(r) ==
    /\ Moves(r, "select", "update")
    /\ UNCHANGED <<tableVars, keyver, asof, vecnode, pending, tries, wakeAt>>

\* The faulty UpdateDB that returns at the first node it cannot sign.
SkipRest(r, mn) ==
    /\ stage[r] = "update"
    /\ mn \in vecnode[r]
    /\ ~ Signable(mn, keyver[r])
    /\ vecnode' = [vecnode EXCEPT ![r] = {}]
    /\ UNCHANGED <<tableVars, stage, keyver, asof, pending, tries, wakeAt>>

\* UpdateDB: SignMNLicense refuses the next node.
Skip(r, mn) ==
    /\ stage[r] = "update"
    /\ mn \in vecnode[r]
    /\ ~ Signable(mn, keyver[r])
    /\ vecnode' = [vecnode EXCEPT ![r] = @ \ {mn}]
    /\ UNCHANGED <<tableVars, stage, keyver, asof, pending, tries, wakeAt>>

\* UpdateDB: SignMNLicense signs the next node, UpdateLicense starts on it.
Sign(r, mn) ==
    /\ mn \in vecnode[r]
    /\ Signable(mn, keyver[r])
    /\ Moves(r, "update", "execute")
    /\ vecnode' = [vecnode EXCEPT ![r] = @ \ {mn}]
    /\ pending' = [pending EXCEPT ![r] = Signed(mn, keyver[r])]
    /\ tries' = [tries EXCEPT ![r] = 1]
    /\ UNCHANGED <<tableVars, keyver, asof, wakeAt>>

\* The faulty UPDATE that leaves cert_version as it was.
StoreKeepsVersion(mn) ==
    db' = [db EXCEPT ![mn.coin] =
             [@ EXCEPT !.validdate = mn.licperiod, !.certificate = mn.licence]]

\* The UPDATE statement of UpdateLicense.  It names the row by its coin only:
\* what the row held at selection time, and its status, are not looked at.
Store(mn) ==
    db' = [db EXCEPT ![mn.coin] =
             [@ EXCEPT !.validdate = mn.licperiod, !.certificate = mn.licence,
                       !.version = mn.licversion]]

\* UpdateLicense returns; the pass goes on with the next node.
Returns(r) ==
    /\ Moves(r, "execute", "update")
    /\ pending' = [pending EXCEPT ![r] = None]
    /\ tries' = [tries EXCEPT ![r] = 0]

\* The faulty bound that lets one attempt more through.
RetriesOnceMore(r) ==
    /\ stage[r] = "execute"
    /\ IF tries[r] <= MaxRetry + 1
          THEN tries' = [tries EXCEPT ![r] = @ + 1] /\ UNCHANGED <<stage, pending>>
          ELSE Returns(r)

\* Errors 2006 and 2013: execute() repeats the statement, at most MaxRetry times.
Retries(r) ==
    /\ stage[r] = "execute"
    /\ IF tries[r] <= MaxRetry
          THEN tries' = [tries EXCEPT ![r] = @ + 1] /\ UNCHANGED <<stage, pending>>
          ELSE Returns(r)

\* The statement is executed and the runner learns of it.
Execute(r) ==
    /\ Returns(r)
    /\ Store(pending[r])
    /\ UNCHANGED <<now, confkeys, events, keyver, asof, vecnode, wakeAt>>

\* The statement is executed but the connection breaks before the reply.
ExecuteLost(r) ==
    /\ Retries(r)
    /\ Store(pending[r])
    /\ UNCHANGED <<now, confkeys, events, keyver, asof, vecnode, wakeAt>>

\* The connection breaks before the statement is executed.
ExecuteRetry(r) ==
    /\ Retries(r)
    /\ UNCHANGED <<tableVars, keyver, asof, vecnode, wakeAt>>

\* The database is not online, or it rejects the statement.
ExecuteFail(r) ==
    /\ Returns(r)
    /\ UNCHANGED <<tableVars, keyver, asof, vecnode, wakeAt>>

\* Every node is dealt with: Run() calls MilliSleep, "test" returns from main.
PassDone(r) ==
    /\ vecnode[r] = {}
    /\ IF r \in Daemon
          THEN /\ Moves(r, "update", "sleep")
               /\ wakeAt' = [wakeAt EXCEPT ![r] = now + RunInterval]
               /\ UNCHANGED keyver
          ELSE /\ Moves(r, "update", "off")
               /\ keyver' = [keyver EXCEPT ![r] = 0]
               /\ UNCHANGED wakeAt
    /\ asof' = [asof EXCEPT ![r] = 0]
    /\ UNCHANGED <<tableVars, vecnode, pending, tries>>

\* MilliSleep is over and the next pass begins with an empty vecnode.
Wake(r) ==
    /\ now >= wakeAt[r]
    /\ Moves(r, "sleep", "scan")
    /\ wakeAt' = [wakeAt EXCEPT ![r] = 0]
    /\ UNCHANGED <<tableVars, keyver, asof, vecnode, pending, tries>>

\* The process dies, and everything in its memory with it.
Crash(r) ==
    /\ stage[r] # "off"
    /\ stage' = [stage EXCEPT ![r] = "off"]
    /\ keyver' = [keyver EXCEPT ![r] = 0]
    /\ asof' = [asof EXCEPT ![r] = 0]
    /\ vecnode' = [vecnode EXCEPT ![r] = {}]
    /\ pending' = [pending EXCEPT ![r] = None]
    /\ tries' = [tries EXCEPT ![r] = 0]
    /\ wakeAt' = [wakeAt EXCEPT ![r] = 0]
    /\ Disturb
    /\ UNCHANGED <<db, now, confkeys>>

\* "licensetool clear": one UPDATE over the whole table.
ClearLicenses ==
    /\ db' = [c \in Coin |-> Cleared(db[c])]
    /\ db' # db
    /\ Disturb
    /\ UNCHANGED <<now, confkeys, runnerVars>>

-----------------------------------------------------------------------------
WatcherInit ==
    /\ TableInit
    /\ stage = [r \in Runner |-> "off"]
    /\ keyver = [r \in Runner |-> 0]
    /\ asof = [r \in Runner |-> 0]
    /\ vecnode = [r \in Runner |-> {}]
    /\ pending = [r \in Runner |-> None]
    /\ tries = [r \in Runner |-> 0]
    /\ wakeAt = [r \in Runner |-> 0]

\* What runner r does of its own accord.
RunnerStep(r) ==
    \/ Start(r) \/ Scan(r) \/ Select(r) \/ SelectFail(r)
    \/ \E mn \in vecnode[r] : Skip(r, mn) \/ Sign(r, mn)
    \/ Execute(r) \/ ExecuteLost(r) \/ ExecuteRetry(r) \/ ExecuteFail(r)
    \/ PassDone(r) \/ Wake(r)

WatcherNext ==
    \/ \E r \in Runner : RunnerStep(r) \/ Crash(r)
    \/ ClearLicenses
    \/ TableEnv /\ UNCHANGED runnerVars

WatcherSpec == WatcherInit /\ [][WatcherNext]_watcherVars

-----------------------------------------------------------------------------
(* Correctness.                                                             *)

RunnerTypeOK ==
    /\ stage \in [Runner -> Stage]
    /\ keyver \in [Runner -> 0 .. MaxKey]
    /\ asof \in [Runner -> 0 .. MaxTime]
    /\ vecnode \in [Runner -> SUBSET Node]
    /\ pending \in [Runner -> Node \cup {None}]
    /\ tries \in [Runner -> 0 .. MaxRetry + 1]
    /\ wakeAt \in [Runner -> 0 .. MaxTime + RunInterval]

StageAgrees ==
    \A r \in Runner : /\ stage[r] = "execute" <=> pending[r] # None
                      /\ stage[r] # "off" => keyver[r] > 0

\* Type invariant; a signed node is there exactly while it is being stored, by
\* a runner that has loaded a key.
WatcherTypeOK == TableTypeOK /\ RunnerTypeOK /\ StageAgrees

\* The row of coin c holds the certificate of its own validdate and
\* cert_version, or none at all.
RowCovered(c) ==
    IF db[c].certificate = None
       THEN db[c].validdate = 0
       ELSE db[c].certificate = [coin    |-> c,
                                 period  |-> db[c].validdate,
                                 version |-> db[c].version]

\* A node can use what the table says: however the passes of several runners,
\* repeated UPDATEs, crashes and "licensetool clear" interleave, no row shows a
\* validdate or a cert_version its certificate was not signed for
\* (SignMNLicense, UpdateLicense, ClearLicenses).
CertificateCoversRow == \A c \in Coin : RowCovered(c)

\* No certificate reaches the table whose key version cannot be verified with
\* the configured public keys (the VerifyLicense() call of SignMNLicense).
CertificateVerifies ==
    \A c \in Coin : db[c].certificate # None
                      => db[c].certificate.version \in VerifiableKey

\* A licence never outlives the period its owner has paid for, although
\* node_period is read by one statement and validdate written by a later one.
WithinNodePeriod ==
    \A c \in Coin : db[c].certificate # None => db[c].validdate <= db[c].node_period

\* A renewal is worth storing: it ends after the scan that asked for it, for the
\* SELECT took only rows whose node_period lies beyond the scan.  It relates the
\* BIGINT column that MySQL compares to the int that SignMNLicense computes with.
RenewalIsAhead ==
    \A r \in Runner : pending[r] # None => pending[r].licperiod > asof[r]

\* Row r2 is worth at least as much to its node as row r1.
NoWorse(r1, r2) == r1.validdate <= r2.validdate /\ r1.version <= r2.version

\* One runner never takes anything away: unless the operator clears the table, a
\* step leaves every licence as long, and its key as new, as it was.  This is
\* about the retries of execute(), the blind UPDATE and the narrowing reads
\* taken together; two runners do not have it.
RenewalOnlyImproves ==
    [][ClearLicenses \/ \A c \in Coin : NoWorse(db[c], db'[c])]_watcherVars

Registry == INSTANCE LicenseRegistry

\* Any number of runners together keep the promises of LicenseRegistry: seen
\* from the table, every step of a pass is one whole grant or nothing.
ImplementsRegistry == Registry!RegistrySpec

=============================================================================
