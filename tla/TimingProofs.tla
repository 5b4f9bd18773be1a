----------------------------- MODULE TimingProofs -----------------------------
(***************************************************************************)
(* How late a renewal can be, proved for one daemon and every interval,     *)
(* every number of outages and every time they take.                        *)
(*                                                                         *)
(* RenewedInTime bounds a time that nothing in the program keeps.  It is    *)
(* inductive only with where the renewal is: a row that waits while all is  *)
(* well is in the hands of the daemon (in its scan, its selection or its    *)
(* UPDATE), or the daemon sleeps and wakes up in time; when it is neither,  *)
(* an outage or a crash has been counted for it.                            *)
(***************************************************************************)
EXTENDS WatcherTiming, LicenseWatcherProofs

\* Row c has waited, at time t, for no more than k passes and the outages.
Late(c, t, k) == t - dueSince[c] <= RunInterval * k + lost

\* The pass that runner r is in will renew row c, unless something fails.
InHand(c, r) ==
    \/ stage[r] = "scan"
    \/ stage[r] = "select" /\ NeedsUpdate(c, asof[r])
    \/ \E mn \in vecnode[r] : mn.coin = c /\ Signable(mn, keyver[r])
    \/ pending[r] # None /\ pending[r].coin = c /\ pending[r].licperiod > db[c].validdate

\* Row c, which waits, is in hand or has an outage counted for it.
Accounted(c, r) ==
    /\ Late(c, now, 1 + outages)
    /\ stage[r] = "sleep" => Late(c, wakeAt[r], 1 + outages)
    /\ outage \/ ~ (InHand(c, r) \/ stage[r] = "sleep") => Late(c, now, outages)

\* The history, and the time the daemon sleeps.
HistoryOK(r) ==
    /\ outages \in Nat
    /\ lost \in Nat
    /\ dueSince \in [Coin -> Int]
    /\ \A c \in Coin : dueSince[c] <= now /\ (dueSince[c] # -1 <=> Due(c))
    /\ stage[r] = "sleep" => wakeAt[r] <= now + RunInterval

\* The inductive invariant for the wait, with r the daemon.
WaitInv(r) == HistoryOK(r) /\ \A c \in Coin : dueSince[c] # -1 => Accounted(c, r)

\* What the proofs about the passes have shown.
WatcherFacts == PassFacts /\ WatcherTypeOK /\ CertInv

-----------------------------------------------------------------------------
(* Every behaviour of WatcherTiming is one of LicenseWatcher.               *)

LEMMA TimedStep == [TimingNext]_timingVars => [WatcherNext]_watcherVars
<1>1. ASSUME TimePasses \/ TimedTable
      PROVE  TableEnv /\ UNCHANGED runnerVars
  BY <1>1 DEF TimePasses, TimedTable, TableEnv
<1>2. ASSUME NEW r \in Runner, TimedRunnerStep(r) \/ TimedCrash(r)
      PROVE  RunnerStep(r) \/ Crash(r)
  BY <1>2 DEF TimedRunnerStep, TimedCrash, RunnerStep
<1>3. ASSUME Outage \/ Recovery \/ UNCHANGED timingVars
      PROVE  UNCHANGED watcherVars
  BY <1>3 DEF Outage, Recovery, timingVars
<1> QED
  BY <1>1, <1>2, <1>3 DEF TimingNext, TimedClear, WatcherNext

LEMMA TimingIsWatcher == TimingSpec => WatcherSpec
<1>1. TimingInit => WatcherInit
  BY DEF TimingInit
<1> QED
  BY <1>1, TimedStep, PTL DEF TimingSpec, WatcherSpec

LEMMA WatcherFactsHold ==
  ASSUME PeriodsFit, \A q, s \in Runner : q = s
  PROVE  TimingSpec => []WatcherFacts
<1>1. WatcherSpec => [](PassFacts /\ WatcherTypeOK)
  BY SoleInvHolds
<1>2. PassFacts /\ WatcherTypeOK /\ CertInv => WatcherFacts
  BY DEF WatcherFacts
<1> QED
  BY <1>1, <1>2, TimingIsWatcher, CertInvHolds, PTL

\* A daemon without a rival that works through its outages still makes no licence
\* shorter and no key older (execute repeats a statement whose reply was lost).
THEOREM TimedRunnerImproves ==
  ASSUME PeriodsFit, \A q, s \in Runner : q = s
  PROVE  TimingSpec => RenewalOnlyImproves
<1>1. WatcherSpec => RenewalOnlyImproves
  BY OneRunnerImproves
<1> QED
  BY <1>1, TimingIsWatcher, PTL

-----------------------------------------------------------------------------
(* What is in hand stays in hand.                                           *)

\* The values that the steps below compute with.
LEMMA RunnerValues ==
  ASSUME WatcherFacts, NEW r \in Runner
  PROVE  /\ now \in Nat /\ asof[r] \in Nat /\ asof[r] <= now
         /\ db \in [Coin -> Row] /\ vecnode \in [Runner -> SUBSET Node]
         /\ pending \in [Runner -> Node \cup {None}]
         /\ stage \in [Runner -> Stage]
         /\ stage[r] # "off" => keyver[r] \in VerifiableKey
         /\ stage[r] = "execute" <=> pending[r] # None
         /\ stage[r] \notin {"update", "execute"} => vecnode[r] = {}
<1>1. keyver[r] \in 0 .. MaxKey /\ (stage[r] # "off" => keyver[r] > 0)
  BY DEF WatcherFacts, WatcherTypeOK, RunnerTypeOK, StageAgrees
<1>2. stage[r] # "off" => keyver[r] \in 1 .. MaxKey
  BY <1>1, BoundAssumption
<1> QED
  BY <1>2, TimingAssumption, BoundAssumption
  DEF WatcherFacts, WatcherTypeOK, TableTypeOK, RunnerTypeOK, StageAgrees, PassFacts,
      AheadInv, RunnerAhead

\* A row that waits is one that SelectNeedUpdateMNData takes now and SignMNLicense
\* signs: the node_period it reads is the one the forum wrote.
LEMMA DueIsRenewable ==
  ASSUME PeriodsFit, WatcherFacts, NEW c \in Coin, Due(c)
  PROVE  /\ NeedsUpdate(c, now)
         /\ Renewable(ReadRow(c))
<1>1. db[c] \in Row /\ now \in Nat /\ db[c].validdate \in Int /\ db[c].node_period \in Int
  BY BoundAssumption DEF WatcherFacts, WatcherTypeOK, TableTypeOK, Row
<1>2. db[c].validdate < now + NeedUpdate /\ db[c].validdate < db[c].node_period
  BY <1>1, PeriodAssumption DEF Due, Smaller
<1>3. db[c].validdate \in -1 .. IntHalf - 1
  BY PeriodAssumption DEF WatcherFacts, PassFacts, SoleInv, RowsInv
<1>4. db[c].node_period \in -1 .. IntHalf - 1
  <2>1. db[c].node_period \in NodePeriods \cup {-1}
    BY DEF WatcherFacts, PassFacts, AheadInv
  <2>2. \A p \in NodePeriods \cup {-1} : p \in -1 .. IntHalf - 1
    BY PeriodAssumption DEF PeriodsFit
  <2> QED
    BY <2>1, <2>2
<1>5. /\ ReadRow(c).licperiod = db[c].validdate
      /\ ReadRow(c).nodeperiod = db[c].node_period
      /\ ReadRow(c).coin = c /\ ReadRow(c).status = db[c].status
  BY <1>3, <1>4, AtoiExact DEF ReadRow
<1>6. NeedsUpdate(c, now)
  BY <1>1, <1>2 DEF Due, NeedsUpdate
<1>7. ReadRow(c).licperiod <= now + NeedUpdate
  BY <1>1, <1>2, <1>5, PeriodAssumption
<1> QED
  BY <1>2, <1>5, <1>6, <1>7 DEF Due, Renewable

\* A step of the daemon that does not fail keeps a waiting row in hand until its
\* certificate changes.
LEMMA InHandStays ==
  ASSUME PeriodsFit, WatcherFacts, NEW r \in Runner, TimedRunnerStep(r), ~ outage,
         NEW c \in Coin, Due(c), InHand(c, r), db'[c].certificate = db[c].certificate
  PROVE  InHand(c, r)'
<1>0. /\ now \in Nat /\ asof[r] \in Nat /\ asof[r] <= now
      /\ db \in [Coin -> Row] /\ vecnode \in [Runner -> SUBSET Node]
      /\ pending \in [Runner -> Node \cup {None}]
      /\ stage \in [Runner -> Stage]
      /\ stage[r] # "off" => keyver[r] \in VerifiableKey
      /\ stage[r] = "execute" <=> pending[r] # None
      /\ stage[r] \notin {"update", "execute"} => vecnode[r] = {}
  BY RunnerValues
<1>1. asof \in [Runner -> Int] /\ RunnerUpToDate(r)
  BY DEF WatcherFacts, PassFacts, WatcherTypeOK, RunnerTypeOK, SoleInv
<1>2. CASE Start(r) \/ Wake(r)
  BY <1>0, <1>2 DEF Start, Wake, Moves, InHand
<1>3. CASE Scan(r)
  <2>1. stage'[r] = "select" /\ asof'[r] = now /\ UNCHANGED <<db, now>>
    BY <1>0, <1>1, <1>3 DEF Scan, Moves, tableVars
  <2> QED
    BY <2>1, DueIsRenewable DEF InHand, NeedsUpdate
<1>4. CASE Select(r)
  <2>1. stage[r] = "select" /\ vecnode[r] = {} /\ pending[r] = None
    BY <1>0, <1>4 DEF Select, Moves
  <2>2. NeedsUpdate(c, asof[r])
    BY <2>1 DEF InHand
  <2>3. vecnode'[r] = {ReadRow(d) : d \in {d \in Coin : NeedsUpdate(d, asof[r])}}
    BY <1>0, <1>4 DEF Select
  <2>4. ReadRow(c) \in vecnode'[r] /\ ReadRow(c).coin = c
    BY <2>2, <2>3 DEF ReadRow
  <2>5. Signable(ReadRow(c), keyver[r]) /\ UNCHANGED <<keyver, now>>
    BY <1>0, <1>4, <2>1, DueIsRenewable DEF Signable, Select, tableVars
  <2> QED
    BY <2>4, <2>5 DEF InHand, Signable, Renewable
<1>5. ASSUME NEW mn \in vecnode[r], Skip(r, mn)
      PROVE  InHand(c, r)'
  <2>1. /\ UNCHANGED <<db, now, stage, keyver, pending>> /\ stage[r] = "update"
        /\ vecnode'[r] = vecnode[r] \ {mn} /\ ~ Signable(mn, keyver[r])
    BY <1>0, <1>5 DEF Skip, tableVars
  <2>2. PICK other \in vecnode[r] : other.coin = c /\ Signable(other, keyver[r])
    BY <1>0, <2>1 DEF InHand
  <2> QED
    BY <2>1, <2>2 DEF InHand, Signable, Renewable
<1>6. ASSUME NEW mn \in vecnode[r], Sign(r, mn)
      PROVE  InHand(c, r)'
  <2>1. /\ UNCHANGED <<db, now, keyver>> /\ stage[r] = "update"
        /\ vecnode'[r] = vecnode[r] \ {mn} /\ Signable(mn, keyver[r])
        /\ pending'[r] = Signed(mn, keyver[r])
    BY <1>0, <1>6 DEF Sign, Moves, tableVars
  <2>2. PICK other \in vecnode[r] : other.coin = c /\ Signable(other, keyver[r])
    BY <1>0, <2>1 DEF InHand
  <2>3. CASE other # mn
    BY <2>1, <2>2, <2>3 DEF InHand, Signable, Renewable
  <2>4. CASE other = mn
    <3>1. mn \in Node /\ mn.licperiod \in Int /\ mn.nodeperiod \in Int
      BY <1>0 DEF Node
    <3>2. Signed(mn, keyver[r]).coin = c /\ Signed(mn, keyver[r]).licperiod = NewPeriod(mn)
      BY <2>2, <2>4, <3>1 DEF Signed, Node
    <3>3. /\ mn.licperiod < mn.nodeperiod /\ mn.licperiod <= now + NeedUpdate
          /\ db[c].validdate <= mn.licperiod /\ db[c].validdate \in Int
      BY <1>0, <1>1, <2>1, <2>2, <2>4 DEF Signable, Renewable, RunnerUpToDate, Row
    <3>4. NewPeriod(mn) > db[c].validdate
      BY <1>0, <3>1, <3>3, PeriodAssumption, TimingAssumption DEF NewPeriod, Smaller
    <3>5. pending'[r] # None
      <4>1. keyver[r] \in Int
        <5>1. keyver[r] \in VerifiableKey
          BY <2>1 DEF Signable
        <5> QED
          BY <5>1, WatcherAssumption
      <4>2. Signed(mn, keyver[r]) \in Node
        <5>1. now \in Int
          BY <1>0
        <5> QED
          BY <3>1, <4>1, <5>1, SignedNode
      <4> QED
        BY <2>1, <4>2, NodeIsNotNone
    <3> QED
      BY <2>1, <3>2, <3>4, <3>5 DEF InHand
  <2> QED
    BY <2>3, <2>4
<1>7. CASE Execute(r)
  <2>1. /\ UNCHANGED <<now, keyver, vecnode>> /\ stage[r] = "execute"
        /\ Store(pending[r])
    BY <1>7 DEF Execute, Returns, Moves
  <2>2. pending[r] \in Node /\ pending[r].coin \in Coin /\ pending[r].licperiod \in Int
    BY <1>0, <2>1 DEF Node
  <2>3. CASE pending[r].coin = c
    <3>1. db'[c].certificate = pending[r].licence
      BY <1>0, <2>1, <2>2, <2>3 DEF Store, Row
    <3>2. pending[r].licence = [coin |-> c, period |-> pending[r].licperiod,
                                version |-> pending[r].licversion]
      BY <1>0, <2>1, <2>3 DEF WatcherFacts, CertInv, SignedCovers, Covers
    <3>3. RowCovered(c)
      BY DEF WatcherFacts, CertInv, CertificateCoversRow
    <3>4. pending[r].licence # None
      BY <1>0, <2>1, <2>2, <3>2, NoneAssumption DEF Node, Licence
    <3>5. ~ (pending[r].licperiod > db[c].validdate)
      <4>1. db[c].certificate = pending[r].licence
        BY <3>1
      <4>2. db[c].certificate.period = db[c].validdate
        BY <3>3, <3>4, <4>1 DEF RowCovered
      <4>3. db[c].certificate.period = pending[r].licperiod
        BY <3>2, <4>1
      <4> QED
        BY <2>2, <4>2, <4>3
    <3> QED
      BY <2>1, <3>5 DEF InHand, Signable, Renewable
  <2>4. CASE pending[r].coin # c
    BY <2>1, <2>4 DEF InHand, Signable, Renewable
  <2> QED
    BY <2>3, <2>4
<1>8. CASE PassDone(r)
  BY <1>0, <1>8 DEF PassDone, InHand, Moves
<1> QED
  BY <1>2, <1>3, <1>4, <1>5, <1>6, <1>7, <1>8 DEF TimedRunnerStep

\* The forum, the key list and "licensetool clear" leave it in hand: they make a
\* licence shorter, or a node_period longer.
LEMMA InHandIsKept ==
  ASSUME PeriodsFit, WatcherFacts, WatcherTypeOK', NEW r \in Runner,
         TimedTable \/ TimedClear, NEW c \in Coin, Due(c), Due(c)', InHand(c, r)
  PROVE  InHand(c, r)'
<1>1. now' = now /\ UNCHANGED runnerVars
  BY DEF TimedTable, TimedClear, ClearLicenses, AddKey, Bind, Audit
<1>2. /\ now \in Nat /\ asof[r] \in Nat /\ asof[r] <= now
      /\ db \in [Coin -> Row] /\ db' \in [Coin -> Row]
      /\ pending \in [Runner -> Node \cup {None}]
  BY RunnerValues DEF WatcherTypeOK, TableTypeOK
<1>3. ClearLicenses \/ TableEnv
  BY DEF TimedTable, TimedClear, TableEnv
<1>4. db'[c].validdate \in {0, db[c].validdate} /\ db[c].validdate >= 0
  BY <1>3, OthersKeepRowsInv, PeriodAssumption DEF WatcherFacts, PassFacts, SoleInv, RowsInv
<1>5. db'[c].node_period >= db[c].node_period
  <2>1. db[c].status # "none"
    BY DEF Due
  <2> QED
    BY <1>3, <2>1, OthersKeepPayments DEF PaymentsStay, WatcherFacts, PassFacts
<1>6. /\ db[c].validdate \in Int /\ db[c].node_period \in Int
      /\ db'[c].validdate \in Int /\ db'[c].node_period \in Int
  BY <1>2 DEF Row
<1>7. NeedsUpdate(c, asof[r]) => NeedsUpdate(c, asof[r])'
  <2>1. asof'[r] = asof[r]
    BY <1>1 DEF runnerVars
  <2>2. db'[c].status = "confirmed"
    BY DEF Due
  <2> QED
    BY <1>2, <1>4, <1>5, <1>6, <2>1, <2>2, PeriodAssumption DEF NeedsUpdate
<1>8. CASE stage[r] = "scan"
  BY <1>1, <1>8 DEF InHand, runnerVars
<1>9. CASE stage[r] = "select" /\ NeedsUpdate(c, asof[r])
  BY <1>1, <1>7, <1>9 DEF InHand, runnerVars
<1>10. ASSUME NEW mn \in vecnode[r], mn.coin = c, Signable(mn, keyver[r])
       PROVE  InHand(c, r)'
  BY <1>1, <1>10 DEF InHand, runnerVars, Signable, Renewable
<1>11. CASE pending[r] # None /\ pending[r].coin = c /\ pending[r].licperiod > db[c].validdate
  <2>1. pending'[r] = pending[r] /\ pending[r].licperiod \in Int
    BY <1>1, <1>2, <1>11 DEF runnerVars, Node
  <2>2. pending[r].licperiod > db'[c].validdate
    BY <1>4, <1>6, <1>11, <2>1
  <2> QED
    BY <1>11, <2>1, <2>2 DEF InHand
<1> QED
  BY <1>8, <1>9, <1>10, <1>11 DEF InHand

-----------------------------------------------------------------------------
(* The wait.                                                                *)

\* One more pass is one more interval.
LEMMA OneMorePass ==
  ASSUME NEW k \in Nat
  PROVE  RunInterval * k \in Nat /\ RunInterval * (1 + k) = RunInterval * k + RunInterval
BY WatcherAssumption

\* The daemon falls asleep at the end of a pass and for RunInterval.
LEMMA SleepSteps ==
  ASSUME WatcherFacts, NEW r \in Runner, Runner = {r}, Daemon = {r}, TimingNext,
         stage'[r] = "sleep"
  PROVE  \/ stage[r] = "sleep" /\ wakeAt'[r] = wakeAt[r]
         \/ /\ TimedRunnerStep(r)
            /\ stage[r] = "update" /\ vecnode[r] = {} /\ pending[r] = None
            /\ wakeAt'[r] = now + RunInterval
<1>1. /\ stage \in [Runner -> Stage] /\ wakeAt \in [Runner -> Int]
      /\ stage[r] = "execute" <=> pending[r] # None
  BY RunnerValues DEF WatcherFacts, WatcherTypeOK, RunnerTypeOK
<1>2. ASSUME UNCHANGED <<stage, wakeAt>>
      PROVE  stage[r] = "sleep" /\ wakeAt'[r] = wakeAt[r]
  BY <1>2
<1>3. CASE TimePasses \/ Outage \/ Recovery \/ TimedTable \/ TimedClear
  BY <1>2, <1>3 DEF TimePasses, Outage, Recovery, TimedTable, TimedClear, ClearLicenses,
                    watcherVars, runnerVars
<1>4. CASE TimedRunnerStep(r)
  <2>1. CASE PassDone(r)
    BY <1>1, <1>4, <2>1 DEF PassDone, Moves
  <2>2. CASE \E mn \in vecnode[r] : Skip(r, mn)
    BY <1>2, <2>2 DEF Skip
  <2>3. CASE Start(r) \/ Scan(r) \/ Select(r) \/ SelectFail(r) \/ Wake(r)
    BY <1>1, <2>3 DEF Start, Scan, Select, SelectFail, Wake, Moves
  <2>4. CASE Execute(r) \/ ExecuteFail(r) \/ ExecuteRetry(r) \/ ExecuteLost(r)
    BY <1>1, <2>4 DEF Execute, ExecuteFail, ExecuteRetry, ExecuteLost, Returns, Retries, Moves
  <2>5. CASE \E mn \in vecnode[r] : Sign(r, mn)
    BY <1>1, <2>5 DEF Sign, Moves
  <2> QED
    BY <1>4, <2>1, <2>2, <2>3, <2>4, <2>5 DEF TimedRunnerStep
<1>5. CASE TimedCrash(r)
  BY <1>1, <1>5 DEF TimedCrash, Crash
<1> QED
  BY <1>3, <1>4, <1>5 DEF TimingNext

\* Time does not go back, and what is counted stays a number.
LEMMA OutagesCounted ==
  ASSUME WatcherFacts, NEW r \in Runner, Runner = {r}, Daemon = {r}, HistoryOK(r), TimingNext
  PROVE  /\ outages' \in Nat /\ lost' \in Nat
         /\ now' \in {now, now + 1}
<1>1. now \in Nat /\ outages \in Nat /\ lost \in Nat
  BY RunnerValues DEF HistoryOK
<1>2. CASE TimePasses
  BY <1>1, <1>2 DEF TimePasses, Tick
<1>3. CASE Outage \/ Recovery
  BY <1>1, <1>3 DEF Outage, Recovery, watcherVars, tableVars
<1>4. CASE TimedTable \/ TimedClear
  BY <1>1, <1>4 DEF TimedTable, TimedClear, outageVars, ClearLicenses, AddKey, Bind, Audit
<1>5. CASE TimedRunnerStep(r)
  <2>1. now' = now
    BY <1>5 DEF TimedRunnerStep, Start, Scan, Select, SelectFail, Skip, Sign, Execute,
                ExecuteLost, ExecuteRetry, ExecuteFail, PassDone, Wake, tableVars
  <2> QED
    BY <1>1, <1>5, <2>1 DEF TimedRunnerStep, outageVars
<1>6. CASE TimedCrash(r)
  BY <1>1, <1>6 DEF TimedCrash, Crash
<1> QED
  BY <1>2, <1>3, <1>4, <1>5, <1>6 DEF TimingNext

LEMMA HistoryStep ==
  ASSUME WatcherFacts, NEW r \in Runner, Runner = {r}, Daemon = {r}, HistoryOK(r), TimingNext
  PROVE  HistoryOK(r)'
<1>1. /\ now \in Nat /\ dueSince \in [Coin -> Int] /\ now' \in {now, now + 1}
      /\ outages' \in Nat /\ lost' \in Nat
  BY RunnerValues, OutagesCounted DEF HistoryOK
<1>2. ASSUME NEW c \in Coin
      PROVE  /\ dueSince'[c] \in Int /\ dueSince'[c] <= now'
             /\ dueSince'[c] # -1 <=> Due(c)'
  <2>1. dueSince'[c] = IF Waits(c) THEN dueSince[c] ELSE IF Due(c)' THEN now' ELSE -1
    BY DEF TimingNext
  <2>2. dueSince[c] \in Int /\ dueSince[c] <= now
    BY <1>1 DEF HistoryOK
  <2>3. now' \in Nat /\ now' >= now
    BY <1>1
  <2>4. Waits(c) => Due(c)' /\ dueSince[c] # -1
    BY DEF Waits
  <2> QED
    BY <1>1, <2>1, <2>2, <2>3, <2>4
<1>3. dueSince' \in [Coin -> Int]
  BY <1>2 DEF TimingNext
<1>4. ASSUME stage'[r] = "sleep"
      PROVE  wakeAt'[r] <= now' + RunInterval
  <2>1. wakeAt[r] \in Int /\ RunInterval \in Nat
    BY WatcherAssumption DEF WatcherFacts, WatcherTypeOK, RunnerTypeOK
  <2>2. \/ stage[r] = "sleep" /\ wakeAt'[r] = wakeAt[r]
        \/ wakeAt'[r] = now + RunInterval /\ TimedRunnerStep(r)
    BY <1>4, SleepSteps
  <2>3. stage[r] = "sleep" => wakeAt[r] <= now + RunInterval
    BY DEF HistoryOK
  <2>4. now' >= now /\ now' \in Nat
    BY <1>1
  <2> QED
    BY <1>1, <2>1, <2>2, <2>3, <2>4
<1> QED
  BY <1>1, <1>2, <1>3, <1>4 DEF HistoryOK

\* A row that goes on waiting stays accounted for.
LEMMA AccountedStep ==
  ASSUME PeriodsFit, WatcherFacts, WatcherFacts',
         NEW r \in Runner, Runner = {r}, Daemon = {r}, HistoryOK(r), HistoryOK(r)', TimingNext,
         NEW c \in Coin, Waits(c), Accounted(c, r)
  PROVE  Accounted(c, r)'
<1> DEFINE passes == RunInterval * outages
<1> DEFINE since == dueSince[c]
<1>1. /\ now \in Nat /\ outages \in Nat /\ lost \in Nat /\ since \in Int
      /\ RunInterval \in Nat /\ passes \in Nat
  BY RunnerValues, OneMorePass, WatcherAssumption DEF HistoryOK
<1>2. RunInterval * (1 + outages) = passes + RunInterval
  BY <1>1, OneMorePass
<1>3. wakeAt[r] \in Int /\ wakeAt'[r] \in Int
  BY WatcherAssumption DEF WatcherFacts, WatcherTypeOK, RunnerTypeOK
<1>4. dueSince'[c] = since /\ Due(c) /\ Due(c)' /\ db'[c].certificate = db[c].certificate
  BY DEF TimingNext, Waits, HistoryOK
<1> HIDE DEF passes, since
<1>5. /\ now - since <= passes + RunInterval + lost
      /\ stage[r] = "sleep" => wakeAt[r] - since <= passes + RunInterval + lost
      /\ outage \/ ~ (InHand(c, r) \/ stage[r] = "sleep") => now - since <= passes + lost
  BY <1>1, <1>2 DEF Accounted, Late, passes, since
<1>6. CASE /\ outages' = outages + 1 /\ now' = now /\ lost' = lost
           /\ stage'[r] = "sleep" => stage[r] = "sleep" /\ wakeAt'[r] = wakeAt[r]
  <2>1. outages' \in Nat /\ RunInterval * outages' = passes + RunInterval
    BY <1>1, <1>2, <1>6
  <2>2. RunInterval * (1 + outages') = passes + RunInterval + RunInterval
    BY <1>1, <2>1, OneMorePass
  <2>3. now' - since <= passes + RunInterval + lost'
    BY <1>5, <1>6
  <2>4. now' - since <= passes + RunInterval + RunInterval + lost'
    BY <1>1, <1>6, <2>3
  <2>5. stage'[r] = "sleep" => wakeAt'[r] - since <= passes + RunInterval + RunInterval + lost'
    BY <1>1, <1>3, <1>5, <1>6
  <2> QED
    BY <1>4, <2>1, <2>2, <2>3, <2>4, <2>5 DEF Accounted, Late
<1>7. ASSUME outages' = outages,
             now' - since <= passes + RunInterval + lost',
             stage'[r] = "sleep" => wakeAt'[r] - since <= passes + RunInterval + lost',
             outage' \/ ~ (InHand(c, r)' \/ stage'[r] = "sleep")
               => now' - since <= passes + lost'
      PROVE  Accounted(c, r)'
  <2>1. RunInterval * outages' = passes /\ RunInterval * (1 + outages') = passes + RunInterval
    BY <1>1, <1>2, <1>7 DEF passes
  <2> QED
    BY <1>4, <1>7, <2>1 DEF Accounted, Late
<1>8. CASE TimePasses
  <2>1. UNCHANGED <<runnerVars, outage, outages>> /\ now' \in {now, now + 1} /\ db' = db
    BY <1>8 DEF TimePasses, Tick
  <2>2. CASE Down
    <3>1. lost' = lost + 1
      BY <1>8, <2>2 DEF TimePasses
    <3>2. outage \/ stage[r] = "off"
      BY <2>2 DEF Down
    <3>3. stage[r] = "off" => ~ InHand(c, r)
      BY RunnerValues DEF InHand
    <3>4. now - since <= passes + lost
      BY <1>5, <3>2, <3>3
    <3>5. now' \in Nat /\ now' <= now + 1
      BY <1>1, <2>1
    <3>6. \A n, m, k, l \in Int : n - since <= k + l /\ m <= n + 1 => m - since <= k + (l + 1)
      BY <1>1
    <3>7. /\ now \in Int /\ now' \in Int /\ lost \in Int
           /\ passes \in Int /\ passes + RunInterval \in Int
      BY <1>1, <3>5
    <3>8. now' - since <= passes + lost'
      BY <3>1, <3>4, <3>5, <3>6, <3>7
    <3>9. now' - since <= passes + RunInterval + lost'
      <4>1. \A n, l \in Int : n - since <= passes + l => n - since <= passes + RunInterval + l
        BY <1>1
      <4>2. now' \in Int /\ lost' \in Int
        BY <3>1, <3>7
      <4> QED
        BY <3>8, <4>1, <4>2
    <3>10. stage'[r] = "sleep" => wakeAt'[r] - since <= passes + RunInterval + lost'
      BY <1>1, <1>3, <1>5, <2>1, <3>1 DEF runnerVars
    <3> QED
      BY <1>7, <2>1, <3>8, <3>10, <3>9
  <2>3. CASE ~ Down
    <3>1. lost' = lost /\ stage[r] = "sleep" /\ now < wakeAt[r] /\ ~ outage
      BY <1>8, <2>3 DEF TimePasses, Down
    <3>2. now' <= wakeAt[r] /\ now' \in Nat
      BY <1>1, <1>3, <2>1, <3>1
    <3>3. now' - since <= passes + RunInterval + lost'
      <4>1. \A n, m, k \in Int : n <= m /\ m - since <= k => n - since <= k
        BY <1>1
      <4>2. now' \in Int /\ wakeAt[r] \in Int /\ passes + RunInterval + lost \in Int
        BY <1>1, <1>3, <3>2
      <4>3. wakeAt[r] - since <= passes + RunInterval + lost
        BY <1>5, <3>1
      <4>4. now' - since <= passes + RunInterval + lost
        BY <3>2, <4>1, <4>2, <4>3
      <4> QED
        BY <3>1, <4>4
    <3> QED
      BY <1>5, <1>7, <2>1, <3>1, <3>3 DEF runnerVars
  <2> QED
    BY <2>2, <2>3
<1>9. CASE Outage
  BY <1>6, <1>9 DEF Outage, watcherVars, tableVars, runnerVars
<1>10. CASE TimedCrash(r)
  <2>1. stage'[r] = "off"
    BY <1>10 DEF TimedCrash, Crash, WatcherFacts, WatcherTypeOK, RunnerTypeOK
  <2> QED
    BY <1>6, <1>10, <2>1 DEF TimedCrash, Crash
<1>11. CASE Recovery
  <2>1. UNCHANGED <<now, outages, lost, stage, wakeAt>> /\ outage
    BY <1>11 DEF Recovery, watcherVars, tableVars, runnerVars
  <2> QED
    BY <1>5, <1>7, <2>1
<1>12. CASE TimedTable \/ TimedClear
  <2>1. UNCHANGED <<now, outage, outages, lost, stage, wakeAt>>
    BY <1>12 DEF TimedTable, TimedClear, ClearLicenses, AddKey, Bind, Audit, runnerVars,
                 outageVars
  <2>2. InHand(c, r) => InHand(c, r)'
    BY <1>4, <1>12, InHandIsKept DEF WatcherFacts
  <2> QED
    BY <1>5, <1>7, <2>1, <2>2
<1>13. CASE TimedRunnerStep(r)
  <2>1. UNCHANGED <<outage, outages, lost>>
    BY <1>13 DEF TimedRunnerStep, outageVars
  <2>2. now' = now
    BY <1>13 DEF TimedRunnerStep, Start, Scan, Select, SelectFail, Skip, Sign, Execute,
                 ExecuteLost, ExecuteRetry, ExecuteFail, PassDone, Wake, tableVars
  <2>3. ~ outage /\ InHand(c, r) => InHand(c, r)'
    BY <1>4, <1>13, InHandStays
  <2>4. stage[r] = "sleep" => stage'[r] = "sleep" \/ InHand(c, r)'
    <3>1. vecnode[r] = {} /\ stage \in [Runner -> Stage] /\ stage[r] = "sleep" =>
            stage'[r] \in {"scan", "sleep"}
      BY <1>13 DEF TimedRunnerStep, Start, Scan, Select, SelectFail, Execute,
                   ExecuteLost, ExecuteRetry, ExecuteFail, PassDone, Wake, Moves, Returns,
                   Retries
    <3> QED
      BY <3>1, RunnerValues DEF InHand
  <2>5. stage'[r] = "sleep" => wakeAt'[r] - since <= passes + RunInterval + lost
    <3>1. CASE stage[r] = "sleep" /\ wakeAt'[r] = wakeAt[r]
      BY <1>5, <3>1
    <3>2. CASE /\ stage[r] = "update" /\ vecnode[r] = {} /\ pending[r] = None
               /\ wakeAt'[r] = now + RunInterval
      <4>1. now - since <= passes + lost
        BY <1>5, <3>2 DEF InHand
      <4> QED
        BY <1>1, <3>2, <4>1
    <3> QED
      BY <3>1, <3>2, SleepSteps
  <2>6. outage' \/ ~ (InHand(c, r)' \/ stage'[r] = "sleep") => now' - since <= passes + lost'
    BY <1>5, <2>1, <2>2, <2>3, <2>4
  <2> QED
    BY <1>5, <1>7, <2>1, <2>2, <2>5, <2>6
<1> QED
  BY <1>8, <1>9, <1>10, <1>11, <1>12, <1>13 DEF TimingNext

\* A row that begins to wait has waited for no time.
LEMMA WaitStep ==
  ASSUME PeriodsFit, WatcherFacts, WatcherFacts',
         NEW r \in Runner, Runner = {r}, Daemon = {r}, WaitInv(r), [TimingNext]_timingVars
  PROVE  WaitInv(r)'
<1>1. CASE UNCHANGED timingVars
  BY <1>1 DEF WaitInv, HistoryOK, Accounted, Late, InHand, Due, NeedsUpdate, Signable, Renewable,
              timingVars, watcherVars, tableVars, runnerVars, outageVars
<1>2. CASE TimingNext
  <2>1. HistoryOK(r) /\ HistoryOK(r)'
    BY <1>2, HistoryStep DEF WaitInv
  <2>2. ASSUME NEW c \in Coin, dueSince'[c] # -1
        PROVE  Accounted(c, r)'
    <3>1. CASE Waits(c)
      BY <1>2, <2>1, <3>1, AccountedStep DEF WaitInv, Waits
    <3>2. CASE ~ Waits(c)
      <4>1. dueSince'[c] = now'
        BY <1>2, <2>2, <3>2 DEF TimingNext
      <4>2. now' \in Nat /\ outages' \in Nat /\ lost' \in Nat /\ RunInterval \in Nat
        BY <2>1, BoundAssumption, WatcherAssumption
        DEF HistoryOK, WatcherFacts, WatcherTypeOK, TableTypeOK
      <4>3. /\ RunInterval * outages' \in Nat
            /\ RunInterval * (1 + outages') = RunInterval * outages' + RunInterval
        BY <4>2, OneMorePass
      <4>4. Late(c, now, 1 + outages)' /\ Late(c, now, outages)'
        <5> DEFINE passes == RunInterval * outages'
        <5>1. passes \in Nat /\ RunInterval * (1 + outages') = passes + RunInterval
          BY <4>3
        <5> HIDE DEF passes
        <5>2. now' - dueSince'[c] = 0
          <6>1. \A n \in Nat : n - n = 0
            OBVIOUS
          <6>2. now' \in Nat
            BY <4>2
          <6> QED
            BY <4>1, <6>1, <6>2
        <5>3. now' - dueSince'[c] <= passes + lost'
          BY <4>2, <5>1, <5>2
        <5>4. now' - dueSince'[c] <= passes + RunInterval + lost'
          BY <4>2, <5>1, <5>2
        <5> QED
          BY <5>1, <5>3, <5>4 DEF Late, passes
      <4>5. stage'[r] = "sleep" => Late(c, wakeAt[r], 1 + outages)'
        <5>1. wakeAt'[r] \in Int
          BY WatcherAssumption DEF WatcherFacts, WatcherTypeOK, RunnerTypeOK
        <5>2. stage'[r] = "sleep" => wakeAt'[r] <= now' + RunInterval
          BY <2>1 DEF HistoryOK
        <5> QED
          BY <4>1, <4>2, <4>3, <5>1, <5>2 DEF Late
      <4> QED
        BY <4>4, <4>5 DEF Accounted
    <3> QED
      BY <3>1, <3>2
  <2> QED
    BY <2>1, <2>2 DEF WaitInv
<1> QED
  BY <1>1, <1>2

\* The theorem of this module: with one daemon, and periods that fit an int, no
\* renewal waits longer than one interval, one more for each outage or crash, and
\* the time these take, whatever the forum and the operator do meanwhile.
THEOREM RenewalsInTime ==
  ASSUME PeriodsFit, NEW daemon, Runner = {daemon}, Daemon = {daemon}
  PROVE  TimingSpec => []RenewedInTime
<1> DEFINE Inv == WaitInv(daemon)
<1>1. daemon \in Runner /\ \A q, s \in Runner : q = s
  OBVIOUS
<1>2. TimingInit => Inv
  <2> SUFFICES ASSUME TimingInit
               PROVE  Inv
    OBVIOUS
  <2>1. /\ now = 0 /\ outages = 0 /\ lost = 0 /\ stage[daemon] = "off"
        /\ dueSince = [c \in Coin |-> -1]
    BY <1>1 DEF TimingInit, WatcherInit, TableInit
  <2>2. \A c \in Coin : ~ Due(c)
    BY DEF TimingInit, WatcherInit, TableInit, Due, NoRow, NewRow
  <2> QED
    BY <2>1, <2>2 DEF WaitInv, HistoryOK
<1>3. ASSUME WatcherFacts, WatcherFacts', Inv, [TimingNext]_timingVars
      PROVE  Inv'
  BY <1>1, <1>3, WaitStep
<1>4. Inv => RenewedInTime
  BY DEF WaitInv, Accounted, Late, RenewedInTime
<1>5. TimingSpec => []WatcherFacts
  BY <1>1, WatcherFactsHold
<1> QED
  BY <1>2, <1>3, <1>4, <1>5, PTL DEF TimingSpec

=============================================================================
