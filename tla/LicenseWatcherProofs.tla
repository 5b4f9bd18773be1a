------------------------ MODULE LicenseWatcherProofs ------------------------
(***************************************************************************)
(* licensetool: its types, the certificates that it leaves in the table, and  *)
(* when a licence that is renewed ends, for every set of runners, coins, keys *)
(* and periods, and for every bound.                                          *)
(***************************************************************************)
EXTENDS LicenseWatcher, TLAPS

-----------------------------------------------------------------------------
(* Lemmas about the operators.                                              *)

\* atoi() returns an int.
LEMMA AtoiType == ASSUME NEW n \in Int PROVE Atoi(n) \in Int
  BY PeriodAssumption DEF Atoi

\* SelectMNode makes a CMNode of every row.
LEMMA ReadRowType ==
  ASSUME TableTypeOK, NEW c \in Coin
  PROVE  ReadRow(c) \in Node
<1>1. db[c] \in Row
  BY DEF TableTypeOK
<1>2. Atoi(db[c].validdate) \in Int /\ Atoi(db[c].node_period) \in Int
  BY <1>1, AtoiType DEF Row
<1> QED
  BY <1>1, <1>2 DEF ReadRow, Row, Node

\* "licensetool clear" leaves a row a row.
LEMMA ClearedRow == ASSUME NEW row \in Row PROVE Cleared(row) \in Row
<1>1. NewRow \in Row
  BY DEF NewRow, Row, Status
<1> QED
  BY <1>1 DEF Cleared, Row

\* The row after the UPDATE of UpdateLicense with node mn.
Renewed(row, mn) == [row EXCEPT !.validdate = mn.licperiod, !.certificate = mn.licence,
                                !.version = mn.licversion]

\* UpdateLicense leaves a row a row.
LEMMA RenewedRow ==
  ASSUME NEW row \in Row, NEW mn \in Node
  PROVE  Renewed(row, mn) \in Row
<1>1. /\ mn.licperiod \in Int
      /\ mn.licversion \in Int
      /\ mn.licence \in Licence \cup {None}
  BY DEF Node
<1>2. [row EXCEPT !.validdate = mn.licperiod] \in Row
  BY <1>1 DEF Row
<1>3. [[row EXCEPT !.validdate = mn.licperiod] EXCEPT !.certificate = mn.licence] \in Row
  BY <1>1, <1>2 DEF Row
<1> QED
  BY <1>1, <1>3 DEF Renewed, Row

\* SignMNLicense makes a CMNode, whose certificate covers it.
LEMMA SignedNode ==
  ASSUME now \in Int, NEW mn \in Node, NEW v \in Int
  PROVE  /\ Signed(mn, v) \in Node
         /\ Covers(Signed(mn, v))
         /\ Signed(mn, v).licversion = v
<1>1. NewPeriod(mn) \in Int
  BY PeriodAssumption DEF NewPeriod, Smaller, Node
<1>2. [coin |-> mn.coin, period |-> NewPeriod(mn), version |-> v] \in Licence
  BY <1>1 DEF Licence, Node
<1> QED
  BY <1>1, <1>2 DEF Signed, Covers, Node

\* No CMNode stands for None.
LEMMA NodeIsNotNone == ASSUME NEW mn \in Node PROVE mn # None
  BY NoneAssumption

-----------------------------------------------------------------------------
(* The type invariant.                                                      *)

LEMMA InitType == WatcherInit => WatcherTypeOK
<1> SUFFICES ASSUME WatcherInit PROVE WatcherTypeOK
  OBVIOUS
<1>1. NoRow \in Row
  BY DEF NoRow, NewRow, Row, Status
<1>2. TableTypeOK
  BY <1>1, BoundAssumption DEF WatcherInit, TableInit, TableTypeOK
<1>3. RunnerTypeOK
  BY BoundAssumption, WatcherAssumption DEF WatcherInit, RunnerTypeOK, Stage
<1> QED
  BY <1>2, <1>3 DEF WatcherTypeOK, StageAgrees, WatcherInit

\* The type invariant is kept by what a runner does within a pass.
LEMMA RunnerKeepsType ==
  ASSUME WatcherTypeOK, NEW r \in Runner, RunnerStep(r)
  PROVE  WatcherTypeOK'
<1> USE DEF WatcherTypeOK, RunnerTypeOK, StageAgrees, Moves
<1>1. CASE Start(r)
  BY <1>1, BoundAssumption DEF Start, TableTypeOK, Stage, Disturb
<1>2. CASE Scan(r)
  BY <1>2 DEF Scan, TableTypeOK, tableVars, Stage
<1>3. CASE Select(r)
  <2>1. {ReadRow(c) : c \in {d \in Coin : NeedsUpdate(d, asof[r])}} \in SUBSET Node
    BY ReadRowType
  <2> QED
    BY <1>3, <2>1 DEF Select, TableTypeOK, tableVars, Stage
<1>4. CASE SelectFail(r)
  BY <1>4 DEF SelectFail, TableTypeOK, tableVars, Stage
<1>5. ASSUME NEW mn \in vecnode[r], Skip(r, mn)
      PROVE  WatcherTypeOK'
  BY <1>5 DEF Skip, TableTypeOK, tableVars
<1>6. ASSUME NEW mn \in vecnode[r], Sign(r, mn)
      PROVE  WatcherTypeOK'
  <2>1. keyver[r] \in Int /\ now \in Int /\ mn \in Node
    BY BoundAssumption DEF TableTypeOK
  <2>2. Signed(mn, keyver[r]) \in Node
    BY <2>1, SignedNode
  <2> QED
    BY <1>6, <2>2, NodeIsNotNone, WatcherAssumption
    DEF Sign, TableTypeOK, tableVars, Stage
<1>7. ASSUME Returns(r), UNCHANGED <<keyver, asof, vecnode, wakeAt>>
      PROVE  RunnerTypeOK' /\ StageAgrees'
  BY <1>7, WatcherAssumption DEF Returns, Stage
<1>8. ASSUME Retries(r), UNCHANGED <<keyver, asof, vecnode, wakeAt>>
      PROVE  RunnerTypeOK' /\ StageAgrees'
  BY <1>7, <1>8, WatcherAssumption DEF Retries
<1>9. ASSUME stage[r] = "execute", Store(pending[r]), UNCHANGED <<now, confkeys, events>>
      PROVE  TableTypeOK'
  <2>1. pending[r] \in Node /\ db \in [Coin -> Row]
    BY <1>9, NoneAssumption DEF TableTypeOK
  <2>2. pending[r].coin \in Coin
    BY <2>1 DEF Node
  <2>3. db' = [db EXCEPT ![pending[r].coin] = Renewed(db[pending[r].coin], pending[r])]
    BY <1>9 DEF Store, Renewed
  <2>4. db' \in [Coin -> Row]
    BY <2>1, <2>2, <2>3, RenewedRow
  <2> QED
    BY <1>9, <2>4 DEF TableTypeOK
<1>10. CASE Execute(r)
  BY <1>7, <1>9, <1>10 DEF Execute, Returns
<1>11. CASE ExecuteLost(r)
  BY <1>8, <1>9, <1>11 DEF ExecuteLost, Retries
<1>12. CASE ExecuteRetry(r)
  BY <1>8, <1>12 DEF ExecuteRetry, TableTypeOK, tableVars
<1>13. CASE ExecuteFail(r)
  BY <1>7, <1>13 DEF ExecuteFail, TableTypeOK, tableVars
<1>14. CASE PassDone(r)
  BY <1>14, WatcherAssumption, BoundAssumption DEF PassDone, TableTypeOK, tableVars, Stage
<1>15. CASE Wake(r)
  BY <1>15, WatcherAssumption, BoundAssumption DEF Wake, TableTypeOK, tableVars, Stage
<1> QED
  BY <1>1, <1>2, <1>3, <1>4, <1>5, <1>6, <1>10, <1>11, <1>12, <1>13, <1>14, <1>15
  DEF RunnerStep

\* ... by a crash, by the operator's "clear", and by the environment.
LEMMA OthersKeepType ==
  ASSUME WatcherTypeOK,
         \/ \E r \in Runner : Crash(r)
         \/ ClearLicenses
         \/ TableEnv /\ UNCHANGED runnerVars
  PROVE  WatcherTypeOK'
<1> USE DEF WatcherTypeOK, RunnerTypeOK, StageAgrees
<1>1. ASSUME NEW r \in Runner, Crash(r)
      PROVE  WatcherTypeOK'
  BY <1>1, BoundAssumption, WatcherAssumption
  DEF Crash, Disturb, TableTypeOK, Stage
<1>2. CASE ClearLicenses
  <2>1. \A c \in Coin : Cleared(db[c]) \in Row
    BY ClearedRow DEF TableTypeOK
  <2>2. db' \in [Coin -> Row] /\ Disturb /\ UNCHANGED <<now, confkeys, runnerVars>>
    BY <1>2, <2>1 DEF ClearLicenses
  <2> QED
    BY <2>2, BoundAssumption DEF Disturb, TableTypeOK, runnerVars
<1>3. CASE TableEnv /\ UNCHANGED runnerVars
  <2>1. CASE Tick
    BY <1>3, <2>1, BoundAssumption DEF Tick, TableTypeOK, runnerVars
  <2>2. CASE AddKey
    BY <1>3, <2>2, BoundAssumption DEF AddKey, Disturb, TableTypeOK, runnerVars
  <2>3. ASSUME NEW c \in Coin, Bind(c)
        PROVE  WatcherTypeOK'
    <3>1. NewRow \in Row
      BY DEF NewRow, Row, Status
    <3> QED
      BY <1>3, <2>3, <3>1, BoundAssumption DEF Bind, Disturb, TableTypeOK, runnerVars
  <2>4. ASSUME NEW c \in Coin, Audit(c)
        PROVE  WatcherTypeOK'
    <3>1. PICK s \in {"confirmed", "failed"}, p \in NodePeriods :
             db' = [db EXCEPT ![c] = [@ EXCEPT !.status = s, !.node_period = p]]
      BY <2>4 DEF Audit
    <3>2. s \in Status /\ p \in Int
      BY CoinAssumption DEF Status
    <3>3. [db[c] EXCEPT !.status = s, !.node_period = p] \in Row
      <4>1. db[c] \in Row
        BY DEF TableTypeOK
      <4> QED
        BY <3>2, <4>1 DEF Row
    <3>4. db' \in [Coin -> Row]
      BY <3>1, <3>3 DEF TableTypeOK
    <3> QED
      BY <1>3, <2>4, <3>4, BoundAssumption DEF Audit, Disturb, TableTypeOK, runnerVars
  <2> QED
    BY <1>3, <2>1, <2>2, <2>3, <2>4 DEF TableEnv
<1> QED
  BY <1>1, <1>2, <1>3
\* Every step of licensetool and of the table keeps the types.
LEMMA TypeStep ==
  ASSUME WatcherTypeOK, [WatcherNext]_watcherVars
  PROVE  WatcherTypeOK'
<1>1. CASE UNCHANGED watcherVars
  BY <1>1 DEF WatcherTypeOK, TableTypeOK, RunnerTypeOK, StageAgrees, watcherVars,
              tableVars, runnerVars
<1> QED
  BY <1>1, RunnerKeepsType, OthersKeepType DEF WatcherNext

\* Type correctness of licensetool and the table.
THEOREM WatcherType == WatcherSpec => []WatcherTypeOK
<1>1. WatcherTypeOK /\ [WatcherNext]_watcherVars => WatcherTypeOK'
  BY TypeStep
<1> QED
  BY InitType, <1>1, PTL DEF WatcherSpec

-----------------------------------------------------------------------------
(***************************************************************************)
(* The certificates in the table, for any number of runners that           *)
(* interleave, repeat statements and crash.  None of the properties is     *)
(* inductive as it stands.  A row is replaced by the node a runner has     *)
(* signed, at a time when neither the runner nor the database looks at the *)
(* row again, so each property rests on what is true of the nodes in the   *)
(* memory of the runners.                                                  *)
(***************************************************************************)

\* The node being stored carries the certificate of its own period and
\* version, made with a key that can be verified.
SignedCovers ==
    \A r \in Runner : pending[r] # None
                        => /\ Covers(pending[r])
                           /\ pending[r].licversion \in VerifiableKey

\* The inductive invariant for the certificates.
CertInv == CertificateCoversRow /\ CertificateVerifies /\ SignedCovers

-----------------------------------------------------------------------------
(* The table.                                                               *)

\* UpdateLicense keeps the certificates right.
LEMMA StoreKeepsRows ==
  ASSUME WatcherTypeOK, CertInv, NEW r \in Runner, stage[r] = "execute", Store(pending[r])
  PROVE  CertificateCoversRow' /\ CertificateVerifies'
<1> DEFINE mn == pending[r]
<1>1. mn # None /\ mn \in Node
  BY DEF WatcherTypeOK, RunnerTypeOK, StageAgrees
<1>2. mn.licence = [coin |-> mn.coin, period |-> mn.licperiod, version |-> mn.licversion]
  BY <1>1 DEF CertInv, SignedCovers, Covers
<1>3. mn.licence \in Licence /\ mn.licence # None /\ mn.licence.version = mn.licversion
  BY <1>1, <1>2, NoneAssumption DEF Node, Licence
<1>4. mn.licversion \in VerifiableKey
  BY <1>1 DEF CertInv, SignedCovers
<1>5. db \in [Coin -> Row] /\ mn.coin \in Coin
  BY <1>1 DEF WatcherTypeOK, TableTypeOK, Node
<1>6. ASSUME NEW c \in Coin
      PROVE  RowCovered(c)' /\ (db'[c].certificate # None
                                  => db'[c].certificate.version \in VerifiableKey)
  <2>1. CASE c # mn.coin
    <3>1. db'[c] = db[c]
      BY <1>5, <2>1 DEF Store
    <3> QED
      BY <3>1 DEF CertInv, CertificateCoversRow, CertificateVerifies, RowCovered
  <2>2. CASE c = mn.coin
    <3>1. /\ db'[c].certificate = mn.licence
          /\ db'[c].validdate = mn.licperiod
          /\ db'[c].version = mn.licversion
      BY <1>5, <2>2 DEF Store, Row
    <3> QED
      BY <1>2, <1>3, <1>4, <2>2, <3>1 DEF RowCovered
  <2> QED
    BY <2>1, <2>2
<1> QED
  BY <1>6 DEF CertificateCoversRow, CertificateVerifies

\* The operator and the forum keep the certificates right.
LEMMA OthersKeepRows ==
  ASSUME WatcherTypeOK, CertInv, ClearLicenses \/ TableEnv
  PROVE  CertificateCoversRow' /\ CertificateVerifies'
<1>0. db \in [Coin -> Row]
  BY DEF WatcherTypeOK, TableTypeOK
<1>1. \A c \in Coin : \/ db'[c].certificate = None /\ db'[c].validdate = 0
                      \/ /\ db'[c].certificate = db[c].certificate
                         /\ db'[c].validdate = db[c].validdate
                         /\ db'[c].version = db[c].version
  <2>1. CASE ClearLicenses
    BY <2>1 DEF ClearLicenses, Cleared, NewRow
  <2>2. CASE Tick \/ AddKey
    BY <2>2 DEF Tick, AddKey
  <2>3. ASSUME NEW d \in Coin, Bind(d)
        PROVE  \A c \in Coin : \/ db'[c].certificate = None /\ db'[c].validdate = 0
                               \/ db'[c] = db[c]
    BY <1>0, <2>3 DEF Bind, NewRow
  <2>4. ASSUME NEW d \in Coin, Audit(d), NEW c \in Coin
        PROVE  /\ db'[c].certificate = db[c].certificate
               /\ db'[c].validdate = db[c].validdate
               /\ db'[c].version = db[c].version
    BY <1>0, <2>4 DEF Audit, Row
  <2> QED
    BY <2>1, <2>2, <2>3, <2>4 DEF TableEnv
<1> QED
  BY <1>1 DEF CertInv, CertificateCoversRow, CertificateVerifies, RowCovered

-----------------------------------------------------------------------------
(* The runners.                                                             *)

\* What a runner signs, it signs right; everything else leaves pending alone
\* or empties it.
LEMMA SigningKeepsSigned ==
  ASSUME WatcherTypeOK, SignedCovers, [WatcherNext]_watcherVars
  PROVE  SignedCovers'
<1>0. pending \in [Runner -> Node \cup {None}]
  BY DEF WatcherTypeOK, RunnerTypeOK
<1>1. ASSUME NEW r \in Runner, NEW mn \in vecnode[r], Sign(r, mn)
      PROVE  SignedCovers'
  <2>1. mn \in Node /\ keyver[r] \in Int /\ now \in Int
    BY BoundAssumption DEF WatcherTypeOK, RunnerTypeOK, TableTypeOK
  <2>2. Covers(Signed(mn, keyver[r])) /\ Signed(mn, keyver[r]).licversion = keyver[r]
    BY <2>1, SignedNode
  <2>3. keyver[r] \in VerifiableKey
    BY <1>1 DEF Sign, Signable
  <2>4. pending' = [pending EXCEPT ![r] = Signed(mn, keyver[r])]
    BY <1>1 DEF Sign
  <2> QED
    BY <1>0, <2>2, <2>3, <2>4 DEF SignedCovers, Covers
<1>2. ASSUME \A r \in Runner : pending'[r] \in {pending[r], None}
      PROVE  SignedCovers'
  BY <1>2 DEF SignedCovers, Covers
<1>3. ASSUME NEW r \in Runner, Returns(r) \/ Retries(r) \/ Crash(r)
      PROVE  \A q \in Runner : pending'[q] \in {pending[q], None}
  BY <1>0, <1>3 DEF Returns, Retries, Crash
<1>4. CASE UNCHANGED pending
  BY <1>2, <1>4
<1>5. ASSUME NEW r \in Runner, RunnerStep(r)
      PROVE  SignedCovers'
  <2>1. CASE Start(r) \/ Scan(r) \/ Select(r) \/ SelectFail(r) \/ PassDone(r) \/ Wake(r)
    BY <1>4, <2>1 DEF Start, Scan, Select, SelectFail, PassDone, Wake
  <2>2. CASE \E mn \in vecnode[r] : Skip(r, mn)
    BY <1>4, <2>2 DEF Skip
  <2>3. CASE Execute(r) \/ ExecuteLost(r) \/ ExecuteRetry(r) \/ ExecuteFail(r)
    BY <1>2, <1>3, <2>3 DEF Execute, ExecuteLost, ExecuteRetry, ExecuteFail
  <2> QED
    BY <1>1, <1>5, <2>1, <2>2, <2>3 DEF RunnerStep
<1>6. CASE ClearLicenses \/ (TableEnv /\ UNCHANGED runnerVars) \/ UNCHANGED watcherVars
  BY <1>4, <1>6 DEF ClearLicenses, watcherVars, runnerVars
<1> QED
  BY <1>2, <1>3, <1>5, <1>6 DEF WatcherNext

\* Only the executed UPDATE of a runner touches the table.
LEMMA RunnerWritesByStore ==
  ASSUME NEW r \in Runner, RunnerStep(r) \/ Crash(r)
  PROVE  UNCHANGED db \/ (stage[r] = "execute" /\ Store(pending[r]))
BY DEF RunnerStep, Start, Scan, Select, SelectFail, Skip, Sign, Execute, ExecuteLost,
       ExecuteRetry, ExecuteFail, PassDone, Wake, Crash, Returns, Retries, Moves, tableVars
\* Every step keeps the certificates, those in the table and those on their way.
LEMMA CertStep ==
  ASSUME WatcherTypeOK, CertInv, [WatcherNext]_watcherVars
  PROVE  CertInv'
<1>1. SignedCovers'
  BY SigningKeepsSigned DEF CertInv
<1>2. CASE UNCHANGED db
  BY <1>1, <1>2 DEF CertInv, CertificateCoversRow, CertificateVerifies, RowCovered
<1>3. ASSUME NEW r \in Runner, RunnerStep(r) \/ Crash(r)
      PROVE  CertInv'
  BY <1>1, <1>2, <1>3, StoreKeepsRows, RunnerWritesByStore DEF CertInv
<1>4. CASE ClearLicenses \/ TableEnv
  BY <1>1, <1>4, OthersKeepRows DEF CertInv
<1> QED
  BY <1>2, <1>3, <1>4 DEF WatcherNext, watcherVars, tableVars

\* SignMNLicense, UpdateLicense and ClearLicenses under every interleaving.
LEMMA CertInvHolds == WatcherSpec => []CertInv
<1>1. WatcherInit => CertInv
  BY DEF WatcherInit, TableInit, CertInv, CertificateCoversRow, CertificateVerifies,
         SignedCovers, RowCovered, NoRow, NewRow
<1>2. WatcherTypeOK /\ CertInv /\ [WatcherNext]_watcherVars => CertInv'
  BY CertStep
<1> QED
  BY <1>1, <1>2, WatcherType, PTL DEF WatcherSpec

\* No row shows a validdate or a cert_version its certificate was not signed for.
THEOREM CertificatesRight == WatcherSpec => []CertificateCoversRow
<1>1. CertInv => CertificateCoversRow
  BY DEF CertInv
<1> QED
  BY <1>1, CertInvHolds, PTL

\* Every certificate in the table can be verified with the configured public keys.
THEOREM CertificatesVerified == WatcherSpec => []CertificateVerifies
<1>1. CertInv => CertificateVerifies
  BY DEF CertInv
<1> QED
  BY <1>1, CertInvHolds, PTL
-----------------------------------------------------------------------------
(* A licence never outlives the period its owner has paid for, proved for   *)
(* every width of int: the reads of licensetool lose the high bits of       *)
(* node_period, which can only make it smaller. WithinNodePeriod compares   *)
(* two columns that are written by different programs. It is inductive only *)
(* together with the fact that nobody ever shortens node_period, so that    *)
(* what a runner read, and what it signed on the strength of it, is still   *)
(* paid for when the UPDATE arrives.                                        *)

\* Coin c has a row, and its owner has paid for a licence up to p.
PaidUpTo(c, p) == db[c].status # "none" /\ p <= db[c].node_period

\* What a runner read of a node_period is covered by the table.
ReadsPaid == \A r \in Runner : \A mn \in vecnode[r] : PaidUpTo(mn.coin, mn.nodeperiod)

\* What a runner has signed is covered by the table.
SignedPaid == \A r \in Runner : pending[r] # None
                                  => PaidUpTo(pending[r].coin, pending[r].licperiod)

\* The inductive invariant for the periods.
PeriodInv ==
    /\ WithinNodePeriod
    /\ ReadsPaid
    /\ SignedPaid
    /\ \A c \in Coin : db[c].node_period >= -1

\* Whatever was paid for remains paid for.
PaymentsStay ==
    \A c \in Coin : /\ db'[c].node_period >= -1
                    /\ db[c].status # "none"
                         => /\ db'[c].status # "none"
                            /\ db'[c].node_period >= db[c].node_period

-----------------------------------------------------------------------------
(* The operators.                                                           *)

\* Losing the high bits of a time never makes it later.
LEMMA AtoiNoMore == ASSUME NEW n \in Int, n >= -1 PROVE Atoi(n) <= n
<1> DEFINE w == 2 * IntHalf
<1>1. w \in Nat /\ w >= 2
  BY PeriodAssumption
<1> HIDE DEF w
<1>2. n % w \in 0 .. w - 1 /\ n = w * (n \div w) + (n % w) /\ n \div w \in Int
  BY <1>1
<1>3. CASE n = -1
  BY <1>3, PeriodAssumption DEF Atoi
<1>4. CASE n >= 0
  <2>1. n \div w >= 0
    BY <1>1, <1>4
  <2>2. n % w <= n
    BY <1>1, <1>2, <1>4, <2>1
  <2> QED
    BY <1>1, <1>2, <2>2, PeriodAssumption DEF Atoi, w
<1> QED
  BY <1>3, <1>4

\* SignMNLicense does not go beyond _nodeperiod.
LEMMA NewPeriodPaid ==
  ASSUME now \in Int, NEW mn \in Node, NEW v \in Int
  PROVE  Signed(mn, v).coin = mn.coin /\ Signed(mn, v).licperiod <= mn.nodeperiod
<1>1. NewPeriod(mn) <= mn.nodeperiod
  BY PeriodAssumption DEF NewPeriod, Smaller, Node
<1> QED
  BY <1>1 DEF Signed, Node

-----------------------------------------------------------------------------
(* The table.                                                               *)

\* "licensetool clear" and the forum leave what was paid for, and whatever
\* certificate they leave is one that was there.
LEMMA OthersKeepPayments ==
  ASSUME WatcherTypeOK, PeriodInv, ClearLicenses \/ TableEnv
  PROVE  PaymentsStay /\ WithinNodePeriod'
<1>0. db \in [Coin -> Row]
  BY DEF WatcherTypeOK, TableTypeOK
<1>1. CASE ClearLicenses
  <2>1. ASSUME NEW c \in Coin
        PROVE  /\ db'[c].status = db[c].status
               /\ db'[c].node_period = db[c].node_period
               /\ db'[c].certificate = None
    BY <1>1 DEF ClearLicenses, Cleared, NewRow
  <2> QED
    BY <1>0, <2>1 DEF PaymentsStay, WithinNodePeriod, PeriodInv, Row
<1>2. CASE Tick \/ AddKey
  <2>1. db' = db
    BY <1>2 DEF Tick, AddKey
  <2> QED
    BY <1>0, <2>1 DEF PaymentsStay, WithinNodePeriod, PeriodInv, Row
<1>3. ASSUME NEW d \in Coin, Bind(d)
      PROVE  PaymentsStay /\ WithinNodePeriod'
  <2>1. db[d].status = "none" /\ db' = [db EXCEPT ![d] = NewRow]
    BY <1>3 DEF Bind
  <2>2. NewRow.node_period = -1 /\ NewRow.certificate = None
    BY DEF NewRow
  <2> QED
    BY <1>0, <2>1, <2>2 DEF PaymentsStay, WithinNodePeriod, PeriodInv, Row
<1>4. ASSUME NEW d \in Coin, Audit(d)
      PROVE  PaymentsStay /\ WithinNodePeriod'
  <2>1. PICK s \in {"confirmed", "failed"}, p \in NodePeriods :
           /\ p >= db[d].node_period
           /\ db' = [db EXCEPT ![d] = [@ EXCEPT !.status = s, !.node_period = p]]
    BY <1>4 DEF Audit
  <2>2. p \in Nat
    BY CoinAssumption
  <2>3. db[d] \in Row
    BY <1>0
  <2>4. /\ db'[d].status = s
        /\ db'[d].node_period = p
        /\ db'[d].certificate = db[d].certificate
        /\ db'[d].validdate = db[d].validdate
    BY <1>0, <2>1, <2>3 DEF Row
  <2>5. \A c \in Coin \ {d} : db'[c] = db[c]
    BY <1>0, <2>1
  <2>6. ASSUME NEW c \in Coin
        PROVE  /\ db'[c].node_period >= -1
               /\ db[c].status # "none"
                    => db'[c].status # "none" /\ db'[c].node_period >= db[c].node_period
               /\ db'[c].certificate # None => db'[c].validdate <= db'[c].node_period
    <3>1. db[c] \in Row
      BY <1>0
    <3>2. db[c].certificate # None => db[c].validdate <= db[c].node_period
      BY DEF PeriodInv, WithinNodePeriod
    <3>3. db[c].node_period >= -1 /\ db[c].node_period \in Int /\ db[c].validdate \in Int
      BY <3>1 DEF PeriodInv, Row
    <3>4. CASE c = d
      BY <2>1, <2>2, <2>4, <3>2, <3>3, <3>4
    <3>5. CASE c # d
      BY <2>5, <3>2, <3>3, <3>5
    <3> QED
      BY <3>4, <3>5
  <2> QED
    BY <2>6 DEF PaymentsStay, WithinNodePeriod
<1> QED
  BY <1>1, <1>2, <1>3, <1>4 DEF TableEnv

\* UpdateLicense stores what is paid for.
LEMMA StoreIsPaid ==
  ASSUME WatcherTypeOK, PeriodInv, NEW r \in Runner, stage[r] = "execute", Store(pending[r])
  PROVE  PaymentsStay /\ WithinNodePeriod'
<1> DEFINE mn == pending[r]
<1>1. mn # None /\ mn \in Node
  BY DEF WatcherTypeOK, RunnerTypeOK, StageAgrees
<1>2. db \in [Coin -> Row] /\ mn.coin \in Coin
  BY <1>1 DEF WatcherTypeOK, TableTypeOK, Node
<1>3. mn.licperiod <= db[mn.coin].node_period
  BY <1>1 DEF PeriodInv, SignedPaid, PaidUpTo
<1>4. \A c \in Coin : /\ db'[c].status = db[c].status
                      /\ db'[c].node_period = db[c].node_period
  BY <1>2 DEF Store, Row
<1>5. db'[mn.coin].validdate = mn.licperiod
  BY <1>2 DEF Store, Row
<1>6. \A c \in Coin \ {mn.coin} : db'[c] = db[c]
  BY <1>2 DEF Store
<1>7. PaymentsStay
  BY <1>2, <1>4 DEF PaymentsStay, PeriodInv, Row
<1>8. WithinNodePeriod'
  BY <1>2, <1>3, <1>4, <1>5, <1>6 DEF WithinNodePeriod, PeriodInv
<1> QED
  BY <1>7, <1>8

-----------------------------------------------------------------------------
(* The runners.                                                             *)

\* SelectMNode reads no more than was paid for.
LEMMA SelectIsPaid ==
  ASSUME WatcherTypeOK, PeriodInv, NEW r \in Runner, Select(r)
  PROVE  ReadsPaid'
<1>1. ASSUME NEW c \in Coin, NeedsUpdate(c, asof[r])
      PROVE  ReadRow(c).coin = c /\ PaidUpTo(c, ReadRow(c).nodeperiod)
  <2>1. db[c].node_period \in Int /\ db[c].node_period >= -1
    BY DEF WatcherTypeOK, TableTypeOK, Row, PeriodInv
  <2> QED
    BY <1>1, <2>1, AtoiNoMore DEF ReadRow, PaidUpTo, NeedsUpdate
<1>2. db' = db
  BY DEF Select, tableVars
<1>3. vecnode' = [vecnode EXCEPT
                    ![r] = {ReadRow(c) : c \in {d \in Coin : NeedsUpdate(d, asof[r])}}]
  BY DEF Select
<1>4. \A mn \in vecnode'[r] : PaidUpTo(mn.coin, mn.nodeperiod)
  BY <1>1, <1>3 DEF WatcherTypeOK, RunnerTypeOK
<1> QED
  BY <1>2, <1>3, <1>4 DEF ReadsPaid, PaidUpTo, PeriodInv

\* Every other step leaves the nodes read alone, or drops some of them.
LEMMA OthersReadNoMore ==
  ASSUME WatcherTypeOK, [WatcherNext]_watcherVars, \A r \in Runner : ~ Select(r)
  PROVE  \A r \in Runner : vecnode'[r] \subseteq vecnode[r]
<1>0. vecnode \in [Runner -> SUBSET Node]
  BY DEF WatcherTypeOK, RunnerTypeOK
<1>1. ASSUME NEW r \in Runner, RunnerStep(r) \/ Crash(r)
      PROVE  \A q \in Runner : vecnode'[q] \subseteq vecnode[q]
  BY <1>0, <1>1
  DEF RunnerStep, Start, Scan, SelectFail, Skip, Sign, Execute, ExecuteLost,
      ExecuteRetry, ExecuteFail, PassDone, Wake, Crash
<1>2. CASE ClearLicenses \/ (TableEnv /\ UNCHANGED runnerVars) \/ UNCHANGED watcherVars
  BY <1>2 DEF ClearLicenses, watcherVars, runnerVars
<1> QED
  BY <1>1, <1>2 DEF WatcherNext

\* Every step but Sign leaves pending alone, or drops it.
LEMMA OthersSignNothing ==
  ASSUME WatcherTypeOK, [WatcherNext]_watcherVars,
         \A r \in Runner : \A mn \in vecnode[r] : ~ Sign(r, mn)
  PROVE  \A r \in Runner : pending'[r] \in {pending[r], None}
<1>0. pending \in [Runner -> Node \cup {None}]
  BY DEF WatcherTypeOK, RunnerTypeOK
<1>1. ASSUME NEW r \in Runner, RunnerStep(r) \/ Crash(r)
      PROVE  \A q \in Runner : pending'[q] \in {pending[q], None}
  BY <1>0, <1>1
  DEF RunnerStep, Start, Scan, Select, SelectFail, Skip, Execute, ExecuteLost,
      ExecuteRetry, ExecuteFail, PassDone, Wake, Crash, Returns, Retries
<1>2. CASE ClearLicenses \/ (TableEnv /\ UNCHANGED runnerVars) \/ UNCHANGED watcherVars
  BY <1>2 DEF ClearLicenses, watcherVars, runnerVars
<1> QED
  BY <1>1, <1>2 DEF WatcherNext

\* Every step leaves what was paid for, and the table within it.
LEMMA StepKeepsPayments ==
  ASSUME WatcherTypeOK, PeriodInv, [WatcherNext]_watcherVars
  PROVE  PaymentsStay /\ WithinNodePeriod'
<1>1. CASE UNCHANGED db
  BY <1>1 DEF PaymentsStay, WithinNodePeriod, PeriodInv, WatcherTypeOK, TableTypeOK, Row
<1>2. ASSUME NEW r \in Runner, RunnerStep(r) \/ Crash(r)
      PROVE  UNCHANGED db \/ (stage[r] = "execute" /\ Store(pending[r]))
  BY <1>2
  DEF RunnerStep, Start, Scan, Select, SelectFail, Skip, Sign, Execute, ExecuteLost,
      ExecuteRetry, ExecuteFail, PassDone, Wake, Crash, Returns, Retries, Moves, tableVars
<1>3. CASE \E r \in Runner : RunnerStep(r) \/ Crash(r)
  BY <1>1, <1>2, <1>3, StoreIsPaid
<1>4. CASE ClearLicenses \/ TableEnv
  BY <1>4, OthersKeepPayments
<1> QED
  BY <1>1, <1>3, <1>4 DEF WatcherNext, watcherVars, tableVars
\* Every step keeps the periods paid for, from the SELECT to the UPDATE.
LEMMA PeriodStep ==
  ASSUME WatcherTypeOK, WatcherTypeOK', PeriodInv, [WatcherNext]_watcherVars
  PROVE  PeriodInv'
<1>1. PaymentsStay /\ WithinNodePeriod'
  BY StepKeepsPayments
<1>2. ASSUME NEW c \in Coin, NEW p \in Int, PaidUpTo(c, p)
      PROVE  PaidUpTo(c, p)'
  BY <1>1, <1>2 DEF PaymentsStay, PaidUpTo, WatcherTypeOK, TableTypeOK, Row
<1>3. ReadsPaid'
  <2>1. CASE \E r \in Runner : Select(r)
    BY <2>1, SelectIsPaid
  <2>2. CASE \A r \in Runner : ~ Select(r)
    <3> SUFFICES ASSUME NEW r \in Runner, NEW mn \in vecnode'[r]
                 PROVE  PaidUpTo(mn.coin, mn.nodeperiod)'
      BY DEF ReadsPaid, PaidUpTo
    <3>1. mn \in vecnode[r]
      BY <2>2, OthersReadNoMore
    <3>2. PaidUpTo(mn.coin, mn.nodeperiod)
      BY <3>1 DEF PeriodInv, ReadsPaid
    <3>3. mn.coin \in Coin /\ mn.nodeperiod \in Int
      BY <3>1 DEF WatcherTypeOK, RunnerTypeOK, Node
    <3> QED
      BY <1>2, <3>2, <3>3 DEF PaidUpTo
  <2> QED
    BY <2>1, <2>2
<1>4. SignedPaid'
  <2>1. ASSUME NEW r \in Runner, NEW mn \in vecnode[r], Sign(r, mn)
        PROVE  SignedPaid'
    <3>1. mn \in Node /\ keyver[r] \in Int /\ now \in Int
      BY BoundAssumption DEF WatcherTypeOK, RunnerTypeOK, TableTypeOK
    <3>2. /\ pending' = [pending EXCEPT ![r] = Signed(mn, keyver[r])]
          /\ db' = db
      BY <2>1 DEF Sign, tableVars
    <3>3. PaidUpTo(mn.coin, mn.nodeperiod)
      BY DEF PeriodInv, ReadsPaid
    <3>4. Signed(mn, keyver[r]) \in Node
      BY <3>1, SignedNode
    <3>5. PaidUpTo(Signed(mn, keyver[r]).coin, Signed(mn, keyver[r]).licperiod)
      <4>1. /\ mn.coin \in Coin /\ mn.nodeperiod \in Int
            /\ Signed(mn, keyver[r]).licperiod \in Int
        BY <3>1, <3>4 DEF Node
      <4>2. db[mn.coin].node_period \in Int
        BY <4>1 DEF WatcherTypeOK, TableTypeOK, Row
      <4> QED
        BY <3>1, <3>3, <4>1, <4>2, NewPeriodPaid DEF PaidUpTo
    <3> QED
      BY <3>2, <3>5 DEF SignedPaid, PaidUpTo, PeriodInv, WatcherTypeOK, RunnerTypeOK
  <2>2. CASE \A r \in Runner : \A mn \in vecnode[r] : ~ Sign(r, mn)
    <3> SUFFICES ASSUME NEW r \in Runner, pending'[r] # None
                 PROVE  PaidUpTo(pending[r].coin, pending[r].licperiod)'
      BY DEF SignedPaid
    <3>1. pending'[r] = pending[r]
      BY <2>2, OthersSignNothing
    <3>2. PaidUpTo(pending[r].coin, pending[r].licperiod)
      BY <3>1 DEF PeriodInv, SignedPaid
    <3>3. pending[r].coin \in Coin /\ pending[r].licperiod \in Int
      BY <3>1 DEF WatcherTypeOK, RunnerTypeOK, Node
    <3> QED
      BY <1>2, <3>1, <3>2, <3>3 DEF PaidUpTo
  <2> QED
    BY <2>1, <2>2
<1> QED
  BY <1>1, <1>3, <1>4 DEF PeriodInv, PaymentsStay

\* SelectMNode, SignMNLicense and UpdateLicense look at node_period and write
\* validdate in three separate steps, with the forum and other runners between.
LEMMA PeriodInvHolds == WatcherSpec => []PeriodInv
<1>1. WatcherInit => PeriodInv
  BY DEF WatcherInit, TableInit, PeriodInv, WithinNodePeriod, ReadsPaid, SignedPaid,
         NoRow, NewRow
<1>2. WatcherTypeOK /\ WatcherTypeOK' /\ PeriodInv /\ [WatcherNext]_watcherVars => PeriodInv'
  BY PeriodStep
<1> QED
  BY <1>1, <1>2, WatcherType, PTL DEF WatcherSpec

\* Still no licence outlives what was paid for.
THEOREM LicencesPaid == WatcherSpec => []WithinNodePeriod
<1>1. PeriodInv => WithinNodePeriod
  BY DEF PeriodInv
<1> QED
  BY <1>1, PeriodInvHolds, PTL

-----------------------------------------------------------------------------
(***************************************************************************)
(* Renewals.  SELECT compares the BIGINT node_period, SignMNLicense the int *)
(* it was cut to: a period that does not fit makes renewals that have ended *)
(* when they are stored, so what follows holds where the periods fit.       *)
(***************************************************************************)
PeriodsFit == PeriodLimit > 0 /\ NodePeriods \subseteq 0 .. IntHalf - 1

\* What runner r has read or signed lies beyond its scan; outside UpdateDB it has
\* read nothing.
RunnerAhead(r) ==
    /\ asof[r] <= now
    /\ stage[r] \notin {"update", "execute"} => vecnode[r] = {}
    /\ \A mn \in vecnode[r] : mn.nodeperiod > asof[r]
    /\ pending[r] # None => pending[r].licperiod > asof[r]

\* The inductive invariant for renewals.
AheadInv ==
    /\ \A c \in Coin : db[c].node_period \in NodePeriods \cup {-1}
    /\ \A r \in Runner : RunnerAhead(r)

\* An int that fits is read as it is.
LEMMA AtoiExact == ASSUME NEW n \in -1 .. IntHalf - 1 PROVE Atoi(n) = n
<1>1. CASE n = -1
  <2>1. -1 % (2 * IntHalf) = 2 * IntHalf - 1
    BY PeriodAssumption
  <2> QED
    BY <1>1, <2>1, PeriodAssumption DEF Atoi
<1>2. CASE n >= 0
  <2>1. n % (2 * IntHalf) = n
    BY <1>2, PeriodAssumption
  <2> QED
    BY <1>2, <2>1, PeriodAssumption DEF Atoi
<1> QED
  BY <1>1, <1>2, PeriodAssumption

\* Of node_period the forum writes, and nobody else.
LEMMA PeriodColumn ==
  ASSUME WatcherTypeOK, AheadInv, [WatcherNext]_watcherVars
  PROVE  \A c \in Coin : db'[c].node_period \in NodePeriods \cup {-1}
<1>0. db \in [Coin -> Row]
  BY DEF WatcherTypeOK, TableTypeOK
<1>1. CASE UNCHANGED db
  BY <1>1 DEF AheadInv
<1>2. ASSUME NEW r \in Runner, stage[r] = "execute", Store(pending[r])
      PROVE  \A c \in Coin : db'[c].node_period = db[c].node_period
  BY <1>0, <1>2 DEF Store, Row
<1>3. CASE ClearLicenses
  BY <1>3 DEF AheadInv, ClearLicenses, Cleared, NewRow
<1>4. ASSUME NEW c \in Coin, Bind(c)
      PROVE  \A d \in Coin : db'[d].node_period \in {db[d].node_period, -1}
  BY <1>0, <1>4 DEF Bind, NewRow
<1>5. ASSUME NEW c \in Coin, Audit(c)
      PROVE  \A d \in Coin : db'[d].node_period \in NodePeriods \cup {db[d].node_period}
  BY <1>0, <1>5 DEF Audit, Row
<1>6. CASE TableEnv
  BY <1>1, <1>4, <1>5, <1>6 DEF TableEnv, Tick, AddKey, AheadInv
<1>7. CASE \E r \in Runner : RunnerStep(r) \/ Crash(r)
  BY <1>1, <1>2, <1>7, RunnerWritesByStore DEF AheadInv
<1> QED
  BY <1>1, <1>3, <1>6, <1>7 DEF WatcherNext, watcherVars, tableVars

\* A runner looks ahead: what it does.
LEMMA RunnerKeepsAhead ==
  ASSUME PeriodsFit, WatcherTypeOK, AheadInv, NEW r \in Runner, RunnerStep(r) \/ Crash(r)
  PROVE  \A q \in Runner : RunnerAhead(q)'
<1>0. /\ now \in Nat /\ now' = now
      /\ asof \in [Runner -> Nat] /\ stage \in [Runner -> Stage]
      /\ vecnode \in [Runner -> SUBSET Node] /\ pending \in [Runner -> Node \cup {None}]
  <2>1. now' = now
    BY DEF RunnerStep, Start, Scan, Select, SelectFail, Skip, Sign, Execute, ExecuteLost,
           ExecuteRetry, ExecuteFail, PassDone, Wake, Crash, tableVars
  <2> QED
    BY <2>1, BoundAssumption DEF WatcherTypeOK, TableTypeOK, RunnerTypeOK
<1>1. ASSUME NEW q \in Runner, q # r
      PROVE  RunnerAhead(q)'
  <2>1. /\ asof'[q] = asof[q] /\ stage'[q] = stage[q]
        /\ vecnode'[q] = vecnode[q] /\ pending'[q] = pending[q]
    BY <1>0, <1>1
    DEF RunnerStep, Start, Scan, Select, SelectFail, Skip, Sign, Execute, ExecuteLost,
        ExecuteRetry, ExecuteFail, PassDone, Wake, Crash, Moves, Returns, Retries
  <2> QED
    BY <1>0, <2>1 DEF RunnerAhead, AheadInv
<1>2. RunnerAhead(r)'
  <2> USE <1>0 DEF RunnerAhead, Moves
  <2>0. RunnerAhead(r) /\ (stage[r] = "execute" <=> pending[r] # None)
    BY DEF AheadInv, WatcherTypeOK, StageAgrees
  <2>1. CASE Start(r) \/ Scan(r) \/ SelectFail(r) \/ PassDone(r) \/ Wake(r) \/ Crash(r)
    BY <2>0, <2>1 DEF Start, Scan, SelectFail, PassDone, Wake, Crash
  <2>2. CASE Select(r)
    <3>1. ASSUME NEW c \in Coin, NeedsUpdate(c, asof[r])
          PROVE  ReadRow(c).nodeperiod > asof[r]
      <4>1. db[c].node_period \in NodePeriods \cup {-1} /\ db[c].node_period > asof[r]
        BY <3>1 DEF NeedsUpdate, AheadInv
      <4>2. asof[r] \in Nat
        OBVIOUS
      <4>3. \A p \in NodePeriods \cup {-1} : p \in -1 .. IntHalf - 1
        BY PeriodAssumption DEF PeriodsFit
      <4> QED
        BY <4>1, <4>2, <4>3, AtoiExact DEF ReadRow
    <3>2. vecnode'[r] = {ReadRow(c) : c \in {d \in Coin : NeedsUpdate(d, asof[r])}}
      BY <2>2 DEF Select
    <3>3. \A mn \in vecnode'[r] : mn.nodeperiod > asof[r]
      BY <3>1, <3>2
    <3> QED
      BY <2>0, <2>2, <3>3 DEF Select
  <2>3. ASSUME NEW mn \in vecnode[r], Skip(r, mn)
        PROVE  RunnerAhead(r)'
    BY <2>0, <2>3 DEF Skip
  <2>4. ASSUME NEW mn \in vecnode[r], Sign(r, mn)
        PROVE  RunnerAhead(r)'
    <3>1. mn \in Node /\ mn.nodeperiod \in Int /\ mn.nodeperiod > asof[r]
      BY <2>0 DEF Node
    <3>2. NewPeriod(mn) > asof[r]
      BY <2>0, <3>1, PeriodAssumption DEF NewPeriod, Smaller, PeriodsFit
    <3>3. Signed(mn, keyver[r]).licperiod = NewPeriod(mn)
      BY <3>1 DEF Signed, Node
    <3> QED
      BY <2>0, <2>4, <3>2, <3>3 DEF Sign
  <2>5. CASE Execute(r) \/ ExecuteLost(r) \/ ExecuteRetry(r) \/ ExecuteFail(r)
    BY <2>0, <2>5 DEF Execute, ExecuteLost, ExecuteRetry, ExecuteFail, Returns, Retries
  <2> QED
    BY <2>1, <2>2, <2>3, <2>4, <2>5 DEF RunnerStep
<1> QED
  BY <1>1, <1>2
\* Every step keeps the renewals ahead of their scan.
LEMMA AheadStep ==
  ASSUME PeriodsFit, WatcherTypeOK, WatcherTypeOK', AheadInv, [WatcherNext]_watcherVars
  PROVE  AheadInv'
<1>0. now \in Nat /\ now' \in Nat /\ \A r \in Runner : asof[r] \in Nat
  BY BoundAssumption DEF WatcherTypeOK, RunnerTypeOK, TableTypeOK
<1>1. ASSUME NEW r \in Runner, RunnerStep(r) \/ Crash(r)
      PROVE  \A q \in Runner : RunnerAhead(q)'
  BY <1>1, RunnerKeepsAhead
<1>2. ASSUME UNCHANGED runnerVars, now' >= now
      PROVE  \A r \in Runner : RunnerAhead(r)'
  BY <1>0, <1>2 DEF AheadInv, RunnerAhead, runnerVars
<1>3. ASSUME ClearLicenses \/ (TableEnv /\ UNCHANGED runnerVars) \/ UNCHANGED watcherVars
      PROVE  \A r \in Runner : RunnerAhead(r)'
  <2>1. UNCHANGED runnerVars
    BY <1>3 DEF ClearLicenses, watcherVars, runnerVars
  <2>2. now' = now \/ now' = now + 1
    BY <1>3 DEF ClearLicenses, TableEnv, Tick, AddKey, Bind, Audit, watcherVars, tableVars
  <2> QED
    BY <1>0, <1>2, <2>1, <2>2
<1>4. \A r \in Runner : RunnerAhead(r)'
  BY <1>1, <1>2, <1>3 DEF WatcherNext
<1>5. \A c \in Coin : db'[c].node_period \in NodePeriods \cup {-1}
  BY PeriodColumn
<1> QED
  BY <1>4, <1>5 DEF AheadInv

\* Renewals are ahead, and node_period is as the forum wrote it.
LEMMA AheadInvHolds == ASSUME PeriodsFit PROVE WatcherSpec => []AheadInv
<1>1. WatcherInit => AheadInv
  BY BoundAssumption
  DEF WatcherInit, TableInit, AheadInv, RunnerAhead, NoRow, NewRow
<1>2. WatcherTypeOK /\ WatcherTypeOK' /\ AheadInv /\ [WatcherNext]_watcherVars => AheadInv'
  BY AheadStep
<1> QED
  BY <1>1, <1>2, WatcherType, PTL DEF WatcherSpec

\* Every licence that is stored ends after the scan that asked for it, if the periods
\* fit an int.
THEOREM RenewalsAhead == ASSUME PeriodsFit PROVE WatcherSpec => []RenewalIsAhead
<1>1. AheadInv => RenewalIsAhead
  BY DEF AheadInv, RunnerAhead, RenewalIsAhead
<1> QED
  BY <1>1, AheadInvHolds, PTL

-----------------------------------------------------------------------------
(***************************************************************************)
(* licensetool keeps the promises of LicenseRegistry.  The statement that a *)
(* runner stores was composed some steps earlier, with a clock and a key    *)
(* list that have moved on: GrantInv says that they still allow it.         *)
(***************************************************************************)

\* A runner holds listed keys, and signs with them what may still be granted.
RunnerGrants(r) ==
    /\ keyver[r] <= confkeys
    /\ pending[r] # None => /\ pending[r].licversion \in 1 .. confkeys
                            /\ pending[r].licperiod <= now + PeriodLimit

GrantInv == \A r \in Runner : RunnerGrants(r)

\* What a runner does, and its end, leave the others their grants and keep its own.
LEMMA RunnerKeepsGrants ==
  ASSUME WatcherTypeOK, GrantInv, NEW r \in Runner, RunnerStep(r) \/ Crash(r)
  PROVE  \A q \in Runner : RunnerGrants(q)'
<1>0. /\ now \in Nat /\ confkeys \in Nat \ {0} /\ now' = now /\ confkeys' = confkeys
      /\ keyver \in [Runner -> Nat] /\ stage \in [Runner -> Stage]
      /\ vecnode \in [Runner -> SUBSET Node] /\ pending \in [Runner -> Node \cup {None}]
  <2>1. now' = now /\ confkeys' = confkeys
    BY DEF RunnerStep, Start, Scan, Select, SelectFail, Skip, Sign, Execute, ExecuteLost,
           ExecuteRetry, ExecuteFail, PassDone, Wake, Crash, tableVars
  <2> QED
    BY <2>1, BoundAssumption DEF WatcherTypeOK, TableTypeOK, RunnerTypeOK
<1>1. CASE \A q \in Runner : keyver'[q] <= confkeys /\ pending'[q] \in {pending[q], None}
  BY <1>0, <1>1 DEF GrantInv, RunnerGrants
<1>2. CASE \E mn \in vecnode[r] : Sign(r, mn)
  <2>1. PICK mn \in vecnode[r] : Sign(r, mn)
    BY <1>2
  <2>2. mn \in Node /\ mn.nodeperiod \in Int /\ keyver[r] \in 1 .. confkeys
    BY <1>0, <2>1 DEF Node, Sign, Moves, WatcherTypeOK, StageAgrees, GrantInv, RunnerGrants
  <2>3. Signed(mn, keyver[r]).licperiod <= now + PeriodLimit
    BY <1>0, <2>2, PeriodAssumption DEF Signed, NewPeriod, Smaller, Node
  <2>4. Signed(mn, keyver[r]).licversion = keyver[r]
    BY <2>2 DEF Signed, Node
  <2>5. pending' = [pending EXCEPT ![r] = Signed(mn, keyver[r])] /\ keyver' = keyver
    BY <2>1 DEF Sign
  <2> QED
    BY <1>0, <2>2, <2>3, <2>4, <2>5 DEF GrantInv, RunnerGrants
<1>3. CASE \A mn \in vecnode[r] : ~ Sign(r, mn)
  <2>1. \A q \in Runner : keyver'[q] \in {keyver[q], 0, confkeys}
    BY <1>0, <1>3
    DEF RunnerStep, Start, Scan, Select, SelectFail, Skip, Execute, ExecuteLost,
        ExecuteRetry, ExecuteFail, PassDone, Wake, Crash
  <2>2. \A q \in Runner : pending'[q] \in {pending[q], None}
    BY <1>0, <1>3
    DEF RunnerStep, Start, Scan, Select, SelectFail, Skip, Execute, ExecuteLost,
        ExecuteRetry, ExecuteFail, PassDone, Wake, Crash, Returns, Retries
  <2> QED
    BY <1>0, <1>1, <2>1, <2>2 DEF GrantInv, RunnerGrants
<1> QED
  BY <1>2, <1>3

\* Neither the clock nor the key list goes back.
LEMMA ClockAndKeysGrow ==
  ASSUME WatcherTypeOK, ClearLicenses \/ TableEnv \/ UNCHANGED watcherVars
  PROVE  now' >= now /\ confkeys' >= confkeys
<1>1. now \in Nat /\ confkeys \in Nat
  BY BoundAssumption DEF WatcherTypeOK, TableTypeOK
<1>2. now' \in {now, now + 1} /\ confkeys' \in {confkeys, confkeys + 1}
  BY DEF ClearLicenses, TableEnv, Tick, AddKey, Bind, Audit, watcherVars, tableVars
<1> QED
  BY <1>1, <1>2

\* Every step keeps what is signed within what may be granted.
LEMMA GrantStep ==
  ASSUME WatcherTypeOK, WatcherTypeOK', GrantInv, [WatcherNext]_watcherVars
  PROVE  GrantInv'
<1>1. CASE \E r \in Runner : RunnerStep(r) \/ Crash(r)
  BY <1>1, RunnerKeepsGrants DEF GrantInv
<1>2. CASE ClearLicenses \/ (TableEnv /\ UNCHANGED runnerVars) \/ UNCHANGED watcherVars
  <2>1. UNCHANGED <<keyver, pending>>
    BY <1>2 DEF ClearLicenses, watcherVars, runnerVars
  <2>2. now' >= now /\ confkeys' >= confkeys
    BY <1>2, ClockAndKeysGrow
  <2>3. /\ now \in Nat /\ now' \in Nat /\ confkeys \in Nat /\ confkeys' \in Nat
        /\ keyver \in [Runner -> Nat] /\ pending \in [Runner -> Node \cup {None}]
    BY BoundAssumption DEF WatcherTypeOK, TableTypeOK, RunnerTypeOK
  <2>4. \A mn \in Node : mn.licversion \in Int /\ mn.licperiod \in Int
    BY DEF Node
  <2> QED
    BY <2>1, <2>2, <2>3, <2>4, PeriodAssumption DEF GrantInv, RunnerGrants
<1> QED
  BY <1>1, <1>2 DEF WatcherNext

LEMMA GrantInvHolds == WatcherSpec => []GrantInv
<1>1. WatcherInit => GrantInv
  BY DEF WatcherInit, TableInit, GrantInv, RunnerGrants
<1>2. WatcherTypeOK /\ WatcherTypeOK' /\ GrantInv /\ [WatcherNext]_watcherVars => GrantInv'
  BY GrantStep
<1> QED
  BY <1>1, <1>2, WatcherType, PTL DEF WatcherSpec

\* The UPDATE of UpdateLicense is a grant.
LEMMA StoreIsGrant ==
  ASSUME WatcherTypeOK, PeriodInv, SignedCovers, AheadInv, GrantInv,
         NEW r \in Runner, stage[r] = "execute", Store(pending[r]),
         UNCHANGED <<now, confkeys, events>>
  PROVE  \E c \in Coin : Registry!Grant(c)
<1> DEFINE mn == pending[r]
<1>1. mn # None /\ mn \in Node
  BY DEF WatcherTypeOK, RunnerTypeOK, StageAgrees
<1>2. mn.licence = [coin |-> mn.coin, period |-> mn.licperiod, version |-> mn.licversion]
  BY <1>1 DEF SignedCovers, Covers
<1>3. mn.coin \in Coin /\ mn.licperiod \in Int /\ mn.licversion \in Int
  BY <1>1 DEF Node
<1>4. mn.licperiod \in 1 .. now + PeriodLimit /\ mn.licversion \in 1 .. confkeys
  <2>1. asof[r] \in Nat /\ now \in Nat
    BY BoundAssumption DEF WatcherTypeOK, RunnerTypeOK, TableTypeOK
  <2>2. mn.licperiod > asof[r]
    BY <1>1 DEF AheadInv, RunnerAhead
  <2>3. mn.licperiod <= now + PeriodLimit /\ mn.licversion \in 1 .. confkeys
    BY <1>1 DEF GrantInv, RunnerGrants
  <2> QED
    BY <1>3, <2>1, <2>2, <2>3, PeriodAssumption
<1>5. db[mn.coin].status # "none" /\ mn.licperiod <= db[mn.coin].node_period
  BY <1>1 DEF PeriodInv, SignedPaid, PaidUpTo
<1>6. db[mn.coin] \in Row
  BY <1>3 DEF WatcherTypeOK, TableTypeOK
<1>7. db' = [db EXCEPT ![mn.coin] = Registry!Licensed(mn.coin, mn.licperiod, mn.licversion)]
  BY <1>2, <1>6 DEF Store, Registry!Licensed, Row
<1>8. Registry!Grant(mn.coin)
  BY <1>4, <1>5, <1>7 DEF Registry!Grant
<1> QED
  BY <1>3, <1>8

\* A step of licensetool, seen from the table, is one of LicenseRegistry: Execute grants
\* what was signed, "licensetool clear" clears, a start by hand or a death happens
\* elsewhere, and the rest is not seen.
LEMMA RegistryStep ==
  ASSUME WatcherTypeOK, PeriodInv, SignedCovers, AheadInv, GrantInv,
         [WatcherNext]_watcherVars
  PROVE  [Registry!RegistryNext]_(Registry!tableVars)
<1>1. ASSUME NEW r \in Runner, Execute(r) \/ ExecuteLost(r)
      PROVE  \E c \in Coin : Registry!Grant(c)
  BY <1>1, StoreIsGrant DEF Execute, ExecuteLost, Returns, Retries, Moves
<1>2. ASSUME NEW r \in Runner, Start(r) \/ Crash(r)
      PROVE  Registry!Elsewhere \/ UNCHANGED tableVars
  BY <1>2 DEF Start, Crash, Registry!Elsewhere, Disturb, Registry!Disturb, tableVars
<1>3. ASSUME NEW r \in Runner, RunnerStep(r),
             ~ (Execute(r) \/ ExecuteLost(r) \/ Start(r))
      PROVE  UNCHANGED tableVars
  BY <1>3 DEF RunnerStep, Scan, Select, SelectFail, Skip, Sign, ExecuteRetry,
              ExecuteFail, PassDone, Wake
<1>4. CASE ClearLicenses
  BY <1>4 DEF ClearLicenses, Registry!RegistryNext, Registry!ClearAll, Cleared,
              Registry!Cleared, NewRow, Registry!NewRow, Disturb, Registry!Disturb
<1>5. CASE TableEnv
  BY <1>5 DEF TableEnv, Registry!TableEnv, Tick, Registry!Tick, AddKey, Registry!AddKey,
              Bind, Registry!Bind, Audit, Registry!Audit, NewRow, Registry!NewRow,
              Disturb, Registry!Disturb, Registry!RegistryNext
<1>6. CASE UNCHANGED watcherVars
  BY <1>6 DEF watcherVars, tableVars, Registry!tableVars
<1> QED
  BY <1>1, <1>2, <1>3, <1>4, <1>5, <1>6
  DEF WatcherNext, Registry!RegistryNext, tableVars, Registry!tableVars

\* Any number of runners keep the promises of LicenseRegistry, if the periods fit an int.
THEOREM RegistryKept == ASSUME PeriodsFit PROVE WatcherSpec => ImplementsRegistry
<1>1. WatcherInit => Registry!TableInit
  BY DEF WatcherInit, TableInit, Registry!TableInit, NoRow, NewRow, Registry!NoRow,
         Registry!NewRow
<1>2. ASSUME WatcherTypeOK, PeriodInv, SignedCovers, AheadInv, GrantInv,
             [WatcherNext]_watcherVars
      PROVE  [Registry!RegistryNext]_(Registry!tableVars)
  BY <1>2, RegistryStep
<1>3. CertInv => SignedCovers
  BY DEF CertInv
<1>4. WatcherSpec => []AheadInv
  BY AheadInvHolds
<1> QED
  BY <1>1, <1>2, <1>3, <1>4, WatcherType, PeriodInvHolds, CertInvHolds, GrantInvHolds, PTL
  DEF WatcherSpec, ImplementsRegistry, Registry!RegistrySpec

-----------------------------------------------------------------------------
(***************************************************************************)
(* One runner alone takes nothing away.  The UPDATE is blind, so this rests *)
(* on the row being no better than the runner remembers it, from the SELECT *)
(* to the last repetition of the statement.                                 *)
(***************************************************************************)

\* What a row can be: nothing better than what may be granted now.
RowsInv ==
    \A c \in Coin : /\ db[c].status = "none" => db[c] = NoRow
                    /\ db[c].validdate \in 0 .. IntHalf - 1
                    /\ db[c].validdate <= now + PeriodLimit
                    /\ db[c].version <= confkeys

\* What runner r remembers of the rows is at least as good as they are.
RunnerUpToDate(r) ==
    /\ stage[r] # "off" => \A c \in Coin : db[c].version <= keyver[r]
    /\ \A mn \in vecnode[r] : /\ db[mn.coin].validdate <= mn.licperiod
                              /\ mn.licperiod <= now + PeriodLimit
                              /\ mn.nodeperiod < IntHalf
    /\ \A mn, other \in vecnode[r] : mn.coin = other.coin => mn = other
    /\ pending[r] # None => /\ db[pending[r].coin].validdate <= pending[r].licperiod
                            /\ pending[r].licversion = keyver[r]
                            /\ pending[r].licperiod < IntHalf
                            /\ \A mn \in vecnode[r] : mn.coin # pending[r].coin

SoleInv == RowsInv /\ \A r \in Runner : RunnerUpToDate(r)

\* What the other invariants say, as the proofs below need it.
PassFacts == WatcherTypeOK /\ PeriodInv /\ AheadInv /\ GrantInv /\ SoleInv

\* The row after the statement of runner r is better, and no better than r remembers.
LEMMA StoreImproves ==
  ASSUME PeriodsFit, PassFacts, NEW r \in Runner, stage[r] = "execute", Store(pending[r]),
         UNCHANGED <<now, confkeys>>
  PROVE  /\ RowsInv'
         /\ \A c \in Coin : NoWorse(db[c], db'[c])
         /\ \A c \in Coin \ {pending[r].coin} : db'[c] = db[c]
         /\ db'[pending[r].coin].validdate = pending[r].licperiod
         /\ \A c \in Coin : db'[c].version <= keyver[r]
<1> DEFINE mn == pending[r]
<1>1. mn # None /\ mn \in Node /\ mn.coin \in Coin /\ mn.licperiod \in Int
  BY DEF PassFacts, WatcherTypeOK, RunnerTypeOK, StageAgrees, Node
<1>2. db \in [Coin -> Row] /\ keyver[r] \in Nat /\ confkeys \in Nat /\ now \in Nat
  BY BoundAssumption DEF PassFacts, WatcherTypeOK, TableTypeOK, RunnerTypeOK
<1>3. mn.licperiod > 0 /\ mn.licperiod < IntHalf /\ mn.licperiod <= now + PeriodLimit
  <2>1. asof[r] \in Nat /\ mn.licperiod > asof[r]
    BY <1>1 DEF PassFacts, WatcherTypeOK, RunnerTypeOK, AheadInv, RunnerAhead
  <2>2. mn.licperiod < IntHalf /\ mn.licperiod <= now + PeriodLimit
    BY <1>1 DEF PassFacts, SoleInv, RunnerUpToDate, GrantInv, RunnerGrants
  <2> QED
    BY <1>1, <2>1, <2>2
<1>4. mn.licversion = keyver[r] /\ keyver[r] <= confkeys /\ db[mn.coin].status # "none"
  BY <1>1 DEF PassFacts, SoleInv, RunnerUpToDate, GrantInv, RunnerGrants, PeriodInv,
              SignedPaid, PaidUpTo
<1>5. /\ db[mn.coin].validdate <= mn.licperiod
      /\ \A c \in Coin : db[c].version <= keyver[r]
  BY <1>1 DEF PassFacts, SoleInv, RunnerUpToDate
<1>6. \A c \in Coin \ {mn.coin} : db'[c] = db[c]
  BY <1>2 DEF Store
<1>7. /\ db'[mn.coin].validdate = mn.licperiod
      /\ db'[mn.coin].version = keyver[r]
      /\ db'[mn.coin].status = db[mn.coin].status
  BY <1>1, <1>2, <1>4 DEF Store, Row
<1>8. \A c \in Coin : db[c].version \in Int /\ db[c].validdate \in Int
  BY <1>2 DEF Row
<1>9. RowsInv'
  BY <1>1, <1>2, <1>3, <1>4, <1>6, <1>7, PeriodAssumption DEF RowsInv, PassFacts, SoleInv, NoRow, NewRow
<1> QED
  BY <1>1, <1>2, <1>4, <1>5, <1>6, <1>7, <1>8, <1>9 DEF NoWorse

\* The forum, the clock and the keys leave the rows; the operator and the forum's
\* Bind leave a row that nothing is worse than.
LEMMA OthersKeepRowsInv ==
  ASSUME WatcherTypeOK, WatcherTypeOK', RowsInv,
         ClearLicenses \/ TableEnv \/ UNCHANGED watcherVars
  PROVE  /\ RowsInv'
         /\ \A c \in Coin : \/ db'[c].validdate = 0 /\ db'[c].version = 1
                            \/ /\ db'[c].validdate = db[c].validdate
                               /\ db'[c].version = db[c].version
         /\ ClearLicenses \/ \A c \in Coin : NoWorse(db[c], db'[c])
<1>1. /\ db \in [Coin -> Row] /\ now \in Nat /\ now' \in Nat
      /\ confkeys \in Nat \ {0} /\ confkeys' \in Nat \ {0}
  BY BoundAssumption DEF WatcherTypeOK, TableTypeOK
<1>2. now' >= now /\ confkeys' >= confkeys
  BY ClockAndKeysGrow
<1>3. \A c \in Coin : db[c].validdate \in Int /\ db[c].version \in Int
  BY <1>1 DEF Row
<1>4. ASSUME \A c \in Coin : \/ db'[c] = NewRow /\ db[c].status = "none"
                             \/ /\ db'[c].validdate = db[c].validdate
                                /\ db'[c].version = db[c].version
                                /\ db'[c] = db[c] \/ db'[c].status # "none"
      PROVE  /\ RowsInv'
             /\ \A c \in Coin : \/ db'[c].validdate = 0 /\ db'[c].version = 1
                                \/ /\ db'[c].validdate = db[c].validdate
                                   /\ db'[c].version = db[c].version
             /\ \A c \in Coin : NoWorse(db[c], db'[c])
  <2>1. /\ NewRow.status = "binding" /\ NewRow.validdate = 0 /\ NewRow.version = 1
        /\ NoRow.validdate = 0 /\ NoRow.version = 1
    BY DEF NewRow, NoRow
  <2>2. ASSUME NEW c \in Coin
        PROVE  /\ db'[c].status = "none" => db'[c] = NoRow
               /\ db'[c].validdate \in 0 .. IntHalf - 1
               /\ db'[c].validdate <= now' + PeriodLimit
               /\ db'[c].version <= confkeys'
               /\ NoWorse(db[c], db'[c])
    BY <1>1, <1>2, <1>3, <1>4, <2>1, PeriodAssumption DEF RowsInv, NoWorse
  <2> QED
    BY <1>4, <2>1, <2>2 DEF RowsInv
<1>5. CASE ClearLicenses
  <2>1. \A c \in Coin : /\ db'[c].validdate = 0 /\ db'[c].version = 1
                        /\ db'[c].status = db[c].status
                        /\ db[c].status = "none"
                             => db'[c] = [NoRow EXCEPT !.node_period = db[c].node_period]
    BY <1>5 DEF ClearLicenses, Cleared, NewRow, NoRow
  <2>2. NoRow = [NoRow EXCEPT !.node_period = NoRow.node_period]
    BY DEF NoRow, NewRow
  <2>3. \A c \in Coin : db'[c].status = "none" => db'[c] = NoRow
    BY <2>1, <2>2 DEF RowsInv
  <2>4. 0 \in 0 .. IntHalf - 1 /\ 0 <= now' + PeriodLimit /\ 1 <= confkeys'
    <3>1. 0 \in 0 .. IntHalf - 1
      BY PeriodAssumption
    <3>2. 0 <= now' + PeriodLimit
      <4>1. now' \in Nat
        BY <1>1
      <4>2. \A n \in Nat : 0 <= n + PeriodLimit
        BY PeriodAssumption
      <4> QED
        BY <4>1, <4>2
    <3>3. 1 <= confkeys'
      BY <1>1
    <3> QED
      BY <3>1, <3>2, <3>3
  <2>5. RowsInv'
    BY <2>1, <2>3, <2>4 DEF RowsInv
  <2> QED
    BY <1>5, <2>1, <2>5
<1>6. CASE Tick \/ AddKey \/ UNCHANGED watcherVars
  <2>1. db' = db
    BY <1>6 DEF Tick, AddKey, watcherVars, tableVars
  <2> QED
    BY <1>4, <2>1
<1>7. ASSUME NEW d \in Coin, Bind(d)
      PROVE  \A c \in Coin : (db'[c] = NewRow /\ db[c].status = "none") \/ db'[c] = db[c]
  BY <1>1, <1>7 DEF Bind
<1>8. ASSUME NEW d \in Coin, Audit(d)
      PROVE  \A c \in Coin : /\ db'[c].validdate = db[c].validdate
                             /\ db'[c].version = db[c].version
                             /\ db'[c] = db[c] \/ db'[c].status # "none"
  <2>1. PICK s \in {"confirmed", "failed"}, p \in NodePeriods :
           db' = [db EXCEPT ![d] = [@ EXCEPT !.status = s, !.node_period = p]]
    BY <1>8 DEF Audit
  <2> QED
    BY <1>1, <2>1 DEF Row
<1> QED
  BY <1>4, <1>5, <1>6, <1>7, <1>8 DEF TableEnv

\* What the runner does in memory leaves it up to date: it is the only one.
LEMMA RunnerKeepsUpToDate ==
  ASSUME PeriodsFit, PassFacts, WatcherTypeOK', \A q, s \in Runner : q = s,
         NEW r \in Runner, RunnerStep(r) \/ Crash(r)
  PROVE  /\ SoleInv'
         /\ \A c \in Coin : NoWorse(db[c], db'[c])
<1>0. /\ now \in Nat /\ confkeys \in Nat /\ now' = now /\ confkeys' = confkeys
      /\ keyver \in [Runner -> Nat] /\ stage \in [Runner -> Stage]
      /\ vecnode \in [Runner -> SUBSET Node] /\ pending \in [Runner -> Node \cup {None}]
      /\ db \in [Coin -> Row]
  <2>1. now' = now /\ confkeys' = confkeys
    BY DEF RunnerStep, Start, Scan, Select, SelectFail, Skip, Sign, Execute, ExecuteLost,
           ExecuteRetry, ExecuteFail, PassDone, Wake, Crash, tableVars
  <2> QED
    BY <2>1, BoundAssumption DEF PassFacts, WatcherTypeOK, TableTypeOK, RunnerTypeOK
<1>1. /\ RowsInv /\ RunnerUpToDate(r) /\ RunnerAhead(r) /\ RunnerGrants(r)
      /\ stage[r] \notin {"update", "execute"} => vecnode[r] = {}
      /\ stage[r] = "execute" <=> pending[r] # None
  BY DEF PassFacts, SoleInv, AheadInv, RunnerAhead, GrantInv, WatcherTypeOK, StageAgrees
<1>2. \A c \in Coin : db[c].version \in Int /\ db[c].validdate \in Int
  BY <1>0 DEF Row
<1>3. ASSUME UNCHANGED db
      PROVE  RowsInv' /\ \A c \in Coin : NoWorse(db[c], db'[c])
  BY <1>0, <1>1, <1>2, <1>3 DEF RowsInv, NoWorse
<1>4. ASSUME RowsInv', \A c \in Coin : NoWorse(db[c], db'[c]), RunnerUpToDate(r)'
      PROVE  SoleInv' /\ \A c \in Coin : NoWorse(db[c], db'[c])
  BY <1>4 DEF SoleInv
<1>5. CASE Start(r)
  <2>1. UNCHANGED <<db, vecnode, pending>> /\ keyver'[r] = confkeys /\ stage[r] = "off"
    BY <1>0, <1>5 DEF Start, Moves
  <2> QED
    BY <1>0, <1>1, <1>3, <1>4, <2>1 DEF RunnerUpToDate, RowsInv
<1>6. CASE Scan(r) \/ SelectFail(r) \/ Wake(r)
  <2>1. UNCHANGED <<db, keyver, vecnode, pending>> /\ stage[r] # "off"
    BY <1>6 DEF Scan, SelectFail, Wake, Moves, tableVars
  <2> QED
    BY <1>0, <1>1, <1>3, <1>4, <2>1 DEF RunnerUpToDate
<1>7. CASE Select(r)
  <2>1. UNCHANGED <<db, keyver, pending>> /\ stage[r] # "off" /\ pending[r] = None
    BY <1>1, <1>7 DEF Select, Moves, tableVars
  <2>2. vecnode'[r] = {ReadRow(c) : c \in {d \in Coin : NeedsUpdate(d, asof[r])}}
    BY <1>0, <1>7 DEF Select
  <2>3. ASSUME NEW c \in Coin
        PROVE  /\ ReadRow(c).coin = c
               /\ ReadRow(c).licperiod = db[c].validdate
               /\ ReadRow(c).nodeperiod < IntHalf
    <3>1. db[c].validdate \in -1 .. IntHalf - 1
      BY <1>1, PeriodAssumption DEF RowsInv
    <3>2. db[c].node_period \in NodePeriods \cup {-1}
      BY DEF PassFacts, AheadInv
    <3>3. \A p \in NodePeriods \cup {-1} : p \in -1 .. IntHalf - 1 /\ p < IntHalf
      BY PeriodAssumption DEF PeriodsFit
    <3> QED
      BY <3>1, <3>2, <3>3, AtoiExact DEF ReadRow
  <2>4. \A mn \in vecnode'[r] : /\ mn.coin \in Coin /\ mn = ReadRow(mn.coin)
                                /\ mn.licperiod = db[mn.coin].validdate
                                /\ mn.nodeperiod < IntHalf
    BY <2>2, <2>3
  <2>5. \A mn \in vecnode'[r] : /\ db[mn.coin].validdate <= mn.licperiod
                                /\ mn.licperiod <= now + PeriodLimit
    BY <1>1, <1>2, <2>4 DEF RowsInv
  <2>6. \A mn, other \in vecnode'[r] : mn.coin = other.coin => mn = other
    BY <2>4
  <2> QED
    BY <1>0, <1>1, <1>3, <1>4, <2>1, <2>4, <2>5, <2>6 DEF RunnerUpToDate
<1>8. CASE \E mn \in vecnode[r] : Skip(r, mn)
  <2>1. UNCHANGED <<db, keyver, pending, stage>> /\ vecnode'[r] \subseteq vecnode[r]
    BY <1>0, <1>8 DEF Skip, tableVars
  <2> QED
    BY <1>0, <1>1, <1>3, <1>4, <2>1 DEF RunnerUpToDate
<1>9. ASSUME NEW mn \in vecnode[r], Sign(r, mn)
      PROVE  SoleInv' /\ \A c \in Coin : NoWorse(db[c], db'[c])
  <2>1. /\ UNCHANGED <<db, keyver>> /\ stage[r] # "off"
        /\ vecnode'[r] = vecnode[r] \ {mn} /\ pending'[r] = Signed(mn, keyver[r])
    BY <1>0, <1>9 DEF Sign, Moves, tableVars
  <2>2. mn \in Node /\ mn.coin \in Coin /\ mn.licperiod \in Int /\ mn.nodeperiod \in Int
    BY <1>0 DEF Node
  <2>3. /\ Signed(mn, keyver[r]).coin = mn.coin
        /\ Signed(mn, keyver[r]).licperiod = NewPeriod(mn)
        /\ Signed(mn, keyver[r]).licversion = keyver[r]
    BY <2>2 DEF Signed, Node
  <2>4. /\ db[mn.coin].validdate <= mn.licperiod /\ mn.licperiod <= now + PeriodLimit
        /\ mn.nodeperiod < IntHalf
    BY <1>1 DEF RunnerUpToDate
  <2>5. mn.licperiod < mn.nodeperiod
    BY <1>9 DEF Sign, Signable, Renewable
  <2>6. db[mn.coin].validdate <= NewPeriod(mn) /\ NewPeriod(mn) < IntHalf
    BY <1>0, <1>2, <2>2, <2>4, <2>5, PeriodAssumption DEF NewPeriod, Smaller
  <2>7. \A other \in vecnode'[r] : other \in vecnode[r] /\ other.coin # mn.coin
    BY <1>1, <2>1 DEF RunnerUpToDate
  <2>8. RunnerUpToDate(r)'
    BY <1>0, <1>1, <2>1, <2>3, <2>6, <2>7 DEF RunnerUpToDate
  <2> QED
    BY <1>3, <1>4, <2>1, <2>8
<1>10. ASSUME stage[r] = "execute", Store(pending[r]), UNCHANGED <<keyver, vecnode>>,
              stage'[r] # "off", pending'[r] \in {pending[r], None}
       PROVE  SoleInv' /\ \A c \in Coin : NoWorse(db[c], db'[c])
  <2>1. /\ RowsInv'
        /\ \A c \in Coin : NoWorse(db[c], db'[c])
        /\ \A c \in Coin \ {pending[r].coin} : db'[c] = db[c]
        /\ db'[pending[r].coin].validdate = pending[r].licperiod
        /\ \A c \in Coin : db'[c].version <= keyver[r]
    BY <1>0, <1>10, StoreImproves
  <2>2. pending[r] # None /\ pending[r].licperiod \in Int
    BY <1>0, <1>1, <1>10 DEF Node
  <2>3. \A mn \in vecnode[r] : mn.coin \in Coin \ {pending[r].coin}
    BY <1>0, <1>1, <2>2 DEF RunnerUpToDate, Node
  <2>4. RunnerUpToDate(r)'
    BY <1>0, <1>1, <1>10, <2>1, <2>2, <2>3 DEF RunnerUpToDate
  <2> QED
    BY <1>4, <2>1, <2>4
<1>11. CASE Execute(r) \/ ExecuteLost(r)
  BY <1>0, <1>10, <1>11 DEF Execute, ExecuteLost, Returns, Retries, Moves
<1>12. CASE ExecuteRetry(r) \/ ExecuteFail(r)
  <2>1. /\ UNCHANGED <<db, keyver, vecnode>> /\ stage[r] # "off"
        /\ pending'[r] \in {pending[r], None}
    BY <1>0, <1>12 DEF ExecuteRetry, ExecuteFail, Returns, Retries, Moves, tableVars
  <2> QED
    BY <1>0, <1>1, <1>3, <1>4, <2>1 DEF RunnerUpToDate
<1>13. CASE PassDone(r) \/ Crash(r)
  <2>1. /\ UNCHANGED db /\ vecnode'[r] = {} /\ pending'[r] = None
        /\ stage'[r] = "off" \/ (keyver'[r] = keyver[r] /\ stage[r] # "off")
    BY <1>0, <1>1, <1>13 DEF PassDone, Crash, Moves, tableVars
  <2> QED
    BY <1>0, <1>1, <1>3, <1>4, <2>1 DEF RunnerUpToDate
<1> QED
  BY <1>5, <1>6, <1>7, <1>8, <1>9, <1>11, <1>12, <1>13 DEF RunnerStep

\* A row set back to nothing is still no better than the runner remembers.
LEMMA OthersKeepUpToDate ==
  ASSUME PeriodsFit, PassFacts, WatcherTypeOK',
         ClearLicenses \/ (TableEnv /\ UNCHANGED runnerVars) \/ UNCHANGED watcherVars
  PROVE  /\ SoleInv'
         /\ ClearLicenses \/ \A c \in Coin : NoWorse(db[c], db'[c])
<1>0. /\ now \in Nat /\ now' \in Nat /\ keyver \in [Runner -> Nat]
      /\ vecnode \in [Runner -> SUBSET Node] /\ pending \in [Runner -> Node \cup {None}]
      /\ db \in [Coin -> Row]
  BY BoundAssumption DEF PassFacts, WatcherTypeOK, TableTypeOK, RunnerTypeOK
<1>1. /\ RowsInv'
      /\ \A c \in Coin : \/ db'[c].validdate = 0 /\ db'[c].version = 1
                         \/ db'[c].validdate = db[c].validdate /\ db'[c].version = db[c].version
      /\ ClearLicenses \/ \A c \in Coin : NoWorse(db[c], db'[c])
  BY OthersKeepRowsInv DEF PassFacts, SoleInv
<1>2. UNCHANGED <<stage, keyver, vecnode, pending>> /\ now' >= now
  BY ClockAndKeysGrow DEF ClearLicenses, watcherVars, runnerVars, PassFacts
<1>3. \A c \in Coin : db[c].validdate \in Nat
  BY PeriodAssumption DEF PassFacts, SoleInv, RowsInv
<1>4. ASSUME NEW r \in Runner
      PROVE  RunnerUpToDate(r)'
  <2>1. RunnerUpToDate(r) /\ (stage[r] # "off" => keyver[r] >= 1)
    BY <1>0 DEF PassFacts, SoleInv, WatcherTypeOK, StageAgrees
  <2>2. stage[r] # "off" => \A c \in Coin : db'[c].version <= keyver[r]
    BY <1>1, <2>1 DEF RunnerUpToDate
  <2>3. ASSUME NEW mn \in vecnode[r]
        PROVE  /\ db'[mn.coin].validdate <= mn.licperiod
               /\ mn.licperiod <= now' + PeriodLimit
    <3>1. mn.coin \in Coin /\ mn.licperiod \in Int
      BY <1>0 DEF Node
    <3>2. db[mn.coin].validdate <= mn.licperiod /\ mn.licperiod <= now + PeriodLimit
      BY <2>1 DEF RunnerUpToDate
    <3> QED
      BY <1>0, <1>1, <1>2, <1>3, <3>1, <3>2, PeriodAssumption
  <2>4. pending[r] # None => db'[pending[r].coin].validdate <= pending[r].licperiod
    <3> SUFFICES ASSUME pending[r] # None
                 PROVE  db'[pending[r].coin].validdate <= pending[r].licperiod
      OBVIOUS
    <3>1. pending[r].coin \in Coin /\ pending[r].licperiod \in Int
      BY <1>0 DEF Node
    <3>2. db[pending[r].coin].validdate <= pending[r].licperiod
      BY <2>1 DEF RunnerUpToDate
    <3> QED
      BY <1>1, <1>3, <3>1, <3>2
  <2> QED
    BY <1>2, <2>1, <2>2, <2>3, <2>4 DEF RunnerUpToDate
<1> QED
  BY <1>1, <1>4 DEF SoleInv

\* While one runner is at work, the rows are as it remembers them or worse.
LEMMA SoleInvHolds ==
  ASSUME PeriodsFit, \A q, s \in Runner : q = s
  PROVE  WatcherSpec => [](PassFacts /\ WatcherTypeOK)
<1> DEFINE Others == PeriodInv /\ AheadInv /\ GrantInv
<1>1. WatcherInit => SoleInv
  <2>1. /\ NoRow.validdate = 0 /\ NoRow.version = 1
        /\ 0 \in 0 .. IntHalf - 1 /\ 0 <= 0 + PeriodLimit
    BY PeriodAssumption DEF NoRow, NewRow
  <2> QED
    BY <2>1 DEF WatcherInit, TableInit, SoleInv, RowsInv, RunnerUpToDate
<1>2. ASSUME WatcherTypeOK, WatcherTypeOK', Others, SoleInv, [WatcherNext]_watcherVars
      PROVE  SoleInv'
  <2>1. PassFacts
    BY <1>2 DEF PassFacts
  <2>2. ASSUME NEW r \in Runner, RunnerStep(r) \/ Crash(r)
        PROVE  SoleInv'
    BY <1>2, <2>1, <2>2, RunnerKeepsUpToDate
  <2>3. CASE ClearLicenses \/ (TableEnv /\ UNCHANGED runnerVars) \/ UNCHANGED watcherVars
    BY <1>2, <2>1, <2>3, OthersKeepUpToDate
  <2> QED
    BY <1>2, <2>2, <2>3 DEF WatcherNext
<1>3. WatcherSpec => []AheadInv
  BY AheadInvHolds
<1>4. WatcherTypeOK /\ Others /\ SoleInv => PassFacts /\ WatcherTypeOK
  BY DEF PassFacts
<1>5. WatcherSpec => []Others
  BY <1>3, PeriodInvHolds, GrantInvHolds, PTL
<1> QED
  BY <1>1, <1>2, <1>4, <1>5, WatcherType, PTL DEF WatcherSpec

\* One runner, if the periods fit an int, makes no licence shorter and no key older,
\* unless the operator clears the table.
THEOREM OneRunnerImproves ==
  ASSUME PeriodsFit, \A q, s \in Runner : q = s
  PROVE  WatcherSpec => RenewalOnlyImproves
<1>1. ASSUME PassFacts, WatcherTypeOK', [WatcherNext]_watcherVars
      PROVE  [ClearLicenses \/ \A c \in Coin : NoWorse(db[c], db'[c])]_watcherVars
  <2>1. ASSUME NEW r \in Runner, RunnerStep(r) \/ Crash(r)
        PROVE  \A c \in Coin : NoWorse(db[c], db'[c])
    BY <1>1, <2>1, RunnerKeepsUpToDate
  <2>2. CASE ClearLicenses \/ (TableEnv /\ UNCHANGED runnerVars) \/ UNCHANGED watcherVars
    BY <1>1, <2>2, OthersKeepUpToDate
  <2> QED
    BY <1>1, <2>1, <2>2 DEF WatcherNext
<1>2. WatcherSpec => [](PassFacts /\ WatcherTypeOK)
  BY SoleInvHolds
<1> QED
  BY <1>1, <1>2, PTL DEF WatcherSpec, RenewalOnlyImproves
=============================================================================
