----------------------------- MODULE SystemProofs -----------------------------
(***************************************************************************)
(* ulordcenter, and ulordcenter beside licensetool: what SelectMNData tells  *)
(* a masternode, for every set of coins, threads, runners and keys.  The     *)
(* periods have to fit an int throughout: a reply with a period that was cut *)
(* to its low bits is not the row.                                           *)
(***************************************************************************)
EXTENDS LicenseSystem, LicenseWatcherProofs

centerStep == CenterNext \/ (RegistryNext /\ UNCHANGED centerVars)

\* A masternode can verify what any row says.
RowsAttested ==
    \A c \in Coin : db[c].node_period \in NodePeriods \cup {-1} /\ RowCovered(c)

\* Node mn may be in the cache for coin c, and in a reply about it.
MayServe(c, mn) == mn.coin = c /\ mn.status = "confirmed" /\ Attested(mn)

CacheServes == \A c \in Coin : cache[c] # None => MayServe(c, cache[c])

\* A thread that is busy has a question and no reply.
BusyThreads ==
    \A t \in IoThread : at[t] # "idle" => request[t] \in Coin /\ answer[t] = None

\* The inductive invariant of ulordcenter over the table.
CenterInv == RowsInv /\ RowsAttested /\ CacheServes /\ BusyThreads /\ AnswerAttested

-----------------------------------------------------------------------------
(* The table.                                                               *)

\* The type of a row with a licence.
LEMMA LicensedRow ==
  ASSUME TableTypeOK, NEW c \in Coin, NEW p \in Int, NEW v \in Int
  PROVE  /\ Licensed(c, p, v) \in Row
         /\ Licensed(c, p, v).status = db[c].status
         /\ Licensed(c, p, v).node_period = db[c].node_period
         /\ Licensed(c, p, v).validdate = p
         /\ Licensed(c, p, v).version = v
         /\ Licensed(c, p, v).certificate = [coin |-> c, period |-> p, version |-> v]
<1>1. db[c] \in Row
  BY DEF TableTypeOK
<1>2. [coin |-> c, period |-> p, version |-> v] \in Licence
  BY DEF Licence
<1> QED
  BY <1>1, <1>2 DEF Licensed, Row

\* What LicenseRegistry does keeps the table a table.
LEMMA RegistryKeepsType ==
  ASSUME TableTypeOK, RegistryNext
  PROVE  TableTypeOK'
<1>1. ASSUME NEW c \in Coin, Grant(c)
      PROVE  TableTypeOK'
  <2>1. PICK p \in 1 .. now + PeriodLimit, v \in 1 .. confkeys :
           db' = [db EXCEPT ![c] = Licensed(c, p, v)]
    BY <1>1 DEF Grant
  <2>2. p \in Int /\ v \in Int
    OBVIOUS
  <2>3. db' \in [Coin -> Row]
    BY <2>1, <2>2, LicensedRow DEF TableTypeOK
  <2> QED
    BY <1>1, <2>3 DEF Grant, TableTypeOK
<1>2. CASE ClearAll
  <2>1. \A c \in Coin : Cleared(db[c]) \in Row
    BY ClearedRow DEF TableTypeOK
  <2> QED
    BY <1>2, <2>1, BoundAssumption DEF ClearAll, Disturb, TableTypeOK
<1>3. CASE Elsewhere
  BY <1>3, BoundAssumption DEF Elsewhere, Disturb, TableTypeOK
<1>4. CASE Tick \/ AddKey
  BY <1>4, BoundAssumption DEF Tick, AddKey, Disturb, TableTypeOK
<1>5. ASSUME NEW c \in Coin, Bind(c)
      PROVE  TableTypeOK'
  <2>1. NewRow \in Row
    BY DEF NewRow, Row, Status
  <2> QED
    BY <1>5, <2>1, BoundAssumption DEF Bind, Disturb, TableTypeOK
<1>6. ASSUME NEW c \in Coin, Audit(c)
      PROVE  TableTypeOK'
  <2>1. PICK s \in {"confirmed", "failed"}, p \in NodePeriods :
           db' = [db EXCEPT ![c] = [@ EXCEPT !.status = s, !.node_period = p]]
    BY <1>6 DEF Audit
  <2>2. s \in Status /\ p \in Int /\ db[c] \in Row
    BY CoinAssumption DEF Status, TableTypeOK
  <2>3. [db[c] EXCEPT !.status = s, !.node_period = p] \in Row
    BY <2>2 DEF Row
  <2>4. db' \in [Coin -> Row]
    BY <2>1, <2>3 DEF TableTypeOK
  <2> QED
    BY <1>6, <2>4, BoundAssumption DEF Audit, Disturb, TableTypeOK
<1> QED
  BY <1>1, <1>2, <1>3, <1>4, <1>5, <1>6 DEF RegistryNext, TableEnv

\* Row row of coin c is one that can be there at time t, with keys 1 .. k listed.
RowGood(c, row, t, k) ==
    /\ row.status = "none" => row = NoRow
    /\ row.validdate \in 0 .. IntHalf - 1
    /\ row.validdate <= t + PeriodLimit
    /\ row.version <= k
    /\ row.node_period \in NodePeriods \cup {-1}
    /\ IF row.certificate = None
          THEN row.validdate = 0
          ELSE row.certificate = [coin    |-> c,
                                  period  |-> row.validdate,
                                  version |-> row.version]

LEMMA RowsAreGood ==
  RowsInv /\ RowsAttested <=> \A c \in Coin : RowGood(c, db[c], now, confkeys)
BY DEF RowsInv, RowsAttested, RowCovered, RowGood

\* It can still be there later.
LEMMA GoodLater ==
  ASSUME NEW c \in Coin, NEW row \in Row, NEW t \in Nat, NEW u \in Nat, t <= u,
         NEW k \in Nat, NEW l \in Nat, k <= l, RowGood(c, row, t, k)
  PROVE  RowGood(c, row, u, l)
<1>1. row.validdate \in Int /\ row.version \in Int
  BY DEF Row
<1>2. row.validdate <= u + PeriodLimit
  BY <1>1, PeriodAssumption DEF RowGood
<1>3. row.version <= l
  BY <1>1 DEF RowGood
<1> QED
  BY <1>2, <1>3 DEF RowGood

\* A row without a licence.
Unlicensed(s, n) == [status      |-> s,    validdate |-> 0,
                     certificate |-> None, version   |-> 1, node_period |-> n]

\* The rows without a licence that the model knows.
LEMMA UnlicensedRows ==
  /\ NewRow = Unlicensed("binding", -1)
  /\ NoRow = Unlicensed("none", -1)
  /\ \A row \in Row : Cleared(row) = Unlicensed(row.status, row.node_period)
<1>1. NewRow = Unlicensed("binding", -1)
  BY DEF NewRow, Unlicensed
<1>2. NoRow = Unlicensed("none", -1)
  BY DEF NewRow, NoRow, Unlicensed
<1>3. ASSUME NEW row \in Row
      PROVE  Cleared(row) = Unlicensed(row.status, row.node_period)
  <2>1. [NewRow EXCEPT !.status = row.status] = Unlicensed(row.status, -1)
    BY DEF NewRow, Unlicensed
  <2>2. [Unlicensed(row.status, -1) EXCEPT !.node_period = row.node_period]
          = Unlicensed(row.status, row.node_period)
    BY DEF Unlicensed
  <2> QED
    BY <2>1, <2>2 DEF Cleared
<1> QED
  BY <1>1, <1>2, <1>3

\* A row without a licence can be there at any time.
LEMMA GoodUnlicensed ==
  ASSUME NEW c \in Coin, NEW s \in Status, NEW n \in NodePeriods \cup {-1},
         s = "none" => n = -1, NEW t \in Nat, NEW k \in Nat, k # 0
  PROVE  RowGood(c, Unlicensed(s, n), t, k)
<1>1. 0 \in 0 .. IntHalf - 1
  BY PeriodAssumption
<1>2. 0 <= t + PeriodLimit
  BY PeriodAssumption
<1>3. 1 <= k
  OBVIOUS
<1>4. s = "none" => Unlicensed(s, n) = NoRow
  BY UnlicensedRows
<1> QED
  BY <1>1, <1>2, <1>3, <1>4 DEF RowGood, Unlicensed

\* A grant leaves a row that can be there.
LEMMA GoodLicensed ==
  ASSUME PeriodsFit, TableTypeOK, NEW c \in Coin, RowGood(c, db[c], now, confkeys),
         db[c].status # "none", NEW p \in 1 .. now + PeriodLimit, NEW v \in 1 .. confkeys,
         p <= db[c].node_period
  PROVE  RowGood(c, Licensed(c, p, v), now, confkeys)
<1>1. p \in Int /\ 1 <= p /\ v \in Int /\ v <= confkeys
  OBVIOUS
<1>2. p <= now + PeriodLimit
  BY BoundAssumption, PeriodAssumption DEF TableTypeOK
<1>3. db[c].node_period \in NodePeriods \cup {-1}
  BY DEF RowGood
<1>4. \A n \in NodePeriods \cup {-1} : n \in Int /\ n <= IntHalf - 1
  BY PeriodAssumption DEF PeriodsFit
<1>5. p \in 0 .. IntHalf - 1
  BY <1>1, <1>3, <1>4, PeriodAssumption
<1>6. [coin |-> c, period |-> p, version |-> v] # None
  <2>1. [coin |-> c, period |-> p, version |-> v] \in Licence
    BY <1>1 DEF Licence
  <2> QED
    BY <2>1, NoneAssumption
<1> DEFINE row == Licensed(c, p, v)
<1>7. /\ row.status = db[c].status
      /\ row.node_period = db[c].node_period
      /\ row.validdate = p
      /\ row.version = v
      /\ row.certificate = [coin |-> c, period |-> p, version |-> v]
  BY <1>1, LicensedRow
<1> HIDE DEF row
<1>8. RowGood(c, row, now, confkeys)
  BY <1>1, <1>2, <1>3, <1>5, <1>6, <1>7 DEF RowGood
<1> QED
  BY <1>8 DEF row

\* What LicenseRegistry does keeps every row attested.
LEMMA RegistryKeepsRows ==
  ASSUME PeriodsFit, TableTypeOK, TableTypeOK', RowsInv, RowsAttested, RegistryNext
  PROVE  RowsInv' /\ RowsAttested'
<1>0. db \in [Coin -> Row]
  BY DEF TableTypeOK
<1>1. now \in Nat /\ now' \in Nat /\ confkeys \in Nat /\ confkeys' \in Nat /\ confkeys' # 0
  BY BoundAssumption DEF TableTypeOK
<1>2. \A c \in Coin : RowGood(c, db[c], now, confkeys)
  BY RowsAreGood
<1>3. now <= now' /\ confkeys <= confkeys'
  <2>1. now' \in {now, now + 1} /\ confkeys' \in {confkeys, confkeys + 1}
    BY DEF RegistryNext, Grant, ClearAll, Elsewhere, TableEnv, Tick, AddKey, Bind, Audit
  <2> QED
    BY <1>1, <2>1
<1>4. ASSUME NEW c \in Coin, db'[c] = db[c]
      PROVE  RowGood(c, db'[c], now', confkeys')
  BY <1>0, <1>1, <1>2, <1>3, <1>4, GoodLater
<1>5. ASSUME NEW d \in Coin, Grant(d), NEW c \in Coin
      PROVE  RowGood(c, db'[c], now', confkeys')
  <2>1. PICK p \in 1 .. now + PeriodLimit, v \in 1 .. confkeys :
           /\ p <= db[d].node_period
           /\ db' = [db EXCEPT ![d] = Licensed(d, p, v)]
    BY <1>5 DEF Grant
  <2>2. db[d].status # "none" /\ now' = now /\ confkeys' = confkeys
    BY <1>5 DEF Grant
  <2>3. CASE c = d
    BY <1>0, <1>2, <2>1, <2>2, <2>3, GoodLicensed
  <2> QED
    BY <1>0, <1>4, <2>1, <2>3
<1>6. ASSUME ClearAll, NEW c \in Coin
      PROVE  RowGood(c, db'[c], now', confkeys')
  <2>1. db'[c] = Unlicensed(db[c].status, db[c].node_period)
    BY <1>0, <1>6, UnlicensedRows DEF ClearAll
  <2>2. db[c].status = "none" => db[c].node_period = -1
    BY <1>2 DEF RowGood, NoRow, NewRow
  <2>3. db[c].status \in Status /\ db[c].node_period \in NodePeriods \cup {-1}
    BY <1>0, <1>2 DEF Row, RowGood
  <2> QED
    BY <1>1, <2>1, <2>2, <2>3, GoodUnlicensed
<1>7. ASSUME NEW d \in Coin, Bind(d), NEW c \in Coin
      PROVE  RowGood(c, db'[c], now', confkeys')
  <2>1. db' = [db EXCEPT ![d] = NewRow]
    BY <1>7 DEF Bind
  <2>2. RowGood(d, NewRow, now', confkeys')
    BY <1>1, UnlicensedRows, GoodUnlicensed DEF Status
  <2> QED
    BY <1>0, <1>4, <2>1, <2>2
<1>8. ASSUME NEW d \in Coin, Audit(d), NEW c \in Coin
      PROVE  RowGood(c, db'[c], now', confkeys')
  <2>1. PICK s \in {"confirmed", "failed"}, p \in NodePeriods :
           db' = [db EXCEPT ![d] = [@ EXCEPT !.status = s, !.node_period = p]]
    BY <1>8 DEF Audit
  <2>2. CASE c = d
    <3>1. /\ db'[c].status = s
          /\ db'[c].node_period = p
          /\ db'[c].validdate = db[c].validdate
          /\ db'[c].version = db[c].version
          /\ db'[c].certificate = db[c].certificate
          /\ now' = now /\ confkeys' = confkeys
      BY <1>0, <1>8, <2>1, <2>2 DEF Row, Audit
    <3> QED
      BY <1>2, <3>1 DEF RowGood
  <2> QED
    BY <1>0, <1>4, <2>1, <2>2
<1>9. \A c \in Coin : RowGood(c, db'[c], now', confkeys')
  BY <1>4, <1>5, <1>6, <1>7, <1>8 DEF RegistryNext, TableEnv, Elsewhere, Tick, AddKey
<1> QED
  BY <1>9 DEF RowsInv, RowsAttested, RowCovered, RowGood

-----------------------------------------------------------------------------
(* The server.                                                              *)

\* What SelectMNode reads of a confirmed row may be served.
LEMMA ReadServes ==
  ASSUME PeriodsFit, TableTypeOK, RowsInv, RowsAttested, NEW c \in Coin, Confirmed(c)
  PROVE  /\ ReadRow(c) \in Node
         /\ MayServe(c, ReadRow(c))
         /\ ReadRow(c).licperiod = db[c].validdate
<1>1. ReadRow(c) \in Node
  BY ReadRowType
<1>2. Atoi(db[c].validdate) = db[c].validdate
  <2>1. db[c].validdate \in 0 .. IntHalf - 1
    BY DEF RowsInv
  <2>2. db[c].validdate \in -1 .. IntHalf - 1
    BY <2>1, PeriodAssumption
  <2> QED
    BY <2>2, AtoiExact
<1>3. RowCovered(c)
  BY DEF RowsAttested
<1> QED
  BY <1>1, <1>2, <1>3 DEF ReadRow, MayServe, Attested, Covers, Confirmed, RowCovered

\* The cache serves after it was loaded, and after rows were merged into it.
LEMMA FillServes ==
  ASSUME PeriodsFit, CenterTypeOK, CenterInv
  PROVE  /\ Loaded \in [Coin -> Node \cup {None}]
         /\ \A c \in Coin : Loaded[c] # None => MayServe(c, Loaded[c])
         /\ \A rows \in SUBSET {c \in Coin : Confirmed(c)} :
               /\ Merged(rows) \in [Coin -> Node \cup {None}]
               /\ \A c \in Coin : Merged(rows)[c] # None => MayServe(c, Merged(rows)[c])
<1>1. \A c \in Coin : Confirmed(c) => ReadRow(c) \in Node /\ MayServe(c, ReadRow(c))
  BY ReadServes DEF CenterTypeOK, CenterInv
<1>2. /\ cache \in [Coin -> Node \cup {None}]
      /\ \A c \in Coin : cache[c] # None => MayServe(c, cache[c])
  BY DEF CenterTypeOK, CenterInv, CacheServes
<1> HIDE DEF MayServe
<1> QED
  BY <1>1, <1>2 DEF Loaded, Merged

\* A reply made of a cache that serves is a good one.
LEMMA SendsServes ==
  ASSUME CenterTypeOK, CenterInv, NEW t \in IoThread, at[t] # "idle",
         NEW m \in [Coin -> Node \cup {None}],
         \A c \in Coin : m[c] # None => MayServe(c, m[c]),
         NEW how \in {"cache", "table", "outage"}, Sends(t, m, how)
  PROVE  /\ at' = [at EXCEPT ![t] = "idle"]
         /\ request' \in [IoThread -> Coin \cup {None}]
         /\ since' \in [IoThread -> 0 .. MaxTime]
         /\ answer' \in [IoThread -> Reply \cup {None}]
         /\ BusyThreads' /\ AnswerAttested'
<1>1. request[t] \in Coin
  BY DEF CenterInv, BusyThreads
<1> DEFINE reply == [coin |-> request[t], mn |-> m[request[t]], from |-> how]
<1>2. reply \in Reply
  BY <1>1 DEF Reply
<1>3. /\ answer' = [answer EXCEPT ![t] = reply]
      /\ request' = [request EXCEPT ![t] = None]
      /\ since' = [since EXCEPT ![t] = 0]
      /\ at' = [at EXCEPT ![t] = "idle"]
  BY DEF Sends
<1>4. reply.mn # None => MayServe(reply.coin, reply.mn)
  BY <1>1
<1> HIDE DEF reply
<1>5. /\ request' \in [IoThread -> Coin \cup {None}]
      /\ since' \in [IoThread -> 0 .. MaxTime]
      /\ answer' \in [IoThread -> Reply \cup {None}]
  BY <1>2, <1>3, BoundAssumption DEF CenterTypeOK
<1>6. BusyThreads'
  BY <1>3 DEF BusyThreads, CenterInv, CenterTypeOK
<1>7. AnswerAttested'
  <2> SUFFICES ASSUME NEW q \in IoThread, answer'[q] # None, answer'[q].mn # None
               PROVE  /\ answer'[q].mn.coin = answer'[q].coin
                      /\ answer'[q].mn.status = "confirmed"
                      /\ Attested(answer'[q].mn)
    BY DEF AnswerAttested, Attested, Covers
  <2>1. CASE q = t
    BY <1>3, <1>4, <2>1 DEF CenterTypeOK, MayServe
  <2>2. CASE q # t
    BY <1>3, <2>2 DEF CenterTypeOK, CenterInv, AnswerAttested
  <2> QED
    BY <2>1, <2>2
<1> QED
  BY <1>3, <1>5, <1>6, <1>7

\* What the server does keeps all of it.
LEMMA ServerKeepsInv ==
  ASSUME PeriodsFit, CenterTypeOK, CenterInv, CenterNext
  PROVE  CenterTypeOK' /\ CenterInv'
<1> USE DEF CenterTypeOK
<1>0. TableTypeOK /\ now \in 0 .. MaxTime /\ confkeys \in 0 .. MaxKey
  BY BoundAssumption DEF TableTypeOK
<1>1. ASSUME UNCHANGED tableVars
      PROVE  TableTypeOK' /\ RowsInv' /\ RowsAttested'
  BY <1>1 DEF TableTypeOK, tableVars, CenterInv, RowsInv, RowsAttested, RowCovered
<1>2. CASE Boot
  <2>1. cache' \in [Coin -> Node \cup {None}]
    BY <1>2, FillServes DEF Boot
  <2>2. CacheServes'
    BY <1>2, FillServes DEF Boot, CacheServes, CenterInv, MayServe, Attested, Covers
  <2>3. UNCHANGED <<tableVars, at, request, since, owner, answer>> /\ ckeys' = confkeys
    BY <1>2 DEF Boot
  <2> QED
    BY <1>0, <1>1, <2>1, <2>2, <2>3
    DEF CenterInv, BusyThreads, AnswerAttested, Attested, Covers
<1>3. CASE Halt
  <2>1. TableTypeOK'
    BY <1>0, <1>3, BoundAssumption DEF Halt, Disturb, TableTypeOK
  <2>2. RowsInv' /\ RowsAttested'
    BY <1>3 DEF Halt, CenterInv, RowsInv, RowsAttested, RowCovered
  <2> QED
    BY <1>3, <2>1, <2>2, BoundAssumption, ThreadAssumption
    DEF Halt, CenterInv, CacheServes, BusyThreads, AnswerAttested
<1>4. ASSUME NEW t \in IoThread, NEW c \in Coin, Ask(t, c)
      PROVE  CenterTypeOK' /\ CenterInv'
  <2>1. AnswerAttested'
    BY <1>4 DEF Ask, CenterInv, AnswerAttested, Attested, Covers
  <2>2. BusyThreads'
    BY <1>4 DEF Ask, CenterInv, BusyThreads
  <2>3. CacheServes'
    BY <1>4 DEF Ask, CenterInv, CacheServes, MayServe, Attested, Covers
  <2>4. CenterTypeOK'
    BY <1>0, <1>1, <1>4 DEF Ask
  <2> QED
    BY <1>1, <1>4, <2>1, <2>2, <2>3, <2>4 DEF Ask, CenterInv
<1>5. ASSUME NEW t \in IoThread, Miss(t)
      PROVE  CenterTypeOK' /\ CenterInv'
  <2>1. BusyThreads'
    BY <1>5 DEF Miss, CenterInv, BusyThreads
  <2>2. CacheServes' /\ AnswerAttested'
    BY <1>5 DEF Miss, CenterInv, CacheServes, MayServe, AnswerAttested, Attested, Covers
  <2>3. CenterTypeOK'
    BY <1>0, <1>1, <1>5, ThreadAssumption DEF Miss
  <2> QED
    BY <1>1, <1>5, <2>1, <2>2, <2>3 DEF Miss, CenterInv
<1>6. ASSUME NEW t \in IoThread, at[t] # "idle",
             NEW m \in [Coin -> Node \cup {None}],
             \A c \in Coin : m[c] # None => MayServe(c, m[c]),
             NEW how \in {"cache", "table", "outage"}, Sends(t, m, how),
             cache' \in {cache, m}, UNCHANGED <<tableVars, ckeys>>,
             IF at[t] = "query" THEN owner' = None ELSE UNCHANGED owner
      PROVE  CenterTypeOK' /\ CenterInv'
  <2>1. /\ at' = [at EXCEPT ![t] = "idle"]
        /\ request' \in [IoThread -> Coin \cup {None}]
        /\ since' \in [IoThread -> 0 .. MaxTime]
        /\ answer' \in [IoThread -> Reply \cup {None}]
        /\ BusyThreads' /\ AnswerAttested'
    BY <1>6, SendsServes
  <2>2. CacheServes'
    BY <1>6 DEF CenterInv, CacheServes, MayServe, Attested, Covers
  <2>3. owner' \in IoThread \cup {None} /\ \A q \in IoThread : at'[q] = "query" <=> owner' = q
    BY <1>6, <2>1, ThreadAssumption
  <2> QED
    BY <1>1, <1>6, <2>1, <2>2, <2>3 DEF CenterInv
<1>7. ASSUME NEW t \in IoThread, Hit(t)
      PROVE  CenterTypeOK' /\ CenterInv'
  BY <1>6, <1>7 DEF Hit, CenterInv, CacheServes
<1>8. ASSUME NEW t \in IoThread, Refresh(t)
      PROVE  CenterTypeOK' /\ CenterInv'
  <2>1. {d \in Coin : Wanted(request[t], d, since[t])} \in SUBSET {c \in Coin : Confirmed(c)}
    BY DEF Wanted
  <2>2. /\ cache' \in [Coin -> Node \cup {None}]
        /\ \A c \in Coin : cache'[c] # None => MayServe(c, cache'[c])
    BY <1>8, <2>1, FillServes DEF Refresh
  <2> QED
    BY <1>6, <1>8, <2>2 DEF Refresh
<1>9. ASSUME NEW t \in IoThread, RefreshFail(t)
      PROVE  CenterTypeOK' /\ CenterInv'
  BY <1>6, <1>9 DEF RefreshFail, CenterInv, CacheServes
<1> QED
  BY <1>2, <1>3, <1>4, <1>5, <1>7, <1>8, <1>9 DEF CenterNext, ThreadStep

\* Every step of ulordcenter and of the table keeps all of it.
LEMMA CenterStep ==
  ASSUME PeriodsFit, CenterTypeOK, CenterInv, [centerStep]_allCenterVars
  PROVE  CenterTypeOK' /\ CenterInv'
<1>1. CASE CenterNext
  BY <1>1, ServerKeepsInv
<1>2. ASSUME UNCHANGED centerVars, TableTypeOK', RowsInv', RowsAttested'
      PROVE  CenterTypeOK' /\ CenterInv'
  BY <1>2 DEF CenterTypeOK, CenterInv, CacheServes, MayServe, BusyThreads, AnswerAttested,
              Attested, Covers, centerVars
<1>3. CASE RegistryNext /\ UNCHANGED centerVars
  <2>1. TableTypeOK'
    BY <1>3, RegistryKeepsType DEF CenterTypeOK
  <2>2. RowsInv' /\ RowsAttested'
    BY <1>3, <2>1, RegistryKeepsRows DEF CenterTypeOK, CenterInv
  <2> QED
    BY <1>2, <1>3, <2>1, <2>2
<1>4. CASE UNCHANGED allCenterVars
  <2>1. UNCHANGED centerVars /\ UNCHANGED <<db, now, confkeys, events>>
    BY <1>4 DEF allCenterVars, tableVars, centerVars
  <2>2. TableTypeOK' /\ RowsInv' /\ RowsAttested'
    BY <2>1 DEF CenterTypeOK, CenterInv, TableTypeOK, RowsInv, RowsAttested, RowCovered
  <2> QED
    BY <1>2, <2>1, <2>2
<1> QED
  BY <1>1, <1>3, <1>4 DEF centerStep

\* ulordcenter starts well.
LEMMA CenterStart ==
  ASSUME ServerInit
  PROVE  CenterTypeOK /\ CenterInv
<1> USE DEF ServerInit, TableInit, CenterInit
<1>1. TableTypeOK
  <2>1. NoRow \in Row
    BY DEF NoRow, NewRow, Row, Status
  <2> QED
    BY <2>1, BoundAssumption DEF TableTypeOK
<1>2. CenterTypeOK
  BY <1>1, BoundAssumption, ThreadAssumption DEF CenterTypeOK
<1>3. CacheServes /\ BusyThreads /\ AnswerAttested
  BY DEF CacheServes, BusyThreads, AnswerAttested
<1>4. \A c \in Coin : RowGood(c, db[c], now, confkeys)
  BY UnlicensedRows, GoodUnlicensed DEF Status
<1> QED
  BY <1>2, <1>3, <1>4, RowsAreGood DEF CenterInv

LEMMA CenterInvHolds == ASSUME PeriodsFit PROVE CenterSpec => [](CenterTypeOK /\ CenterInv)
<1>1. ServerInit => CenterTypeOK /\ CenterInv
  BY CenterStart
<1>2. ASSUME CenterTypeOK /\ CenterInv, [centerStep]_allCenterVars
      PROVE  (CenterTypeOK /\ CenterInv)'
  BY <1>2, CenterStep
<1> QED
  BY <1>1, <1>2, PTL DEF CenterSpec, centerStep

\* The lock, the cache and the replies: whatever the table does within LicenseRegistry
\* while the threads of the server ask, wait and fail, a masternode can verify every
\* licence it is told, if the periods fit an int.
THEOREM CenterIsSafe == ASSUME PeriodsFit PROVE CenterSpec => []CenterSafe
<1>1. CenterTypeOK /\ CenterInv => CenterSafe
  BY DEF CenterInv, CenterSafe
<1>2. CenterSpec => [](CenterTypeOK /\ CenterInv)
  BY CenterInvHolds
<1> QED
  BY <1>1, <1>2, PTL

-----------------------------------------------------------------------------
(* What a statement brings.                                                 *)

\* Only the thread whose statement is out gets a reply from the table.
LEMMA OnlyRefreshAnswers ==
  ASSUME CenterTypeOK, CenterInv, [centerStep]_allCenterVars,
         NEW t \in IoThread, AnswersFromTable(t)
  PROVE  Refresh(t)
<1>0. /\ at[t] = "query" /\ owner = t /\ answer[t] = None
      /\ answer'[t] # None /\ answer'[t].from = "table"
  BY DEF AnswersFromTable, CenterTypeOK, CenterInv, BusyThreads
<1>1. CASE Boot \/ UNCHANGED centerVars \/ UNCHANGED allCenterVars
  BY <1>0, <1>1 DEF Boot, centerVars, allCenterVars
<1>2. CASE Halt
  BY <1>0, <1>2 DEF Halt
<1>3. ASSUME NEW q \in IoThread, NEW c \in Coin, Ask(q, c)
      PROVE  FALSE
  BY <1>0, <1>3 DEF Ask, CenterTypeOK
<1>4. ASSUME NEW q \in IoThread, Hit(q) \/ Miss(q)
      PROVE  FALSE
  BY <1>0, <1>4, ThreadAssumption DEF Hit, Miss
<1>5. ASSUME NEW q \in IoThread, RefreshFail(q)
      PROVE  FALSE
  BY <1>0, <1>5 DEF RefreshFail, Sends, CenterTypeOK
<1>6. ASSUME NEW q \in IoThread, Refresh(q)
      PROVE  q = t
  BY <1>0, <1>6 DEF Refresh
<1> QED
  BY <1>1, <1>2, <1>3, <1>4, <1>5, <1>6 DEF centerStep, CenterNext, ThreadStep

\* The cache takes in a row only while it is confirmed.
LEMMA CacheTakesConfirmed ==
  ASSUME CenterTypeOK, CenterInv, [centerStep]_allCenterVars, NEW c \in Coin,
         cache'[c] \notin {cache[c], None}
  PROVE  Confirmed(c)
<1>1. CASE Boot
  BY <1>1 DEF Boot, Loaded
<1>2. ASSUME NEW t \in IoThread, Refresh(t)
      PROVE  Confirmed(c)
  BY <1>2 DEF Refresh, Merged, Wanted
<1> QED
  BY <1>1, <1>2 DEF centerStep, CenterNext, ThreadStep, Halt, Ask, Hit, Miss, RefreshFail,
                    centerVars, allCenterVars

\* A refresh that the database answers brings the table as it is: all that is new of
\* confirmed nodes, and nothing of others.
THEOREM CenterHeedsTable == ASSUME PeriodsFit PROVE CenterSpec => TableHeeded
<1>1. ASSUME CenterTypeOK /\ CenterInv, [centerStep]_allCenterVars,
             NEW t \in IoThread, AnswersFromTable(t), Confirmed(request[t]),
             cache[request[t]] = None \/ db[request[t]].validdate > since[t] + NeedUpdate
      PROVE  answer'[t].mn = ReadRow(request[t])
  <2>1. Refresh(t)
    BY <1>1, OnlyRefreshAnswers
  <2> DEFINE c == request[t]
             rows == {d \in Coin : Wanted(c, d, since[t])}
  <2>2. c \in Coin
    BY <1>1 DEF CenterInv, BusyThreads, AnswersFromTable
  <2>3. \E u \in Transactions : c \in u
    BY <2>2, CoinAssumption
  <2>4. c \in rows
    BY <1>1, <2>2, <2>3 DEF Wanted, SameTx
  <2>5. cache'[c] = ReadRow(c)
    BY <2>1, <2>2, <2>4 DEF Refresh, Merged
  <2> QED
    BY <1>1, <2>1, <2>5 DEF Refresh, Sends, CenterTypeOK
<1>2. ASSUME CenterTypeOK /\ CenterInv, [centerStep]_allCenterVars
      PROVE  /\ [\A t \in IoThread :
                    LET c == request[t] IN
                    AnswersFromTable(t) /\ Confirmed(c)
                       /\ (cache[c] = None \/ db[c].validdate > since[t] + NeedUpdate)
                    => answer'[t].mn = ReadRow(c)]_allCenterVars
             /\ [\A c \in Coin : cache'[c] \notin {cache[c], None}
                                   => Confirmed(c)]_allCenterVars
  BY <1>1, <1>2, CacheTakesConfirmed
<1>3. CenterSpec => [](CenterTypeOK /\ CenterInv)
  BY CenterInvHolds
<1> QED
  BY <1>2, <1>3, PTL
  DEF CenterSpec, centerStep, TableHeeded, RefreshHeedsTable, WithdrawnNotRefreshed

-----------------------------------------------------------------------------
(***************************************************************************)
(* The two programs.  licensetool's invariants hold beside ulordcenter, for *)
(* it never writes the table; with them every step of licensetool is one of *)
(* the table that UCenter expects.                                          *)
(***************************************************************************)

RunnersInv == WatcherTypeOK /\ CertInv /\ PeriodInv /\ AheadInv /\ GrantInv

\* The table that licensetool is shown to keep is the one ulordcenter expects.
LEMMA SameRegistry ==
  ASSUME [Registry!RegistryNext]_(Registry!tableVars)
  PROVE  [RegistryNext]_tableVars
BY DEF Registry!RegistryNext, RegistryNext, Registry!tableVars, tableVars, Registry!TableEnv,
       TableEnv, Registry!Tick, Tick, Registry!AddKey, AddKey, Registry!Bind, Bind,
       Registry!Audit, Audit, Registry!NewRow, NewRow, Registry!Disturb, Disturb,
       Registry!ClearAll, ClearAll, Registry!Cleared, Cleared, Registry!Elsewhere, Elsewhere,
       Registry!Grant, Grant, Registry!Licensed, Licensed

\* Every step of the system is one of licensetool or one of ulordcenter.
LEMMA StepsOfSystem ==
  ASSUME [SystemNext]_systemVars
  PROVE  \/ CenterNext /\ UNCHANGED runnerVars
         \/ [WatcherNext]_watcherVars /\ UNCHANGED centerVars
BY DEF SystemNext, systemVars, progVars, watcherVars, CenterMoves, OperatorMoves, TableMoves,
       RunnerMoves, WatcherNext

\* ulordcenter leaves the table as it is.
LEMMA CenterReads ==
  ASSUME CenterNext
  PROVE  UNCHANGED <<db, now, confkeys>> /\ (Disturb \/ UNCHANGED events)
BY DEF CenterNext, Boot, Halt, ThreadStep, Ask, Hit, Miss, Refresh, RefreshFail, tableVars

LEMMA RunnersStep ==
  ASSUME PeriodsFit, RunnersInv, [SystemNext]_systemVars
  PROVE  RunnersInv'
<1>1. CASE [WatcherNext]_watcherVars
  BY <1>1, TypeStep, CertStep, PeriodStep, AheadStep, GrantStep DEF RunnersInv
<1>2. CASE CenterNext /\ UNCHANGED runnerVars
  <2>1. UNCHANGED <<db, now, confkeys>> /\ (Disturb \/ UNCHANGED events)
    BY <1>2, CenterReads
  <2>2. UNCHANGED <<stage, keyver, asof, vecnode, pending, tries, wakeAt>>
    BY <1>2 DEF runnerVars
  <2>3. WatcherTypeOK'
    BY <2>1, <2>2, BoundAssumption
    DEF RunnersInv, WatcherTypeOK, TableTypeOK, RunnerTypeOK, StageAgrees, Disturb
  <2>4. CertInv'
    BY <2>1, <2>2 DEF RunnersInv, CertInv, CertificateCoversRow, RowCovered,
                      CertificateVerifies, SignedCovers, Covers
  <2>5. PeriodInv' /\ AheadInv' /\ GrantInv'
    BY <2>1, <2>2 DEF RunnersInv, PeriodInv, WithinNodePeriod, ReadsPaid, SignedPaid, PaidUpTo,
                      AheadInv, RunnerAhead, GrantInv, RunnerGrants
  <2> QED
    BY <2>3, <2>4, <2>5 DEF RunnersInv
<1> QED
  BY <1>1, <1>2, StepsOfSystem

LEMMA RunnersInvHolds == ASSUME PeriodsFit PROVE SystemSpec => []RunnersInv
<1>1. SystemInit => RunnersInv
  <2> SUFFICES ASSUME SystemInit PROVE RunnersInv
    OBVIOUS
  <2>1. WatcherInit
    BY DEF SystemInit
  <2>2. WatcherTypeOK
    BY <2>1, InitType
  <2>3. CertInv
    BY <2>1 DEF WatcherInit, TableInit, CertInv, CertificateCoversRow, CertificateVerifies,
                SignedCovers, RowCovered, NoRow, NewRow
  <2>4. PeriodInv
    BY <2>1 DEF WatcherInit, TableInit, PeriodInv, WithinNodePeriod, ReadsPaid, SignedPaid,
                NoRow, NewRow
  <2>5. AheadInv /\ GrantInv
    BY <2>1, BoundAssumption DEF WatcherInit, TableInit, AheadInv, RunnerAhead, GrantInv,
                                 RunnerGrants, NoRow, NewRow
  <2> QED
    BY <2>2, <2>3, <2>4, <2>5 DEF RunnersInv
<1>2. ASSUME RunnersInv, [SystemNext]_systemVars
      PROVE  RunnersInv'
  BY <1>2, RunnersStep
<1> QED
  BY <1>1, <1>2, PTL DEF SystemSpec

\* Every step of the system is one of ulordcenter over the table.
LEMMA SystemIsCenterStep ==
  ASSUME RunnersInv, [SystemNext]_systemVars
  PROVE  [centerStep]_allCenterVars
<1>1. CASE CenterNext
  BY <1>1 DEF centerStep
<1>2. CASE [WatcherNext]_watcherVars /\ UNCHANGED centerVars
  <2>1. [RegistryNext]_tableVars
    BY <1>2, RegistryStep, SameRegistry DEF RunnersInv, CertInv
  <2> QED
    BY <1>2, <2>1 DEF centerStep, allCenterVars
<1> QED
  BY <1>1, <1>2, StepsOfSystem

\* ulordcenter beside the real licensetool behaves as UCenter says, if the periods fit
\* an int: what is proved of UCenter holds of the two programs together.
THEOREM SystemIsCenter == ASSUME PeriodsFit PROVE SystemSpec => ImplementsCenter
<1>1. SystemInit => ServerInit
  BY DEF SystemInit, WatcherInit, ServerInit
<1>2. ASSUME RunnersInv, [SystemNext]_systemVars
      PROVE  [centerStep]_allCenterVars
  BY <1>2, SystemIsCenterStep
<1>3. SystemSpec => []RunnersInv
  BY RunnersInvHolds
<1> QED
  BY <1>1, <1>2, <1>3, PTL DEF SystemSpec, ImplementsCenter, CenterSpec, centerStep

-----------------------------------------------------------------------------
(***************************************************************************)
(* What a masternode is told by the two programs together.                  *)
(***************************************************************************)

\* Licences made so far, wherever they are, need no key that ulordcenter lacks; before
\* it is started it has nothing to tell.
PublishedInv ==
    /\ ckeys = 0 => /\ \A c \in Coin : cache[c] = None
                    /\ \A t \in IoThread : at[t] = "idle" /\ answer[t] = None
    /\ ckeys # 0
         => /\ \A r \in Runner : /\ keyver[r] <= ckeys
                                 /\ pending[r] # None => pending[r].licversion <= ckeys
            /\ \A c \in Coin : db[c].certificate # None => db[c].version <= ckeys
            /\ \A c \in Coin : cache[c] # None /\ cache[c].licence # None
                                 => cache[c].licversion <= ckeys
    /\ ServedVersionPublished

\* No licence in the cache reaches further than the last confirmation allows.
DatesInv ==
    /\ lastConfirmed \in [Coin -> Int]
    /\ \A c \in Coin : /\ lastConfirmed[c] <= now
                       /\ Confirmed(c) => lastConfirmed[c] = now
                       /\ cache[c] # None
                            => cache[c].licperiod <= lastConfirmed[c] + PeriodLimit
    /\ WithdrawalTakesEffect

\* What the proofs below need of the two programs.
SystemFacts == RunnersInv /\ CenterTypeOK /\ CenterInv

\* The cache keeps what it has, loses it, or takes in a confirmed row.
LEMMA CacheSources ==
  ASSUME CenterTypeOK, CenterNext, NEW c \in Coin
  PROVE  cache'[c] \in {cache[c], None} \/ (Confirmed(c) /\ cache'[c] = ReadRow(c))
<1>1. CASE Boot
  BY <1>1 DEF Boot, Loaded
<1>2. ASSUME NEW t \in IoThread, Refresh(t)
      PROVE  cache'[c] = cache[c] \/ (Confirmed(c) /\ cache'[c] = ReadRow(c))
  BY <1>2 DEF Refresh, Merged, Wanted
<1> QED
  BY <1>1, <1>2 DEF CenterNext, ThreadStep, Halt, Ask, Hit, Miss, RefreshFail

\* A thread keeps its reply, loses it, or takes one from the cache as it is afterwards.
LEMMA AnswerSources ==
  ASSUME CenterTypeOK, CenterInv, CenterNext, NEW t \in IoThread
  PROVE  \/ answer'[t] \in {answer[t], None}
         \/ /\ answer'[t].coin \in Coin
            /\ answer'[t].mn = cache'[answer'[t].coin]
            /\ at[t] # "idle"
<1> USE DEF CenterTypeOK
<1>1. ASSUME NEW q \in IoThread, at[q] # "idle", NEW how, Sends(q, cache', how)
      PROVE  \/ answer'[t] = answer[t]
             \/ /\ answer'[t].coin \in Coin
                /\ answer'[t].mn = cache'[answer'[t].coin]
                /\ at[t] # "idle"
  <2>1. request[q] \in Coin
    BY <1>1 DEF CenterInv, BusyThreads
  <2>2. answer' = [answer EXCEPT ![q] = [coin |-> request[q], mn |-> cache'[request[q]],
                                         from |-> how]]
    BY <1>1 DEF Sends
  <2>3. CASE q = t
    BY <1>1, <2>1, <2>2, <2>3
  <2>4. CASE q # t
    BY <2>2, <2>4
  <2> QED
    BY <2>3, <2>4
<1>2. ASSUME NEW q \in IoThread, Hit(q) \/ RefreshFail(q) \/ Refresh(q)
      PROVE  \E how : Sends(q, cache', how) /\ at[q] # "idle"
  BY <1>2 DEF Hit, RefreshFail, Refresh, Sends
<1>3. CASE Boot \/ Halt \/ (\E q \in IoThread : Miss(q) \/ \E c \in Coin : Ask(q, c))
  BY <1>3 DEF Boot, Halt, Miss, Ask
<1> QED
  BY <1>1, <1>2, <1>3 DEF CenterNext, ThreadStep

\* What a runner has loaded and signed, and what it stores, is published.
LEMMA RunnersStayPublished ==
  ASSUME SystemFacts, PublishedInv, CenterFirst, ckeys # 0,
         \/ \E r \in Runner : (Released(r) /\ RunnerStep(r)) \/ Crash(r)
         \/ ClearLicenses
         \/ TableEnv /\ UNCHANGED runnerVars
  PROVE  /\ \A r \in Runner : /\ keyver'[r] <= ckeys
                              /\ pending'[r] # None => pending'[r].licversion <= ckeys
         /\ \A c \in Coin : db'[c].certificate # None => db'[c].version <= ckeys
<1>0. /\ keyver \in [Runner -> Nat] /\ stage \in [Runner -> Stage]
      /\ vecnode \in [Runner -> SUBSET Node] /\ pending \in [Runner -> Node \cup {None}]
      /\ db \in [Coin -> Row]
  BY BoundAssumption DEF SystemFacts, RunnersInv, WatcherTypeOK, TableTypeOK, RunnerTypeOK
<1>1. ckeys \in Nat /\ confkeys \in Nat
  BY BoundAssumption DEF SystemFacts, CenterTypeOK, TableTypeOK
<1>2. /\ \A r \in Runner : /\ keyver[r] <= ckeys
                           /\ pending[r] # None => pending[r].licversion <= ckeys
      /\ \A c \in Coin : db[c].certificate # None => db[c].version <= ckeys
  BY DEF PublishedInv
<1>3. ASSUME NEW r \in Runner, (Released(r) /\ RunnerStep(r)) \/ Crash(r)
      PROVE  /\ \A q \in Runner : /\ keyver'[q] <= ckeys
                                  /\ pending'[q] # None => pending'[q].licversion <= ckeys
             /\ \A c \in Coin : db'[c].certificate # None => db'[c].version <= ckeys
  <2>1. \A c \in Coin : db'[c].certificate # None => db'[c].version <= ckeys
    <3>1. CASE UNCHANGED db
      BY <1>2, <3>1
    <3>2. CASE stage[r] = "execute" /\ Store(pending[r])
      <4>1. pending[r] # None /\ pending[r] \in Node /\ pending[r].coin \in Coin
        BY <1>0, <3>2 DEF SystemFacts, RunnersInv, WatcherTypeOK, StageAgrees, Node
      <4>2. db'[pending[r].coin].version = pending[r].licversion
        BY <1>0, <3>2, <4>1 DEF Store, Row
      <4>3. \A c \in Coin \ {pending[r].coin} : db'[c] = db[c]
        BY <1>0, <3>2 DEF Store
      <4> QED
        BY <1>2, <4>1, <4>2, <4>3
    <3> QED
      BY <1>3, <3>1, <3>2, RunnerWritesByStore
  <2>2. \A q \in Runner : keyver'[q] \in {keyver[q], 0, ckeys}
    <3>1. CASE Start(r) /\ Released(r)
      BY <1>0, <3>1 DEF Start, Released, Moves
    <3> QED
      BY <1>0, <1>3, <3>1
      DEF RunnerStep, Scan, Select, SelectFail, Skip, Sign, Execute, ExecuteLost,
          ExecuteRetry, ExecuteFail, PassDone, Wake, Crash
  <2>3. ASSUME NEW q \in Runner, pending'[q] # None
        PROVE  pending'[q].licversion <= ckeys
    <3>1. CASE \E mn \in vecnode[r] : Sign(r, mn)
      <4>1. PICK mn \in vecnode[r] : Sign(r, mn)
        BY <3>1
      <4>2. Signed(mn, keyver[r]).licversion = keyver[r]
        BY <1>0 DEF Signed, Node
      <4> QED
        BY <1>0, <1>2, <2>3, <4>1, <4>2 DEF Sign
    <3>2. CASE \A mn \in vecnode[r] : ~ Sign(r, mn)
      <4>1. pending'[q] \in {pending[q], None}
        BY <1>0, <1>3, <3>2
        DEF RunnerStep, Start, Scan, Select, SelectFail, Skip, Execute, ExecuteLost,
            ExecuteRetry, ExecuteFail, PassDone, Wake, Crash, Returns, Retries
      <4> QED
        BY <1>2, <2>3, <4>1
    <3> QED
      BY <3>1, <3>2
  <2> QED
    BY <1>0, <1>1, <1>2, <2>1, <2>2, <2>3
<1>4. CASE ClearLicenses
  <2>1. \A c \in Coin : db'[c].certificate = None
    BY <1>4 DEF ClearLicenses, Cleared, NewRow
  <2> QED
    BY <1>2, <1>4, <2>1 DEF ClearLicenses, runnerVars
<1>5. CASE TableEnv /\ UNCHANGED runnerVars
  <2>1. ASSUME NEW c \in Coin, db'[c].certificate # None
        PROVE  db'[c].version = db[c].version /\ db[c].certificate # None
    <3>1. CASE Tick \/ AddKey
      BY <2>1, <3>1 DEF Tick, AddKey
    <3>2. ASSUME NEW d \in Coin, Bind(d)
          PROVE  db'[c].version = db[c].version /\ db[c].certificate # None
      BY <1>0, <2>1, <3>2 DEF Bind, NewRow
    <3>3. ASSUME NEW d \in Coin, Audit(d)
          PROVE  db'[c].version = db[c].version /\ db[c].certificate # None
      BY <1>0, <2>1, <3>3 DEF Audit, Row
    <3> QED
      BY <1>5, <3>1, <3>2, <3>3 DEF TableEnv
  <2> QED
    BY <1>2, <1>5, <2>1 DEF runnerVars
<1> QED
  BY <1>3, <1>4, <1>5

\* ulordcenter serves no licence whose key it does not publish.
LEMMA PublishedStep ==
  ASSUME PeriodsFit, CenterFirst, SystemFacts, PublishedInv, [SystemNext]_systemVars
  PROVE  PublishedInv'
<1>1. CASE CenterNext /\ UNCHANGED runnerVars
  <2>0. /\ ckeys \in Nat /\ confkeys \in Nat /\ confkeys # 0
        /\ UNCHANGED <<db, keyver, pending>> /\ confkeys' = confkeys
    BY <1>1, CenterReads, BoundAssumption
    DEF SystemFacts, CenterTypeOK, TableTypeOK, runnerVars
  <2>1. CASE Halt
    BY <2>1 DEF Halt, PublishedInv, ServedVersionPublished
  <2>2. CASE Boot
    <3>1. /\ ckeys = 0 /\ ckeys' = confkeys /\ UNCHANGED <<at, answer>>
          /\ cache' = Loaded \/ UNCHANGED cache
      BY <2>2 DEF Boot
    <3>2. \A r \in Runner : /\ keyver[r] <= confkeys
                            /\ pending[r] # None => pending[r].licversion <= confkeys
      BY <2>0 DEF SystemFacts, RunnersInv, GrantInv, RunnerGrants
    <3>3. \A c \in Coin : db[c].version <= confkeys
      BY DEF SystemFacts, CenterInv, RowsInv
    <3>4. \A c \in Coin : cache'[c] # None => cache'[c].licversion <= confkeys
      BY <3>1, <3>3 DEF Loaded, ReadRow, PublishedInv
    <3>5. \A t \in IoThread : answer'[t] = None
      BY <3>1 DEF PublishedInv
    <3> QED
      BY <2>0, <3>1, <3>2, <3>3, <3>4, <3>5 DEF PublishedInv, ServedVersionPublished
  <2>3. CASE UNCHANGED ckeys /\ ckeys # 0
    <3>1. ASSUME NEW c \in Coin, cache'[c] # None, cache'[c].licence # None
          PROVE  cache'[c].licversion <= ckeys
      <4>1. CASE cache'[c] \in {cache[c], None}
        BY <2>3, <3>1, <4>1 DEF PublishedInv
      <4>2. CASE cache'[c] = ReadRow(c)
        BY <2>3, <3>1, <4>2 DEF PublishedInv, ReadRow
      <4> QED
        BY <1>1, <4>1, <4>2, CacheSources DEF SystemFacts
    <3>2. ServedVersionPublished'
      <4> SUFFICES ASSUME NEW t \in IoThread, answer'[t] # None, answer'[t].mn # None,
                          answer'[t].mn.licence # None
                   PROVE  answer'[t].mn.licversion <= ckeys
        BY <2>3 DEF ServedVersionPublished
      <4>1. CASE answer'[t] \in {answer[t], None}
        BY <4>1 DEF PublishedInv, ServedVersionPublished
      <4>2. CASE answer'[t].coin \in Coin /\ answer'[t].mn = cache'[answer'[t].coin]
        BY <3>1, <4>2
      <4> QED
        BY <1>1, <4>1, <4>2, AnswerSources DEF SystemFacts
    <3> QED
      BY <2>0, <2>3, <3>1, <3>2 DEF PublishedInv
  <2>4. CASE ckeys = 0 /\ ~ Boot
    <3>1. \A t \in IoThread : at[t] = "idle"
      BY <2>4 DEF PublishedInv
    <3>2. ~ Halt /\ \A t \in IoThread, c \in Coin : ~ Ask(t, c)
      BY <2>4 DEF Halt, Ask
    <3>3. \A t \in IoThread : ~ ThreadStep(t)
      BY <3>1 DEF ThreadStep, Hit, Miss, Refresh, RefreshFail
    <3> QED
      BY <1>1, <2>4, <3>2, <3>3 DEF CenterNext
  <2>5. Halt \/ Boot \/ UNCHANGED ckeys
    BY <1>1 DEF CenterNext, ThreadStep, Ask, Hit, Miss, Refresh, RefreshFail
  <2> QED
    BY <2>1, <2>2, <2>3, <2>4, <2>5
<1>2. CASE UNCHANGED <<watcherVars, centerVars>>
  BY <1>2 DEF PublishedInv, ServedVersionPublished, watcherVars, runnerVars, tableVars,
              centerVars
<1>3. CASE /\ UNCHANGED centerVars
           /\ \/ \E r \in Runner : (Released(r) /\ RunnerStep(r)) \/ Crash(r)
              \/ ClearLicenses
              \/ TableEnv /\ UNCHANGED runnerVars
  <2>1. UNCHANGED <<cache, ckeys, at, answer>>
    BY <1>3 DEF centerVars
  <2>2. ServedVersionPublished'
    BY <2>1 DEF PublishedInv, ServedVersionPublished
  <2> QED
    BY <1>3, <2>1, <2>2, RunnersStayPublished DEF PublishedInv
<1>4. \/ CenterNext /\ UNCHANGED runnerVars
      \/ UNCHANGED <<watcherVars, centerVars>>
      \/ /\ UNCHANGED centerVars
         /\ \/ \E r \in Runner : (Released(r) /\ RunnerStep(r)) \/ Crash(r)
            \/ ClearLicenses
            \/ TableEnv /\ UNCHANGED runnerVars
  BY DEF SystemNext, systemVars, progVars, watcherVars, CenterMoves, OperatorMoves,
         TableMoves, RunnerMoves
<1> QED
  BY <1>1, <1>2, <1>3, <1>4

\* The history: every step sets it as SystemNext says, or is a stutter.
LEMMA DatesMove ==
  ASSUME SystemFacts, DatesInv, SystemFacts', [SystemNext]_systemVars
  PROVE  /\ lastConfirmed' \in [Coin -> Int]
         /\ now \in Nat /\ now' \in Nat /\ now <= now'
         /\ \A c \in Coin : /\ lastConfirmed[c] <= lastConfirmed'[c]
                            /\ lastConfirmed'[c] <= now'
                            /\ Confirmed(c)' => lastConfirmed'[c] = now'
<1>1. now \in Nat /\ now' \in Nat
  BY BoundAssumption DEF SystemFacts, CenterTypeOK, TableTypeOK
<1>2. now' \in {now, now + 1}
  BY CenterReads
  DEF SystemNext, systemVars, progVars, CenterMoves, OperatorMoves, TableMoves, RunnerMoves,
      RunnerStep, Start, Scan, Select, SelectFail, Skip, Sign, Execute, ExecuteLost,
      ExecuteRetry, ExecuteFail, PassDone, Wake, Crash, ClearLicenses, TableEnv, Tick,
      AddKey, Bind, Audit, tableVars
<1>3. now <= now'
  BY <1>1, <1>2
<1>4. CASE UNCHANGED systemVars
  <2>1. UNCHANGED <<lastConfirmed, db, now>>
    BY <1>4 DEF systemVars, progVars, tableVars
  <2> QED
    BY <1>1, <2>1 DEF DatesInv, Confirmed
<1>5. CASE SystemNext
  <2>1. lastConfirmed' = [c \in Coin |-> IF db'[c].status = "confirmed"
                                            THEN now' ELSE lastConfirmed[c]]
    BY <1>5 DEF SystemNext
  <2>2. \A c \in Coin : lastConfirmed[c] \in Int /\ lastConfirmed[c] <= now
    BY DEF DatesInv
  <2> QED
    BY <1>1, <1>3, <2>1, <2>2 DEF Confirmed
<1> QED
  BY <1>4, <1>5

\* A withdrawal takes effect on the cache and on the replies.
LEMMA DatesStep ==
  ASSUME PeriodsFit, SystemFacts, DatesInv, SystemFacts', [SystemNext]_systemVars
  PROVE  DatesInv'
<1>0. /\ lastConfirmed' \in [Coin -> Int] /\ lastConfirmed \in [Coin -> Int]
      /\ now \in Nat /\ now' \in Nat /\ now <= now'
      /\ \A c \in Coin : /\ lastConfirmed[c] <= lastConfirmed'[c]
                         /\ lastConfirmed'[c] <= now'
                         /\ Confirmed(c)' => lastConfirmed'[c] = now'
  BY DatesMove DEF DatesInv
<1>1. ASSUME NEW c \in Coin, NEW p \in Int, p <= lastConfirmed[c] + PeriodLimit
      PROVE  p <= lastConfirmed'[c] + PeriodLimit
  <2>1. lastConfirmed[c] \in Int /\ lastConfirmed'[c] \in Int
    BY <1>0
  <2>2. lastConfirmed[c] <= lastConfirmed'[c]
    BY <1>0
  <2> QED
    BY <1>1, <2>1, <2>2, PeriodAssumption
<1>2. ASSUME NEW c \in Coin, cache'[c] # None
      PROVE  cache'[c].licperiod <= lastConfirmed'[c] + PeriodLimit
  <2>1. CASE cache'[c] = cache[c]
    <3>1. cache[c].licperiod \in Int
      BY <1>2, <2>1 DEF SystemFacts, CenterTypeOK, Node
    <3> QED
      BY <1>1, <1>2, <2>1, <3>1 DEF DatesInv
  <2>2. CASE CenterNext /\ Confirmed(c) /\ cache'[c] = ReadRow(c)
    <3>1. ReadRow(c).licperiod = db[c].validdate
      BY <2>2, ReadServes DEF SystemFacts, CenterTypeOK, CenterInv
    <3>2. db[c].validdate <= now + PeriodLimit
      BY DEF SystemFacts, CenterInv, RowsInv
    <3>3. lastConfirmed'[c] = now
      BY <1>0, <2>2, CenterReads DEF Confirmed
    <3> QED
      BY <2>2, <3>1, <3>2, <3>3
  <2>3. CASE UNCHANGED centerVars
    BY <1>2, <2>1, <2>3 DEF centerVars
  <2> QED
    BY <1>2, <2>1, <2>2, <2>3, StepsOfSystem, CacheSources DEF SystemFacts
<1>3. ASSUME NEW t \in IoThread, answer'[t] # None, answer'[t].mn # None
      PROVE  answer'[t].mn.licperiod <= lastConfirmed'[answer'[t].coin] + PeriodLimit
  <2>1. CASE answer'[t] = answer[t]
    <3>1. answer[t].mn.licperiod \in Int /\ answer[t].coin \in Coin
      BY <1>3, <2>1 DEF SystemFacts, CenterTypeOK, Reply, Node
    <3> QED
      BY <1>1, <1>3, <2>1, <3>1 DEF DatesInv, WithdrawalTakesEffect
  <2>2. CASE answer'[t].coin \in Coin /\ answer'[t].mn = cache'[answer'[t].coin]
    BY <1>2, <1>3, <2>2
  <2>3. CASE UNCHANGED centerVars
    BY <2>1, <2>3 DEF centerVars
  <2> QED
    BY <1>3, <2>1, <2>2, <2>3, StepsOfSystem, AnswerSources DEF SystemFacts
<1> QED
  BY <1>0, <1>2, <1>3 DEF DatesInv, WithdrawalTakesEffect, Confirmed

\* If ulordcenter is restarted before licensetool uses a new key, and the periods fit an
\* int: every licence a masternode is told was made with a published key, and ends at
\* most PeriodLimit after its node was last confirmed.
THEOREM AnswersAreBounded ==
  ASSUME PeriodsFit, CenterFirst
  PROVE  SystemSpec => []AnswersBounded
<1>1. SystemInit => PublishedInv /\ DatesInv
  BY DEF SystemInit, CenterInit, WatcherInit, TableInit, PublishedInv, DatesInv, NoRow, NewRow,
         Confirmed, ServedVersionPublished, WithdrawalTakesEffect
<1>2. ASSUME SystemFacts, SystemFacts', PublishedInv /\ DatesInv, [SystemNext]_systemVars
      PROVE  (PublishedInv /\ DatesInv)'
  BY <1>2, PublishedStep, DatesStep
<1>3. SystemSpec => []RunnersInv
  BY RunnersInvHolds
<1>4. CenterSpec => [](CenterTypeOK /\ CenterInv)
  BY CenterInvHolds
<1>5. SystemSpec => CenterSpec
  BY SystemIsCenter DEF ImplementsCenter
<1>6. RunnersInv /\ CenterTypeOK /\ CenterInv => SystemFacts
  BY DEF SystemFacts
<1>7. PublishedInv /\ DatesInv => AnswersBounded
  BY DEF PublishedInv, DatesInv, AnswersBounded
<1> QED
  BY <1>1, <1>2, <1>3, <1>4, <1>5, <1>6, <1>7, PTL DEF SystemSpec
=============================================================================
