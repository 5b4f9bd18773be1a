---------------------------- MODULE LicenseTable ----------------------------
(***************************************************************************)
(* The ground that licensetool and ulordcenter share: the MySQL table       *)
(* udevforums_major_node_bind, the wall clock, and the private keys listed  *)
(* in ulordcenter.conf.  The forum that binds and audits masternodes writes *)
(* the same table; it is outside the repository and appears here as the     *)
(* environment actions Bind and Audit.                                      *)
(*                                                                         *)
(* Time is in the unit of the code (seconds) and scaled down for TLC.       *)
(***************************************************************************)
EXTENDS Integers, FiniteSets

CONSTANTS
    Coin,         \* the table's unique key <trade_txid, trade_vout_no>
    Transactions, \* the coins of each trade_txid, a partition of Coin
    KeyedCoin,    \* the coins whose special_code decodes to a private key
    NodePeriods,  \* the values the forum gives to node_period
    NeedUpdate,   \* periodunit * needupdate
    PeriodLimit,  \* periodunit * periodlimit
    IntHalf,      \* 2^31 in the build: an int is in -IntHalf .. IntHalf-1
    MaxKey,       \* bound: private keys ever listed in the configuration
    MaxTime,      \* bound: the clock stops here
    MaxEvents,    \* bound: disturbances by the forum, operators and crashes
    None          \* SQL NULL, an absent map entry, no owner

ASSUME CoinAssumption ==
    /\ UNION Transactions = Coin
    /\ \A t, u \in Transactions : t = u \/ t \cap u = {}
    /\ KeyedCoin \subseteq Coin
    /\ NodePeriods \subseteq Nat

ASSUME PeriodAssumption ==
    /\ NeedUpdate \in Nat
    /\ PeriodLimit \in Nat
    /\ IntHalf \in Nat \ {0}

ASSUME BoundAssumption ==
    /\ MaxKey \in Nat \ {0}
    /\ MaxTime \in Nat
    /\ MaxEvents \in Nat

VARIABLES
    db,        \* db[c]: the row of coin c
    now,       \* GetTime()
    confkeys,  \* privkey1 .. privkey<confkeys> are in ulordcenter.conf
    events     \* disturbances so far, against MaxEvents

tableVars == <<db, now, confkeys, events>>

-----------------------------------------------------------------------------
(* Rows and what the programs read of them.                                 *)

\* Both coins are outputs of one transaction.
SameTx(c, d) == \E t \in Transactions : c \in t /\ d \in t

\* A certificate is the signature, by the private key of its version, of the
\* word GetLicenseWord() makes of the node and the end of its licence.
Licence == [coin : Coin, period : Int, version : Int]

Status == {"none", "binding", "confirmed", "failed"}

Row == [status      : Status,   \* "none": there is no such row
        validdate   : Int,
        certificate : Licence \cup {None},
        version     : Int,
        node_period : Int]      \* -1 stands for NULL

\* CMNode, as far as the licence goes.
Node == [coin       : Coin,
         status     : Status,
         licperiod  : Int,
         licence    : Licence \cup {None},
         licversion : Int,
         nodeperiod : Int]

ASSUME NoneAssumption == None \notin Licence /\ None \notin Node

\* atoi() of a BIGINT column: strtol() cut to an int, i.e. the low 32 bits.
Atoi(n) == LET m == n % (2 * IntHalf) IN IF m < IntHalf THEN m ELSE m - 2 * IntHalf

\* The CMNode that SelectMNode builds from the row of coin c.
ReadRow(c) == [coin       |-> c,
               status     |-> db[c].status,
               licperiod  |-> Atoi(db[c].validdate),
               licence    |-> db[c].certificate,
               licversion |-> db[c].version,
               nodeperiod |-> Atoi(db[c].node_period)]

NewRow == [status      |-> "binding", validdate |-> 0,
           certificate |-> None,      version   |-> 1, node_period |-> -1]

NoRow == [NewRow EXCEPT !.status = "none"]

\* A row after "licensetool clear".
Cleared(row) == [NewRow EXCEPT !.status = row.status, !.node_period = row.node_period]

\* mn carries the certificate that its own period and version call for.
Covers(mn) == mn.licence = [coin |-> mn.coin, period |-> mn.licperiod,
                            version |-> mn.licversion]

-----------------------------------------------------------------------------
(* The environment.                                                         *)

Disturb == events < MaxEvents /\ events' = events + 1

\* The forum inserts the row of a masternode that asks to be bound.
Bind(c) ==
    /\ db[c].status = "none"
    /\ db' = [db EXCEPT ![c] = NewRow]
    /\ Disturb
    /\ UNCHANGED <<now, confkeys>>

\* The forum's audit confirms or rejects a binding, renews it, or withdraws a
\* confirmed one.  A node's period is only ever extended.
Audit(c) ==
    /\ db[c].status # "none"
    /\ \E s \in {"confirmed", "failed"}, p \in NodePeriods :
          /\ p >= db[c].node_period
          /\ <<s, p>> # <<db[c].status, db[c].node_period>>
          /\ db' = [db EXCEPT ![c] = [@ EXCEPT !.status = s, !.node_period = p]]
    /\ Disturb
    /\ UNCHANGED <<now, confkeys>>

\* The operator adds the next private key to the shared configuration file.
AddKey ==
    /\ confkeys < MaxKey
    /\ confkeys' = confkeys + 1
    /\ Disturb
    /\ UNCHANGED <<db, now>>

\* Time passes, up to the horizon of the model.
Tick ==
    /\ now' = IF now < MaxTime THEN now + 1 ELSE now
    /\ UNCHANGED <<db, confkeys, events>>

TableEnv == Tick \/ AddKey \/ \E c \in Coin : Bind(c) \/ Audit(c)

TableInit ==
    /\ db = [c \in Coin |-> NoRow]
    /\ now = 0
    /\ confkeys = 1
    /\ events = 0

TableTypeOK ==
    /\ db \in [Coin -> Row]
    /\ now \in 0 .. MaxTime
    /\ confkeys \in 1 .. MaxKey
    /\ events \in 0 .. MaxEvents
=============================================================================
