------------------------------- MODULE UCenter -------------------------------
(***************************************************************************)
(* ulordcenter (CUCenter): the server that tells masternodes their licence. *)
(* It keeps a cache of nodes, filled from the table, that the I/O threads   *)
(* share under one lock; SelectMNData holds the lock across its statement,  *)
(* so the other threads wait while the database answers or fails to.        *)
(* The table changes meanwhile as LicenseRegistry allows.                   *)
(***************************************************************************)
EXTENDS LicenseRegistry

CONSTANT IoThread   \* the event loop threads of the TcpServer

ASSUME ThreadAssumption == None \notin IoThread

VARIABLES
    cache,   \* mapMNodeList_[c], or None
    ckeys,   \* mapUCenterkey_ holds versions 1 .. ckeys; 0: not running
    at,      \* where the I/O thread is in SelectMNData
    request, \* the coin it is asked about, or None
    since,   \* tnow of SelectMNData
    owner,   \* the thread that holds cs_, or None
    answer   \* the last thing the thread sent, or None

centerVars == <<cache, ckeys, at, request, since, owner, answer>>
allCenterVars == <<tableVars, centerVars>>

\* A reply: what was asked, the node sent (None: "No valid info") and how
\* SelectMNData came by it.
Reply == [coin  : Coin,
          mn    : Node \cup {None},
          from  : {"cache", "table", "outage"}]

Confirmed(c) == db[c].status = "confirmed"

-----------------------------------------------------------------------------
(* SelectMNData.                                                            *)

\* The cache after the statement of InitUCenterKey.
Loaded == [c \in Coin |-> IF Confirmed(c) THEN ReadRow(c) ELSE None]

\* The faulty test that lets a cached licence end before it is refreshed.
CachedAtAll(c) == cache[c] # None

\* The first test: the cached licence is not about to end.
CachedFresh(c) == cache[c] # None /\ cache[c].licperiod >= now + NeedUpdate

\* The faulty statement for a coin in the cache, without the test of status.
WantedUnconfirmed(c, d, t) ==
    IF cache[c] # None THEN db[d].validdate > t + NeedUpdate
                       ELSE Confirmed(d) /\ SameTx(d, c)

\* Row d is in the result of the statement about coin c, composed at time t: a
\* coin in the cache asks for every renewed row, any other for its transaction.
Wanted(c, d, t) ==
    /\ Confirmed(d)
    /\ IF cache[c] # None THEN db[d].validdate > t + NeedUpdate
                          ELSE SameTx(d, c)

\* The faulty cache that is keyed by the transaction alone.
MergedByTxid(rows) ==
    [c \in Coin |-> IF \E d \in rows : SameTx(d, c)
                       THEN ReadRow(CHOOSE d \in rows : SameTx(d, c))
                       ELSE cache[c]]

\* The cache with the rows of the result put in, each under its CMNCoin.
Merged(rows) == [c \in Coin |-> IF c \in rows THEN ReadRow(c) ELSE cache[c]]

\* Thread t sends what cache m holds for the coin it was asked about.
Sends(t, m, how) ==
    /\ answer' = [answer EXCEPT ![t] = [coin |-> request[t], mn |-> m[request[t]],
                                        from |-> how]]
    /\ request' = [request EXCEPT ![t] = None]
    /\ since' = [since EXCEPT ![t] = 0]
    /\ at' = [at EXCEPT ![t] = "idle"]

-----------------------------------------------------------------------------
(* The server.                                                              *)

\* The faulty InitUCenterKey that loads privkey1 only.
BootFirstKey ==
    /\ ckeys = 0
    /\ ckeys' = 1
    /\ cache' = Loaded \/ UNCHANGED cache
    /\ UNCHANGED <<tableVars, at, request, since, owner, answer>>

\* InitUCenterKey: the keys listed so far, and every confirmed row; when the
\* SELECT fails the server starts all the same, with an empty cache.
Boot ==
    /\ ckeys = 0
    /\ ckeys' = confkeys
    /\ cache' = Loaded \/ UNCHANGED cache
    /\ UNCHANGED <<tableVars, at, request, since, owner, answer>>

\* The process dies.
Halt ==
    /\ ckeys > 0
    /\ ckeys' = 0
    /\ cache' = [c \in Coin |-> None]
    /\ at' = [t \in IoThread |-> "idle"]
    /\ request' = [t \in IoThread |-> None]
    /\ since' = [t \in IoThread |-> 0]
    /\ owner' = None
    /\ answer' = [t \in IoThread |-> None]
    /\ Disturb
    /\ UNCHANGED <<db, now, confkeys>>

\* onStringMessage or HandlerMsg gets MST_QUEST_ONE and calls SelectMNData.
Ask(t, c) ==
    /\ ckeys > 0
    /\ at[t] = "idle"
    /\ at' = [at EXCEPT ![t] = "lock"]
    /\ request' = [request EXCEPT ![t] = c]
    /\ answer' = [answer EXCEPT ![t] = None]
    /\ UNCHANGED <<tableVars, cache, ckeys, since, owner>>

\* LOCK(cs_), and the cache answers; nothing blocks before the unlock.
Hit(t) ==
    /\ at[t] = "lock"
    /\ owner = None
    /\ CachedFresh(request[t])
    /\ Sends(t, cache, "cache")
    /\ UNCHANGED <<tableVars, cache, ckeys, owner>>

\* LOCK(cs_), the clock is read, and a statement is sent to the database.
Miss(t) ==
    /\ at[t] = "lock"
    /\ owner = None
    /\ ~ CachedFresh(request[t])
    /\ owner' = t
    /\ since' = [since EXCEPT ![t] = now]
    /\ at' = [at EXCEPT ![t] = "query"]
    /\ UNCHANGED <<tableVars, cache, ckeys, request, answer>>

\* The faulty refresh that answers from the cache as it was.
RefreshTooLate(t) ==
    /\ at[t] = "query"
    /\ owner = t
    /\ cache' = Merged({d \in Coin : Wanted(request[t], d, since[t])})
    /\ Sends(t, cache, "table")
    /\ owner' = None
    /\ UNCHANGED <<tableVars, ckeys>>

\* The result comes, is merged, and the reply is taken from the new cache.
Refresh(t) ==
    /\ at[t] = "query"
    /\ owner = t
    /\ cache' = Merged({d \in Coin : Wanted(request[t], d, since[t])})
    /\ Sends(t, cache', "table")
    /\ owner' = None
    /\ UNCHANGED <<tableVars, ckeys>>

\* The faulty failure path that returns without the unlock.
RefreshFailLocked(t) ==
    /\ at[t] = "query"
    /\ owner = t
    /\ Sends(t, cache, "outage")
    /\ UNCHANGED <<tableVars, cache, ckeys, owner>>

\* The SELECT fails, or its rows are lost: the cache answers as it is, if it can.
RefreshFail(t) ==
    /\ at[t] = "query"
    /\ owner = t
    /\ Sends(t, cache, "outage")
    /\ owner' = None
    /\ UNCHANGED <<tableVars, cache, ckeys>>

CenterInit ==
    /\ cache = [c \in Coin |-> None]
    /\ ckeys = 0
    /\ at = [t \in IoThread |-> "idle"]
    /\ request = [t \in IoThread |-> None]
    /\ since = [t \in IoThread |-> 0]
    /\ owner = None
    /\ answer = [t \in IoThread |-> None]

ServerInit == TableInit /\ CenterInit

ThreadStep(t) == Hit(t) \/ Miss(t) \/ Refresh(t) \/ RefreshFail(t)

CenterNext ==
    \/ Boot \/ Halt
    \/ \E t \in IoThread : ThreadStep(t) \/ \E c \in Coin : Ask(t, c)

CenterSpec ==
    /\ ServerInit
    /\ [][CenterNext \/ (RegistryNext /\ UNCHANGED centerVars)]_allCenterVars

\* A waiting thread gets the lock in the end, and every statement returns: ping
\* and execute give up after a fixed number of attempts.
CenterFairness ==
    \A t \in IoThread :
        /\ SF_allCenterVars(Hit(t) \/ Miss(t))
        /\ WF_allCenterVars(Refresh(t) \/ RefreshFail(t))

CenterFairSpec == CenterSpec /\ CenterFairness

-----------------------------------------------------------------------------
(* Correctness.                                                             *)

\* Type invariant; cs_ is held exactly by the one thread whose statement is out.
CenterTypeOK ==
    /\ TableTypeOK
    /\ cache \in [Coin -> Node \cup {None}]
    /\ ckeys \in 0 .. MaxKey
    /\ at \in [IoThread -> {"idle", "lock", "query"}]
    /\ request \in [IoThread -> Coin \cup {None}]
    /\ since \in [IoThread -> 0 .. MaxTime]
    /\ owner \in IoThread \cup {None}
    /\ answer \in [IoThread -> Reply \cup {None}]
    /\ \A t \in IoThread : at[t] = "query" <=> owner = t

\* mn is what a row may say: a licence with its certificate, or none yet.
Attested(mn) == IF mn.licence = None THEN mn.licperiod = 0 ELSE Covers(mn)

\* A masternode can verify every licence it is told: the reply is about the coin
\* it asked for, and period, version and certificate are of one and the same
\* grant, whatever the table did between the fill of the cache and the reply.
AnswerAttested ==
    \A t \in IoThread :
        answer[t] # None /\ answer[t].mn # None
        => /\ answer[t].mn.coin = answer[t].coin
           /\ answer[t].mn.status = "confirmed"
           /\ Attested(answer[t].mn)

\* Thread t sends, in this step, a reply the table was asked about.
AnswersFromTable(t) ==
    at[t] = "query" /\ answer'[t] # None /\ answer'[t].from = "table"

\* When the database answers, the reply is the row as it is now, for a confirmed
\* coin that is new to the cache or whose licence has been renewed; above all a
\* confirmed node is not told that there is no valid info about it.
RefreshHeedsTable ==
    [][\A t \in IoThread :
         LET c == request[t] IN
         AnswersFromTable(t) /\ Confirmed(c)
            /\ (cache[c] = None \/ db[c].validdate > since[t] + NeedUpdate)
         => answer'[t].mn = ReadRow(c)]_allCenterVars

\* The cache takes nothing new about a node whose confirmation the forum has
\* withdrawn, although an UPDATE that was under way may still renew its row.
WithdrawnNotRefreshed ==
    [][\A c \in Coin : cache'[c] \notin {cache[c], None} => Confirmed(c)]_allCenterVars

\* Every question is answered, also while statements fail and other threads keep
\* asking: no path through SelectMNData keeps cs_.
EventuallyAnswered ==
    \A t \in IoThread : at[t] = "lock" ~> at[t] = "idle"

\* The comment in SelectMNData says "update mn list from db" of the statement it
\* sends for a cached licence about to end: a refresh that the database answers
\* does not leave a node with an ended licence while its row holds a valid one.
RefreshFindsValid ==
    [][\A t \in IoThread :
         LET c == request[t] IN
         AnswersFromTable(t) /\ Confirmed(c) /\ db[c].validdate > now
         => answer'[t].mn # None /\ answer'[t].mn.licperiod > now]_allCenterVars

\* What holds of cs_, the cache and the replies at any time.
CenterSafe == CenterTypeOK /\ AnswerAttested

\* What SelectMNData brings into the cache and into a reply is the table as it is
\* when the statement is answered: all that is new of confirmed nodes, and nothing
\* of others.
TableHeeded == RefreshHeedsTable /\ WithdrawnNotRefreshed

=============================================================================
