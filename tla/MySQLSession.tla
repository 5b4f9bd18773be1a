---------------------------- MODULE MySQLSession ----------------------------
(***************************************************************************)
(* One call of CUlordDb on its own MySQLConnection: the constructor, then   *)
(* IsDBOnline (ping), then execute or query, then the destructor.  Between  *)
(* any two of its exchanges with the server the connection may break and    *)
(* the database go down or come up.                                         *)
(*                                                                         *)
(* The client library is external.  Its automatic reconnection is off, as   *)
(* nothing turns it on: a connection that broke stays broken.  A null       *)
(* handle given to mysql_ping or mysql_query is dereferenced.  The settings *)
(* that open() makes without looking at the result fail only when the       *)
(* connection breaks.                                                       *)
(***************************************************************************)
EXTENDS Naturals

CONSTANTS
    MaxRetry,   \* execute() gives up when queryTimes exceeds it: 3
    MaxPing     \* pings of IsDBOnline: 3

ASSUME LimitAssumption == MaxRetry \in Nat /\ MaxPing \in Nat \ {0}

VARIABLES
    pc,        \* the next step of the call, or the report of the last one
    back,      \* the step that follows open()
    conn,      \* the handle: "null", "open" or "broken"
    prepared,  \* what open() has set in the session at the server
    attempts,  \* queryTimes
    pings,     \* pings of IsDBOnline so far
    call,      \* "update": execute(); "select": query()
    applied,   \* how often the server has run the statement of this call
    up         \* the server accepts connections

callVars == <<pc, back, conn, prepared, attempts, pings, call, applied>>
sessionVars == <<callVars, up>>

Report == {"true", "empty", "false", "dead"}

Done == Report \cup {"idle"}

Setting == {"charset", "zone"}

-----------------------------------------------------------------------------
(* open() and close().                                                      *)

\* open() begins: the old handle is closed; step k comes after it.
Opens(k) ==
    /\ pc' = "connect"
    /\ back' = k
    /\ conn' = "null"
    /\ prepared' = {}

\* mysql_real_connect succeeds.
Connect ==
    /\ pc = "connect"
    /\ up
    /\ pc' = "charset"
    /\ conn' = "open"
    /\ UNCHANGED <<back, prepared, attempts, pings, call, applied>>

\* It fails: open() closes the handle, which is null from then on, and returns
\* false, which none of its callers looks at.
ConnectFails ==
    /\ pc = "connect"
    /\ pc' = back
    /\ UNCHANGED <<back, conn, prepared, attempts, pings, call, applied>>

\* The setting s is made if the connection still stands.
Sets(s) == prepared' = IF conn = "open" THEN prepared \cup {s} ELSE prepared

\* mysql_set_character_set.
SetCharset ==
    /\ pc = "charset"
    /\ pc' = "zone"
    /\ Sets("charset")
    /\ UNCHANGED <<back, conn, attempts, pings, call, applied>>

\* The faulty open() that sets no time zone.
SetZoneNot ==
    /\ pc = "zone"
    /\ pc' = back
    /\ UNCHANGED <<back, conn, prepared, attempts, pings, call, applied>>

\* SET time_zone = "+00:00".
SetZone ==
    /\ pc = "zone"
    /\ pc' = back
    /\ Sets("zone")
    /\ UNCHANGED <<back, conn, attempts, pings, call, applied>>

\* The call returns and the destructor closes the handle.
Returns(report) ==
    /\ pc' = report
    /\ conn' = "null"
    /\ prepared' = {}
    /\ UNCHANGED back

-----------------------------------------------------------------------------
(* UpdateLicense and SelectMNode up to IsDBOnline, which calls ping().      *)

\* The constructor leaves the handle null, so the first ping() calls open().
Begin(k) ==
    /\ pc \in Done
    /\ Opens("ping")
    /\ attempts' = 0
    /\ pings' = 1
    /\ call' = k
    /\ applied' = 0

\* mysql_ping answers: the database is online.
Ping ==
    /\ pc \in {"ping", "reping"}
    /\ conn = "open"
    /\ pc' = "execute"
    /\ UNCHANGED <<back, conn, prepared, attempts, pings, call, applied>>

\* mysql_ping fails: ping() opens the connection anew and tries again.
PingFails ==
    /\ pc = "ping"
    /\ conn = "broken"
    /\ Opens("reping")
    /\ UNCHANGED <<attempts, pings, call, applied>>

\* The faulty IsDBOnline that never gives up.
RepingFailsAlways ==
    /\ pc = "reping"
    /\ conn = "broken"
    /\ pc' = "ping"
    /\ UNCHANGED <<back, conn, prepared, attempts, pings, call, applied>>

\* ping() returns false: IsDBOnline sleeps and calls it again, or gives up.
RepingFails ==
    /\ pc = "reping"
    /\ conn = "broken"
    /\ IF pings < MaxPing
          THEN /\ pc' = "ping"
               /\ pings' = pings + 1
               /\ UNCHANGED <<back, conn, prepared>>
          ELSE Returns("false") /\ UNCHANGED pings
    /\ UNCHANGED <<attempts, call, applied>>

\* A handle that open() left null is given to mysql_ping or mysql_query.
NullHandle ==
    /\ pc \in {"ping", "reping", "query"}
    /\ conn = "null"
    /\ Returns("dead")
    /\ UNCHANGED <<attempts, pings, call, applied>>

-----------------------------------------------------------------------------
(* execute() and query().                                                   *)

\* The label "query:" of execute().
Execute ==
    /\ pc = "execute"
    /\ attempts' = attempts + 1
    /\ \/ conn = "null" /\ Opens("query")
       \/ conn # "null" /\ pc' = "query" /\ UNCHANGED <<back, conn, prepared>>
    /\ UNCHANGED <<pings, call, applied>>

\* mysql_query returns 0: the server has run the statement.
Answered ==
    /\ pc = "query"
    /\ conn = "open"
    /\ applied' = applied + 1
    /\ IF call = "select" THEN pc' = "store" /\ UNCHANGED <<back, conn, prepared>>
                          ELSE Returns("true")
    /\ UNCHANGED <<attempts, pings, call>>

\* The faulty bound that lets one attempt more through.
NetworkErrorOnceMore ==
    IF attempts <= MaxRetry + 1
       THEN pc' = "recover" /\ conn' = "broken" /\ UNCHANGED <<back, prepared>>
       ELSE Returns("false")

\* The faulty end of the repeats that reports success.
NetworkErrorIgnored ==
    IF attempts <= MaxRetry
       THEN pc' = "recover" /\ conn' = "broken" /\ UNCHANGED <<back, prepared>>
       ELSE Returns("true")

\* Errors 2006 and 2013: the statement is repeated or, at last, given up.
NetworkError ==
    IF attempts <= MaxRetry
       THEN pc' = "recover" /\ conn' = "broken" /\ UNCHANGED <<back, prepared>>
       ELSE Returns("false")

\* The server has run the statement, but the connection breaks before it answers.
AnswerLost ==
    /\ pc = "query"
    /\ conn = "open"
    /\ applied' = applied + 1
    /\ NetworkError
    /\ UNCHANGED <<attempts, pings, call>>

\* The connection was broken before: the server does not see the statement.
Gone ==
    /\ pc = "query"
    /\ conn = "broken"
    /\ NetworkError
    /\ UNCHANGED <<attempts, pings, call, applied>>

\* Any other error is final.
Rejected ==
    /\ pc = "query"
    /\ conn = "open"
    /\ Returns("false")
    /\ UNCHANGED <<attempts, pings, call, applied>>

\* After sleep(10) mysql_ping fails, as the connection stays broken: the handle
\* is closed and "goto query" opens it anew.
Recover ==
    /\ pc = "recover"
    /\ pc' = "execute"
    /\ conn' = "null"
    /\ prepared' = {}
    /\ UNCHANGED <<back, attempts, pings, call, applied>>

\* mysql_store_result reads the rows.
Store ==
    /\ pc = "store"
    /\ conn = "open"
    /\ Returns("true")
    /\ UNCHANGED <<attempts, pings, call, applied>>

\* It returns null; numRows() makes no difference between that and no rows.
StoreLost ==
    /\ pc = "store"
    /\ conn = "broken"
    /\ Returns("empty")
    /\ UNCHANGED <<attempts, pings, call, applied>>

-----------------------------------------------------------------------------
(* The server and the network.                                              *)

\* The server closes an idle session, or the network drops it.
Break ==
    /\ conn = "open"
    /\ conn' = "broken"
    /\ UNCHANGED <<pc, back, prepared, attempts, pings, call, applied, up>>

GoDown ==
    /\ up
    /\ up' = FALSE
    /\ conn' = IF conn = "open" THEN "broken" ELSE conn
    /\ UNCHANGED <<pc, back, prepared, attempts, pings, call, applied>>

ComeUp == ~ up /\ up' = TRUE /\ UNCHANGED callVars

SessionInit ==
    /\ pc = "idle"
    /\ back = "ping"
    /\ conn = "null"
    /\ prepared = {}
    /\ attempts = 0
    /\ pings = 0
    /\ call = "update"
    /\ applied = 0
    /\ up = TRUE

CallStep ==
    /\ \/ Connect \/ ConnectFails \/ SetCharset \/ SetZone
       \/ Ping \/ PingFails \/ RepingFails \/ NullHandle
       \/ Execute \/ Answered \/ AnswerLost \/ Gone \/ Rejected \/ Recover
       \/ Store \/ StoreLost
    /\ UNCHANGED up

SessionNext ==
    \/ CallStep
    \/ \E k \in {"update", "select"} : Begin(k) /\ UNCHANGED up
    \/ Break \/ GoDown \/ ComeUp

SessionSpec == SessionInit /\ [][SessionNext]_sessionVars

\* The caller runs: every call into the client library returns.
SessionFairSpec == SessionSpec /\ WF_sessionVars(CallStep)

-----------------------------------------------------------------------------
(* Correctness.                                                             *)

Pc == Done \cup {"connect", "charset", "zone", "ping", "reping",
                "execute", "query", "recover", "store"}

\* Type invariant.  What the server ran is covered by an attempt each, of which
\* there are at most MaxRetry + 1, and no call leaves a handle behind.
SessionTypeOK ==
    /\ pc \in Pc
    /\ back \in {"ping", "reping", "query"}
    /\ conn \in {"null", "open", "broken"}
    /\ prepared \subseteq Setting
    /\ attempts \in 0 .. MaxRetry + 1
    /\ pings \in 0 .. MaxPing
    /\ call \in {"update", "select"}
    /\ applied \in 0 .. attempts
    /\ up \in BOOLEAN
    /\ pc \in Done => conn = "null"

\* Every statement the server runs is read as UTF-8 and computes in UTC, also
\* after any number of reconnections: open() makes both settings in each session
\* before the statement, and drops nothing but sessions that are broken.
StatementPrepared ==
    [][applied' = applied + 1 => prepared = Setting]_sessionVars

Promise == INSTANCE Statement
           WITH phase <- IF pc \in Done THEN pc ELSE "running"

\* The call keeps the promises of Statement: its retries stay within the bound,
\* and no path through ping and execute reports a success that was none.
ImplementsStatement == Promise!StatementSpec

\* However the connection breaks, again and again, the call ends: it is what
\* lets SelectMNData hold cs_ and a pass of licensetool wait for it.
CallReturns == pc \notin Done ~> pc \in Done

\* MySQLConnection.h says of the class "open/close auto managed by class, with
\* support for auto-reconnect", and IsDBOnline tries three times and returns
\* false: an unreachable database is reported to the caller, who logs it.
OutageReported == pc # "dead"
=============================================================================
