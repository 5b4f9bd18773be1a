------------------------------ MODULE Statement ------------------------------
(***************************************************************************)
(* What a caller of CUlordDb may rely on.  A call runs its statement at the *)
(* server any number of times up to a bound, not necessarily once, and then *)
(* reports; "true" and "empty" only of a statement that was run.  A report  *)
(* of failure says nothing about what was run.                              *)
(***************************************************************************)
EXTENDS Naturals

CONSTANT MaxRetry   \* how often execute() repeats a statement: 3 in the code

VARIABLES
    phase,    \* of the call: under way, or what came of the last one
    applied   \* how often the server has run the statement of this call

statementVars == <<phase, applied>>

\* "empty": a SELECT that reports success and no rows, whatever the table holds.
Report == {"true", "empty", "false", "dead"}

Call ==
    /\ phase # "running"
    /\ phase' = "running"
    /\ applied' = 0

\* The server runs the statement, and the call may report it at once.
Apply ==
    /\ phase = "running"
    /\ applied <= MaxRetry
    /\ applied' = applied + 1
    /\ phase' \in {"running", "true", "false"}

\* The call ends: TRUE, FALSE or the end of the process.
Finish ==
    /\ phase = "running"
    /\ phase' \in Report
    /\ phase' \in {"true", "empty"} => applied > 0
    /\ UNCHANGED applied

StatementInit == phase = "idle" /\ applied = 0

StatementSpec == StatementInit /\ [][Call \/ Apply \/ Finish]_statementVars
=============================================================================
