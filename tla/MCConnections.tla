---------------------------- MODULE MCConnections ----------------------------
(* Instances of Connections for TLC.                                        *)
EXTENDS Connections, TLC

CONSTANTS c1, c2

\* Two connections where one loop does everything, one where two threads may meet.
FewArrivals == 1 :> {c1, c2} @@ 2 :> {c1}

\* The documented default.
DefaultArrivals == 2 :> {c1, c2}

=============================================================================
