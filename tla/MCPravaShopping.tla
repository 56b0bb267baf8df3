--------------------------- MODULE MCPravaShopping ---------------------------
(* The instances of PravaShopping that TLC checks.  No symmetry: its        *)
(* properties include liveness.                                             *)
EXTENDS PravaShopping, TLC

CONSTANTS q1, q2, s1, s2, t1, t2
==============================================================================
