-------------------------- MODULE MCPravaConnection --------------------------
(* The instance of PravaConnection that TLC checks.                         *)
EXTENDS PravaConnection, TLC

CONSTANTS alice, bob, a1, a2, c1, c2, c3
ConnectionSymmetry ==
  Permutations({alice, bob}) \cup Permutations({a1, a2}) \cup Permutations({c1, c2, c3})
==============================================================================
