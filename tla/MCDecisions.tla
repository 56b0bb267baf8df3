----------------------------- MODULE MCDecisions -----------------------------
(***************************************************************************)
(* Instances of DecisionService.                                           *)
(***************************************************************************)
EXTENDS DecisionService, TLC

SessionSymmetry == Permutations(Sessions)
=============================================================================
