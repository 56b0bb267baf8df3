----------------------------- MODULE MCProofRun -----------------------------
(***************************************************************************)
(* Instances of ProofRun: which proofs overlap.  The others failed before  *)
(* their first call, a state that every process can be in.                 *)
(***************************************************************************)
EXTENDS ProofRun

CONSTANTS x, d, e

MCCausal == {x}
MCDeploy == {d, e}
Casts == {{x, d}, {d, e}}

MCInit ==
  /\ AtRest
  /\ \E cast \in Casts :
       proc = [p \in Procs |-> IF p \in cast THEN Started ELSE [Started EXCEPT !.pc = "failed"]]
MCSpec == MCInit /\ [][Next]_vars /\ Fairness
=============================================================================
