----------------------------- MODULE MCReversal -----------------------------
(* The instances of PurchaseReversal that TLC checks.                       *)
EXTENDS PurchaseReversal

CONSTANTS t1, t2
=============================================================================
