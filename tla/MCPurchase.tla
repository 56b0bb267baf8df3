----------------------------- MODULE MCPurchase -----------------------------
(***************************************************************************)
(* Values of the constants for TLC.                                        *)
(***************************************************************************)
EXTENDS PurchaseSystem

OneRole == <<"finance">>
TwoRoles == <<"finance", "security">>
EveryRole == [a \in Actors |-> Roles]
(* One person holds both roles, the other one of them.                      *)
TwoPeople == [ann |-> {"finance", "security"}, cy |-> {"security"}]
=============================================================================
