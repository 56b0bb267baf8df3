--------------------------- MODULE MCSellerEvidence ---------------------------
(***************************************************************************)
(* The owner with each of the roles an identity may have, a reviewer and a *)
(* platform operator.                                                      *)
(***************************************************************************)
EXTENDS SellerEvidence

MCCallers == {[actor |-> "owner", role |-> "SELLER_EDITOR"],
              [actor |-> "owner", role |-> "SELLER_REVIEWER"],
              [actor |-> "other", role |-> "SELLER_REVIEWER"],
              [actor |-> "operator", role |-> "PLATFORM_OPERATOR"]}
=============================================================================
