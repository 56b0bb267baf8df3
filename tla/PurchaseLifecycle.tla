-------------------------- MODULE PurchaseLifecycle --------------------------
(***************************************************************************)
(* What a purchase promises, whatever API, worker and providers do: the    *)
(* canonical payment and fulfillment machines of                           *)
(* python/domain/state_machines.py, one table entry a step, tied to the    *)
(* one order the merchant holds.  The code departs from them in the two    *)
(* places named below and in no other:                                     *)
(*  - PaymentUnlisted, FulfillmentUnlisted: transitions the worker makes   *)
(*    and the tables do not list;                                          *)
(*  - ApprovedCommit: the one commit that skips an intermediate state.  It *)
(*    logs MERCHANT_APPROVED and the state after it in one transaction, so *)
(*    the column goes from CHECKOUT_PENDING or UNCERTAIN to REPORTING or   *)
(*    PRAVA_COMPLETED.  Every other commit makes one transition.           *)
(***************************************************************************)
VARIABLES payment,      \* PaymentStatus of the intent
          fulfillment,  \* FulfillmentStatus of the intent
          charge        \* the merchant's order: NONE, PENDING or its outcome

(* PaymentTransitionService._allowed                                        *)
PaymentAllowed ==
  [NOT_STARTED |-> {"SESSION_CREATED"},
   SESSION_CREATED |-> {"CARDHOLDER_PENDING", "EXPIRED", "FAILED", "UNCERTAIN"},
   CARDHOLDER_PENDING |-> {"CHECKOUT_PENDING", "EXPIRED", "FAILED", "UNCERTAIN"},
   CHECKOUT_PENDING |-> {"MERCHANT_APPROVED", "DECLINED", "UNCERTAIN"},
   MERCHANT_APPROVED |-> {"REPORTING", "UNCERTAIN"},
   REPORTING |-> {"PRAVA_COMPLETED", "UNCERTAIN"},
   UNCERTAIN |-> {"MERCHANT_APPROVED", "REPORTING", "PRAVA_COMPLETED", "DECLINED", "FAILED"},
   PRAVA_COMPLETED |-> {}, DECLINED |-> {}, EXPIRED |-> {}, FAILED |-> {}]

(* FulfillmentTransitionService._allowed                                    *)
FulfillmentAllowed ==
  [NOT_STARTED |-> {"PENDING"},
   PENDING |-> {"PARTIAL", "VERIFIED", "FAILED_RETRYABLE", "FAILED_FINAL"},
   PARTIAL |-> {"VERIFIED", "FAILED_RETRYABLE", "FAILED_FINAL"},
   FAILED_RETRYABLE |-> {"PENDING", "VERIFIED"},
   VERIFIED |-> {"REVOKED"},
   FAILED_FINAL |-> {}, REVOKED |-> {}]

(* A payment Prava completed at once: _persist_checkout_result goes from    *)
(* MERCHANT_APPROVED to PRAVA_COMPLETED without REPORTING.                  *)
PaymentUnlisted(from, to) == from = "MERCHANT_APPROVED" /\ to = "PRAVA_COMPLETED"

(* _verify_fulfillment writes a second observation over a retryable failure *)
(* without going through PENDING.                                           *)
FulfillmentUnlisted(from, to) == from = "FAILED_RETRYABLE" /\ to \in {"PARTIAL", "FAILED_FINAL"}

PaymentMove(from, to) == to \in PaymentAllowed[from] \/ PaymentUnlisted(from, to)
FulfillmentMove(from, to) == to \in FulfillmentAllowed[from] \/ FulfillmentUnlisted(from, to)

(* The two rows of the transition log an approved order writes in one       *)
(* transaction of _persist_checkout_result.                                 *)
ApprovedCommit(from, to) ==
  /\ from \in {"CHECKOUT_PENDING", "UNCERTAIN"} /\ to \in {"REPORTING", "PRAVA_COMPLETED"}
  /\ PaymentMove(from, "MERCHANT_APPROVED") /\ PaymentMove("MERCHANT_APPROVED", to)

Init == payment = "NOT_STARTED" /\ fulfillment = "NOT_STARTED" /\ charge = "NONE"

(* Money moves: an uncertain payment changes only once the merchant's       *)
(* outcome is known, and a final payment state agrees with that outcome.    *)
PaymentStep ==
  /\ PaymentMove(payment, payment') \/ ApprovedCommit(payment, payment')
  /\ payment = "UNCERTAIN" => charge \in {"APPROVED", "DECLINED"}
  /\ payment' \in {"MERCHANT_APPROVED", "REPORTING", "PRAVA_COMPLETED"} => charge = "APPROVED"
  /\ payment' = "DECLINED" => charge = "DECLINED"
  /\ UNCHANGED <<fulfillment, charge>>

(* Fulfillment starts only after Prava completed the payment.               *)
FulfillmentStep ==
  /\ FulfillmentMove(fulfillment, fulfillment')
  /\ fulfillment = "NOT_STARTED" => payment = "PRAVA_COMPLETED" /\ fulfillment' = "PENDING"
  /\ UNCHANGED <<payment, charge>>

(* The merchant gets a request only from a dispatched checkout, once.        *)
ChargeStep ==
  /\ \/ charge = "NONE" /\ payment = "CHECKOUT_PENDING"
        /\ charge' \in {"PENDING", "APPROVED", "DECLINED"}
     \/ charge = "PENDING" /\ charge' \in {"APPROVED", "DECLINED"}
  /\ UNCHANGED <<payment, fulfillment>>

Next == PaymentStep \/ FulfillmentStep \/ ChargeStep

Spec == Init /\ [][Next]_<<payment, fulfillment, charge>>
=============================================================================
