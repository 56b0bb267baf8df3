-------------------------- MODULE PurchaseReversal --------------------------
(***************************************************************************)
(* Refunds of one paid Purchase Intent: request_reversal at the API, the   *)
(* outbox dispatcher, one PurchaseReversalWorkflow per PurchaseReversal    *)
(* row, the worker's refund activities and the merchant.  The payment is   *)
(* PRAVA_COMPLETED and the merchant order known throughout (both final, see*)
(* PurchaseLifecycle); fulfillment may still be under verification.        *)
(***************************************************************************)
EXTENDS Naturals, FiniteSets

CONSTANTS
  Amount,          \* PurchaseIntent.amount, in whole units
  MaxReversals,    \* bound: PurchaseReversal rows of the intent
  Dispatchers,     \* worker processes polling the outbox
  Slots,           \* activity slots of the workers
  NoSlot,          \* no activity attempt is awaited
  MaxRounds,       \* Len(_RECONCILIATION_DELAYS_SECONDS), 5 in the code
  MaxTries,        \* RetryPolicy.maximum_attempts of reconcile_refund, 5
  MaxFaults        \* bound: crashes, timeouts and lost answers of a behaviour

ReversalIds == 1..MaxReversals

ASSUME ReversalAssumption ==
  /\ Amount \in Nat \ {0}
  /\ MaxReversals \in Nat \ {0}
  /\ NoSlot \notin Slots
  /\ MaxRounds \in Nat \ {0}
  /\ MaxTries \in Nat \ {0}
  /\ MaxFaults \in Nat

VARIABLES
  fulfillment_status,  \* PurchaseIntent.fulfillment_status
  reversals,           \* the PurchaseReversal rows, numbered by created_at
  runs,                \* WorkflowRun wf_reversal_<id>.status
  events,              \* purchase_reversal.requested outbox events
  dispatcher,          \* per dispatcher: step of dispatch_once and its event
  workflow,            \* per reversal: PurchaseReversalWorkflow
  slot,                \* per slot: the activity attempt running on it
  refund,              \* external: the merchant's refund under our key
  refund_calls,        \* external: refund requests sent per reversal
  faults               \* crashes, timeouts and lost answers so far

row_vars == <<fulfillment_status, reversals, runs, events>>
worker_vars == <<dispatcher, workflow, slot>>
merchant_vars == <<refund, refund_calls>>
vars == <<row_vars, worker_vars, merchant_vars, faults>>

ReversalStatus == {"REQUESTED", "PROVIDER_PENDING", "PARTIALLY_REFUNDED",
                   "REFUNDED", "REJECTED", "FAILED_RETRYABLE",
                   "COMPENSATION_REQUIRED", "COMPENSATED", "CANCELLED"}
Settled == {"REFUNDED", "REJECTED", "COMPENSATION_REQUIRED"}
(* A refund tells VERIFIED and REVOKED from the other statuses, and those   *)
(* from each other never: NOT_STARTED, PENDING, PARTIAL, FAILED_RETRYABLE   *)
(* and FAILED_FINAL are OPEN.                                               *)
Fulfillment == {"OPEN", "VERIFIED", "REVOKED"}

(* MerchantRefundResult as the coordinator persists it.                     *)
RefundResults == [status : {"PENDING", "UNKNOWN", "PARTIALLY_REFUNDED",
                            "REFUNDED", "REJECTED"},
                  amount : 0..Amount, revoked : BOOLEAN, confirmed : BOOLEAN]
Unknown == [status |-> "UNKNOWN", amount |-> 0, revoked |-> FALSE, confirmed |-> FALSE]

NoReversal == [status |-> "NONE", requested |-> 0, refunded |-> 0, confirmed |-> FALSE]
Idle == [reversal |-> 1, activity |-> "EXECUTE", step |-> "IDLE", result |-> Unknown]

Init ==
  /\ fulfillment_status = "OPEN"
  /\ reversals = [r \in ReversalIds |-> NoReversal]
  /\ runs = [r \in ReversalIds |-> "NONE"]
  /\ events = [r \in ReversalIds |-> "NONE"]
  /\ dispatcher = [d \in Dispatchers |-> [step |-> "IDLE", reversal |-> 1]]
  /\ workflow = [r \in ReversalIds |->
                   [step |-> "NONE", round |-> 1, tries |-> 1, awaits |-> NoSlot]]
  /\ slot = [t \in Slots |-> Idle]
  /\ refund = [r \in ReversalIds |-> [status |-> "NONE", amount |-> 0, revoked |-> FALSE]]
  /\ refund_calls = [r \in ReversalIds |-> 0]
  /\ faults = 0

ReversalRows == [status : ReversalStatus \cup {"NONE"}, requested : 0..Amount,
                 refunded : 0..Amount, confirmed : BOOLEAN]
Deliveries == [step : {"IDLE", "READ", "STARTED"}, reversal : ReversalIds]
Workflows == [step : {"NONE", "EXECUTE", "RECONCILE", "COMPLETED", "FAILED"},
              round : 1..MaxRounds, tries : 1..MaxTries, awaits : Slots \cup {NoSlot}]
Steps == {"IDLE", "LOAD", "CALL", "PERSIST", "OK", "RETRYABLE", "NON_RETRYABLE", "DEAD"}
Attempts == [reversal : ReversalIds, activity : {"EXECUTE", "RECONCILE"}, step : Steps,
             result : RefundResults]
MerchantRefunds == [status : {"NONE", "IN_FLIGHT", "PENDING", "PARTIALLY_REFUNDED",
                              "REFUNDED", "REJECTED"},
                    amount : 0..Amount, revoked : BOOLEAN]

(* Every row, event, workflow and activity attempt stays in its domain; a   *)
(* workflow keeps to its reconciliation rounds and to RetryPolicy.          *)
TypeOK ==
  /\ fulfillment_status \in Fulfillment
  /\ reversals \in [ReversalIds -> ReversalRows]
  /\ runs \in [ReversalIds -> {"NONE", "PENDING", "RUNNING", "COMPLETED"}]
  /\ events \in [ReversalIds -> {"NONE", "UNPUBLISHED", "PUBLISHED"}]
  /\ dispatcher \in [Dispatchers -> Deliveries]
  /\ workflow \in [ReversalIds -> Workflows]
  /\ slot \in [Slots -> Attempts]
  /\ refund \in [ReversalIds -> MerchantRefunds]
  /\ refund_calls \in [ReversalIds -> Nat]
  /\ faults \in Nat

(***************************************************************************)
(* WorkflowService.request_reversal: one transaction under the intent's    *)
(* lock.  Without a requested_amount it asks for all that remains.         *)
(***************************************************************************)
(* The units of the amounts f of S; their number is the sum of the amounts. *)
Units(f, S) == UNION {{r} \X (1..f[r]) : r \in S}
Total(f, S) == Cardinality(Units(f, S))

\* Mutant: only refunds already paid out count against the payment.
CommittedPaid == Total([r \in ReversalIds |-> reversals[r].refunded], ReversalIds)

Committed ==
  Total([r \in ReversalIds |-> reversals[r].requested],
        {r \in ReversalIds : reversals[r].status \notin {"NONE", "REJECTED", "CANCELLED"}})

Remaining == Amount - Committed

request_reversal(r, requested) ==
  /\ reversals[r].status = "NONE"
  /\ \A q \in 1..(r - 1) : reversals[q].status # "NONE"
  /\ requested > 0
  /\ requested <= Remaining
  /\ reversals' = [reversals EXCEPT ![r] = [status |-> "REQUESTED", requested |-> requested,
                                            refunded |-> 0, confirmed |-> FALSE]]
  /\ runs' = [runs EXCEPT ![r] = "PENDING"]
  /\ events' = [events EXCEPT ![r] = "UNPUBLISHED"]
  /\ UNCHANGED <<fulfillment_status, worker_vars, merchant_vars, faults>>

(* purchase_status and _derive_purchase_state of a paid intent: the newest  *)
(* reversal speaks for all of them.                                         *)
Newest(r) == /\ reversals[r].status # "NONE"
             /\ \A q \in ReversalIds : q > r => reversals[q].status = "NONE"
RefundOpen == {"REQUESTED", "PROVIDER_PENDING", "PARTIALLY_REFUNDED",
               "FAILED_RETRYABLE", "COMPENSATION_REQUIRED"}

purchase_state ==
  IF \E r \in ReversalIds : /\ Newest(r) /\ reversals[r].status = "REFUNDED"
                            /\ reversals[r].refunded = Amount
  THEN "REFUNDED"
  ELSE IF \E r \in ReversalIds : Newest(r) /\ reversals[r].status \in RefundOpen
  THEN "REFUND_PENDING"
  ELSE IF fulfillment_status = "VERIFIED" THEN "PURCHASE_FULFILLED" ELSE "PAID_UNFULFILLED"

(* _verify_fulfillment of the checkout worker, which never looks at         *)
(* reversals.  An OPEN purchase need not get here: it may have failed.      *)
FulfillmentVerified ==
  /\ fulfillment_status = "OPEN"
  /\ fulfillment_status' = "VERIFIED"
  /\ UNCHANGED <<reversals, runs, events, worker_vars, merchant_vars, faults>>

(***************************************************************************)
(* CheckoutOutboxDispatcher.dispatch_once for reversal events: read the    *)
(* oldest unpublished one, start its workflow under a deterministic id     *)
(* (a duplicate start only acknowledges), publish.                         *)
(***************************************************************************)
DispatchRead(d) ==
  /\ dispatcher[d].step = "IDLE"
  /\ \E r \in ReversalIds :
       /\ events[r] = "UNPUBLISHED"
       /\ \A q \in 1..(r - 1) : events[q] # "UNPUBLISHED"
       /\ dispatcher' = [dispatcher EXCEPT ![d] = [step |-> "READ", reversal |-> r]]
  /\ UNCHANGED <<row_vars, workflow, slot, merchant_vars, faults>>

\* Mutant: a published event may find its workflow not started.
DispatchStartsLater(d) ==
  /\ dispatcher[d].step = "READ"
  /\ dispatcher' = [dispatcher EXCEPT ![d].step = "STARTED"]
  /\ UNCHANGED <<row_vars, workflow, slot, merchant_vars, faults>>

DispatchStart(d) ==
  /\ dispatcher[d].step = "READ"
  /\ dispatcher' = [dispatcher EXCEPT ![d].step = "STARTED"]
  /\ workflow' = [workflow EXCEPT ![dispatcher[d].reversal].step =
                    IF @ = "NONE" THEN "EXECUTE" ELSE @]
  /\ UNCHANGED <<row_vars, slot, merchant_vars, faults>>

\* Mutant: the late publication does not look at the run.
DispatchPublishRuns(d) ==
  LET r == dispatcher[d].reversal IN
  /\ dispatcher[d].step = "STARTED"
  /\ dispatcher' = [dispatcher EXCEPT ![d].step = "IDLE"]
  /\ events' = [events EXCEPT ![r] = "PUBLISHED"]
  /\ runs' = [runs EXCEPT ![r] = "RUNNING"]
  /\ UNCHANGED <<fulfillment_status, reversals, workflow, slot, merchant_vars, faults>>

DispatchPublish(d) ==
  LET r == dispatcher[d].reversal IN
  /\ dispatcher[d].step = "STARTED"
  /\ dispatcher' = [dispatcher EXCEPT ![d].step = "IDLE"]
  /\ events' = [events EXCEPT ![r] = "PUBLISHED"]
  /\ runs' = [runs EXCEPT ![r] =
                IF events[r] = "UNPUBLISHED" /\ @ = "PENDING" THEN "RUNNING" ELSE @]
  /\ UNCHANGED <<fulfillment_status, reversals, workflow, slot, merchant_vars, faults>>

(***************************************************************************)
(* PurchaseReversalWorkflow.run: one execute_refund that is never retried, *)
(* then reconciliation rounds while the result asks for them.  The workflow*)
(* also completes when the last round still asks.                          *)
(***************************************************************************)
Advance(w, step) == [w EXCEPT !.step = step, !.tries = 1, !.awaits = NoSlot]

Unsettled(result) == result.status \in {"PENDING", "UNKNOWN", "PARTIALLY_REFUNDED"}

AfterSuccess(w, result) ==
  CASE ~Unsettled(result) -> Advance(w, "COMPLETED")
    [] Unsettled(result) /\ w.step = "EXECUTE" -> Advance(w, "RECONCILE")
    [] Unsettled(result) /\ w.step # "EXECUTE" ->
         IF w.round < MaxRounds
         THEN [Advance(w, "RECONCILE") EXCEPT !.round = w.round + 1]
         ELSE Advance(w, "COMPLETED")

\* Mutant: the refund request is retried like a reconciliation.
RetriesRefund(w, retryable) ==
  IF retryable /\ w.tries < MaxTries
  THEN [w EXCEPT !.tries = w.tries + 1, !.awaits = NoSlot]
  ELSE Advance(w, "FAILED")

AfterFailure(w, retryable) ==
  IF retryable /\ w.step = "RECONCILE" /\ w.tries < MaxTries
  THEN [w EXCEPT !.tries = w.tries + 1, !.awaits = NoSlot]
  ELSE Advance(w, "FAILED")

(* Slots are alike: it makes no difference which free one takes the attempt.*)
FreeSlot == CHOOSE t \in Slots : slot[t].step = "IDLE"

Schedule(r, t) ==
  /\ workflow[r].step \in {"EXECUTE", "RECONCILE"}
  /\ workflow[r].awaits = NoSlot
  /\ slot[t].step = "IDLE"
  /\ t = FreeSlot
  /\ workflow' = [workflow EXCEPT ![r].awaits = t]
  /\ slot' = [slot EXCEPT ![t] = [reversal |-> r, activity |-> workflow[r].step,
                                  step |-> "LOAD", result |-> Unknown]]
  /\ UNCHANGED <<row_vars, dispatcher, merchant_vars, faults>>

(* The attempt ends; Temporal hears of it only while it awaits it.          *)
Awaited(t) == workflow[slot[t].reversal].awaits = t

Complete(t) ==
  LET r == slot[t].reversal IN
  /\ slot[t].step \in {"OK", "RETRYABLE", "NON_RETRYABLE"}
  /\ workflow' = IF ~Awaited(t) THEN workflow
                 ELSE [workflow EXCEPT ![r] =
                         IF slot[t].step = "OK" THEN AfterSuccess(@, slot[t].result)
                         ELSE AfterFailure(@, slot[t].step = "RETRYABLE")]
  /\ slot' = [slot EXCEPT ![t] = Idle]
  /\ UNCHANGED <<row_vars, dispatcher, merchant_vars, faults>>

(***************************************************************************)
(* The refund activities: a transaction that loads the reversal, one call  *)
(* to the merchant, a transaction that persists the answer.                *)
(***************************************************************************)
To(t, step) == slot' = [slot EXCEPT ![t].step = step]

Loadable == {"REQUESTED", "PROVIDER_PENDING", "PARTIALLY_REFUNDED", "FAILED_RETRYABLE"}

load_refund_state(t) ==
  /\ slot[t].step = "LOAD"
  /\ To(t, IF reversals[slot[t].reversal].status \in Loadable THEN "CALL" ELSE "NON_RETRYABLE")
  /\ UNCHANGED <<row_vars, dispatcher, workflow, merchant_vars, faults>>

Answer(m) == [status |-> m.status, amount |-> m.amount, revoked |-> m.revoked,
              confirmed |-> TRUE]
Answered(t, result) == slot' = [slot EXCEPT ![t].step = "PERSIST", ![t].result = result]

(* The merchant opens the refund, or knows it already (Idempotency-Key).    *)
Opened(m) == IF m.status \in {"NONE", "IN_FLIGHT"} THEN [m EXCEPT !.status = "PENDING"] ELSE m
Sent(r) == refund_calls' = [refund_calls EXCEPT ![r] = @ + 1]
CountFault == faults < MaxFaults /\ faults' = faults + 1

RefundAnswered(t) ==
  LET r == slot[t].reversal IN
  /\ slot[t].step = "CALL" /\ slot[t].activity = "EXECUTE"
  /\ Sent(r)
  /\ refund' = [refund EXCEPT ![r] = Opened(@)]
  /\ Answered(t, Answer(refund'[r]))
  /\ UNCHANGED <<row_vars, dispatcher, workflow, faults>>

(* A timeout, a 429 or a 5xx: the request may still arrive, or never will.  *)
RefundUncertain(t) ==
  LET r == slot[t].reversal IN
  /\ slot[t].step = "CALL" /\ slot[t].activity = "EXECUTE"
  /\ CountFault
  /\ Sent(r)
  /\ refund' = [refund EXCEPT ![r].status = IF @ = "NONE" THEN "IN_FLIGHT" ELSE @]
  /\ Answered(t, Unknown)
  /\ UNCHANGED <<row_vars, dispatcher, workflow>>

(* A refusal (4xx), or an answer _parse_refund cannot read: it raises.      *)
RefundRaises(t) ==
  LET r == slot[t].reversal IN
  /\ slot[t].step = "CALL" /\ slot[t].activity = "EXECUTE"
  /\ CountFault
  /\ Sent(r)
  /\ \/ UNCHANGED refund
     \/ refund' = [refund EXCEPT ![r] = Opened(@)]
  /\ To(t, "NON_RETRYABLE")
  /\ UNCHANGED <<row_vars, dispatcher, workflow>>

(* reconcile_refund: a GET by idempotency key; an unknown key is a 404.     *)
QueryAnswered(t) ==
  LET r == slot[t].reversal IN
  /\ slot[t].step = "CALL" /\ slot[t].activity = "RECONCILE"
  /\ IF refund[r].status \in {"NONE", "IN_FLIGHT"}
     THEN To(t, "NON_RETRYABLE")
     ELSE Answered(t, Answer(refund[r]))
  /\ UNCHANGED <<row_vars, dispatcher, workflow, merchant_vars, faults>>

QueryFails(t) ==
  /\ slot[t].step = "CALL" /\ slot[t].activity = "RECONCILE"
  /\ CountFault
  /\ \E failure \in {"RETRYABLE", "NON_RETRYABLE"} : To(t, failure)
  /\ UNCHANGED <<row_vars, dispatcher, workflow, merchant_vars>>

(***************************************************************************)
(* _persist_refund_result                                                  *)
(***************************************************************************)
(* ReversalTransitionService._allowed                                       *)
Allowed ==
  [s \in ReversalStatus \cup {"NONE"} |->
     CASE s = "REQUESTED" -> {"PROVIDER_PENDING", "PARTIALLY_REFUNDED", "REFUNDED",
                              "REJECTED", "COMPENSATION_REQUIRED", "CANCELLED"}
       [] s = "PROVIDER_PENDING" -> {"PARTIALLY_REFUNDED", "REFUNDED", "REJECTED",
                                     "FAILED_RETRYABLE", "COMPENSATION_REQUIRED"}
       [] s = "FAILED_RETRYABLE" -> {"PROVIDER_PENDING", "COMPENSATION_REQUIRED", "CANCELLED"}
       [] s = "PARTIALLY_REFUNDED" -> {"PROVIDER_PENDING", "REFUNDED", "COMPENSATION_REQUIRED"}
       [] s = "COMPENSATION_REQUIRED" -> {"COMPENSATED"}
       [] s \in {"REFUNDED", "REJECTED", "COMPENSATED", "CANCELLED", "NONE"} -> {}]

\* Mutant: a refund that was answered is REFUNDED, whatever its amount.
AnsweredIsRefunded(row, result) ==
  CASE result.status \in {"PENDING", "UNKNOWN"} -> "PROVIDER_PENDING"
    [] result.status \in {"PARTIALLY_REFUNDED", "REJECTED", "REFUNDED"} -> result.status

RefundStatus(row, result) ==
  CASE result.status \in {"PENDING", "UNKNOWN"} -> "PROVIDER_PENDING"
    [] result.status \in {"PARTIALLY_REFUNDED", "REJECTED"} -> result.status
    [] result.status = "REFUNDED" ->
         IF result.amount = row.requested
            /\ (fulfillment_status # "VERIFIED" \/ result.revoked)
         THEN "REFUNDED" ELSE "COMPENSATION_REQUIRED"

\* Mutant: a late result is written without asking the transition table.
AnyTransition(row, result) == result.amount > row.requested

RefundConflict(row, result) ==
  \/ result.amount > row.requested
  \/ LET status == RefundStatus(row, result)
     IN status # row.status /\ status \notin Allowed[row.status]

TakesAccess(status, result) ==
  status = "REFUNDED" /\ result.revoked /\ fulfillment_status = "VERIFIED"

persist_refund_result(t) ==
  LET r == slot[t].reversal
      result == slot[t].result
      status == RefundStatus(reversals[r], result)
  IN
  /\ slot[t].step = "PERSIST"
  /\ ~RefundConflict(reversals[r], result)
  /\ reversals' = [reversals EXCEPT ![r].status = status,
                                    ![r].refunded = result.amount,
                                    ![r].confirmed = result.confirmed]
  /\ runs' = [runs EXCEPT ![r] = IF Unsettled(result) THEN "RUNNING" ELSE "COMPLETED"]
  /\ fulfillment_status' =
       IF TakesAccess(status, result) THEN "REVOKED" ELSE fulfillment_status
  /\ To(t, "OK")
  /\ UNCHANGED <<events, dispatcher, workflow, merchant_vars, faults>>

(* INVALID_RESPONSE and InvalidTransitionError are not retried.             *)
PersistRefused(t) ==
  /\ slot[t].step = "PERSIST"
  /\ RefundConflict(reversals[slot[t].reversal], slot[t].result)
  /\ To(t, "NON_RETRYABLE")
  /\ UNCHANGED <<row_vars, dispatcher, workflow, merchant_vars, faults>>

(***************************************************************************)
(* External: the merchant.  It refunds what it was asked under one key, in *)
(* one or more parts, perhaps less than asked, or rejects it before paying *)
(* anything.  A late request still opens the refund.                       *)
(***************************************************************************)
MerchantReceives(r) ==
  /\ refund[r].status = "IN_FLIGHT"
  /\ refund' = [refund EXCEPT ![r] = Opened(@)]
  /\ UNCHANGED <<row_vars, worker_vars, refund_calls, faults>>

MerchantPays(r) ==
  /\ refund[r].status \in {"PENDING", "PARTIALLY_REFUNDED"}
  /\ \E amount \in (refund[r].amount + 1)..reversals[r].requested, revoked \in BOOLEAN :
       \/ refund' = [refund EXCEPT ![r] = [status |-> "REFUNDED", amount |-> amount,
                                           revoked |-> revoked]]
       \/ /\ amount < reversals[r].requested
          /\ refund' = [refund EXCEPT ![r] = [status |-> "PARTIALLY_REFUNDED",
                                              amount |-> amount, revoked |-> FALSE]]
  /\ UNCHANGED <<row_vars, worker_vars, refund_calls, faults>>

MerchantRejects(r) ==
  /\ refund[r].status = "PENDING"
  /\ refund' = [refund EXCEPT ![r].status = "REJECTED"]
  /\ UNCHANGED <<row_vars, worker_vars, refund_calls, faults>>

(***************************************************************************)
(* Crashes and timeouts (start_to_close_timeout).                          *)
(***************************************************************************)
GiveUp(t) ==
  /\ workflow' = [workflow EXCEPT ![slot[t].reversal] = AfterFailure(@, TRUE)]
  /\ slot' = IF slot[t].step = "DEAD" THEN [slot EXCEPT ![t] = Idle] ELSE slot
  /\ UNCHANGED <<row_vars, dispatcher, merchant_vars>>

TimeoutOfDead(t) == slot[t].step = "DEAD" /\ GiveUp(t) /\ UNCHANGED faults

(* The attempt is given up while it still runs.                             *)
ActivityTimeout(t) ==
  /\ slot[t].step \notin {"IDLE", "DEAD"}
  /\ Awaited(t)
  /\ CountFault
  /\ GiveUp(t)

WorkerCrash(t) ==
  /\ slot[t].step \notin {"IDLE", "DEAD"}
  /\ CountFault
  /\ slot' = [slot EXCEPT ![t] = IF Awaited(t) THEN [@ EXCEPT !.step = "DEAD"] ELSE Idle]
  /\ UNCHANGED <<row_vars, dispatcher, workflow, merchant_vars>>

DispatcherCrash(d) ==
  /\ dispatcher[d].step # "IDLE"
  /\ CountFault
  /\ dispatcher' = [dispatcher EXCEPT ![d].step = "IDLE"]
  /\ UNCHANGED <<row_vars, workflow, slot, merchant_vars>>

ActivityStep(t) ==
  \/ load_refund_state(t)
  \/ RefundAnswered(t) \/ RefundUncertain(t) \/ RefundRaises(t)
  \/ QueryAnswered(t) \/ QueryFails(t)
  \/ persist_refund_result(t) \/ PersistRefused(t)
  \/ Complete(t)

Next ==
  \/ \E r \in ReversalIds, requested \in 1..Amount : request_reversal(r, requested)
  \/ FulfillmentVerified
  \/ \E d \in Dispatchers :
       DispatchRead(d) \/ DispatchStart(d) \/ DispatchPublish(d) \/ DispatcherCrash(d)
  \/ \E r \in ReversalIds, t \in Slots : Schedule(r, t)
  \/ \E t \in Slots :
       ActivityStep(t) \/ TimeoutOfDead(t) \/ ActivityTimeout(t) \/ WorkerCrash(t)
  \/ \E r \in ReversalIds : MerchantReceives(r) \/ MerchantPays(r) \/ MerchantRejects(r)

Spec == Init /\ [][Next]_vars

(***************************************************************************)
(* Properties.                                                             *)
(***************************************************************************)

(* The merchant never pays back more than was paid, however requests,       *)
(* rejections and partial refunds interleave: request_reversal counts what  *)
(* was asked for, not what was paid back.                                   *)
RefundsWithinPayment ==
  Total([r \in ReversalIds |-> refund[r].amount], ReversalIds) <= Amount

(* "Request one idempotent refund, then reconcile without replaying the     *)
(* mutation": one refund request per reversal, over redelivered events,     *)
(* crashed workers and abandoned attempts.                                  *)
OneRefundPerReversal == \A r \in ReversalIds : refund_calls[r] <= 1

(* The ledger is never ahead of the merchant, and a settled reversal says   *)
(* what the merchant did, whichever of several late attempts wrote it.      *)
LedgerMatchesMerchant ==
  \A r \in ReversalIds :
    /\ reversals[r].refunded <= refund[r].amount
    /\ reversals[r].status = "REFUNDED" =>
         refund[r].status = "REFUNDED" /\ refund[r].amount = reversals[r].requested
    /\ reversals[r].status = "REJECTED" => refund[r].status = "REJECTED"
    /\ reversals[r].status = "COMPENSATION_REQUIRED" =>
         refund[r].status = "REFUNDED" /\ reversals[r].refunded = refund[r].amount

(* A settled reversal keeps its status and its refunded amount, though late *)
(* attempts still persist what they read earlier.                           *)
SettledReversalStays ==
  [][\A r \in ReversalIds :
       reversals[r].status \in Settled => reversals'[r] = reversals[r]]_vars

(* A run is COMPLETED exactly when its reversal is settled:                 *)
(* _persist_refund_result and the dispatcher write it without looking for   *)
(* a terminal status.                                                       *)
RunMatchesReversal ==
  \A r \in ReversalIds : runs[r] = "COMPLETED" <=> reversals[r].status \in Settled

(* Entitlements are recorded as revoked only when the merchant revoked them *)
(* for a refund it paid as asked.                                           *)
RevokedWasRefunded ==
  fulfillment_status = "REVOKED" =>
    \E r \in ReversalIds : reversals[r].status = "REFUNDED" /\ refund[r].revoked

(* A purchase is shown as REFUNDED only when the merchant paid everything   *)
(* back, although purchase_status reads the newest reversal alone.          *)
ShownRefundTrue ==
  purchase_state = "REFUNDED" =>
    \E r \in ReversalIds : refund[r].status = "REFUNDED" /\ refund[r].amount = Amount

(* The run, the fulfillment row and the state shown of the purchase follow  *)
(* the reversals they belong to.                                            *)
RefundRowsAgree == RunMatchesReversal /\ RevokedWasRefunded /\ ShownRefundTrue

(***************************************************************************)
(* Liveness.  Fair: the dispatcher loops, Temporal's scheduling, a running *)
(* activity, the timeout of a dead attempt.  No more is needed than that   *)
(* one of them goes on while any can, for they have finitely much to do.   *)
(* Not fair: people, faults, the merchant.                                 *)
(***************************************************************************)
FairSpec ==
  /\ Spec
  /\ WF_vars(\/ \E d \in Dispatchers : DispatchRead(d) \/ DispatchStart(d) \/ DispatchPublish(d)
             \/ \E r \in ReversalIds, t \in Slots : Schedule(r, t)
             \/ \E t \in Slots : ActivityStep(t) \/ TimeoutOfDead(t))

(* Every requested refund is handed to Temporal and its workflow ends: in   *)
(* the end no reversal waits, whatever was lost or crashed on the way.      *)
RefundWorkflowEnds ==
  <>[](\A r \in ReversalIds :
         reversals[r].status # "NONE" => workflow[r].step \in {"COMPLETED", "FAILED"})
=============================================================================
