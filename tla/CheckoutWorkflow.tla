-------------------------- MODULE CheckoutWorkflow --------------------------
(***************************************************************************)
(* CheckoutOutboxDispatcher and the Temporal workflow                      *)
(* PurchaseCheckoutWorkflow.  Temporal keeps the workflow's own state, so  *)
(* the workflow never crashes; an activity attempt runs on a worker slot,  *)
(* may crash between two of its transactions, and may be given up by       *)
(* Temporal (start_to_close_timeout) while it still runs.                  *)
(***************************************************************************)
EXTENDS SessionService

CONSTANTS
  Dispatchers,       \* worker processes polling the outbox
  Slots,             \* activity slots of the workers
  NoSlot,            \* no activity attempt is awaited
  MaxRounds,         \* Len(_RECONCILIATION_DELAYS_SECONDS), 5 in the code
  MaxTries,          \* RetryPolicy.maximum_attempts, 5 in the code
  MaxFailTries,      \* the same for fail_checkout_workflow, 3 in the code
  ProviderFaults,    \* what may go wrong at the merchant, at Prava and with a receipt
  Observations       \* what verify_entitlements may add up to

FaultKinds == {"exception", "uncertain", "report_lost", "mismatch", "order_id", "error",
               "receipt"}

ASSUME WorkerAssumption ==
  /\ NoSlot \notin Slots
  /\ MaxRounds \in Nat \ {0}
  /\ MaxTries \in Nat \ {0}
  /\ MaxFailTries \in 1..MaxTries
  /\ ProviderFaults \subseteq FaultKinds
  /\ Observations \subseteq {"VERIFIED", "PARTIAL", "FAILED_RETRYABLE", "FAILED_FINAL"}

VARIABLES
  dispatcher,      \* per dispatcher: step of dispatch_once and the event it read
  workflow,        \* PurchaseCheckoutWorkflow
  slot,            \* per slot: the activity attempt running on it
  merchant,        \* external: the merchant's order under our idempotency key
  merchant_calls,  \* external: isolated checkouts handed to the providers
  prava            \* external: the outcome Prava was told

worker_vars == <<dispatcher, workflow, slot, merchant, merchant_calls, prava>>
vars == <<store_vars, requests, worker_vars>>

Activities == {"EXECUTE", "RECONCILE", "VERIFY", "FAIL_RECONCILE", "FAIL_FULFILL"}
Steps == {"IDLE", "PREPARE", "DISPATCH", "QUERY", "PERSIST", "START", "OBSERVE",
          "RESULT", "FINISH", "FINISH_FAILED", "ABORT", "OK", "RETRYABLE",
          "NON_RETRYABLE", "DEAD"}

Idle == [activity |-> "EXECUTE", step |-> "IDLE", result |-> NoResult,
         target |-> "FAILED_RETRYABLE"]

WorkerInit ==
  /\ dispatcher = [d \in Dispatchers |-> [step |-> "IDLE", session |-> 1]]
  /\ workflow = [step |-> "NONE", session |-> 1, round |-> 1, tries |-> 1,
                 reference |-> "PRAVA", awaits |-> NoSlot]
  /\ slot = [t \in Slots |-> Idle]
  /\ merchant = "NONE"
  /\ merchant_calls = 0
  /\ prava = "NONE"

WorkerTypeOK ==
  /\ dispatcher \in [Dispatchers -> [step : {"IDLE", "READ", "STARTED"},
                                     session : SessionIds]]
  /\ workflow \in [step : Activities \cup {"NONE", "COMPLETED", "FAILED"},
                   session : SessionIds, round : 1..MaxRounds, tries : 1..MaxTries,
                   reference : {"PRAVA", "RECONCILE"}, awaits : Slots \cup {NoSlot}]
  /\ slot \in [Slots -> [activity : Activities, step : Steps,
                         result : CheckoutResults,
                         target : DOMAIN ResultKey]]
  /\ merchant \in {"NONE", "IN_FLIGHT", "PENDING", "APPROVED", "DECLINED"}
  /\ merchant_calls \in Nat
  /\ prava \in {"NONE", "APPROVED", "DECLINED"}

(***************************************************************************)
(* CheckoutOutboxDispatcher.dispatch_once: read an unpublished event, start*)
(* the workflow under its deterministic id, publish.                       *)
(***************************************************************************)
DispatchRead(d) ==
  /\ dispatcher[d].step = "IDLE"
  /\ \E s \in SessionIds :
       /\ events[s] = "UNPUBLISHED"
       /\ dispatcher' = [dispatcher EXCEPT ![d] = [step |-> "READ", session |-> s]]
  /\ UNCHANGED <<store_vars, requests, workflow, slot, merchant, merchant_calls, prava>>

(* WorkflowIDReusePolicy.REJECT_DUPLICATE: a second start acknowledges.     *)
StartedWorkflow(w, s) ==
  IF w.step = "NONE" THEN [w EXCEPT !.step = "EXECUTE", !.session = s] ELSE w

DispatchStart(d) ==
  /\ dispatcher[d].step = "READ"
  /\ workflow' = StartedWorkflow(workflow, dispatcher[d].session)
  /\ dispatcher' = [dispatcher EXCEPT ![d].step = "STARTED"]
  /\ UNCHANGED <<store_vars, requests, slot, merchant, merchant_calls, prava>>

DispatchPublish(d) ==
  /\ dispatcher[d].step = "STARTED"
  /\ dispatcher' = [dispatcher EXCEPT ![d].step = "IDLE"]
  /\ LET s == dispatcher[d].session
     IN IF events[s] = "PUBLISHED"
        THEN UNCHANGED <<events, run>>
        ELSE /\ events' = [events EXCEPT ![s] = "PUBLISHED"]
             /\ run' = IF run = "PENDING" THEN "RUNNING" ELSE run
  /\ UNCHANGED <<authority_vars, clock_vars, payment_status, session_vars,
                 ledger_vars, requests, workflow, slot, merchant, merchant_calls, prava>>

(* A crash, or an unreachable Temporal, leaves the event unpublished.       *)
DispatcherCrash(d) ==
  /\ dispatcher[d].step # "IDLE"
  /\ dispatcher' = [dispatcher EXCEPT ![d].step = "IDLE"]
  /\ UNCHANGED <<store_vars, requests, workflow, slot, merchant, merchant_calls, prava>>

(***************************************************************************)
(* PurchaseCheckoutWorkflow.run: what follows an activity's success,       *)
(* failure or timeout.                                                     *)
(***************************************************************************)
FirstStep == [EXECUTE |-> "PREPARE", RECONCILE |-> "QUERY", VERIFY |-> "START",
              FAIL_RECONCILE |-> "FINISH_FAILED", FAIL_FULFILL |-> "FINISH_FAILED"]

Advance(w, step) == [w EXCEPT !.step = step, !.tries = 1, !.awaits = NoSlot]

AfterCheckout(w, r) ==
  CASE r.required /\ w.step = "EXECUTE" ->
         [Advance(w, "RECONCILE") EXCEPT !.reference = r.reference]
    [] r.required /\ w.step = "RECONCILE" ->
         IF w.round < MaxRounds
         THEN [Advance(w, "RECONCILE") EXCEPT !.round = w.round + 1]
         ELSE Advance(w, "FAIL_RECONCILE")
    [] ~r.required ->
         Advance(w, IF r.outcome = "APPROVED" /\ r.reported /\ r.order_id
                    THEN "VERIFY" ELSE "COMPLETED")

AfterSuccess(w, r) ==
  CASE w.step \in {"EXECUTE", "RECONCILE"} -> AfterCheckout(w, r)
    [] w.step \in {"VERIFY", "FAIL_RECONCILE"} -> Advance(w, "COMPLETED")
    [] w.step = "FAIL_FULFILL" -> Advance(w, "FAILED")

(* RetryPolicy.maximum_attempts of each activity.                           *)
MaximumAttempts == [EXECUTE |-> 1, RECONCILE |-> MaxTries, VERIFY |-> MaxTries,
                    FAIL_RECONCILE |-> MaxFailTries, FAIL_FULFILL |-> MaxFailTries]
MayRetry(w) == w.tries < MaximumAttempts[w.step]

\* Mutant: the last failure of an activity is swallowed and not acted on.
FailureSwallowed(w, retryable) ==
  IF retryable /\ MayRetry(w)
  THEN [w EXCEPT !.tries = w.tries + 1, !.awaits = NoSlot] ELSE w

AfterFailure(w, retryable) ==
  IF retryable /\ MayRetry(w)
  THEN [w EXCEPT !.tries = w.tries + 1, !.awaits = NoSlot]
  ELSE Advance(w, IF w.step = "VERIFY" THEN "FAIL_FULFILL" ELSE "FAILED")

(* Slots are alike: it makes no difference which free one takes the attempt.*)
FreeSlot == CHOOSE t \in Slots : slot[t].step = "IDLE"

Schedule(t) ==
  /\ workflow.step \in Activities
  /\ workflow.awaits = NoSlot
  /\ slot[t].step = "IDLE"
  /\ t = FreeSlot
  /\ workflow' = [workflow EXCEPT !.awaits = t]
  /\ slot' = [slot EXCEPT ![t] = [activity |-> workflow.step,
                                  step |-> FirstStep[workflow.step],
                                  result |-> [NoResult EXCEPT !.reference = workflow.reference],
                                  target |-> "FAILED_RETRYABLE"]]
  /\ UNCHANGED <<store_vars, requests, dispatcher, merchant, merchant_calls, prava>>

(* The attempt ends.  Temporal hears of it only while it awaits it.         *)
Complete(t) ==
  /\ slot[t].step \in {"OK", "RETRYABLE", "NON_RETRYABLE"}
  /\ workflow' =
       IF workflow.awaits # t THEN workflow
       ELSE IF slot[t].step = "OK" THEN AfterSuccess(workflow, slot[t].result)
       ELSE AfterFailure(workflow, slot[t].step = "RETRYABLE")
  /\ slot' = [slot EXCEPT ![t] = Idle]
  /\ UNCHANGED <<store_vars, requests, dispatcher, merchant, merchant_calls, prava>>

(* start_to_close_timeout: the attempt is given up but may still be running.*)
ActivityTimeout(t) ==
  /\ workflow.awaits = t
  /\ workflow' = AfterFailure(workflow, TRUE)
  /\ slot' = IF slot[t].step = "DEAD" THEN [slot EXCEPT ![t] = Idle] ELSE slot
  /\ UNCHANGED <<store_vars, requests, dispatcher, merchant, merchant_calls, prava>>

(* The worker process dies between two steps of the attempt.                *)
WorkerCrash(t) ==
  /\ slot[t].step \notin {"IDLE", "DEAD"}
  /\ slot' = [slot EXCEPT ![t] = IF workflow.awaits = t
                                 THEN [slot[t] EXCEPT !.step = "DEAD"] ELSE Idle]
  /\ UNCHANGED <<store_vars, requests, dispatcher, workflow, merchant, merchant_calls, prava>>

=============================================================================
