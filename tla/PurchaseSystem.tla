--------------------------- MODULE PurchaseSystem ---------------------------
(***************************************************************************)
(* The purchase of one Purchase Intent: people and browsers calling the    *)
(* API, deadlines passing, the outbox dispatcher, the Temporal workflow    *)
(* and the worker's activities, all over the same rows.                    *)
(***************************************************************************)
EXTENDS CheckoutCoordinator

CONSTANT MaxFaults   \* bound: crashes and timeouts of one behaviour

ASSUME FaultsAssumption == MaxFaults \in Nat

VARIABLE faults      \* crashes and timeouts so far

allVars == <<vars, faults>>

Init == StoreInit /\ SessionInit /\ WorkerInit /\ faults = 0

api_only == UNCHANGED <<worker_vars, faults>>

People ==
  \/ create_approval_request /\ UNCHANGED requests /\ api_only
  \/ \E a \in Actors, r \in Roles : approve(a, r) /\ UNCHANGED requests /\ api_only
  \/ \E a \in Actors, r \in Roles : reject_approval(a, r) /\ UNCHANGED requests /\ api_only
  \/ \E a \in Actors, r \in Roles : revoke_approval(a, r) /\ UNCHANGED requests /\ api_only
  \/ decide_proposal /\ UNCHANGED requests /\ api_only
  \/ expire_purchase_approval /\ api_only
  \/ create_prava_session /\ api_only
  \/ \E s \in SessionIds : accept_prava_browser_return(s) /\ api_only

ApiSteps == \E s \in SessionIds :
  \/ PravaAnswersCreate(s) /\ api_only
  \/ RecordSession(s) /\ api_only
  \/ mark_session_create_failed(s) /\ api_only

time_only == UNCHANGED <<authority_vars, payment_status, session_count, events, run,
                         ledger_vars, requests, worker_vars, faults>>

Time ==
  \/ QuoteExpires /\ UNCHANGED <<approval_live, sessions>> /\ time_only
  \/ ApprovalExpires /\ UNCHANGED <<quote_live, sessions>> /\ time_only
  \/ \E s \in SessionIds : SessionExpires(s) /\ UNCHANGED clock_vars /\ time_only

DispatcherStep(d) ==
  \/ DispatchRead(d) /\ UNCHANGED faults
  \/ DispatchStart(d) /\ UNCHANGED faults
  \/ DispatchPublish(d) /\ UNCHANGED faults

ActivityStep(t) ==
  \/ PrepareRefused(t) /\ UNCHANGED faults
  \/ PrepareExpired(t) /\ UNCHANGED faults
  \/ PrepareDispatch(t) /\ UNCHANGED faults
  \/ Dispatch(t) /\ UNCHANGED faults
  \/ Query(t) /\ UNCHANGED faults
  \/ PersistApplies(t) /\ UNCHANGED faults
  \/ PersistRefused(t) /\ UNCHANGED faults
  \/ StartVerify(t) /\ UNCHANGED faults
  \/ Observe(t) /\ UNCHANGED faults
  \/ RecordVerify(t) /\ UNCHANGED faults
  \/ ReceiptRefused(t) /\ UNCHANGED faults
  \/ Finish(t) /\ UNCHANGED faults

WorkflowStep(t) ==
  \/ Schedule(t) /\ UNCHANGED faults
  \/ Complete(t) /\ UNCHANGED faults

(* An attempt whose worker died is timed out without being a new fault.     *)
TimeoutOfDead(t) == slot[t].step = "DEAD" /\ ActivityTimeout(t) /\ UNCHANGED faults

CountFault == faults < MaxFaults /\ faults' = faults + 1

Faults ==
  \/ \E s \in SessionIds : ApiCrash(s) /\ UNCHANGED worker_vars /\ CountFault
  \/ \E d \in Dispatchers : DispatcherCrash(d) /\ CountFault
  \/ \E t \in Slots : WorkerCrash(t) /\ CountFault
  \/ \E t \in Slots : slot[t].step # "DEAD" /\ ActivityTimeout(t) /\ CountFault

Next ==
  \/ People \/ ApiSteps \/ Time
  \/ \E d \in Dispatchers : DispatcherStep(d)
  \/ \E t \in Slots : WorkflowStep(t) \/ ActivityStep(t) \/ TimeoutOfDead(t)
  \/ MerchantSettles /\ UNCHANGED faults
  \/ Faults

Spec == Init /\ [][Next]_allVars

(***************************************************************************)
(* Type invariant.                                                         *)
(***************************************************************************)

(* Every row and every activity attempt stays in its declared domain; the   *)
(* workflow never runs a reconciliation round or an activity attempt beyond *)
(* the limits of PurchaseCheckoutWorkflow.run.                              *)
TypeOK ==
  /\ StoreTypeOK
  /\ SessionTypeOK
  /\ WorkerTypeOK
  /\ faults \in Nat

(***************************************************************************)
(* Money.                                                                  *)
(***************************************************************************)

(* Whatever crashes, times out, is delivered twice or answered late, one    *)
(* Purchase Intent is handed to the providers for checkout at most once:    *)
(* the open-attempt check, the non-retrying activity and REJECT_DUPLICATE   *)
(* together (coordinator._prepare_attempt, workflows.run, outbox).          *)
AtMostOneCharge == attempt.n <= 1 /\ merchant_calls <= attempt.n

(* A rejected or revoked approval was never dispatched, even when the       *)
(* revocation races the outbox dispatcher or an activity already scheduled  *)
(* (revoke_approval against _prepare_attempt).                              *)
RevokedNeverCharged ==
  approval.status \in {"REJECTED", "REVOKED"} => attempt.n = 0 /\ merchant = "NONE"

(* Once a charge may exist at the merchant, the Decision it was authorised  *)
(* under stays the current one (supersede_intents_for_decision_change       *)
(* refuses a change after dispatch).                                        *)
ChargeKeepsDecision ==
  merchant \in {"IN_FLIGHT", "PENDING", "APPROVED"} => decision_current

(* After a Decision change nothing of the older version is dispatched, also *)
(* when a session create, a browser return or a queued event was in flight: *)
(* _prepare_attempt never looks at the Decision, only at the rows the       *)
(* change superseded.                                                       *)
NoDispatchAfterSupersede ==
  [][~decision_current => attempt'.n = attempt.n]_allVars

(* A settled payment row says what the merchant and Prava really hold, also *)
(* after lost reports and reconciliation (_persist_checkout_result).        *)
LedgerMatchesProviders ==
  /\ payment_status \in {"MERCHANT_APPROVED", "REPORTING", "PRAVA_COMPLETED"} =>
       merchant = "APPROVED"
  /\ payment_status = "PRAVA_COMPLETED" => prava = "APPROVED"
  /\ payment_status = "DECLINED" => merchant = "DECLINED" /\ prava # "APPROVED"

(* A PaymentAttempt is closed only when its payment is final: a closed      *)
(* attempt is what lets _prepare_attempt dispatch again.                    *)
ClosedAttemptIsSettled ==
  attempt.n > 0 /\ ~attempt.open => payment_status \in {"PRAVA_COMPLETED", "DECLINED"}

(***************************************************************************)
(* Fulfillment, receipt and workflow run.                                  *)
(***************************************************************************)

(* Entitlements are looked for only after Prava confirmed the payment,      *)
(* though _verify_fulfillment itself never looks at payment_status.         *)
FulfillmentOnlyAfterPayment ==
  fulfillment_status # "NOT_STARTED" => payment_status = "PRAVA_COMPLETED"

(* There is a Receipt exactly when fulfillment is VERIFIED, and then all    *)
(* roles approved, the payment is complete and the merchant order is known  *)
(* (_create_receipt writes those as constants).                             *)
ReceiptSound ==
  /\ receipt # 0 <=> fulfillment_status = "VERIFIED"
  /\ receipt # 0 => /\ payment_status = "PRAVA_COMPLETED"
                    /\ order # "NONE"
                    /\ approval.approved_roles = RequiredRoles

(* A COMPLETED WorkflowRun means a declined payment or a verified purchase, *)
(* whichever of several late attempts finished it.                          *)
RunCompletedIsTrue ==
  run = "COMPLETED" => payment_status = "DECLINED" \/ fulfillment_status = "VERIFIED"

(* A terminal WorkflowRun never changes: neither the dispatcher's late      *)
(* publish nor a late activity attempt reopens or relabels it.              *)
TerminalRunStays == [][(run \in RunTerminal) => run' = run]_allVars

(* What the fulfillment, receipt and run rows say of the purchase is so.    *)
OutcomeTrue == FulfillmentOnlyAfterPayment /\ ReceiptSound /\ RunCompletedIsTrue

(* What the payment ledger says of the charge is so: the Decision it was    *)
(* approved for, what the providers hold, and that it is over.              *)
LedgerTrue == ChargeKeepsDecision /\ LedgerMatchesProviders /\ ClosedAttemptIsSettled

(***************************************************************************)
(* Approval.                                                               *)
(***************************************************************************)

(* The ApprovalRequest row and PurchaseIntent.approval_status, written by   *)
(* seven handlers and an activity, never disagree.                          *)
ApprovalRowAgrees == approval.status # "NONE" => approval.status = approval_status

(* Money moves only under as many different people as there are required    *)
(* roles, each holding the role approved, in the Brief's order.             *)
FourEyes ==
  attempt.n > 0 =>
    /\ approval.approved_roles = RequiredRoles
    /\ \A i \in DOMAIN approval.approvers :
         /\ RequiredRoles[i] \in RolesOf[approval.approvers[i]]
         /\ \A j \in DOMAIN approval.approvers :
              approval.approvers[i] = approval.approvers[j] => i = j

(***************************************************************************)
(* Sessions and outbox.                                                    *)
(***************************************************************************)

(* However create requests overlap, time out and answer late, at most one   *)
(* hosted session of the intent ever becomes usable, so at most one return  *)
(* binding can queue a checkout.                                            *)
OneUsableSession ==
  \A s, u \in SessionIds :
    sessions[s].binding # "NONE" /\ sessions[u].binding # "NONE" => s = u

(* A checkout event is marked published only if its workflow was started or *)
(* its session was revoked first (dispatch_once starts, then publishes).    *)
PublishedWasStarted ==
  \A s \in SessionIds :
    events[s] = "PUBLISHED" => workflow.step # "NONE" \/ sessions[s].status = "REVOKED"

(* Rows of different components agree: one usable session, one approval     *)
(* status, and no published event without its workflow.                     *)
RecordsAgree == OneUsableSession /\ ApprovalRowAgrees /\ PublishedWasStarted

(***************************************************************************)
(* Refinement: the system implements the canonical state machines.         *)
(***************************************************************************)
Lifecycle == INSTANCE PurchaseLifecycle WITH
  payment <- payment_status,
  fulfillment <- fulfillment_status,
  charge <- IF merchant = "IN_FLIGHT" THEN "PENDING" ELSE merchant

(* Every transaction of API and worker, none of which consults the tables   *)
(* of python/domain/state_machines.py, makes one listed transition, or one  *)
(* of the unlisted ones PurchaseLifecycle names, or the approved commit;    *)
(* fulfillment follows payment, and money moves once.                       *)
ImplementsLifecycle == Lifecycle!Spec

(***************************************************************************)
(* Liveness.  Fair: dispatcher loops, Temporal's scheduling and running    *)
(* activities, the timeout of a dead attempt and an API request in         *)
(* progress.  Not fair: people, deadlines, faults, the merchant.           *)
(***************************************************************************)
Fairness ==
  /\ \A s \in SessionIds :
       /\ WF_allVars(PravaAnswersCreate(s) /\ api_only)
       /\ WF_allVars((RecordSession(s) \/ mark_session_create_failed(s)) /\ api_only)
  /\ \A d \in Dispatchers : WF_allVars(DispatcherStep(d))
  /\ WF_allVars(\E t \in Slots : Schedule(t) /\ UNCHANGED faults)
  /\ \A t \in Slots : WF_allVars(ActivityStep(t) \/ (Complete(t) /\ UNCHANGED faults))
  /\ WF_allVars(\E t \in Slots : TimeoutOfDead(t))

FairSpec == Spec /\ Fairness

(* A queued checkout event is published, whatever crash hits the dispatcher *)
(* between its reads and writes, its workflow ends (reconciliation rounds   *)
(* and activity retries are bounded), and the WorkflowRun stays ended.      *)
CheckoutSettles ==
  <>[](/\ workflow.step \in {"NONE", "COMPLETED", "FAILED"}
       /\ \A s \in SessionIds : events[s] # "UNPUBLISHED")

(* Every queued checkout comes to an end and what it ended with stays.      *)
CheckoutEnds == CheckoutSettles /\ TerminalRunStays

(***************************************************************************)
(* What the repository says of the code and the code does not do: a run    *)
(* that TLC refutes.                                                       *)
(***************************************************************************)

(* coordinator.execute_isolated_checkout: a provider exception returns a    *)
(* recovery result "so the durable workflow reconciles".  It cannot: the    *)
(* report of the outcome is refused for its "reconcile:" reference.         *)
ProviderFailureReconciles ==
  payment_status = "UNCERTAIN" /\ merchant \in Known ~> payment_status # "UNCERTAIN"
=============================================================================
