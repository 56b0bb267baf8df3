---------------------------- MODULE PravaShopping ----------------------------
(***************************************************************************)
(* One Prava shopping run: quote, payment session and queue_checkout at    *)
(* the API (prava_mcp_service), the outbox dispatcher, the                 *)
(* PravaShoppingWorkflow that polls for the payer's approval and then asks *)
(* Prava to place the order, and the worker's activities                   *)
(* (prava_mcp_coordinator).  Prava itself is external.                     *)
(***************************************************************************)
EXTENDS Naturals, FiniteSets

CONSTANTS
  Requests,          \* overlapping create_payment_session calls
  PaymentSessions,   \* session ids Prava can hand out
  NoSession,         \* PravaShoppingRun.payment_session_id is NULL
  ProviderStatuses,  \* how Prava spells a payment's status
  Dispatchers,       \* worker processes polling the outbox
  Slots,             \* activity slots of the workers
  NoSlot,            \* no activity attempt is awaited
  MaxPolls,          \* polls of the approval, 60 in the code
  MaxTries,          \* RetryPolicy.maximum_attempts, 3 in the code
  MaxFaults          \* bound: crashes, timeouts and lost answers

Approved == {"COMPLETED", "APPROVED", "PAID", "SUCCESS"}
Refused == {"FAILED", "DECLINED", "CANCELLED", "EXPIRED"}
Waiting == ProviderStatuses \ (Approved \cup Refused)

ASSUME ShoppingAssumption ==
  /\ NoSession \notin PaymentSessions
  /\ PaymentSessions # {}
  /\ ProviderStatuses \subseteq STRING
  /\ "NONE" \notin ProviderStatuses
  /\ Waiting # {}
  /\ IsFiniteSet(Slots)
  /\ NoSlot \notin Slots
  /\ MaxPolls \in Nat \ {0}
  /\ MaxTries \in Nat \ {0}
  /\ MaxFaults \in Nat

VARIABLES
  run,             \* the PravaShoppingRun row
  workflow_run,    \* WorkflowRun wf_prava_shop_<run>.status
  event,           \* the prava_mcp_checkout.requested outbox event
  request,         \* per API call: step of create_payment_session
  dispatcher,      \* per dispatcher: step of dispatch_once
  workflow,        \* PravaShoppingWorkflow
  slot,            \* per slot: the activity attempt running on it
  payment,         \* external: the payment session at Prava
  order_calls,     \* external: shop_checkout requests Prava received
  order_placed,    \* external: Prava placed the order
  faults           \* crashes, timeouts and lost answers so far

row_vars == <<run, workflow_run, event>>
worker_vars == <<dispatcher, workflow, slot>>
prava_vars == <<payment, order_calls, order_placed>>
vars == <<row_vars, request, worker_vars, prava_vars, faults>>

(* CHECK constraint ck_prava_shopping_status: PostgreSQL refuses the        *)
(* transaction that writes any other status.                                *)
RunStatus == {"QUOTED", "AWAITING_APPROVAL", "QUEUED", "RUNNING", "PAID", "FAILED"}

Written == ProviderStatuses \cup {"APPROVAL_TIMEOUT"}
Idle == [activity |-> "STATUS", step |-> "IDLE", status |-> "APPROVAL_TIMEOUT",
         ordered |-> FALSE]

Init ==
  /\ run = [status |-> "NONE", payment_session |-> NoSession, ordered |-> FALSE]
  /\ workflow_run = "NONE"
  /\ event = [state |-> "NONE", payment_session |-> NoSession]
  /\ request = [q \in Requests |-> [step |-> "IDLE", payment_session |-> NoSession]]
  /\ dispatcher = [d \in Dispatchers |-> "IDLE"]
  /\ workflow = [step |-> "NONE", poll |-> 1, tries |-> 1, awaits |-> NoSlot]
  /\ slot = [t \in Slots |-> Idle]
  /\ payment = [session |-> NoSession, status |-> "NONE"]
  /\ order_calls = 0
  /\ order_placed = FALSE
  /\ faults = 0

Sessions == PaymentSessions \cup {NoSession}
Activities == {"STATUS", "CHECKOUT", "FAIL"}
Workflows == [step : Activities \cup {"NONE", "DONE", "FAILED"}, poll : 1..MaxPolls,
              tries : 1..MaxTries, awaits : Slots \cup {NoSlot}]
Attempts == [activity : Activities, status : Written, ordered : BOOLEAN,
             step : {"IDLE", "CALL", "CHECKPOINT", "OK", "ERROR", "DEAD"}]

(* Every row, event, workflow and attempt stays in its domain; a workflow   *)
(* keeps to its polls and to RetryPolicy.                                   *)
TypeOK ==
  /\ run \in [status : RunStatus \cup {"NONE"}, payment_session : Sessions, ordered : BOOLEAN]
  /\ workflow_run \in {"NONE", "PENDING", "RUNNING", "COMPLETED", "FAILED"}
  /\ event \in [state : {"NONE", "UNPUBLISHED", "PUBLISHED"}, payment_session : Sessions]
  /\ request \in [Requests -> [step : {"IDLE", "CALL", "STORE"}, payment_session : Sessions]]
  /\ dispatcher \in [Dispatchers -> {"IDLE", "READ", "STARTED"}]
  /\ workflow \in Workflows
  /\ slot \in [Slots -> Attempts]
  /\ payment \in [session : Sessions, status : ProviderStatuses \cup {"NONE"}]
  /\ order_calls \in Nat
  /\ order_placed \in BOOLEAN
  /\ faults \in Nat

CountFault == faults < MaxFaults /\ faults' = faults + 1

(***************************************************************************)
(* PravaMcpConnectionService: quote, create_payment_session (a read, a     *)
(* call, a write), queue_checkout.                                         *)
(***************************************************************************)
quote ==
  /\ run.status = "NONE"
  /\ run' = [run EXCEPT !.status = "QUOTED"]
  /\ UNCHANGED <<workflow_run, event, request, worker_vars, prava_vars, faults>>

(* A run that has a session answers with it and changes nothing.            *)
create_payment_session(q) ==
  /\ run.status # "NONE"
  /\ request[q].step = "IDLE"
  /\ run.payment_session = NoSession
  /\ request' = [request EXCEPT ![q].step = "CALL"]
  /\ UNCHANGED <<row_vars, worker_vars, prava_vars, faults>>

\* Mutant: the call carries no idempotency key, so Prava opens a new session.
KeylessSession == [session : PaymentSessions \ {payment.session}, status : Waiting]

(* External: the idempotency key sira-<checkout session> names one session. *)
SessionUnderKey ==
  IF payment.session = NoSession THEN [session : PaymentSessions, status : Waiting]
                                 ELSE {payment}

PravaOpensSession(q) ==
  /\ request[q].step = "CALL"
  /\ payment' \in SessionUnderKey
  /\ request' = [request EXCEPT ![q] = [step |-> "STORE",
                                        payment_session |-> payment'.session]]
  /\ UNCHANGED <<row_vars, worker_vars, order_calls, order_placed, faults>>

(* The call fails, its answer is refused, or the API process dies.          *)
CreateFails(q) ==
  /\ request[q].step \in {"CALL", "STORE"}
  /\ CountFault
  /\ request' = [request EXCEPT ![q] = [step |-> "IDLE", payment_session |-> NoSession]]
  /\ \/ UNCHANGED payment
     \/ request[q].step = "CALL" /\ payment' \in SessionUnderKey
  /\ UNCHANGED <<row_vars, worker_vars, order_calls, order_placed>>

(* The second transaction looks at nothing the run has become since.        *)
StorePaymentSession(q) ==
  /\ request[q].step = "STORE"
  /\ run' = [run EXCEPT !.payment_session = request[q].payment_session,
                        !.status = "AWAITING_APPROVAL"]
  /\ request' = [request EXCEPT ![q] = [step |-> "IDLE", payment_session |-> NoSession]]
  /\ UNCHANGED <<workflow_run, event, worker_vars, prava_vars, faults>>

queue_checkout ==
  /\ run.payment_session # NoSession
  /\ run.status \in {"AWAITING_APPROVAL", "QUEUED"}
  /\ run' = [run EXCEPT !.status = "QUEUED"]
  /\ IF workflow_run = "NONE"
     THEN /\ workflow_run' = "PENDING"
          /\ event' = [state |-> "UNPUBLISHED", payment_session |-> run.payment_session]
     ELSE UNCHANGED <<workflow_run, event>>
  /\ UNCHANGED <<request, worker_vars, prava_vars, faults>>

(***************************************************************************)
(* CheckoutOutboxDispatcher.dispatch_once for the run's event.             *)
(***************************************************************************)
DispatchRead(d) ==
  /\ dispatcher[d] = "IDLE"
  /\ event.state = "UNPUBLISHED"
  /\ dispatcher' = [dispatcher EXCEPT ![d] = "READ"]
  /\ UNCHANGED <<row_vars, request, workflow, slot, prava_vars, faults>>

Started == [step |-> "STATUS", poll |-> 1, tries |-> 1, awaits |-> NoSlot]

(* REJECT_DUPLICATE: a second start only acknowledges the first.            *)
StartedWorkflow == IF workflow.step = "NONE" THEN Started ELSE workflow

DispatchStart(d) ==
  /\ dispatcher[d] = "READ"
  /\ dispatcher' = [dispatcher EXCEPT ![d] = "STARTED"]
  /\ workflow' = StartedWorkflow
  /\ UNCHANGED <<row_vars, request, slot, prava_vars, faults>>

\* Mutant: the late publication does not look at the run.
PublishedAsRunning == "RUNNING"

PublishedRun ==
  IF event.state = "UNPUBLISHED" /\ workflow_run = "PENDING" THEN "RUNNING" ELSE workflow_run

DispatchPublish(d) ==
  /\ dispatcher[d] = "STARTED"
  /\ dispatcher' = [dispatcher EXCEPT ![d] = "IDLE"]
  /\ event' = [event EXCEPT !.state = "PUBLISHED"]
  /\ workflow_run' = PublishedRun
  /\ UNCHANGED <<run, request, workflow, slot, prava_vars, faults>>

DispatcherCrash(d) ==
  /\ dispatcher[d] # "IDLE"
  /\ CountFault
  /\ dispatcher' = [dispatcher EXCEPT ![d] = "IDLE"]
  /\ UNCHANGED <<row_vars, request, workflow, slot, prava_vars>>

(***************************************************************************)
(* PravaShoppingWorkflow.run: poll until the payer decided, then one       *)
(* checkout activity; every activity is retried up to MaxTries times.      *)
(***************************************************************************)
Advance(w, step) == [w EXCEPT !.step = step, !.tries = 1, !.awaits = NoSlot]

\* Mutant: whatever is not refused is taken for approved.
NotRefused(w, status) ==
  CASE w.step = "STATUS" /\ status \notin Refused -> Advance(w, "CHECKOUT")
    [] w.step = "STATUS" /\ status \in Refused -> Advance(w, "DONE")
    [] w.step # "STATUS" -> Advance(w, "DONE")

\* Mutant: the poll is not counted.
PollsForEver(w, status) ==
  CASE w.step = "STATUS" /\ status \in Approved -> Advance(w, "CHECKOUT")
    [] w.step = "STATUS" /\ status \in Refused -> Advance(w, "DONE")
    [] w.step = "STATUS" /\ status \notin Approved \cup Refused -> Advance(w, "STATUS")
    [] w.step # "STATUS" -> Advance(w, "DONE")

AfterSuccess(w, status) ==
  CASE w.step = "STATUS" /\ status \in Approved -> Advance(w, "CHECKOUT")
    [] w.step = "STATUS" /\ status \in Refused -> Advance(w, "DONE")
    [] w.step = "STATUS" /\ status \notin Approved \cup Refused ->
         IF w.poll < MaxPolls THEN [Advance(w, "STATUS") EXCEPT !.poll = w.poll + 1]
                              ELSE Advance(w, "FAIL")
    [] w.step # "STATUS" -> Advance(w, "DONE")

AfterFailure(w) ==
  IF w.tries < MaxTries THEN [w EXCEPT !.tries = w.tries + 1, !.awaits = NoSlot]
                        ELSE Advance(w, "FAILED")

Schedule(t) ==
  /\ workflow.step \in Activities
  /\ workflow.awaits = NoSlot
  /\ slot[t].step = "IDLE"
  /\ workflow' = [workflow EXCEPT !.awaits = t]
  /\ slot' = [slot EXCEPT ![t] = [Idle EXCEPT !.activity = workflow.step, !.step =
                IF workflow.step = "FAIL" THEN "CHECKPOINT" ELSE "CALL"]]
  /\ UNCHANGED <<row_vars, request, dispatcher, prava_vars, faults>>

(* The attempt ends; Temporal hears of it only while it awaits it.          *)
Complete(t) ==
  /\ slot[t].step \in {"OK", "ERROR"}
  /\ workflow' = IF workflow.awaits # t THEN workflow
                 ELSE IF slot[t].step = "OK" THEN AfterSuccess(workflow, slot[t].status)
                 ELSE AfterFailure(workflow)
  /\ slot' = [slot EXCEPT ![t] = Idle]
  /\ UNCHANGED <<row_vars, request, dispatcher, prava_vars, faults>>

(***************************************************************************)
(* PersistentPravaMcpCoordinator: payment_status, checkout and fail.       *)
(***************************************************************************)
payment_status(t) ==
  /\ slot[t].step = "CALL" /\ slot[t].activity = "STATUS"
  /\ slot' = [slot EXCEPT ![t].step = "CHECKPOINT", ![t].status = payment.status]
  /\ UNCHANGED <<row_vars, request, dispatcher, workflow, prava_vars, faults>>

(* Prava places the order of a payment session once, or answers that it     *)
(* cannot; the request carries no idempotency key of its own.               *)
checkout(t) ==
  /\ slot[t].step = "CALL" /\ slot[t].activity = "CHECKOUT"
  /\ order_calls' = order_calls + 1
  /\ order_placed' \in {order_placed, TRUE}
  /\ slot' = [slot EXCEPT ![t].step = "CHECKPOINT", ![t].status = payment.status,
                          ![t].ordered = order_placed']
  /\ UNCHANGED <<row_vars, request, dispatcher, workflow, payment, faults>>

(* No access token, a transport error or an unreadable answer: it raises,   *)
(* and the order may have been placed all the same.                         *)
CallFails(t) ==
  /\ slot[t].step = "CALL"
  /\ CountFault
  /\ slot' = [slot EXCEPT ![t].step = "ERROR"]
  /\ \/ UNCHANGED <<order_calls, order_placed>>
     \/ /\ slot[t].activity = "CHECKOUT"
        /\ order_calls' = order_calls + 1
        /\ order_placed' \in {order_placed, TRUE}
  /\ UNCHANGED <<row_vars, request, dispatcher, workflow, payment>>

(* _checkpoint, the last step of all three: the run's status is the         *)
(* provider's word, or COMPLETED after a checkout.                          *)
NewStatus(a) == IF a.activity = "CHECKOUT" THEN "COMPLETED" ELSE a.status

TerminalFailure == Refused \cup {"APPROVAL_TIMEOUT"}

CheckpointedRun(a) ==
  CASE a.activity = "CHECKOUT" -> "COMPLETED"
    [] a.activity # "CHECKOUT" /\ a.status \in TerminalFailure -> "FAILED"
    [] a.activity # "CHECKOUT" /\ a.status \notin TerminalFailure -> workflow_run

checkpoint(t) ==
  /\ slot[t].step = "CHECKPOINT"
  /\ IF NewStatus(slot[t]) \in RunStatus
     THEN /\ run' = [run EXCEPT !.status = NewStatus(slot[t]),
                                !.ordered = @ \/ slot[t].ordered]
          /\ workflow_run' = CheckpointedRun(slot[t])
          /\ slot' = [slot EXCEPT ![t].step = "OK"]
     ELSE /\ slot' = [slot EXCEPT ![t].step = "ERROR"]
          /\ UNCHANGED <<run, workflow_run>>
  /\ UNCHANGED <<event, request, dispatcher, workflow, prava_vars, faults>>

(***************************************************************************)
(* External: the payer decides, once; until then Prava's wording may       *)
(* change.                                                                 *)
(***************************************************************************)
PayerDecides ==
  /\ payment.status \in Waiting
  /\ payment' \in [session : {payment.session}, status : ProviderStatuses \ {payment.status}]
  /\ UNCHANGED <<row_vars, request, worker_vars, order_calls, order_placed, faults>>

(***************************************************************************)
(* Crashes and timeouts (start_to_close_timeout).                          *)
(***************************************************************************)
GiveUp(t) ==
  /\ workflow' = AfterFailure(workflow)
  /\ slot' = IF slot[t].step = "DEAD" THEN [slot EXCEPT ![t] = Idle] ELSE slot
  /\ UNCHANGED <<row_vars, request, dispatcher, prava_vars>>

TimeoutOfDead(t) == slot[t].step = "DEAD" /\ GiveUp(t) /\ UNCHANGED faults

(* The attempt is given up while it still runs.                             *)
ActivityTimeout(t) ==
  /\ slot[t].step \notin {"IDLE", "DEAD"}
  /\ workflow.awaits = t
  /\ CountFault
  /\ GiveUp(t)

WorkerCrash(t) ==
  /\ slot[t].step \notin {"IDLE", "DEAD"}
  /\ CountFault
  /\ slot' = [slot EXCEPT ![t] =
                IF workflow.awaits = t THEN [@ EXCEPT !.step = "DEAD"] ELSE Idle]
  /\ UNCHANGED <<row_vars, request, dispatcher, workflow, prava_vars>>

ActivityStep(t) ==
  payment_status(t) \/ checkout(t) \/ CallFails(t) \/ checkpoint(t) \/ Complete(t)

Next ==
  \/ quote
  \/ \E q \in Requests : \/ create_payment_session(q) \/ PravaOpensSession(q)
                         \/ CreateFails(q) \/ StorePaymentSession(q)
  \/ queue_checkout
  \/ \E d \in Dispatchers :
       DispatchRead(d) \/ DispatchStart(d) \/ DispatchPublish(d) \/ DispatcherCrash(d)
  \/ \E t \in Slots : \/ Schedule(t) \/ ActivityStep(t)
                      \/ TimeoutOfDead(t) \/ ActivityTimeout(t) \/ WorkerCrash(t)
  \/ PayerDecides

Spec == Init /\ [][Next]_vars

(***************************************************************************)
(* Properties.                                                             *)
(***************************************************************************)

(* The order is requested only once the payer approved the payment, over    *)
(* polls that answer late, after their attempt was given up.                *)
OrderOnlyAfterApproval == order_calls > 0 => payment.status \in Approved

(* Prava is asked for the order at most RetryPolicy.maximum_attempts times, *)
(* however often the event is delivered and attempts are given up.          *)
OrderCallsBounded == order_calls <= MaxTries

(* The session the workflow waits for and pays is the one whose payment_url *)
(* the run shows to the payer, though overlapping create_payment_session    *)
(* calls store theirs after the checkout was queued.                        *)
SessionPaidIsShown ==
  event.state # "NONE" => event.payment_session = run.payment_session

(* A failed WorkflowRun is true: the payer refused, or was asked MaxPolls   *)
(* times.                                                                   *)
FailedRunIsTrue ==
  workflow_run = "FAILED" => payment.status \in Refused \/ workflow.poll = MaxPolls

(* The order is asked for after approval, and a bounded number of times.    *)
OrderSound == OrderOnlyAfterApproval /\ OrderCallsBounded

(* What the buyer is shown is what happened: the session that is paid, and  *)
(* the reason of a failed run.                                              *)
ShownIsTrue == SessionPaidIsShown /\ FailedRunIsTrue

(* A WorkflowRun that ended stays as it is: neither a late publication of   *)
(* its event nor an attempt given up earlier moves it.                      *)
EndedRunStays ==
  [][(workflow_run \in {"COMPLETED", "FAILED"}) => workflow_run' = workflow_run]_vars

(***************************************************************************)
(* Liveness.  Fair: the dispatcher loops, Temporal's scheduling, a running *)
(* activity, the timeout of a dead attempt.  Not fair: people, faults, the *)
(* payer.                                                                  *)
(***************************************************************************)
FairSpec ==
  /\ Spec
  /\ \A d \in Dispatchers : WF_vars(DispatchRead(d) \/ DispatchStart(d) \/ DispatchPublish(d))
  /\ WF_vars(\E t \in Slots : Schedule(t))
  /\ \A t \in Slots : WF_vars(ActivityStep(t)) /\ WF_vars(TimeoutOfDead(t))

(* A queued checkout is handed to Temporal and its workflow ends, also when *)
(* the payer never decides.                                                 *)
QueuedWorkflowEnds == event.state = "UNPUBLISHED" ~> workflow.step \in {"DONE", "FAILED"}

(* What PravaShoppingRun says of itself, "Canonical identifiers for one real*)
(* Prava quote-to-order chain": an order Prava placed is recorded.  The     *)
(* checkpoint after a checkout writes COMPLETED, which the table's CHECK    *)
(* constraint refuses, so no order is ever recorded.                        *)
PlacedOrderRecorded == order_placed ~> run.ordered
==============================================================================
