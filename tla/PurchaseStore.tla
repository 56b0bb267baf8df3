---------------------------- MODULE PurchaseStore ----------------------------
(***************************************************************************)
(* The PostgreSQL rows of ONE Purchase Intent, as the API and the worker   *)
(* share them, and the repository operations both use.  Every database     *)
(* transaction of the code locks the intent row (SELECT ... FOR UPDATE)    *)
(* before it decides anything, so a transaction is one atomic step of the  *)
(* model.  Time appears only as deadlines that pass: an expires_at column  *)
(* is a flag that starts TRUE (live) and may become FALSE once.            *)
(***************************************************************************)
EXTENDS Naturals, Sequences, FiniteSets

CONSTANTS
  Actors,          \* authenticated people who may approve, reject or revoke
  RequiredRoles,   \* the ordered approval roles of the Purchase Brief
  RolesOf,         \* the roles each actor's token carries
  MaxSessions      \* bound: PaymentSession rows one intent may accumulate

Roles == {RequiredRoles[i] : i \in 1..Len(RequiredRoles)}
SessionIds == 1..MaxSessions

\* create_approval_request refuses an empty or duplicated role list.
ASSUME RolesAssumption ==
  /\ Len(RequiredRoles) \in Nat \ {0}
  /\ RequiredRoles \in [1..Len(RequiredRoles) -> Roles]
  /\ \A i, j \in 1..Len(RequiredRoles) :
        RequiredRoles[i] = RequiredRoles[j] => i = j
  /\ RolesOf \in [Actors -> SUBSET Roles]

ASSUME SessionsAssumption == MaxSessions \in Nat \ {0}

VARIABLES
  decision_current,    \* the intent's DecisionRecord is the highest version
  quote_live,          \* PurchaseIntent.quote_expires_at has not passed
  approval_live,       \* ApprovalRequest.expires_at has not passed
  approval_status,     \* PurchaseIntent.approval_status
  payment_status,      \* PurchaseIntent.payment_status
  fulfillment_status,  \* PurchaseIntent.fulfillment_status
  approval,            \* the ApprovalRequest row and its APPROVE events
  session_count,       \* PaymentSession rows, numbered by created_at
  sessions,            \* the PaymentSession rows with their return binding
  events,              \* purchase_checkout.requested outbox event per session
  run,                 \* WorkflowRun wf_checkout_<intent>.status
  attempt,             \* the latest PaymentAttempt row and how many there are
  order,               \* MerchantOrder.status, "NONE" without a row
  transitions,         \* TransactionTransition rows: event key, target, hash
  receipt              \* 0, or the session the Receipt names

clock_vars == <<quote_live, approval_live>>
authority_vars == <<decision_current, approval_status, approval>>
session_vars == <<session_count, sessions>>
ledger_vars == <<attempt, order, transitions, receipt, fulfillment_status>>
store_vars == <<decision_current, quote_live, approval_live, approval_status,
                payment_status, fulfillment_status, approval, session_count,
                sessions, events, run, attempt, order, transitions, receipt>>

ApprovalStatus == {"NOT_REQUESTED", "PENDING", "APPROVED", "REJECTED",
                   "REVOKED", "EXPIRED", "SUPERSEDED"}
PaymentStatus == {"NOT_STARTED", "SESSION_CREATED", "CARDHOLDER_PENDING",
                  "CHECKOUT_PENDING", "MERCHANT_APPROVED", "REPORTING",
                  "PRAVA_COMPLETED", "DECLINED", "EXPIRED", "UNCERTAIN", "FAILED"}
FulfillmentStatus == {"NOT_STARTED", "PENDING", "PARTIAL", "VERIFIED",
                      "FAILED_RETRYABLE", "FAILED_FINAL", "REVOKED"}
SessionStatus == PaymentStatus \cup {"NONE", "CREATING", "REVOKED"}
Outcomes == {"APPROVED", "DECLINED", "UNKNOWN"}
RunTerminal == {"COMPLETED", "FAILED"}

(* What execute_isolated_checkout and reconcile_checkout pass on: the       *)
(* merchant's outcome, whether a merchant order id came with it, and which  *)
(* transaction reference it carries: Prava's own or "reconcile:<attempt>".  *)
CheckoutResults == [outcome : Outcomes, order_id : BOOLEAN,
                    reference : {"PRAVA", "RECONCILE"},
                    reported : BOOLEAN, required : BOOLEAN]
NoResult == [outcome |-> "UNKNOWN", order_id |-> FALSE, reference |-> "PRAVA",
             reported |-> FALSE, required |-> TRUE]

(* fulfillment-result:<order>:<target>                                      *)
ResultKey == [VERIFIED |-> "fulfillment-result:verified",
              PARTIAL |-> "fulfillment-result:partial",
              FAILED_RETRYABLE |-> "fulfillment-result:failed_retryable",
              FAILED_FINAL |-> "fulfillment-result:failed_final"]
EventKeys == {"session-created", "browser-return", "checkout-expired",
              "checkout-dispatched", "checkout-uncertain", "checkout-declined",
              "merchant-approved", "prava-report:reporting",
              "prava-report:prava_completed", "fulfillment-started"}
             \cup {ResultKey[target] : target \in DOMAIN ResultKey}

SessionRow == [status : SessionStatus, hosted : BOOLEAN, live : BOOLEAN,
               binding : {"NONE", "OPEN", "CONSUMED"}]
NoSession == [status |-> "NONE", hosted |-> FALSE, live |-> FALSE, binding |-> "NONE"]
Placeholder == [status |-> "CREATING", hosted |-> FALSE, live |-> TRUE, binding |-> "NONE"]

StoreInit ==
  /\ decision_current = TRUE
  /\ quote_live = TRUE
  /\ approval_live = TRUE
  /\ approval_status = "NOT_REQUESTED"
  /\ payment_status = "NOT_STARTED"
  /\ fulfillment_status = "NOT_STARTED"
  /\ approval = [status |-> "NONE", approved_roles |-> <<>>, approvers |-> <<>>]
  /\ session_count = 0
  /\ sessions = [s \in SessionIds |-> NoSession]
  /\ events = [s \in SessionIds |-> "NONE"]
  /\ run = "NONE"
  /\ attempt = [n |-> 0, session |-> 0, outcome |-> "NONE", open |-> FALSE]
  /\ order = "NONE"
  /\ transitions = {}
  /\ receipt = 0

StoreTypeOK ==
  /\ decision_current \in BOOLEAN
  /\ quote_live \in BOOLEAN
  /\ approval_live \in BOOLEAN
  /\ approval_status \in ApprovalStatus
  /\ payment_status \in PaymentStatus
  /\ fulfillment_status \in FulfillmentStatus
  /\ approval \in [status : ApprovalStatus \cup {"NONE"},
                   approved_roles : Seq(Roles), approvers : Seq(Actors)]
  /\ session_count \in 0..MaxSessions
  /\ sessions \in [SessionIds -> SessionRow]
  /\ events \in [SessionIds -> {"NONE", "UNPUBLISHED", "PUBLISHED"}]
  /\ run \in {"NONE", "PENDING", "RUNNING"} \cup RunTerminal
  /\ attempt \in [n : Nat, session : 0..MaxSessions,
                  outcome : Outcomes \cup {"NONE"}, open : BOOLEAN]
  /\ order \in Outcomes \cup {"NONE"}
  /\ transitions \subseteq [key : EventKeys, id : 0..MaxSessions,
                            to : PaymentStatus \cup FulfillmentStatus,
                            hash : CheckoutResults]
  /\ receipt \in 0..MaxSessions

(***************************************************************************)
(* WorkflowRepository.transition_purchase_intent.  An event key that is    *)
(* already in the log is a replay: it must carry the same target and       *)
(* payload hash (else PersistenceConflict) and then changes nothing.  A    *)
(* new key is applied only from an allowed state.                          *)
(***************************************************************************)
Row(key, id, to, hash) == [key |-> key, id |-> id, to |-> to, hash |-> hash]

(* The payload hash of a checkout result leaves the merchant order id out.  *)
SafeHash(r) == [r EXCEPT !.order_id = FALSE]

Replayed(log, row) == \E t \in log : t.key = row.key /\ t.id = row.id

TransitionConflict(log, current, allowed_from, row) ==
  IF Replayed(log, row) THEN row \notin log ELSE current \notin allowed_from

TransitionState(log, current, row) == IF Replayed(log, row) THEN current ELSE row.to

TransitionLog(log, row) == log \cup {row}

(* _finish_workflow_run: a terminal run is left alone.                      *)
FinishedRun(current, status) ==
  IF current \in {"NONE"} \cup RunTerminal THEN current ELSE status

(* WorkflowService._approval_expiry_problem                                      *)
AuthorityExpired == ~approval_live \/ ~quote_live

(***************************************************************************)
(* Deadlines pass.                                                         *)
(***************************************************************************)
QuoteExpires == quote_live /\ quote_live' = FALSE

ApprovalExpires ==
  /\ approval.status # "NONE"
  /\ approval_live
  /\ approval_live' = FALSE

(* No handler looks at the deadline of a session that is neither being      *)
(* created nor waiting for its payer, so it passes in those states only.    *)
SessionExpires(s) ==
  /\ sessions[s].live
  /\ sessions[s].status \in {"CREATING", "SESSION_CREATED", "CARDHOLDER_PENDING"}
  /\ sessions' = [sessions EXCEPT ![s].live = FALSE]
=============================================================================
