--------------------------- MODULE SessionService ---------------------------
(***************************************************************************)
(* create_prava_session and accept_prava_browser_return of                 *)
(* WorkflowService.  A create is a transaction that inserts a CREATING     *)
(* placeholder, a call to Prava with no transaction open, and a second     *)
(* transaction that records the answer: between them other requests,       *)
(* deadlines and a crash of the API process may intervene.                 *)
(***************************************************************************)
EXTENDS ApprovalService

VARIABLE requests   \* per placeholder, where its create request stands

RequestSteps == {"NONE", "CALLING", "CREATED", "REFUSED_RETRYABLE", "REFUSED", "DONE"}

SessionInit == requests = [s \in SessionIds |-> "NONE"]
SessionTypeOK == requests \in [SessionIds -> RequestSteps]

session_unchanged ==
  UNCHANGED <<decision_current, clock_vars, run, ledger_vars>>

(* _expire_purchase_approval_if_needed, the transaction that precedes both  *)
(* handlers: it ends them when it finds an approved authority expired.      *)
expire_purchase_approval ==
  /\ approval.status = "APPROVED"
  /\ approval_status = "APPROVED"
  /\ AuthorityExpired
  /\ SetApproval("EXPIRED")
  /\ UNCHANGED <<decision_current, clock_vars, payment_status, session_vars,
                 events, run, ledger_vars, requests>>

(* The authority create_prava_session asks for in its first transaction.    *)
SessionAuthority ==
  /\ decision_current
  /\ approval_status = "APPROVED"
  /\ approval.status = "APPROVED"
  /\ ~AuthorityExpired

(* Whether the latest session may be replaced: there is none, its create is *)
(* past its response window, or it ended without a usable session.          *)
Replaceable(row) ==
  \/ row.status = "CREATING" /\ ~row.live
  \/ row.status \in {"FAILED", "UNCERTAIN", "EXPIRED"}

create_prava_session ==
  /\ SessionAuthority
  /\ session_count # 0 => Replaceable(sessions[session_count])
  /\ session_count < MaxSessions
  /\ session_count' = session_count + 1
  /\ sessions' = [s \in SessionIds |->
        IF s = session_count + 1 THEN Placeholder
        ELSE IF s = session_count /\ sessions[s].status = "CREATING"
             THEN [sessions[s] EXCEPT !.status = "EXPIRED"]
             ELSE sessions[s]]
  /\ requests' = [requests EXCEPT ![session_count + 1] = "CALLING"]
  /\ session_unchanged
  /\ UNCHANGED <<approval, approval_status, payment_status, events>>

(* Prava answers the create call, or the call fails.                        *)
PravaAnswersCreate(s) ==
  /\ requests[s] = "CALLING"
  /\ \E answer \in {"CREATED", "REFUSED_RETRYABLE", "REFUSED"} :
        requests' = [requests EXCEPT ![s] = answer]
  /\ UNCHANGED store_vars

(* The second transaction.  The intent's transition raises unless payment   *)
(* is still NOT_STARTED; the raise rolls the session row back too.          *)
SessionCreatedRow(s) == Row("session-created", s, "SESSION_CREATED", NoResult)

RecordSessionFrom(s, allowed_from) ==
  /\ requests[s] = "CREATED"
  /\ requests' = [requests EXCEPT ![s] = "DONE"]
  /\ IF TransitionConflict(transitions, payment_status, allowed_from,
                           SessionCreatedRow(s))
     THEN UNCHANGED <<sessions, payment_status, transitions>>
     ELSE /\ sessions' = [sessions EXCEPT
               ![s] = [status |-> "SESSION_CREATED", hosted |-> TRUE, live |-> TRUE,
                       binding |-> "OPEN"]]
          /\ payment_status' = TransitionState(transitions, payment_status,
                                               SessionCreatedRow(s))
          /\ transitions' = TransitionLog(transitions, SessionCreatedRow(s))
  /\ UNCHANGED <<decision_current, clock_vars, approval, approval_status,
                 session_count, events, run, attempt, order, receipt,
                 fulfillment_status>>

\* Mutant: a late create answer replaces a session that is already usable.
RecordSessionLate(s) == RecordSessionFrom(s, {"NOT_STARTED", "SESSION_CREATED"})

RecordSession(s) == RecordSessionFrom(s, {"NOT_STARTED"})

(* _mark_session_create_failed                                              *)
mark_session_create_failed(s) ==
  /\ requests[s] \in {"REFUSED_RETRYABLE", "REFUSED"}
  /\ requests' = [requests EXCEPT ![s] = "DONE"]
  /\ IF payment_status # "NOT_STARTED"
     THEN UNCHANGED sessions
     ELSE sessions' = [sessions EXCEPT ![s].status =
            IF requests[s] = "REFUSED" THEN "FAILED" ELSE "UNCERTAIN"]
  /\ session_unchanged
  /\ UNCHANGED <<approval, approval_status, payment_status, session_count, events>>

(* The API process dies with a create in flight: its placeholder stays.     *)
ApiCrash(s) ==
  /\ requests[s] \in {"CALLING", "CREATED", "REFUSED_RETRYABLE", "REFUSED"}
  /\ requests' = [requests EXCEPT ![s] = "DONE"]
  /\ UNCHANGED store_vars

(***************************************************************************)
(* accept_prava_browser_return for the binding of session s, after its     *)
(* preflight found nothing to expire.  A passed binding deadline refuses   *)
(* the call like a call that is never made, so it is not a flag of its own.*)
(***************************************************************************)
ReturnAuthority(s) ==
  /\ sessions[s].binding = "OPEN"
  /\ sessions[s].live
  /\ approval.status = "APPROVED"
  /\ ~AuthorityExpired
  /\ sessions[s].status = "SESSION_CREATED"
  /\ payment_status = "SESSION_CREATED"
  /\ approval_status = "APPROVED"

accept_prava_browser_return(s) ==
  /\ ReturnAuthority(s)
  /\ sessions' = [sessions EXCEPT ![s].binding = "CONSUMED",
                                  ![s].status = "CARDHOLDER_PENDING"]
  /\ payment_status' = "CARDHOLDER_PENDING"
  /\ transitions' = TransitionLog(transitions,
       Row("browser-return", s, "CARDHOLDER_PENDING", NoResult))
  /\ run' = IF run = "NONE" THEN "PENDING" ELSE run
  /\ events' = [events EXCEPT ![s] = IF @ = "NONE" THEN "UNPUBLISHED" ELSE @]
  /\ UNCHANGED <<decision_current, clock_vars, approval, approval_status,
                 session_count, attempt, order, receipt, fulfillment_status, requests>>
=============================================================================
