--------------------------- MODULE ApprovalService ---------------------------
(***************************************************************************)
(* The approval endpoints of WorkflowService and the Decision change that  *)
(* invalidates them.  Each action is one handler, that is one transaction. *)
(* A handler that raises changes nothing and is no step; a replayed        *)
(* Idempotency-Key returns the stored response and is no step either.      *)
(***************************************************************************)
EXTENDS PurchaseStore

approval_unchanged ==
  UNCHANGED <<decision_current, quote_live, payment_status, session_vars, events,
              run, ledger_vars>>

SetApproval(status) ==
  /\ approval' = [approval EXCEPT !.status = status]
  /\ approval_status' = status

(* create_approval_request: expires_at is an hour from now.                 *)
create_approval_request ==
  /\ decision_current
  /\ quote_live
  /\ approval_status = "NOT_REQUESTED"
  /\ approval' = [status |-> "PENDING", approved_roles |-> <<>>, approvers |-> <<>>]
  /\ approval_status' = "PENDING"
  /\ approval_live' = TRUE
  /\ approval_unchanged

(* _require_verified_approval_role                                          *)
VerifiedRole(actor, role) == role \in RolesOf[actor] /\ role \in Roles

(* _require_approval_role: the role of the next stage, held by the actor.   *)
NextStage(actor, role) ==
  /\ VerifiedRole(actor, role)
  /\ Len(approval.approved_roles) < Len(RequiredRoles)
  /\ RequiredRoles[Len(approval.approved_roles) + 1] = role

\* Mutant: no separation of duties.
AnyDuty(actor) == TRUE

(* The SEPARATION_OF_DUTIES check: no earlier APPROVE event of this actor.  *)
SeparateDuty(actor) ==
  \A i \in 1..Len(approval.approvers) : approval.approvers[i] # actor

(* record_approval_event accepts only an open request.                      *)
OpenRequest == approval.status \in {"PENDING", "APPROVED"}

(* A late approve or reject finds the authority expired and commits that,   *)
(* before it looks at the actor or at the request's status.                 *)
ExpireOnUse ==
  /\ AuthorityExpired
  /\ SetApproval("EXPIRED")
  /\ UNCHANGED approval_live
  /\ approval_unchanged

ApproveStage(actor, role) ==
  /\ ~AuthorityExpired
  /\ NextStage(actor, role)
  /\ SeparateDuty(actor)
  /\ OpenRequest
  /\ LET roles == Append(approval.approved_roles, role)
         status == IF roles = RequiredRoles THEN "APPROVED" ELSE approval.status
     IN /\ approval' = [status |-> status, approved_roles |-> roles,
                        approvers |-> Append(approval.approvers, actor)]
        /\ approval_status' = IF roles = RequiredRoles THEN "APPROVED"
                              ELSE approval_status
  /\ UNCHANGED approval_live
  /\ approval_unchanged

approve(actor, role) ==
  /\ approval.status # "NONE"
  /\ decision_current
  /\ ExpireOnUse \/ ApproveStage(actor, role)

RejectStage(actor, role) ==
  /\ ~AuthorityExpired
  /\ NextStage(actor, role)
  /\ OpenRequest
  /\ SetApproval("REJECTED")
  /\ UNCHANGED approval_live
  /\ approval_unchanged

reject_approval(actor, role) ==
  /\ approval.status # "NONE"
  /\ decision_current
  /\ ExpireOnUse \/ RejectStage(actor, role)

\* Mutant: the payment state is not looked at.
RevocableAlways ==
  /\ OpenRequest
  /\ \A s \in SessionIds : sessions[s].status # "CREATING"

(* revoke_approval is possible until merchant dispatch, and not while a     *)
(* provider session create is in flight.                                    *)
Revocable ==
  /\ OpenRequest
  /\ payment_status \in {"NOT_STARTED", "SESSION_CREATED", "CARDHOLDER_PENDING"}
  /\ \A s \in SessionIds : sessions[s].status # "CREATING"

RevokedRow(row) ==
  [row EXCEPT
     !.status = IF @ \in {"SESSION_CREATED", "CARDHOLDER_PENDING"} THEN "REVOKED" ELSE @,
     !.binding = IF @ = "OPEN" THEN "CONSUMED" ELSE @]

revoke_approval(actor, role) ==
  /\ decision_current
  /\ Revocable
  /\ VerifiedRole(actor, role)
  /\ SetApproval("REVOKED")
  /\ sessions' = [s \in SessionIds |-> RevokedRow(sessions[s])]
  /\ events' = [s \in SessionIds |->
                  IF events[s] = "UNPUBLISHED" THEN "PUBLISHED" ELSE events[s]]
  /\ run' = IF run = "PENDING" THEN "FAILED" ELSE run
  /\ UNCHANGED <<decision_current, clock_vars, payment_status, session_count,
                 ledger_vars>>

(***************************************************************************)
(* decide_proposal (accepted) writes a new DecisionRecord version and, in  *)
(* the same transaction, supersede_intents_for_decision_change.  Later     *)
(* versions run it over this intent again.                                 *)
(***************************************************************************)
SafePreCheckout == {"NOT_STARTED", "SESSION_CREATED", "CARDHOLDER_PENDING",
                    "DECLINED", "EXPIRED", "FAILED"}

SupersededRow(row) ==
  [row EXCEPT !.status =
     IF @ \in {"SESSION_CREATED", "CARDHOLDER_PENDING"} THEN "EXPIRED" ELSE @]

\* Mutant: the new version does not supersede the intents of older ones.
decide_without_superseding ==
  /\ payment_status \in SafePreCheckout
  /\ decision_current' = FALSE
  /\ UNCHANGED <<approval_status, approval, payment_status, session_vars, clock_vars,
                 events, run, ledger_vars>>

decide_proposal ==
  /\ payment_status \in SafePreCheckout
  /\ decision_current' = FALSE
  /\ IF approval_status \in {"NOT_REQUESTED", "PENDING", "APPROVED"}
     THEN /\ approval_status' = "SUPERSEDED"
          /\ approval' = IF OpenRequest THEN [approval EXCEPT !.status = "SUPERSEDED"]
                         ELSE approval
     ELSE UNCHANGED <<approval_status, approval>>
  /\ IF payment_status \in {"SESSION_CREATED", "CARDHOLDER_PENDING"}
     THEN /\ payment_status' = "EXPIRED"
          /\ sessions' = [s \in SessionIds |-> SupersededRow(sessions[s])]
     ELSE UNCHANGED <<payment_status, sessions>>
  /\ UNCHANGED <<clock_vars, session_count, events, run, ledger_vars>>
=============================================================================
