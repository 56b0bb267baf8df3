------------------------ MODULE CheckoutCoordinator -------------------------
(***************************************************************************)
(* PersistentCheckoutCoordinator: the activities of the checkout workflow, *)
(* one action per transaction or provider call.  The merchant and Prava    *)
(* are external: they answer as the adapters of python/integrations can    *)
(* see them answer.                                                        *)
(***************************************************************************)
EXTENDS CheckoutWorkflow

(***************************************************************************)
(* _prepare_attempt: the last check before money may move.                 *)
(***************************************************************************)
To(t, step) == slot' = [slot EXCEPT ![t].step = step]

DispatchAuthority(s) ==
  /\ approval_status = "APPROVED"
  /\ approval.status = "APPROVED"
  /\ payment_status = "CARDHOLDER_PENDING"
  /\ sessions[s].status = "CARDHOLDER_PENDING"
  /\ ~attempt.open

prepare_unchanged ==
  UNCHANGED <<decision_current, clock_vars, session_count, events, run, order, receipt,
              fulfillment_status, requests, dispatcher, workflow, merchant,
              merchant_calls, prava>>

PrepareRefused(t) ==
  /\ slot[t].step = "PREPARE"
  /\ ~DispatchAuthority(workflow.session)
  /\ To(t, "NON_RETRYABLE")
  /\ UNCHANGED <<store_vars, requests, dispatcher, workflow, merchant, merchant_calls, prava>>

(* An expired quote is reported before an expired approval, and only the    *)
(* latter marks the approval.                                               *)
PrepareExpired(t) ==
  LET s == workflow.session IN
  /\ slot[t].step = "PREPARE"
  /\ DispatchAuthority(s)
  /\ AuthorityExpired \/ ~sessions[s].live
  /\ IF quote_live /\ ~approval_live
     THEN SetApproval("EXPIRED")
     ELSE UNCHANGED <<approval, approval_status>>
  /\ sessions' = [sessions EXCEPT ![s].status = "EXPIRED"]
  /\ payment_status' = "EXPIRED"
  /\ transitions' = TransitionLog(transitions, Row("checkout-expired", s, "EXPIRED", NoResult))
  /\ To(t, "ABORT")
  /\ UNCHANGED attempt
  /\ prepare_unchanged

PrepareDispatch(t) ==
  LET s == workflow.session IN
  /\ slot[t].step = "PREPARE"
  /\ DispatchAuthority(s)
  /\ ~AuthorityExpired /\ sessions[s].live
  /\ attempt' = [n |-> attempt.n + 1, session |-> s, outcome |-> "NONE", open |-> TRUE]
  /\ sessions' = [sessions EXCEPT ![s].status = "CHECKOUT_PENDING"]
  /\ payment_status' = "CHECKOUT_PENDING"
  /\ transitions' = TransitionLog(transitions,
       Row("checkout-dispatched", s, "CHECKOUT_PENDING", NoResult))
  /\ To(t, "DISPATCH")
  /\ UNCHANGED <<approval, approval_status>>
  /\ prepare_unchanged

(***************************************************************************)
(* PravaRestAdapter.execute_isolated_checkout: fetch the credential, have  *)
(* the merchant charge it, report the outcome to Prava and poll for the    *)
(* final status.  An Answer is what the two providers did and what the     *)
(* coordinator sees of it.                                                 *)
(***************************************************************************)
Answer(m, p, r) == [merchant |-> m, prava |-> p, result |-> r]

Result(outcome, order_id, reference, reported, required) ==
  [outcome |-> outcome, order_id |-> order_id, reference |-> reference,
   reported |-> reported, required |-> required]

(* Any exception becomes an UNKNOWN result with a reference of our own.     *)
ExceptionResult == Result("UNKNOWN", FALSE, "RECONCILE", FALSE, TRUE)
UncertainResult(order_id) == Result("UNKNOWN", order_id, "PRAVA", FALSE, TRUE)
KnownResult(outcome, order_id, reported, required) ==
  Result(outcome, order_id, "PRAVA", reported, required)

(* Whether a merchant order id comes with a known outcome: the adapter      *)
(* accepts an approval without one and a decline with one.                  *)
OrderIds(outcome) ==
  IF "order_id" \in ProviderFaults THEN BOOLEAN ELSE {outcome = "APPROVED"}

(* IN_FLIGHT: the request is on the wire and the merchant does not know it. *)
MerchantStates == {"NONE", "IN_FLIGHT", "PENDING", "APPROVED", "DECLINED"}
Known == {"APPROVED", "DECLINED"}

(* The results of a known outcome, with Prava told (p) or not.              *)
KnownAnswers(p, reported, required) ==
  UNION {{Answer(o, IF p THEN o ELSE "NONE", KnownResult(o, i, reported, required)) :
            i \in OrderIds(o)} : o \in Known}

ExceptionAnswers == {Answer(m, "NONE", ExceptionResult) : m \in MerchantStates}
                    \cup {Answer(o, o, ExceptionResult) : o \in Known}
UncertainAnswers == {Answer(m, "NONE", UncertainResult(FALSE)) : m \in MerchantStates}
                    \cup {Answer("PENDING", "NONE", UncertainResult(TRUE))}
ReportLostAnswers == KnownAnswers(FALSE, FALSE, TRUE) \cup KnownAnswers(TRUE, FALSE, TRUE)
MismatchAnswers == KnownAnswers(TRUE, TRUE, TRUE)
FinalAnswers == KnownAnswers(TRUE, TRUE, FALSE)

CheckoutAnswers ==
  FinalAnswers
    \cup (IF "exception" \in ProviderFaults THEN ExceptionAnswers ELSE {})
    \cup (IF "uncertain" \in ProviderFaults THEN UncertainAnswers ELSE {})
    \cup (IF "report_lost" \in ProviderFaults THEN ReportLostAnswers ELSE {})
    \cup (IF "mismatch" \in ProviderFaults THEN MismatchAnswers ELSE {})

\* Mutant: an unknown outcome sends the checkout again.
DispatchUntilKnown(t) ==
  /\ slot[t].step = "DISPATCH"
  /\ \E a \in CheckoutAnswers :
       /\ merchant' = a.merchant
       /\ prava' = a.prava
       /\ slot' = [slot EXCEPT ![t].step = IF a.result.outcome = "UNKNOWN"
                                           THEN "DISPATCH" ELSE "PERSIST",
                               ![t].result = a.result]
  /\ merchant_calls' = merchant_calls + 1
  /\ UNCHANGED <<store_vars, requests, dispatcher, workflow>>

Dispatch(t) ==
  /\ slot[t].step = "DISPATCH"
  /\ \E a \in CheckoutAnswers :
       /\ merchant' = a.merchant
       /\ prava' = a.prava
       /\ slot' = [slot EXCEPT ![t].step = "PERSIST", ![t].result = a.result]
  /\ merchant_calls' = merchant_calls + 1
  /\ UNCHANGED <<store_vars, requests, dispatcher, workflow>>

(* External: a late request arrives, an accepted order is settled.          *)
MerchantSettles ==
  /\ \/ merchant = "IN_FLIGHT" /\ merchant' \in Known \cup {"PENDING"}
     \/ merchant = "PENDING" /\ merchant' \in Known
  /\ UNCHANGED <<store_vars, requests, dispatcher, workflow, slot, merchant_calls, prava>>

(***************************************************************************)
(* reconcile_checkout up to its transaction: reconcile_order, then         *)
(* report_known_outcome.  An order the merchant does not know is a 404     *)
(* (not retryable), and so is a report under a reference that              *)
(* validate_identifier refuses: "reconcile:<attempt>" has a colon.         *)
(***************************************************************************)
ReportableReference(reference) == reference = "PRAVA"

(* A provider error keeps its retryable flag; Prava may have taken the      *)
(* report all the same.                                                     *)
QueryFails(t) ==
  /\ "error" \in ProviderFaults
  /\ \E failure \in {"RETRYABLE", "NON_RETRYABLE"} : To(t, failure)
  /\ \/ UNCHANGED prava
     \/ merchant \in Known /\ ReportableReference(slot[t].result.reference)
        /\ prava' = merchant

QueryRefused(t) ==
  /\ \/ merchant \in {"NONE", "IN_FLIGHT"}
     \/ merchant \in Known /\ ~ReportableReference(slot[t].result.reference)
  /\ To(t, "NON_RETRYABLE")
  /\ UNCHANGED prava

QueryUnknown(t) ==
  /\ merchant = "PENDING"
  /\ \E known \in BOOLEAN :
       slot' = [slot EXCEPT ![t].step = "PERSIST",
                            ![t].result = [@ EXCEPT !.order_id = known]]
  /\ UNCHANGED prava

QueryKnown(t) ==
  /\ merchant \in Known
  /\ ReportableReference(slot[t].result.reference)
  /\ prava' = merchant
  /\ \E known \in OrderIds(merchant) :
       slot' = [slot EXCEPT ![t].step = "PERSIST",
                            ![t].result = KnownResult(merchant, known, TRUE, FALSE)]

Query(t) ==
  /\ slot[t].step = "QUERY"
  /\ QueryFails(t) \/ QueryRefused(t) \/ QueryUnknown(t) \/ QueryKnown(t)
  /\ UNCHANGED <<store_vars, requests, dispatcher, workflow, merchant, merchant_calls>>

(***************************************************************************)
(* _persist_checkout_result.  The approved branch makes two transitions in *)
(* one transaction; a conflict in either rolls everything back.            *)
(***************************************************************************)
UnsettledCheckout == {"CHECKOUT_PENDING", "UNCERTAIN"}

UncertainRow(r) == Row("checkout-uncertain", attempt.session, "UNCERTAIN", SafeHash(r))
DeclinedRow(r) == Row("checkout-declined", attempt.session, "DECLINED", SafeHash(r))
ApprovedRow(r) == Row("merchant-approved", attempt.session, "MERCHANT_APPROVED", SafeHash(r))
\* Mutant: a lost report counts as a confirmed one.
ReportAlwaysConfirmed(r) == "PRAVA_COMPLETED"

ReportTarget(r) == IF r.reported THEN "PRAVA_COMPLETED" ELSE "REPORTING"
ReportRow(r) ==
  Row(IF r.reported THEN "prava-report:prava_completed" ELSE "prava-report:reporting",
      attempt.session, ReportTarget(r), SafeHash(r))

(* The log and state between the two transitions of the approved branch.    *)
ApprovedLog(r) ==
  IF payment_status \in UnsettledCheckout
  THEN TransitionLog(transitions, ApprovedRow(r)) ELSE transitions
ApprovedState(r) ==
  IF payment_status \in UnsettledCheckout
  THEN TransitionState(transitions, payment_status, ApprovedRow(r)) ELSE payment_status

PersistConflict(r) ==
  CASE r.outcome = "UNKNOWN" ->
         TransitionConflict(transitions, payment_status, UnsettledCheckout, UncertainRow(r))
    [] r.outcome = "DECLINED" ->
         TransitionConflict(transitions, payment_status, UnsettledCheckout, DeclinedRow(r))
    [] r.outcome = "APPROVED" ->
         \/ /\ payment_status \in UnsettledCheckout
            /\ TransitionConflict(transitions, payment_status, UnsettledCheckout,
                                  ApprovedRow(r))
         \/ TransitionConflict(ApprovedLog(r), ApprovedState(r),
                               {"MERCHANT_APPROVED", "REPORTING"}, ReportRow(r))

PersistedLog(r) ==
  CASE r.outcome = "UNKNOWN" -> TransitionLog(transitions, UncertainRow(r))
    [] r.outcome = "DECLINED" -> TransitionLog(transitions, DeclinedRow(r))
    [] r.outcome = "APPROVED" -> TransitionLog(ApprovedLog(r), ReportRow(r))

PersistedState(r) ==
  CASE r.outcome = "UNKNOWN" -> TransitionState(transitions, payment_status, UncertainRow(r))
    [] r.outcome = "DECLINED" -> TransitionState(transitions, payment_status, DeclinedRow(r))
    [] r.outcome = "APPROVED" -> TransitionState(ApprovedLog(r), ApprovedState(r), ReportRow(r))

(* The session row takes the outcome whether or not the key is a replay.    *)
SessionOutcome(r) ==
  CASE r.outcome = "UNKNOWN" -> "UNCERTAIN"
    [] r.outcome = "DECLINED" -> "DECLINED"
    [] r.outcome = "APPROVED" -> ReportTarget(r)

PersistApplies(t) ==
  LET r == slot[t].result IN
  /\ slot[t].step = "PERSIST"
  /\ ~PersistConflict(r)
  /\ attempt' = [attempt EXCEPT !.outcome = r.outcome,
                    !.open = IF r.outcome # "UNKNOWN" /\ ~r.required THEN FALSE ELSE @]
  /\ order' = IF r.order_id /\ order = "NONE" THEN r.outcome ELSE order
  /\ sessions' = [sessions EXCEPT ![attempt.session].status = SessionOutcome(r)]
  /\ payment_status' = PersistedState(r)
  /\ transitions' = PersistedLog(r)
  /\ To(t, IF ~r.required /\ r.outcome # "APPROVED" THEN "FINISH" ELSE "OK")
  /\ UNCHANGED <<authority_vars, clock_vars, session_count, events, run, receipt,
                 fulfillment_status, requests, dispatcher, workflow, merchant,
                 merchant_calls, prava>>

(* PersistenceConflict is not a ProviderError: neither activity retries it. *)
PersistRefused(t) ==
  /\ slot[t].step = "PERSIST"
  /\ PersistConflict(slot[t].result)
  /\ To(t, "NON_RETRYABLE")
  /\ UNCHANGED <<store_vars, requests, dispatcher, workflow, merchant, merchant_calls, prava>>

(***************************************************************************)
(* _verify_fulfillment: a transaction that starts it, the merchant's       *)
(* entitlement probes, and a transaction that records what they add up to  *)
(* and, once VERIFIED, writes the Receipt.                                 *)
(***************************************************************************)
StartedRow == Row("fulfillment-started", attempt.session, "PENDING", NoResult)
VerifyOpen == {"PENDING", "PARTIAL", "FAILED_RETRYABLE"}

verify_unchanged ==
  UNCHANGED <<authority_vars, clock_vars, payment_status, session_vars, events, run,
              attempt, order, requests, dispatcher, workflow, merchant, merchant_calls,
              prava>>

\* Mutant: every retry of the activity starts fulfillment again.
StartVerifyAgain(t) ==
  /\ slot[t].step = "START"
  /\ IF fulfillment_status # "VERIFIED"
     THEN /\ fulfillment_status' = "PENDING"
          /\ transitions' = TransitionLog(transitions, StartedRow)
     ELSE UNCHANGED <<fulfillment_status, transitions>>
  /\ To(t, IF fulfillment_status = "VERIFIED" THEN "FINISH" ELSE "OBSERVE")
  /\ UNCHANGED receipt
  /\ verify_unchanged

StartVerify(t) ==
  /\ slot[t].step = "START"
  /\ IF fulfillment_status = "NOT_STARTED"
     THEN /\ fulfillment_status' = "PENDING"
          /\ transitions' = TransitionLog(transitions, StartedRow)
     ELSE UNCHANGED <<fulfillment_status, transitions>>
  /\ To(t, IF fulfillment_status = "VERIFIED" THEN "FINISH" ELSE "OBSERVE")
  /\ UNCHANGED receipt
  /\ verify_unchanged

Observe(t) ==
  /\ slot[t].step = "OBSERVE"
  /\ \/ \E target \in Observations :
          slot' = [slot EXCEPT ![t].step = "RESULT", ![t].target = target]
     \/ /\ "error" \in ProviderFaults
        /\ \E failure \in {"RETRYABLE", "NON_RETRYABLE"} : To(t, failure)
  /\ UNCHANGED <<store_vars, requests, dispatcher, workflow, merchant, merchant_calls, prava>>

ResultRow(target) == Row(ResultKey[target], attempt.session, target, NoResult)

(* _create_receipt names the latest session, and needs an APPROVED request: *)
(* a missing one is no ProviderError and the attempt is retried.            *)
ReceiptPossible == receipt # 0 \/ approval.status = "APPROVED"
IssuedReceipt == IF receipt # 0 THEN receipt ELSE session_count

ResultRefused(target) ==
  \/ TransitionConflict(transitions, fulfillment_status, VerifyOpen, ResultRow(target))
  \/ target = "VERIFIED" /\ ~ReceiptPossible

VerifyOutcome == [VERIFIED |-> "FINISH", PARTIAL |-> "RETRYABLE",
                  FAILED_RETRYABLE |-> "RETRYABLE", FAILED_FINAL |-> "FINISH_FAILED"]

\* Mutant: every recorded observation writes the receipt.
RecordVerifyWithReceipt(t) ==
  LET target == slot[t].target IN
  /\ slot[t].step = "RESULT"
  /\ IF ResultRefused(target)
     THEN /\ UNCHANGED <<fulfillment_status, transitions, receipt>>
          /\ To(t, "RETRYABLE")
     ELSE /\ fulfillment_status' = TransitionState(transitions, fulfillment_status,
                                                   ResultRow(target))
          /\ transitions' = TransitionLog(transitions, ResultRow(target))
          /\ receipt' = IssuedReceipt
          /\ To(t, VerifyOutcome[target])
  /\ verify_unchanged

RecordVerify(t) ==
  LET target == slot[t].target IN
  /\ slot[t].step = "RESULT"
  /\ IF ResultRefused(target)
     THEN /\ UNCHANGED <<fulfillment_status, transitions, receipt>>
          /\ To(t, "RETRYABLE")
     ELSE /\ fulfillment_status' = TransitionState(transitions, fulfillment_status,
                                                   ResultRow(target))
          /\ transitions' = TransitionLog(transitions, ResultRow(target))
          /\ receipt' = IF target = "VERIFIED" THEN IssuedReceipt ELSE receipt
          /\ To(t, VerifyOutcome[target])
  /\ verify_unchanged

(* _create_receipt finds a StackPatch that cannot be staged, or an intent   *)
(* whose merchant names no country: a ProviderError that is not retryable   *)
(* and rolls the observation back.                                          *)
ReceiptRefused(t) ==
  /\ "receipt" \in ProviderFaults
  /\ slot[t].step = "RESULT" /\ slot[t].target = "VERIFIED"
  /\ ~ResultRefused("VERIFIED") /\ receipt = 0
  /\ To(t, "NON_RETRYABLE")
  /\ UNCHANGED <<store_vars, requests, dispatcher, workflow, merchant, merchant_calls, prava>>

(***************************************************************************)
(* _finish_workflow_run, the last transaction of an attempt: COMPLETED for *)
(* a final decline or a verified purchase, FAILED for an authority that    *)
(* expired before dispatch (the attempt then fails), for FAILED_FINAL      *)
(* fulfillment (likewise) and for fail_checkout_workflow.                  *)
(***************************************************************************)
FinishStatus == [FINISH |-> "COMPLETED", FINISH_FAILED |-> "FAILED", ABORT |-> "FAILED"]

AfterFinish(a, step) ==
  IF step = "ABORT" \/ (step = "FINISH_FAILED" /\ a = "VERIFY")
  THEN "NON_RETRYABLE" ELSE "OK"

Finish(t) ==
  /\ slot[t].step \in DOMAIN FinishStatus
  /\ run' = FinishedRun(run, FinishStatus[slot[t].step])
  /\ To(t, AfterFinish(slot[t].activity, slot[t].step))
  /\ UNCHANGED <<authority_vars, clock_vars, payment_status, session_vars, events,
                 ledger_vars, requests, dispatcher, workflow, merchant, merchant_calls,
                 prava>>
=============================================================================
