--------------------------- MODULE PurchaseProofs ---------------------------
(***************************************************************************)
(* Proofs about PurchaseSystem, for every value of the constants: its      *)
(* types; money moves at most once, and only under a full and standing     *)
(* approval (AtMostOneCharge, RevokedNeverCharged, FourEyes,               *)
(* NoDispatchAfterSupersede); the rows of different components agree       *)
(* (RecordsAgree); ledger, fulfillment, receipt and run say what is so     *)
(* (LedgerTrue, OutcomeTrue, TerminalRunStays); and every step implements  *)
(* PurchaseLifecycle.                                                      *)
(***************************************************************************)
EXTENDS PurchaseSystem, TLAPS

(* An awaited attempt belongs to a workflow that stands at an activity, so  *)
(* AfterSuccess and AfterFailure are only asked about activities.           *)
AwaitsActivity == workflow.awaits # NoSlot => workflow.step \in Activities

TypeInv == TypeOK /\ AwaitsActivity

-----------------------------------------------------------------------------
(* The operators the steps are built from.                                  *)

(* Every target of _verify_fulfillment has an event key.                    *)
LEMMA ResultKeyType ==
  /\ DOMAIN ResultKey = {"VERIFIED", "PARTIAL", "FAILED_RETRYABLE", "FAILED_FINAL"}
  /\ \A target \in DOMAIN ResultKey : ResultKey[target] \in EventKeys
BY DEF ResultKey, EventKeys

(* Every activity of PurchaseCheckoutWorkflow has a retry limit.            *)
LEMMA MaximumAttemptsType ==
  \A a \in Activities : MaximumAttempts[a] \in 1..MaxTries
BY WorkerAssumption DEF MaximumAttempts, Activities

(* Every activity has a first step.                                         *)
LEMMA FirstStepType == \A a \in Activities : FirstStep[a] \in Steps
BY DEF FirstStep, Activities, Steps

(* The empty result is a result.                                            *)
LEMMA NoResultType == NoResult \in CheckoutResults
BY DEF NoResult, CheckoutResults, Outcomes

(* revoke_approval and a Decision change leave PaymentSession rows.         *)
LEMMA SessionRowTypes ==
  ASSUME NEW row \in SessionRow
  PROVE  RevokedRow(row) \in SessionRow /\ SupersededRow(row) \in SessionRow
<1>1. RevokedRow(row) \in SessionRow
  <2> DEFINE status == IF row.status \in {"SESSION_CREATED", "CARDHOLDER_PENDING"}
                       THEN "REVOKED" ELSE row.status
             binding == IF row.binding = "OPEN" THEN "CONSUMED" ELSE row.binding
  <2>1. status \in SessionStatus /\ binding \in {"NONE", "OPEN", "CONSUMED"}
    BY DEF SessionRow, SessionStatus
  <2>2. RevokedRow(row) = [row EXCEPT !.status = status, !.binding = binding]
    BY DEF RevokedRow, SessionRow
  <2> HIDE DEF status, binding
  <2> QED BY <2>1, <2>2 DEF SessionRow
<1>2. SupersededRow(row) \in SessionRow
  <2> DEFINE status == IF row.status \in {"SESSION_CREATED", "CARDHOLDER_PENDING"}
                       THEN "EXPIRED" ELSE row.status
  <2>1. status \in SessionStatus
    BY DEF SessionRow, SessionStatus, PaymentStatus
  <2>2. SupersededRow(row) = [row EXCEPT !.status = status]
    BY DEF SupersededRow, SessionRow
  <2> HIDE DEF status
  <2> QED BY <2>1, <2>2 DEF SessionRow
<1> QED BY <1>1, <1>2

(* Updating a session row keeps the rows typed.                             *)
LEMMA SessionStatusUpdate ==
  ASSUME NEW rows \in [SessionIds -> SessionRow], NEW s, NEW status \in SessionStatus
  PROVE  [rows EXCEPT ![s].status = status] \in [SessionIds -> SessionRow]
<1>1. \A row \in SessionRow : [row EXCEPT !.status = status] \in SessionRow
  BY DEF SessionRow
<1> QED BY <1>1

WorkflowType ==
  [step : Activities \cup {"NONE", "COMPLETED", "FAILED"},
   session : SessionIds, round : 1..MaxRounds, tries : 1..MaxTries,
   reference : {"PRAVA", "RECONCILE"}, awaits : Slots \cup {NoSlot}]

(* A workflow that hears of an activity's success moves to a legal state    *)
(* and awaits nothing.                                                      *)
LEMMA AfterSuccessType ==
  ASSUME NEW w \in WorkflowType, w.step \in Activities, NEW r \in CheckoutResults
  PROVE  AfterSuccess(w, r) \in WorkflowType /\ AfterSuccess(w, r).awaits = NoSlot
<1>1. ASSUME NEW step \in Activities \cup {"NONE", "COMPLETED", "FAILED"}
      PROVE  Advance(w, step) \in WorkflowType /\ Advance(w, step).awaits = NoSlot
  <2>1. 1 \in 1..MaxTries
    BY WorkerAssumption
  <2> QED BY <2>1 DEF Advance, WorkflowType
<1>2. CASE w.step \in {"EXECUTE", "RECONCILE"}
  <2>1. CASE ~r.required
    BY <1>1, <1>2, <2>1 DEF AfterSuccess, AfterCheckout, Activities
  <2>2. CASE r.required /\ w.step = "EXECUTE"
    BY <1>1, <2>2 DEF AfterSuccess, AfterCheckout, Activities, WorkflowType,
       CheckoutResults
  <2>3. CASE r.required /\ w.step = "RECONCILE"
    BY <1>1, <2>3, WorkerAssumption DEF AfterSuccess, AfterCheckout, Activities,
       WorkflowType
  <2> QED BY <1>2, <2>1, <2>2, <2>3 DEF CheckoutResults
<1>3. CASE w.step \in {"VERIFY", "FAIL_RECONCILE", "FAIL_FULFILL"}
  BY <1>1, <1>3 DEF AfterSuccess
<1> QED BY <1>2, <1>3 DEF Activities

(* A workflow that hears of a failure or a timeout retries within the limit *)
(* or moves on, and awaits nothing.                                         *)
LEMMA AfterFailureType ==
  ASSUME NEW w \in WorkflowType, w.step \in Activities, NEW retryable \in BOOLEAN
  PROVE  AfterFailure(w, retryable) \in WorkflowType
         /\ AfterFailure(w, retryable).awaits = NoSlot
<1>1. 1 \in 1..MaxTries
  BY WorkerAssumption
<1>2. CASE retryable /\ MayRetry(w)
  <2>1. w.tries + 1 \in 1..MaxTries
    BY <1>2, MaximumAttemptsType, WorkerAssumption DEF MayRetry, WorkflowType
  <2> QED BY <1>2, <2>1 DEF AfterFailure, WorkflowType
<1>3. CASE ~(retryable /\ MayRetry(w))
  BY <1>1, <1>3 DEF AfterFailure, Advance, WorkflowType, Activities
<1> QED BY <1>2, <1>3

-----------------------------------------------------------------------------
(* Each handler, activity step and fault keeps TypeInv.                     *)

(* The approval endpoints and the Decision change.                          *)
LEMMA ApprovalTypes ==
  ASSUME TypeInv,
         \/ create_approval_request
         \/ \E a \in Actors, r \in Roles :
              approve(a, r) \/ reject_approval(a, r) \/ revoke_approval(a, r)
         \/ decide_proposal
         \/ expire_purchase_approval
  PROVE  StoreTypeOK'
<1> USE DEF TypeInv, TypeOK, StoreTypeOK
<1>1. CASE create_approval_request
  BY <1>1 DEF create_approval_request, approval_unchanged, session_vars, ledger_vars,
     ApprovalStatus
<1>2. ASSUME NEW a \in Actors, NEW r \in Roles,
             approve(a, r) \/ reject_approval(a, r) \/ revoke_approval(a, r)
      PROVE  StoreTypeOK'
  <2>1. CASE ExpireOnUse
    BY <2>1 DEF ExpireOnUse, SetApproval, approval_unchanged, session_vars, ledger_vars,
       ApprovalStatus
  <2>2. CASE ApproveStage(a, r)
    BY <1>2, <2>2 DEF ApproveStage, approval_unchanged, session_vars, ledger_vars,
       ApprovalStatus
  <2>3. CASE RejectStage(a, r)
    BY <2>3 DEF RejectStage, SetApproval, approval_unchanged, session_vars, ledger_vars,
       ApprovalStatus
  <2>4. CASE revoke_approval(a, r)
    <3>1. sessions' \in [SessionIds -> SessionRow]
      BY <2>4, SessionRowTypes DEF revoke_approval
    <3> QED BY <2>4, <3>1 DEF revoke_approval, SetApproval, clock_vars, ledger_vars,
            ApprovalStatus, RunTerminal
  <2> QED BY <1>2, <2>1, <2>2, <2>3, <2>4 DEF approve, reject_approval
<1>3. CASE decide_proposal
  <2>1. sessions' \in [SessionIds -> SessionRow]
    BY <1>3, SessionRowTypes DEF decide_proposal
  <2>2. approval_status' \in ApprovalStatus
    BY <1>3 DEF decide_proposal, ApprovalStatus
  <2>3. approval' \in [status : ApprovalStatus \cup {"NONE"},
                       approved_roles : Seq(Roles), approvers : Seq(Actors)]
    BY <1>3 DEF decide_proposal, ApprovalStatus
  <2>4. payment_status' \in PaymentStatus
    BY <1>3 DEF decide_proposal, PaymentStatus
  <2> QED BY <1>3, <2>1, <2>2, <2>3, <2>4 DEF decide_proposal, clock_vars, ledger_vars
<1>4. CASE expire_purchase_approval
  BY <1>4 DEF expire_purchase_approval, SetApproval, clock_vars, session_vars, ledger_vars,
     ApprovalStatus
<1> QED BY <1>1, <1>2, <1>3, <1>4

(* create_prava_session and accept_prava_browser_return, the answer of      *)
(* Prava and a crash of the API process.                                    *)
LEMMA SessionTypes ==
  ASSUME TypeInv,
         \/ create_prava_session
         \/ \E s \in SessionIds :
              \/ accept_prava_browser_return(s) \/ PravaAnswersCreate(s)
              \/ RecordSession(s) \/ mark_session_create_failed(s) \/ ApiCrash(s)
  PROVE  StoreTypeOK' /\ SessionTypeOK'
<1> USE NoResultType DEF TypeInv, TypeOK, StoreTypeOK, SessionTypeOK
<1>1. CASE create_prava_session
  <2>1. Placeholder \in SessionRow
    BY DEF Placeholder, SessionRow, SessionStatus
  <2>2. ASSUME NEW row \in SessionRow
        PROVE  [row EXCEPT !.status = "EXPIRED"] \in SessionRow
    BY DEF SessionRow, SessionStatus, PaymentStatus
  <2>3. sessions' \in [SessionIds -> SessionRow]
    BY <1>1, <2>1, <2>2 DEF create_prava_session
  <2>4. session_count' \in 0..MaxSessions
    BY <1>1, SessionsAssumption DEF create_prava_session
  <2> QED BY <1>1, <2>3, <2>4 DEF create_prava_session, session_unchanged, clock_vars,
          ledger_vars, RequestSteps
<1>2. ASSUME NEW s \in SessionIds, accept_prava_browser_return(s)
      PROVE  StoreTypeOK' /\ SessionTypeOK'
  <2>1. sessions' \in [SessionIds -> SessionRow]
    <3>1. [sessions[s] EXCEPT !.binding = "CONSUMED", !.status = "CARDHOLDER_PENDING"]
            \in SessionRow
      <4>1. "CARDHOLDER_PENDING" \in SessionStatus
        BY DEF SessionStatus, PaymentStatus
      <4>2. sessions[s] \in SessionRow
        OBVIOUS
      <4> QED BY <4>1, <4>2 DEF SessionRow
    <3>2. sessions' = [sessions EXCEPT ![s] =
            [sessions[s] EXCEPT !.binding = "CONSUMED", !.status = "CARDHOLDER_PENDING"]]
      BY <1>2 DEF accept_prava_browser_return
    <3> QED BY <3>1, <3>2
  <2>2. transitions' \subseteq [key : EventKeys, id : 0..MaxSessions,
                                to : PaymentStatus \cup FulfillmentStatus,
                                hash : CheckoutResults]
    BY <1>2 DEF accept_prava_browser_return, TransitionLog, Row, EventKeys, SessionIds,
       PaymentStatus
  <2> QED BY <1>2, <2>1, <2>2 DEF accept_prava_browser_return, clock_vars, PaymentStatus
<1>3. ASSUME NEW s \in SessionIds, PravaAnswersCreate(s) \/ ApiCrash(s)
      PROVE  StoreTypeOK' /\ SessionTypeOK'
  BY <1>3 DEF PravaAnswersCreate, ApiCrash, store_vars, RequestSteps
<1>4. ASSUME NEW s \in SessionIds, RecordSession(s)
      PROVE  StoreTypeOK' /\ SessionTypeOK'
  <2>1. sessions' \in [SessionIds -> SessionRow]
    <3>1. [status |-> "SESSION_CREATED", hosted |-> TRUE, live |-> TRUE,
           binding |-> "OPEN"] \in SessionRow
      BY DEF SessionRow, SessionStatus, PaymentStatus
    <3> QED BY <1>4, <3>1 DEF RecordSession, RecordSessionFrom
  <2>2. transitions' \subseteq [key : EventKeys, id : 0..MaxSessions,
                                to : PaymentStatus \cup FulfillmentStatus,
                                hash : CheckoutResults]
    BY <1>4 DEF RecordSession, RecordSessionFrom, SessionCreatedRow, TransitionLog, Row,
       EventKeys, SessionIds, PaymentStatus
  <2>3. payment_status' \in PaymentStatus
    BY <1>4 DEF RecordSession, RecordSessionFrom, SessionCreatedRow, TransitionState, Row,
       PaymentStatus
  <2> QED BY <1>4, <2>1, <2>2, <2>3 DEF RecordSession, RecordSessionFrom, clock_vars,
          RequestSteps
<1>5. ASSUME NEW s \in SessionIds, mark_session_create_failed(s)
      PROVE  StoreTypeOK' /\ SessionTypeOK'
  <2>1. sessions' \in [SessionIds -> SessionRow]
    <3> DEFINE failed == IF requests[s] = "REFUSED" THEN "FAILED" ELSE "UNCERTAIN"
    <3>1. failed \in SessionStatus
      BY DEF SessionStatus, PaymentStatus
    <3>2. sessions' = sessions \/ sessions' = [sessions EXCEPT ![s].status = failed]
      BY <1>5 DEF mark_session_create_failed
    <3> HIDE DEF failed
    <3> QED BY <3>1, <3>2, SessionStatusUpdate
  <2> QED BY <1>5, <2>1 DEF mark_session_create_failed, session_unchanged, clock_vars,
          ledger_vars, RequestSteps
<1> QED BY <1>1, <1>2, <1>3, <1>4, <1>5

(* Deadlines.                                                               *)
LEMMA TimeTypes == ASSUME TypeInv, Time PROVE StoreTypeOK' /\ SessionTypeOK'
<1> USE DEF TypeInv, TypeOK, StoreTypeOK, SessionTypeOK
<1>1. sessions' \in [SessionIds -> SessionRow]
  <2>1. \A row \in SessionRow : [row EXCEPT !.live = FALSE] \in SessionRow
    BY DEF SessionRow
  <2> QED BY <2>1 DEF Time, time_only, SessionExpires, clock_vars
<1> QED BY <1>1 DEF Time, time_only, QuoteExpires, ApprovalExpires, SessionExpires, clock_vars,
        authority_vars, ledger_vars

(* The outbox dispatcher.                                                   *)
LEMMA DispatcherTypes ==
  ASSUME TypeInv, NEW d \in Dispatchers,
         DispatchRead(d) \/ DispatchStart(d) \/ DispatchPublish(d) \/ DispatcherCrash(d)
  PROVE  StoreTypeOK' /\ SessionTypeOK' /\ WorkerTypeOK' /\ AwaitsActivity'
<1> USE DEF TypeInv, TypeOK, StoreTypeOK, SessionTypeOK, WorkerTypeOK, AwaitsActivity
<1>1. CASE DispatchRead(d)
  BY <1>1 DEF DispatchRead, store_vars
<1>2. CASE DispatchStart(d)
  <2>1. workflow \in WorkflowType
    BY DEF WorkflowType
  <2>2. workflow' \in WorkflowType /\ (workflow'.step \in Activities \/ workflow' = workflow)
    BY <1>2, <2>1 DEF DispatchStart, StartedWorkflow, WorkflowType, Activities
  <2>3. dispatcher' \in [Dispatchers -> [step : {"IDLE", "READ", "STARTED"},
                                         session : SessionIds]]
    BY <1>2 DEF DispatchStart
  <2> QED BY <1>2, <2>2, <2>3 DEF DispatchStart, store_vars, WorkflowType
<1>3. CASE DispatchPublish(d)
  <2>1. dispatcher' \in [Dispatchers -> [step : {"IDLE", "READ", "STARTED"},
                                         session : SessionIds]]
    <3>1. dispatcher' = [dispatcher EXCEPT ![d].step = "IDLE"]
      BY <1>3 DEF DispatchPublish
    <3> QED BY <3>1
  <2>2. events' \in [SessionIds -> {"NONE", "UNPUBLISHED", "PUBLISHED"}]
    BY <1>3 DEF DispatchPublish
  <2>3. run' \in {"NONE", "PENDING", "RUNNING"} \cup RunTerminal
    BY <1>3 DEF DispatchPublish
  <2> QED BY <1>3, <2>1, <2>2, <2>3 DEF DispatchPublish, authority_vars, clock_vars,
          session_vars, ledger_vars
<1>4. CASE DispatcherCrash(d)
  BY <1>4 DEF DispatcherCrash, store_vars
<1> QED BY <1>1, <1>2, <1>3, <1>4

(* Temporal's scheduling of attempts, their end, and the ways they are lost.*)
LEMMA WorkflowTypes ==
  ASSUME TypeInv, NEW t \in Slots,
         Schedule(t) \/ Complete(t) \/ ActivityTimeout(t) \/ WorkerCrash(t)
  PROVE  StoreTypeOK' /\ SessionTypeOK' /\ WorkerTypeOK' /\ AwaitsActivity'
<1> USE NoResultType DEF TypeInv, TypeOK, SessionTypeOK, WorkerTypeOK, AwaitsActivity
<1>1. StoreTypeOK' /\ SessionTypeOK'
  BY DEF Schedule, Complete, ActivityTimeout, WorkerCrash, store_vars, StoreTypeOK
<1>2. workflow \in WorkflowType /\ t # NoSlot
  BY WorkerAssumption DEF WorkflowType
<1>3. Idle \in [activity : Activities, step : Steps, result : CheckoutResults,
                target : DOMAIN ResultKey]
  BY ResultKeyType DEF Idle, Activities, Steps
<1>4. CASE Schedule(t)
  <2>1. [NoResult EXCEPT !.reference = workflow.reference] \in CheckoutResults
    BY DEF CheckoutResults
  <2>2. slot' \in [Slots -> [activity : Activities, step : Steps, result : CheckoutResults,
                             target : DOMAIN ResultKey]]
    BY <1>4, <2>1, FirstStepType, ResultKeyType DEF Schedule
  <2> QED BY <1>1, <1>4, <2>2 DEF Schedule
<1>5. CASE Complete(t)
  <2>1. workflow' \in WorkflowType /\ (workflow'.awaits # NoSlot => workflow' = workflow)
    BY <1>2, <1>5, AfterSuccessType, AfterFailureType DEF Complete
  <2> QED BY <1>1, <1>3, <1>5, <2>1 DEF Complete, WorkflowType
<1>6. CASE ActivityTimeout(t)
  <2>1. workflow' \in WorkflowType /\ workflow'.awaits = NoSlot
    BY <1>2, <1>6, AfterFailureType DEF ActivityTimeout
  <2> QED BY <1>1, <1>3, <1>6, <2>1 DEF ActivityTimeout, WorkflowType
<1>7. CASE WorkerCrash(t)
  BY <1>1, <1>3, <1>7 DEF WorkerCrash, Steps
<1> QED BY <1>4, <1>5, <1>6, <1>7

(* The types of an activity attempt and of a log row.                       *)
SlotType == [activity : Activities, step : Steps, result : CheckoutResults,
             target : DOMAIN ResultKey]
LogRow == [key : EventKeys, id : 0..MaxSessions,
           to : PaymentStatus \cup FulfillmentStatus, hash : CheckoutResults]

(* An attempt moves to another step, alone, with a result or with a target. *)
LEMMA SlotStep ==
  ASSUME NEW slots \in [Slots -> SlotType], NEW t \in Slots, NEW step \in Steps
  PROVE  [slots EXCEPT ![t].step = step] \in [Slots -> SlotType]
<1>1. [slots[t] EXCEPT !.step = step] \in SlotType
  BY DEF SlotType
<1> QED BY <1>1

LEMMA SlotResult ==
  ASSUME NEW slots \in [Slots -> SlotType], NEW t \in Slots, NEW step \in Steps,
         NEW r \in CheckoutResults
  PROVE  [slots EXCEPT ![t].step = step, ![t].result = r] \in [Slots -> SlotType]
<1>1. [slots[t] EXCEPT !.step = step, !.result = r] \in SlotType
  BY DEF SlotType
<1>2. [slots EXCEPT ![t].step = step, ![t].result = r]
        = [slots EXCEPT ![t] = [slots[t] EXCEPT !.step = step, !.result = r]]
  OBVIOUS
<1> QED BY <1>1, <1>2

LEMMA SlotTarget ==
  ASSUME NEW slots \in [Slots -> SlotType], NEW t \in Slots, NEW step \in Steps,
         NEW target \in DOMAIN ResultKey
  PROVE  [slots EXCEPT ![t].step = step, ![t].target = target] \in [Slots -> SlotType]
<1>1. [slots[t] EXCEPT !.step = step, !.target = target] \in SlotType
  BY DEF SlotType
<1>2. [slots EXCEPT ![t].step = step, ![t].target = target]
        = [slots EXCEPT ![t] = [slots[t] EXCEPT !.step = step, !.target = target]]
  OBVIOUS
<1> QED BY <1>1, <1>2

(* Whatever the providers answer, the coordinator sees a checkout result.   *)
LEMMA AnswersType ==
  \A a \in CheckoutAnswers :
    /\ a.merchant \in MerchantStates
    /\ a.prava \in {"NONE", "APPROVED", "DECLINED"}
    /\ a.result \in CheckoutResults
<1> DEFINE Typed(a) == /\ a.merchant \in MerchantStates
                       /\ a.prava \in {"NONE", "APPROVED", "DECLINED"}
                       /\ a.result \in CheckoutResults
<1>1. ASSUME NEW p \in BOOLEAN, NEW reported \in BOOLEAN, NEW required \in BOOLEAN,
             NEW a \in KnownAnswers(p, reported, required)
      PROVE  Typed(a)
  <2>1. PICK o \in Known : \E i \in OrderIds(o) :
          a = Answer(o, IF p THEN o ELSE "NONE", KnownResult(o, i, reported, required))
    BY <1>1 DEF KnownAnswers
  <2>2. PICK i \in OrderIds(o) :
          a = Answer(o, IF p THEN o ELSE "NONE", KnownResult(o, i, reported, required))
    BY <2>1
  <2>3. i \in BOOLEAN
    BY DEF OrderIds
  <2>4. KnownResult(o, i, reported, required) \in CheckoutResults
    BY <2>3 DEF KnownResult, Result, CheckoutResults, Outcomes, Known
  <2> QED BY <2>2, <2>4 DEF Answer, Known, MerchantStates
<1>2. ASSUME NEW a \in ExceptionAnswers PROVE Typed(a)
  <2>1. ExceptionResult \in CheckoutResults
    BY DEF ExceptionResult, Result, CheckoutResults, Outcomes
  <2> QED BY <1>2, <2>1 DEF ExceptionAnswers, Answer, Known, MerchantStates
<1>3. ASSUME NEW a \in UncertainAnswers PROVE Typed(a)
  <2> DEFINE with == UncertainResult(TRUE)
             without == UncertainResult(FALSE)
  <2>1. with \in CheckoutResults /\ without \in CheckoutResults
    BY DEF UncertainResult, Result, CheckoutResults, Outcomes
  <2>2. a \in {Answer(m, "NONE", without) : m \in MerchantStates}
              \cup {Answer("PENDING", "NONE", with)}
    BY <1>3 DEF UncertainAnswers
  <2> HIDE DEF with, without
  <2> QED BY <2>1, <2>2 DEF Answer, MerchantStates
<1> HIDE DEF Typed
<1>4. \A a \in FinalAnswers \cup ReportLostAnswers \cup MismatchAnswers : Typed(a)
  BY <1>1 DEF FinalAnswers, ReportLostAnswers, MismatchAnswers
<1>5. \A a \in CheckoutAnswers : Typed(a)
  BY <1>2, <1>3, <1>4 DEF CheckoutAnswers
<1> QED BY <1>5 DEF Typed

(* _prepare_attempt and the checkout call.                                  *)
LEMMA PrepareTypes ==
  ASSUME TypeInv, NEW t \in Slots,
         \/ PrepareRefused(t) \/ PrepareExpired(t) \/ PrepareDispatch(t) \/ Dispatch(t)
  PROVE  StoreTypeOK' /\ SessionTypeOK' /\ WorkerTypeOK' /\ AwaitsActivity'
<1> USE DEF TypeInv, TypeOK, SessionTypeOK, AwaitsActivity
<1>0. slot \in [Slots -> SlotType] /\ transitions \subseteq LogRow
      /\ workflow.session \in SessionIds
  BY DEF WorkerTypeOK, StoreTypeOK, SlotType, LogRow
<1>1. CASE PrepareRefused(t)
  <2>1. slot' \in [Slots -> SlotType]
    BY <1>0, <1>1, SlotStep DEF PrepareRefused, To, Steps
  <2> QED BY <1>1, <2>1 DEF PrepareRefused, StoreTypeOK, WorkerTypeOK, store_vars, SlotType
<1>2. CASE PrepareExpired(t)
  <2>1. slot' \in [Slots -> SlotType]
    BY <1>0, <1>2, SlotStep DEF PrepareExpired, To, Steps
  <2>2. sessions' \in [SessionIds -> SessionRow]
    BY <1>2, SessionStatusUpdate DEF PrepareExpired, StoreTypeOK, SessionStatus, PaymentStatus
  <2>3. transitions' \subseteq LogRow
    <3>1. Row("checkout-expired", workflow.session, "EXPIRED", NoResult) \in LogRow
      BY <1>0, NoResultType DEF Row, LogRow, EventKeys, PaymentStatus, SessionIds
    <3> QED BY <1>0, <1>2, <3>1 DEF PrepareExpired, TransitionLog
  <2>4. approval_status' \in ApprovalStatus
        /\ approval' \in [status : ApprovalStatus \cup {"NONE"},
                          approved_roles : Seq(Roles), approvers : Seq(Actors)]
    BY <1>2 DEF PrepareExpired, SetApproval, StoreTypeOK, ApprovalStatus
  <2>5. payment_status' \in PaymentStatus
    BY <1>2 DEF PrepareExpired, PaymentStatus
  <2>6. StoreTypeOK'
    BY <1>2, <2>2, <2>3, <2>4, <2>5 DEF PrepareExpired, prepare_unchanged, StoreTypeOK,
       LogRow, clock_vars
  <2> QED BY <1>2, <2>1, <2>6 DEF PrepareExpired, prepare_unchanged, WorkerTypeOK, SlotType
<1>3. CASE PrepareDispatch(t)
  <2>1. slot' \in [Slots -> SlotType]
    BY <1>0, <1>3, SlotStep DEF PrepareDispatch, To, Steps
  <2>2. sessions' \in [SessionIds -> SessionRow]
    BY <1>3, SessionStatusUpdate DEF PrepareDispatch, StoreTypeOK, SessionStatus, PaymentStatus
  <2>3. transitions' \subseteq LogRow
    <3>1. Row("checkout-dispatched", workflow.session, "CHECKOUT_PENDING", NoResult) \in LogRow
      BY <1>0, NoResultType DEF Row, LogRow, EventKeys, PaymentStatus, SessionIds
    <3> QED BY <1>0, <1>3, <3>1 DEF PrepareDispatch, TransitionLog
  <2>4. attempt' \in [n : Nat, session : 0..MaxSessions,
                      outcome : Outcomes \cup {"NONE"}, open : BOOLEAN]
    BY <1>0, <1>3 DEF PrepareDispatch, StoreTypeOK, SessionIds
  <2>5. payment_status' \in PaymentStatus
    BY <1>3 DEF PrepareDispatch, PaymentStatus
  <2>6. StoreTypeOK'
    BY <1>3, <2>2, <2>3, <2>4, <2>5 DEF PrepareDispatch, prepare_unchanged, StoreTypeOK,
       LogRow, clock_vars
  <2> QED BY <1>3, <2>1, <2>6 DEF PrepareDispatch, prepare_unchanged, WorkerTypeOK, SlotType
<1>4. CASE Dispatch(t)
  <2>1. PICK a \in CheckoutAnswers :
          /\ merchant' = a.merchant
          /\ prava' = a.prava
          /\ slot' = [slot EXCEPT ![t].step = "PERSIST", ![t].result = a.result]
    BY <1>4 DEF Dispatch
  <2>2. /\ a.merchant \in MerchantStates
        /\ a.prava \in {"NONE", "APPROVED", "DECLINED"}
        /\ a.result \in CheckoutResults
    BY AnswersType
  <2>3. slot' \in [Slots -> SlotType]
    <3>1. "PERSIST" \in Steps
      BY DEF Steps
    <3> QED BY <1>0, <2>1, <2>2, <3>1, SlotResult
  <2>4. merchant' \in MerchantStates /\ prava' \in {"NONE", "APPROVED", "DECLINED"}
    BY <2>1, <2>2
  <2>5. merchant_calls' \in Nat
    <3>1. merchant_calls' = merchant_calls + 1
      BY <1>4 DEF Dispatch
    <3> QED BY <3>1 DEF WorkerTypeOK
  <2>6. UNCHANGED <<store_vars, requests, dispatcher, workflow>>
    BY <1>4 DEF Dispatch
  <2>7. StoreTypeOK' /\ SessionTypeOK'
    BY <2>6 DEF StoreTypeOK, store_vars
  <2> QED BY <2>3, <2>4, <2>5, <2>6, <2>7 DEF WorkerTypeOK, SlotType, MerchantStates
<1> QED BY <1>1, <1>2, <1>3, <1>4

(* reconcile_checkout's provider calls and what the merchant does by itself.*)
LEMMA QueryTypes ==
  ASSUME TypeInv, (\E t \in Slots : Query(t)) \/ MerchantSettles
  PROVE  StoreTypeOK' /\ SessionTypeOK' /\ WorkerTypeOK' /\ AwaitsActivity'
<1> USE DEF TypeInv, TypeOK, SessionTypeOK, AwaitsActivity
<1>1. ASSUME NEW t \in Slots, Query(t)
      PROVE  StoreTypeOK' /\ SessionTypeOK' /\ WorkerTypeOK' /\ AwaitsActivity'
  <2>0. slot \in [Slots -> SlotType]
    BY DEF WorkerTypeOK, SlotType
  <2>3. "PERSIST" \in Steps /\ "RETRYABLE" \in Steps /\ "NON_RETRYABLE" \in Steps
    BY DEF Steps
  <2>1. slot' \in [Slots -> SlotType]
    <3>1. CASE QueryFails(t) \/ QueryRefused(t)
      BY <2>0, <2>3, <3>1, SlotStep DEF QueryFails, QueryRefused, To
    <3>2. CASE QueryUnknown(t)
      <4>1. PICK known \in BOOLEAN :
              slot' = [slot EXCEPT ![t].step = "PERSIST",
                         ![t].result = [slot[t].result EXCEPT !.order_id = known]]
        BY <2>0, <3>2 DEF QueryUnknown
      <4>2. [slot[t].result EXCEPT !.order_id = known] \in CheckoutResults
        BY <2>0 DEF SlotType, CheckoutResults
      <4> QED BY <2>0, <4>1, <4>2, <2>3, SlotResult
    <3>3. CASE QueryKnown(t)
      <4>1. PICK known \in OrderIds(merchant) :
              slot' = [slot EXCEPT ![t].step = "PERSIST",
                         ![t].result = KnownResult(merchant, known, TRUE, FALSE)]
        BY <3>3 DEF QueryKnown
      <4>2. KnownResult(merchant, known, TRUE, FALSE) \in CheckoutResults
        BY <3>3 DEF QueryKnown, KnownResult, Result, CheckoutResults, Outcomes, Known, OrderIds
      <4> QED BY <2>0, <4>1, <4>2, <2>3, SlotResult
    <3> QED BY <1>1, <3>1, <3>2, <3>3 DEF Query
  <2>2. prava' \in {"NONE", "APPROVED", "DECLINED"}
    BY <1>1 DEF Query, QueryFails, QueryRefused, QueryUnknown, QueryKnown, Known, WorkerTypeOK
  <2> QED BY <1>1, <2>1, <2>2 DEF Query, StoreTypeOK, WorkerTypeOK, store_vars, SlotType
<1>2. CASE MerchantSettles
  BY <1>2 DEF MerchantSettles, Known, StoreTypeOK, WorkerTypeOK, store_vars
<1> QED BY <1>1, <1>2

(* The rows, states and logs of _persist_checkout_result are well typed.    *)
LEMMA PersistRows ==
  ASSUME TypeOK, NEW r \in CheckoutResults
  PROVE  /\ PersistedLog(r) \subseteq LogRow
         /\ PersistedState(r) \in PaymentStatus
         /\ SessionOutcome(r) \in SessionStatus
<1>0. /\ transitions \subseteq LogRow /\ attempt.session \in 0..MaxSessions
      /\ payment_status \in PaymentStatus
  BY DEF TypeOK, StoreTypeOK, LogRow
<1>1. SafeHash(r) \in CheckoutResults
  BY DEF SafeHash, CheckoutResults
<1>2. UncertainRow(r) \in LogRow /\ UncertainRow(r).to = "UNCERTAIN"
  BY <1>0, <1>1 DEF UncertainRow, Row, LogRow, EventKeys, PaymentStatus
<1>3. DeclinedRow(r) \in LogRow /\ DeclinedRow(r).to = "DECLINED"
  BY <1>0, <1>1 DEF DeclinedRow, Row, LogRow, EventKeys, PaymentStatus
<1>4. ApprovedRow(r) \in LogRow /\ ApprovedRow(r).to = "MERCHANT_APPROVED"
  BY <1>0, <1>1 DEF ApprovedRow, Row, LogRow, EventKeys, PaymentStatus
<1>5. ReportRow(r) \in LogRow /\ ReportRow(r).to = ReportTarget(r)
  BY <1>0, <1>1 DEF ReportRow, ReportTarget, Row, LogRow, EventKeys, PaymentStatus
<1>6. r.outcome \in {"UNKNOWN", "DECLINED", "APPROVED"}
      /\ ReportTarget(r) \in {"PRAVA_COMPLETED", "REPORTING"}
  BY DEF CheckoutResults, Outcomes, ReportTarget
<1>7. PersistedLog(r) \subseteq LogRow
  BY <1>0, <1>2, <1>3, <1>4, <1>5, <1>6 DEF PersistedLog, ApprovedLog, TransitionLog
<1>8. ApprovedState(r) \in PaymentStatus
  BY <1>0, <1>4 DEF ApprovedState, TransitionState, PaymentStatus
<1>9. PersistedState(r) \in PaymentStatus
  BY <1>0, <1>2, <1>3, <1>5, <1>6, <1>8 DEF PersistedState, TransitionState, PaymentStatus
<1>10. SessionOutcome(r) \in SessionStatus
  BY <1>6 DEF SessionOutcome, SessionStatus, PaymentStatus
<1> QED BY <1>7, <1>9, <1>10

(* _persist_checkout_result.                                                *)
LEMMA PersistTypes ==
  ASSUME TypeInv, NEW t \in Slots, PersistApplies(t) \/ PersistRefused(t) \/ ReceiptRefused(t)
  PROVE  StoreTypeOK' /\ SessionTypeOK' /\ WorkerTypeOK' /\ AwaitsActivity'
<1> USE DEF TypeInv, TypeOK, SessionTypeOK, AwaitsActivity
<1>0. slot \in [Slots -> SlotType]
  BY DEF WorkerTypeOK, SlotType
<1>1. {"OK", "FINISH", "NON_RETRYABLE"} \subseteq Steps
  BY DEF Steps
<1>2. CASE PersistApplies(t)
  <2> DEFINE r == slot[t].result
  <2>1. r \in CheckoutResults
    BY <1>0 DEF SlotType
  <2>2. /\ PersistedLog(r) \subseteq LogRow
        /\ PersistedState(r) \in PaymentStatus
        /\ SessionOutcome(r) \in SessionStatus
    BY <2>1, PersistRows
  <2>3. sessions' \in [SessionIds -> SessionRow]
    BY <1>2, <2>2, SessionStatusUpdate DEF PersistApplies, StoreTypeOK
  <2>4. attempt' \in [n : Nat, session : 0..MaxSessions,
                      outcome : Outcomes \cup {"NONE"}, open : BOOLEAN]
    <3> DEFINE open == IF r.outcome # "UNKNOWN" /\ ~r.required THEN FALSE ELSE attempt.open
    <3>1. r.outcome \in Outcomes /\ open \in BOOLEAN
      BY <2>1 DEF CheckoutResults, StoreTypeOK
    <3>2. attempt' = [attempt EXCEPT !.outcome = r.outcome, !.open = open]
      BY <1>2 DEF PersistApplies, StoreTypeOK
    <3> HIDE DEF r, open
    <3> QED BY <3>1, <3>2 DEF StoreTypeOK
  <2>5. order' \in Outcomes \cup {"NONE"}
    BY <1>2, <2>1 DEF PersistApplies, CheckoutResults, StoreTypeOK
  <2>6. slot' \in [Slots -> SlotType]
    BY <1>0, <1>1, <1>2, SlotStep DEF PersistApplies, To
  <2>7. payment_status' \in PaymentStatus /\ transitions' \subseteq LogRow
    BY <1>2, <2>2 DEF PersistApplies
  <2>8. UNCHANGED <<authority_vars, clock_vars, session_count, events, run, receipt,
                    fulfillment_status, requests, dispatcher, workflow, merchant,
                    merchant_calls, prava>>
    BY <1>2 DEF PersistApplies
  <2>9. StoreTypeOK'
    BY <2>3, <2>4, <2>5, <2>7, <2>8 DEF StoreTypeOK, LogRow, authority_vars, clock_vars
  <2> QED BY <2>6, <2>8, <2>9 DEF WorkerTypeOK, SlotType
<1>3. CASE PersistRefused(t) \/ ReceiptRefused(t)
  <2>1. slot' \in [Slots -> SlotType]
    BY <1>0, <1>1, <1>3, SlotStep DEF PersistRefused, ReceiptRefused, To
  <2> QED BY <1>3, <2>1 DEF PersistRefused, ReceiptRefused, StoreTypeOK, WorkerTypeOK, store_vars, SlotType
<1> QED BY <1>2, <1>3

(* _verify_fulfillment and _finish_workflow_run.                            *)
LEMMA VerifyTypes ==
  ASSUME TypeInv, NEW t \in Slots,
         StartVerify(t) \/ Observe(t) \/ RecordVerify(t) \/ Finish(t)
  PROVE  StoreTypeOK' /\ SessionTypeOK' /\ WorkerTypeOK' /\ AwaitsActivity'
<1> USE DEF TypeInv, TypeOK, SessionTypeOK, AwaitsActivity
<1>0. /\ slot \in [Slots -> SlotType] /\ transitions \subseteq LogRow
      /\ attempt.session \in 0..MaxSessions
  BY DEF WorkerTypeOK, StoreTypeOK, SlotType, LogRow
<1>1. {"OBSERVE", "RESULT", "FINISH", "FINISH_FAILED", "OK", "RETRYABLE", "NON_RETRYABLE"}
        \subseteq Steps
  BY DEF Steps
<1>2. CASE StartVerify(t)
  <2>1. slot' \in [Slots -> SlotType]
    BY <1>0, <1>1, <1>2, SlotStep DEF StartVerify, To
  <2>2. StartedRow \in LogRow
    BY <1>0, NoResultType DEF StartedRow, Row, LogRow, EventKeys, FulfillmentStatus
  <2>3. transitions' \subseteq LogRow /\ fulfillment_status' \in FulfillmentStatus
    BY <1>0, <1>2, <2>2 DEF StartVerify, TransitionLog, FulfillmentStatus, StoreTypeOK
  <2>4. receipt' = receipt /\ verify_unchanged
    BY <1>2 DEF StartVerify
  <2>5. StoreTypeOK'
    BY <2>3, <2>4 DEF verify_unchanged, StoreTypeOK, LogRow, authority_vars, clock_vars,
       session_vars
  <2> QED BY <2>1, <2>4, <2>5 DEF verify_unchanged, WorkerTypeOK, SlotType
<1>3. CASE Observe(t)
  <2>1. slot' \in [Slots -> SlotType]
    <3>1. CASE \E target \in Observations :
                 slot' = [slot EXCEPT ![t].step = "RESULT", ![t].target = target]
      <4>1. PICK target \in Observations :
              slot' = [slot EXCEPT ![t].step = "RESULT", ![t].target = target]
        BY <3>1
      <4>2. target \in DOMAIN ResultKey /\ "RESULT" \in Steps
        BY <1>1, ResultKeyType, WorkerAssumption
      <4> QED BY <1>0, <4>1, <4>2, SlotTarget
    <3>2. CASE \E failure \in {"RETRYABLE", "NON_RETRYABLE"} : To(t, failure)
      BY <1>0, <1>1, <3>2, SlotStep DEF To
    <3> QED BY <1>3, <3>1, <3>2 DEF Observe
  <2> QED BY <1>3, <2>1 DEF Observe, StoreTypeOK, WorkerTypeOK, store_vars, SlotType
<1>4. CASE RecordVerify(t)
  <2> DEFINE target == slot[t].target
  <2>1. target \in {"VERIFIED", "PARTIAL", "FAILED_RETRYABLE", "FAILED_FINAL"}
    BY <1>0, ResultKeyType DEF SlotType
  <2>2. VerifyOutcome[target] \in {"FINISH", "RETRYABLE", "FINISH_FAILED"}
    BY <2>1 DEF VerifyOutcome
  <2>3. ResultRow(target) \in LogRow /\ ResultRow(target).to = target
    BY <1>0, <2>1, NoResultType, ResultKeyType DEF ResultRow, Row, LogRow, FulfillmentStatus
  <2>4. slot' \in [Slots -> SlotType]
    BY <1>0, <1>1, <1>4, <2>2, SlotStep DEF RecordVerify, To
  <2>5. transitions' \subseteq LogRow
    BY <1>0, <1>4, <2>3 DEF RecordVerify, TransitionLog
  <2>6. fulfillment_status' \in FulfillmentStatus
    BY <1>4, <2>1, <2>3 DEF RecordVerify, TransitionState, FulfillmentStatus, StoreTypeOK
  <2>7. receipt' \in 0..MaxSessions
    BY <1>4 DEF RecordVerify, IssuedReceipt, StoreTypeOK
  <2>8. verify_unchanged
    BY <1>4 DEF RecordVerify
  <2>9. StoreTypeOK'
    BY <2>5, <2>6, <2>7, <2>8 DEF verify_unchanged, StoreTypeOK, LogRow, authority_vars,
       clock_vars, session_vars
  <2> QED BY <2>4, <2>8, <2>9 DEF verify_unchanged, WorkerTypeOK, SlotType
<1>5. CASE Finish(t)
  <2>1. slot' \in [Slots -> SlotType]
    BY <1>0, <1>1, <1>5, SlotStep DEF Finish, To, AfterFinish
  <2>2. run' \in {"NONE", "PENDING", "RUNNING"} \cup RunTerminal
    BY <1>5 DEF Finish, FinishedRun, FinishStatus, RunTerminal, StoreTypeOK
  <2> QED BY <1>5, <2>1, <2>2 DEF Finish, StoreTypeOK, WorkerTypeOK, SlotType,
          authority_vars, clock_vars, session_vars, ledger_vars
<1> QED BY <1>2, <1>3, <1>4, <1>5

-----------------------------------------------------------------------------
(* The initial rows are typed.                                              *)
LEMMA InitTypes == Init => TypeInv
<1> SUFFICES ASSUME Init PROVE TypeInv
  OBVIOUS
<1>1. StoreTypeOK
  <2>1. NoSession \in SessionRow
    BY DEF NoSession, SessionRow, SessionStatus
  <2> QED BY <2>1, SessionsAssumption DEF Init, StoreInit, StoreTypeOK, ApprovalStatus,
          PaymentStatus, FulfillmentStatus
<1>2. SessionTypeOK
  BY DEF Init, SessionInit, SessionTypeOK, RequestSteps
<1>3. WorkerTypeOK
  <2>1. Idle \in SlotType
    BY NoResultType, ResultKeyType DEF Idle, SlotType, Activities, Steps
  <2>2. 1 \in SessionIds /\ 1 \in 1..MaxRounds /\ 1 \in 1..MaxTries
    BY SessionsAssumption, WorkerAssumption DEF SessionIds
  <2> QED BY <2>1, <2>2 DEF Init, WorkerInit, WorkerTypeOK, SlotType
<1>4. AwaitsActivity /\ faults \in Nat
  BY DEF Init, WorkerInit, AwaitsActivity
<1> QED BY <1>1, <1>2, <1>3, <1>4 DEF TypeInv, TypeOK

(* Every step of the system keeps TypeInv.                                  *)
LEMMA NextTypes == TypeInv /\ [Next]_allVars => TypeInv'
<1> SUFFICES ASSUME TypeInv, [Next]_allVars PROVE TypeInv'
  OBVIOUS
<1>1. CASE People \/ ApiSteps \/ Time
  <2>1. StoreTypeOK' /\ SessionTypeOK'
    <3>1. CASE People
      BY <3>1, ApprovalTypes, SessionTypes DEF People, TypeInv, TypeOK, SessionTypeOK,
         expire_purchase_approval
    <3>2. CASE ApiSteps
      BY <3>2, SessionTypes DEF ApiSteps
    <3>3. CASE Time
      BY <3>3, TimeTypes
    <3> QED BY <1>1, <3>1, <3>2, <3>3
  <2>2. UNCHANGED <<worker_vars, faults>>
    BY <1>1 DEF People, ApiSteps, Time, api_only, time_only
  <2>3. WorkerTypeOK' /\ AwaitsActivity' /\ faults' \in Nat
    BY <2>2 DEF TypeInv, TypeOK, WorkerTypeOK, AwaitsActivity, worker_vars
  <2> QED BY <2>1, <2>3 DEF TypeInv, TypeOK
<1>2. CASE \/ \E d \in Dispatchers : DispatcherStep(d)
           \/ \E t \in Slots : WorkflowStep(t) \/ ActivityStep(t) \/ TimeoutOfDead(t)
           \/ MerchantSettles /\ UNCHANGED faults
  <2>1. StoreTypeOK' /\ SessionTypeOK' /\ WorkerTypeOK' /\ AwaitsActivity'
    <3>1. ASSUME NEW d \in Dispatchers, DispatcherStep(d)
          PROVE  StoreTypeOK' /\ SessionTypeOK' /\ WorkerTypeOK' /\ AwaitsActivity'
      BY <3>1, DispatcherTypes DEF DispatcherStep
    <3>2. ASSUME NEW t \in Slots, WorkflowStep(t) \/ TimeoutOfDead(t)
          PROVE  StoreTypeOK' /\ SessionTypeOK' /\ WorkerTypeOK' /\ AwaitsActivity'
      BY <3>2, WorkflowTypes DEF WorkflowStep, TimeoutOfDead
    <3>3. ASSUME NEW t \in Slots, ActivityStep(t)
          PROVE  StoreTypeOK' /\ SessionTypeOK' /\ WorkerTypeOK' /\ AwaitsActivity'
      BY <3>3, PrepareTypes, QueryTypes, PersistTypes, VerifyTypes DEF ActivityStep
    <3> QED BY <1>2, <3>1, <3>2, <3>3, QueryTypes
  <2>2. UNCHANGED faults
    BY <1>2 DEF DispatcherStep, WorkflowStep, ActivityStep, TimeoutOfDead
  <2> QED BY <2>1, <2>2 DEF TypeInv, TypeOK
<1>3. CASE Faults
  <2>1. faults' \in Nat
    BY <1>3 DEF Faults, CountFault, TypeInv, TypeOK
  <2>2. ASSUME NEW s \in SessionIds, ApiCrash(s), UNCHANGED worker_vars
        PROVE  StoreTypeOK' /\ SessionTypeOK' /\ WorkerTypeOK' /\ AwaitsActivity'
    BY <2>2, SessionTypes DEF TypeInv, TypeOK, WorkerTypeOK, AwaitsActivity, worker_vars
  <2> QED BY <1>3, <2>1, <2>2, DispatcherTypes, WorkflowTypes DEF Faults, TypeInv, TypeOK
<1>4. CASE UNCHANGED allVars
  BY <1>4 DEF allVars, vars, store_vars, worker_vars, TypeInv, TypeOK, StoreTypeOK,
     SessionTypeOK, WorkerTypeOK, AwaitsActivity
<1> QED BY <1>1, <1>2, <1>3, <1>4 DEF Next

(* No interleaving of API, worker, providers and faults writes a row or an  *)
(* attempt outside its domain, and PurchaseCheckoutWorkflow never exceeds   *)
(* its reconciliation rounds or its activities' attempts.                   *)
THEOREM TypeCorrect == Spec => []TypeOK
<1>1. Spec => []TypeInv
  BY InitTypes, NextTypes, PTL DEF Spec
<1>2. TypeInv => TypeOK
  BY DEF TypeInv
<1> QED BY <1>1, <1>2, PTL

-----------------------------------------------------------------------------

(* The payment states in which no PaymentAttempt exists.                    *)
Undispatched == {"NOT_STARTED", "SESSION_CREATED", "CARDHOLDER_PENDING", "EXPIRED"}

(* An attempt exists exactly outside those states; a checkout is handed to  *)
(* the providers by the one attempt that stands at DISPATCH.                *)
ChargeInv ==
  /\ attempt.n <= 1
  /\ attempt.n = 0 <=> payment_status \in Undispatched
  /\ merchant_calls <= attempt.n
  /\ merchant # "NONE" => merchant_calls > 0
  /\ \A t \in Slots : slot[t].step = "DISPATCH" => attempt.n = 1 /\ merchant_calls = 0
  /\ \A t, u \in Slots : slot[t].step = "DISPATCH" /\ slot[u].step = "DISPATCH" => t = u

(* The APPROVE events, in the order of the required roles.                  *)
StagesInv ==
  /\ Len(approval.approvers) = Len(approval.approved_roles)
  /\ Len(approval.approved_roles) <= Len(RequiredRoles)
  /\ \A i \in 1..Len(approval.approvers) :
       /\ RequiredRoles[i] \in RolesOf[approval.approvers[i]]
       /\ \A j \in 1..Len(approval.approvers) :
            approval.approvers[i] = approval.approvers[j] => i = j

(* What stands behind an APPROVED status and behind a dispatched attempt.   *)
AuthorityInv ==
  /\ approval.status = "APPROVED" => approval.approved_roles = RequiredRoles
  /\ attempt.n > 0 => /\ approval.approved_roles = RequiredRoles
                      /\ approval.status \notin {"REJECTED", "REVOKED"}
                      /\ approval_status # "NOT_REQUESTED"
  /\ ~decision_current => approval_status # "APPROVED"

-----------------------------------------------------------------------------
(* What every step but _prepare_attempt's dispatch and the checkout call    *)
(* does to the charge: no new attempt, no call, no attempt newly at         *)
(* DISPATCH, and payment neither enters nor leaves Undispatched.            *)
ChargeFrame ==
  /\ attempt'.n = attempt.n
  /\ merchant_calls' = merchant_calls
  /\ merchant' # "NONE" => merchant # "NONE"
  /\ payment_status' \in Undispatched <=> payment_status \in Undispatched
  /\ \A t \in Slots : slot'[t].step = "DISPATCH" => slot[t].step = "DISPATCH"

LEMMA FrameKeepsCharge == ASSUME ChargeInv, ChargeFrame PROVE ChargeInv'
BY DEF ChargeInv, ChargeFrame

(* An attempt that moves to a step other than DISPATCH.                     *)
LEMMA MoveFrame ==
  ASSUME TypeInv, NEW t \in Slots, NEW step \in Steps \ {"DISPATCH"}, To(t, step)
  PROVE  \A u \in Slots : slot'[u].step = "DISPATCH" => slot[u].step = "DISPATCH"
BY DEF TypeInv, TypeOK, WorkerTypeOK, To

(* People, API and deadlines.                                               *)
LEMMA ApiFrame ==
  ASSUME TypeInv, People \/ ApiSteps \/ Time
  PROVE  ChargeFrame
<1>0. UNCHANGED worker_vars
  BY DEF People, ApiSteps, Time, api_only, time_only
<1> USE <1>0 DEF ChargeFrame, worker_vars, Undispatched
<1>1. CASE create_approval_request \/ expire_purchase_approval \/ create_prava_session
  BY <1>1 DEF create_approval_request, approval_unchanged, expire_purchase_approval,
     create_prava_session, session_unchanged, ledger_vars
<1>2. ASSUME NEW a \in Actors, NEW r \in Roles,
             approve(a, r) \/ reject_approval(a, r) \/ revoke_approval(a, r)
      PROVE  ChargeFrame
  BY <1>2 DEF approve, reject_approval, revoke_approval, ExpireOnUse, ApproveStage,
     RejectStage, approval_unchanged, ledger_vars
<1>3. CASE decide_proposal
  BY <1>3 DEF decide_proposal, ledger_vars
<1>4. ASSUME NEW s \in SessionIds, accept_prava_browser_return(s)
      PROVE  ChargeFrame
  BY <1>4 DEF accept_prava_browser_return, ReturnAuthority
<1>5. ASSUME NEW s \in SessionIds,
             PravaAnswersCreate(s) \/ mark_session_create_failed(s)
      PROVE  ChargeFrame
  BY <1>5 DEF PravaAnswersCreate, mark_session_create_failed, session_unchanged, ledger_vars,
     store_vars
<1>6. ASSUME NEW s \in SessionIds, RecordSession(s)
      PROVE  ChargeFrame
  BY <1>6 DEF RecordSession, RecordSessionFrom, TransitionConflict, TransitionState,
     SessionCreatedRow, Row
<1>7. CASE Time
  BY <1>7 DEF Time, time_only, ledger_vars
<1> QED BY <1>1, <1>2, <1>3, <1>4, <1>5, <1>6, <1>7 DEF People, ApiSteps

(* The outbox dispatcher, and the steps of Temporal and of faults.          *)
LEMMA WorkflowFrame ==
  ASSUME TypeInv,
         \/ \E d \in Dispatchers : \/ DispatchRead(d) \/ DispatchStart(d)
                                   \/ DispatchPublish(d) \/ DispatcherCrash(d)
         \/ \E t \in Slots : Schedule(t) \/ Complete(t) \/ ActivityTimeout(t) \/ WorkerCrash(t)
         \/ \E s \in SessionIds : ApiCrash(s) /\ UNCHANGED worker_vars
  PROVE  ChargeFrame
<1> USE DEF ChargeFrame, store_vars, worker_vars
<1>1. ASSUME NEW d \in Dispatchers,
             DispatchRead(d) \/ DispatchStart(d) \/ DispatchPublish(d) \/ DispatcherCrash(d)
      PROVE  ChargeFrame
  BY <1>1 DEF DispatchRead, DispatchStart, DispatchPublish, DispatcherCrash, ledger_vars
<1>2. ASSUME NEW t \in Slots,
             Schedule(t) \/ Complete(t) \/ ActivityTimeout(t) \/ WorkerCrash(t)
      PROVE  ChargeFrame
  <2>1. slot \in [Slots -> SlotType]
    BY DEF TypeInv, TypeOK, WorkerTypeOK, SlotType
  <2>2. Idle.step # "DISPATCH"
    BY DEF Idle
  <2>3. \A u \in Slots : slot'[u].step = "DISPATCH" => slot[u].step = "DISPATCH"
    <3>1. CASE Schedule(t)
      <4>1. FirstStep[workflow.step] # "DISPATCH"
        BY <3>1 DEF Schedule, FirstStep, Activities
      <4> QED BY <2>1, <3>1, <4>1 DEF Schedule
    <3>2. CASE Complete(t)
      BY <2>1, <2>2, <3>2 DEF Complete
    <3>3. CASE ActivityTimeout(t)
      BY <2>1, <2>2, <3>3 DEF ActivityTimeout
    <3>4. CASE WorkerCrash(t)
      BY <2>1, <2>2, <3>4 DEF WorkerCrash, SlotType
    <3> QED BY <1>2, <3>1, <3>2, <3>3, <3>4
  <2> QED BY <1>2, <2>3 DEF Schedule, Complete, ActivityTimeout, WorkerCrash
<1>3. ASSUME NEW s \in SessionIds, ApiCrash(s), UNCHANGED worker_vars
      PROVE  ChargeFrame
  BY <1>3 DEF ApiCrash
<1> QED BY <1>1, <1>2, <1>3

(* The coordinator's steps other than the dispatch.  _persist_checkout_     *)
(* result leaves an undispatched intent alone: its transitions are replays  *)
(* or conflicts there.                                                      *)
LEMMA CoordinatorFrame ==
  ASSUME TypeInv, NEW t \in Slots,
         \/ PrepareRefused(t) \/ PrepareExpired(t) \/ Query(t)
         \/ PersistApplies(t) \/ PersistRefused(t) \/ ReceiptRefused(t) \/ StartVerify(t) \/ Observe(t)
         \/ RecordVerify(t) \/ Finish(t)
  PROVE  ChargeFrame
<1> USE DEF ChargeFrame
<1>0. /\ slot \in [Slots -> SlotType]
      /\ {"OBSERVE", "RESULT", "FINISH", "FINISH_FAILED", "OK", "RETRYABLE",
          "NON_RETRYABLE", "PERSIST", "ABORT"} \subseteq Steps \ {"DISPATCH"}
  BY DEF TypeInv, TypeOK, WorkerTypeOK, SlotType, Steps
<1>1. CASE PrepareRefused(t)
  BY <1>0, <1>1, MoveFrame DEF PrepareRefused, store_vars
<1>2. CASE PrepareExpired(t)
  <2>1. payment_status \in Undispatched /\ payment_status' \in Undispatched
    BY <1>2 DEF PrepareExpired, DispatchAuthority, Undispatched
  <2> QED BY <1>0, <1>2, <2>1, MoveFrame DEF PrepareExpired, prepare_unchanged
<1>3. CASE Query(t)
  <2>1. \A u \in Slots : slot'[u].step = "DISPATCH" => slot[u].step = "DISPATCH"
    <3>1. CASE QueryFails(t) \/ QueryRefused(t)
      BY <1>0, <3>1, MoveFrame DEF QueryFails, QueryRefused
    <3>2. CASE QueryUnknown(t) \/ QueryKnown(t)
      BY <1>0, <3>2 DEF QueryUnknown, QueryKnown, SlotType
    <3> QED BY <1>3, <3>1, <3>2 DEF Query
  <2> QED BY <1>3, <2>1 DEF Query, store_vars
<1>4. CASE PersistApplies(t)
  <2> DEFINE r == slot[t].result
  <2>1. r.outcome \in {"UNKNOWN", "DECLINED", "APPROVED"}
    BY <1>0 DEF SlotType, CheckoutResults, Outcomes
  <2>2. /\ UncertainRow(r).to = "UNCERTAIN" /\ DeclinedRow(r).to = "DECLINED"
        /\ ApprovedRow(r).to = "MERCHANT_APPROVED"
        /\ ReportRow(r).to \in {"PRAVA_COMPLETED", "REPORTING"}
    BY DEF UncertainRow, DeclinedRow, ApprovedRow, ReportRow, ReportTarget, Row
  <2>3. ~PersistConflict(r) /\ payment_status' = PersistedState(r)
    BY <1>4 DEF PersistApplies
  <2> HIDE DEF r
  <2>4. payment_status' \in Undispatched <=> payment_status \in Undispatched
    BY <2>1, <2>2, <2>3 DEF PersistConflict, PersistedState, ApprovedState,
       TransitionConflict, TransitionState, UnsettledCheckout, Undispatched
  <2>5. attempt'.n = attempt.n
    BY <1>4 DEF PersistApplies, TypeInv, TypeOK, StoreTypeOK
  <2>6. \A u \in Slots : slot'[u].step = "DISPATCH" => slot[u].step = "DISPATCH"
    BY <1>0, <1>4, MoveFrame DEF PersistApplies
  <2> QED BY <1>4, <2>4, <2>5, <2>6 DEF PersistApplies
<1>5. CASE PersistRefused(t) \/ ReceiptRefused(t)
  BY <1>0, <1>5, MoveFrame DEF PersistRefused, ReceiptRefused, store_vars
<1>6. CASE StartVerify(t)
  BY <1>0, <1>6, MoveFrame DEF StartVerify, verify_unchanged
<1>7. CASE Observe(t)
  <2>1. \A u \in Slots : slot'[u].step = "DISPATCH" => slot[u].step = "DISPATCH"
    <3>1. CASE \E target \in Observations :
                 slot' = [slot EXCEPT ![t].step = "RESULT", ![t].target = target]
      BY <1>0, <3>1 DEF SlotType
    <3>2. CASE \E failure \in {"RETRYABLE", "NON_RETRYABLE"} : To(t, failure)
      BY <1>0, <3>2, MoveFrame
    <3> QED BY <1>7, <3>1, <3>2 DEF Observe
  <2> QED BY <1>7, <2>1 DEF Observe, store_vars
<1>8. CASE RecordVerify(t)
  <2>1. VerifyOutcome[slot[t].target] \in {"FINISH", "RETRYABLE", "FINISH_FAILED"}
    BY <1>0, ResultKeyType DEF SlotType, VerifyOutcome
  <2> QED BY <1>0, <1>8, <2>1, MoveFrame DEF RecordVerify, verify_unchanged
<1>9. CASE Finish(t)
  BY <1>0, <1>9, MoveFrame DEF Finish, AfterFinish, ledger_vars
<1> QED BY <1>1, <1>2, <1>3, <1>4, <1>5, <1>6, <1>7, <1>8, <1>9

(* Every step keeps ChargeInv.                                              *)
LEMMA NextCharge == TypeInv /\ ChargeInv /\ [Next]_allVars => ChargeInv'
<1> SUFFICES ASSUME TypeInv, ChargeInv, [Next]_allVars PROVE ChargeInv'
  OBVIOUS
<1>0. slot \in [Slots -> SlotType] /\ attempt.n \in Nat /\ merchant_calls \in Nat
  BY DEF TypeInv, TypeOK, StoreTypeOK, WorkerTypeOK, SlotType
<1>1. ASSUME NEW t \in Slots, PrepareDispatch(t) PROVE ChargeInv'
  <2>1. attempt.n = 0 /\ merchant_calls = 0
    BY <1>0, <1>1 DEF PrepareDispatch, DispatchAuthority, ChargeInv, Undispatched
  <2>2. \A u \in Slots : slot[u].step # "DISPATCH"
    BY <2>1 DEF ChargeInv
  <2>3. \A u \in Slots : slot'[u].step = "DISPATCH" => u = t
    BY <1>0, <1>1, <2>2 DEF PrepareDispatch, To
  <2>4. /\ attempt'.n = 1 /\ payment_status' = "CHECKOUT_PENDING"
        /\ merchant' = merchant /\ merchant_calls' = 0
    BY <1>1, <2>1 DEF PrepareDispatch, prepare_unchanged
  <2> QED BY <2>1, <2>3, <2>4 DEF ChargeInv, Undispatched
<1>2. ASSUME NEW t \in Slots, Dispatch(t) PROVE ChargeInv'
  <2>1. attempt.n = 1 /\ merchant_calls = 0 /\ merchant_calls' = 1
    BY <1>0, <1>2 DEF Dispatch, ChargeInv
  <2>2. \A u \in Slots : slot[u].step = "DISPATCH" => u = t
    BY <1>2 DEF Dispatch, ChargeInv
  <2>3. \A u \in Slots : slot'[u].step # "DISPATCH"
    <3>1. PICK a \in CheckoutAnswers :
            slot' = [slot EXCEPT ![t].step = "PERSIST", ![t].result = a.result]
      BY <1>2 DEF Dispatch
    <3> QED BY <1>0, <2>2, <3>1 DEF SlotType
  <2>4. UNCHANGED <<attempt, payment_status>>
    BY <1>2 DEF Dispatch, store_vars
  <2> QED BY <2>1, <2>3, <2>4 DEF ChargeInv
<1>3. CASE MerchantSettles
  BY <1>3, FrameKeepsCharge DEF MerchantSettles, store_vars, ChargeFrame
<1>4. CASE UNCHANGED allVars
  BY <1>4, FrameKeepsCharge DEF allVars, vars, store_vars, worker_vars, ChargeFrame
<1>5. CASE People \/ ApiSteps \/ Time
  BY <1>5, ApiFrame, FrameKeepsCharge
<1>6. ASSUME NEW d \in Dispatchers, DispatcherStep(d) PROVE ChargeInv'
  BY <1>6, WorkflowFrame, FrameKeepsCharge DEF DispatcherStep
<1>7. ASSUME NEW t \in Slots, WorkflowStep(t) \/ ActivityStep(t) \/ TimeoutOfDead(t)
      PROVE  ChargeInv'
  BY <1>1, <1>2, <1>7, WorkflowFrame, CoordinatorFrame, FrameKeepsCharge
     DEF WorkflowStep, ActivityStep, TimeoutOfDead
<1>8. CASE Faults
  BY <1>8, WorkflowFrame, FrameKeepsCharge DEF Faults
<1> QED BY <1>3, <1>4, <1>5, <1>6, <1>7, <1>8 DEF Next

(* Whatever crashes, times out, is delivered twice or answered late, a      *)
(* Purchase Intent gets at most one PaymentAttempt and is handed to the     *)
(* providers at most once.                                                  *)
THEOREM ChargedAtMostOnce == Spec => []AtMostOneCharge
<1>1. Init => ChargeInv
  BY DEF Init, StoreInit, WorkerInit, Idle, ChargeInv, Undispatched
<1>2. TypeInv /\ ChargeInv => AtMostOneCharge
  BY DEF ChargeInv, AtMostOneCharge
<1> QED BY <1>1, <1>2, InitTypes, NextTypes, NextCharge, PTL DEF Spec

-----------------------------------------------------------------------------
(* What every step but the handlers of an ApprovalRequest and the dispatch  *)
(* does to the authority: nothing, except that a status may become EXPIRED  *)
(* or SUPERSEDED and the Decision outdated.                                 *)
AuthorityFrame ==
  /\ attempt'.n = attempt.n
  /\ approval'.approved_roles = approval.approved_roles
  /\ approval'.approvers = approval.approvers
  /\ approval'.status \in {approval.status, "EXPIRED", "SUPERSEDED"}
  /\ approval_status' \in {approval_status, "EXPIRED", "SUPERSEDED"}
  /\ decision_current' = decision_current \/ approval_status' # "APPROVED"

LEMMA FrameKeepsAuthority ==
  ASSUME TypeInv, StagesInv, AuthorityInv, AuthorityFrame
  PROVE  StagesInv' /\ AuthorityInv'
<1>1. StagesInv'
  BY DEF StagesInv, AuthorityFrame
<1>2. AuthorityInv'
  BY DEF AuthorityInv, AuthorityFrame, TypeInv, TypeOK, StoreTypeOK
<1> QED BY <1>1, <1>2

(* The handlers of an ApprovalRequest: approve adds the next stage by a new *)
(* actor, and reject and revoke find no dispatched attempt.                 *)
LEMMA ApprovalAuthority ==
  ASSUME TypeInv, ChargeInv, StagesInv, AuthorityInv,
         \/ create_approval_request
         \/ \E a \in Actors, r \in Roles :
              approve(a, r) \/ reject_approval(a, r) \/ revoke_approval(a, r)
  PROVE  StagesInv' /\ AuthorityInv'
<1>0. /\ approval \in [status : ApprovalStatus \cup {"NONE"},
                       approved_roles : Seq(Roles), approvers : Seq(Actors)]
      /\ attempt.n \in Nat
      /\ RequiredRoles \in Seq(Roles)
  BY RolesAssumption DEF TypeInv, TypeOK, StoreTypeOK
<1>1. CASE create_approval_request
  <2>1. attempt.n = 0 /\ attempt'.n = 0 /\ decision_current'
    BY <1>0, <1>1 DEF create_approval_request, approval_unchanged, ledger_vars, AuthorityInv
  <2>2. approval' = [status |-> "PENDING", approved_roles |-> <<>>, approvers |-> <<>>]
    BY <1>1 DEF create_approval_request
  <2> QED BY <1>0, <2>1, <2>2 DEF StagesInv, AuthorityInv
<1>2. ASSUME NEW a \in Actors, NEW r \in Roles, ApproveStage(a, r), decision_current
      PROVE  StagesInv' /\ AuthorityInv'
  <2> DEFINE roles == Append(approval.approved_roles, r)
             people == Append(approval.approvers, a)
  <2>1. /\ Len(approval.approved_roles) < Len(RequiredRoles)
        /\ RequiredRoles[Len(approval.approved_roles) + 1] = r
        /\ r \in RolesOf[a]
        /\ \A i \in 1..Len(approval.approvers) : approval.approvers[i] # a
    BY <1>2 DEF ApproveStage, NextStage, VerifiedRole, SeparateDuty
  <2>2. /\ approval'.approved_roles = roles /\ approval'.approvers = people
        /\ approval'.status = IF roles = RequiredRoles THEN "APPROVED" ELSE approval.status
        /\ attempt' = attempt /\ decision_current'
    BY <1>2 DEF ApproveStage, approval_unchanged, ledger_vars
  <2>3. attempt.n = 0 /\ approval.status # "APPROVED"
    BY <1>0, <2>1 DEF AuthorityInv
  <2>4. AuthorityInv'
    BY <2>2, <2>3 DEF AuthorityInv
  <2>5. /\ Len(roles) = Len(approval.approved_roles) + 1
        /\ Len(people) = Len(approval.approvers) + 1
        /\ \A i \in 1..Len(approval.approvers) : people[i] = approval.approvers[i]
        /\ people[Len(approval.approvers) + 1] = a
    BY <1>0
  <2> HIDE DEF roles, people
  <2>6. StagesInv'
    <3> DEFINE n == Len(approval.approvers)
    <3>0. n \in Nat /\ n = Len(approval.approved_roles)
          /\ \A i \in 1..(n + 1) : i \in 1..n \/ i = n + 1
      BY <1>0 DEF StagesInv
    <3>1. /\ Len(people) = Len(roles)
          /\ Len(roles) <= Len(RequiredRoles)
      BY <1>0, <2>1, <2>5 DEF StagesInv
    <3>2. ASSUME NEW i \in 1..Len(people)
          PROVE  /\ RequiredRoles[i] \in RolesOf[people[i]]
                 /\ \A j \in 1..Len(people) : people[i] = people[j] => i = j
      <4>1. CASE i \in 1..n
        BY <2>1, <2>5, <3>0, <4>1 DEF StagesInv
      <4>2. CASE i = n + 1
        BY <2>1, <2>5, <3>0, <4>2
      <4> QED BY <2>5, <3>0, <4>1, <4>2
    <3> QED BY <2>2, <3>1, <3>2 DEF StagesInv
  <2> QED BY <2>4, <2>6
<1>3. CASE ExpireOnUse
  <2>1. AuthorityFrame
    BY <1>0, <1>3 DEF ExpireOnUse, SetApproval, approval_unchanged, ledger_vars, AuthorityFrame
  <2> QED BY <2>1, FrameKeepsAuthority
<1>4. ASSUME NEW a \in Actors, NEW r \in Roles,
             RejectStage(a, r) \/ revoke_approval(a, r), decision_current
      PROVE  StagesInv' /\ AuthorityInv'
  <2>1. attempt.n = 0
    <3>1. CASE RejectStage(a, r)
      BY <1>0, <3>1 DEF RejectStage, NextStage, AuthorityInv
    <3>2. CASE revoke_approval(a, r)
      BY <3>2 DEF revoke_approval, Revocable, ChargeInv, Undispatched
    <3> QED BY <1>4, <3>1, <3>2
  <2>2. /\ attempt' = attempt /\ decision_current' = decision_current
        /\ approval'.approved_roles = approval.approved_roles
        /\ approval'.approvers = approval.approvers
        /\ approval'.status \in {"REJECTED", "REVOKED"}
    BY <1>0, <1>4 DEF RejectStage, revoke_approval, SetApproval, approval_unchanged,
       ledger_vars
  <2> QED BY <1>4, <2>1, <2>2 DEF StagesInv, AuthorityInv
<1> QED BY <1>1, <1>2, <1>3, <1>4 DEF approve, reject_approval, revoke_approval

(* Every other step leaves the authority in its frame.                      *)
LEMMA OtherAuthority ==
  ASSUME TypeInv,
         \/ decide_proposal \/ expire_purchase_approval \/ create_prava_session
         \/ \E s \in SessionIds : \/ accept_prava_browser_return(s) \/ PravaAnswersCreate(s)
                                  \/ RecordSession(s) \/ mark_session_create_failed(s)
                                  \/ ApiCrash(s)
         \/ Time \/ MerchantSettles
         \/ \E d \in Dispatchers : \/ DispatchRead(d) \/ DispatchStart(d)
                                   \/ DispatchPublish(d) \/ DispatcherCrash(d)
         \/ \E t \in Slots : \/ Schedule(t) \/ Complete(t) \/ ActivityTimeout(t)
                             \/ WorkerCrash(t)
                             \/ PrepareRefused(t) \/ PrepareExpired(t) \/ Dispatch(t)
                             \/ Query(t) \/ PersistApplies(t) \/ PersistRefused(t) \/ ReceiptRefused(t)
                             \/ StartVerify(t) \/ Observe(t) \/ RecordVerify(t) \/ Finish(t)
         \/ UNCHANGED allVars
  PROVE  AuthorityFrame
<1> USE DEF AuthorityFrame
<1>0. /\ approval \in [status : ApprovalStatus \cup {"NONE"},
                       approved_roles : Seq(Roles), approvers : Seq(Actors)]
      /\ attempt \in [n : Nat, session : 0..MaxSessions,
                      outcome : Outcomes \cup {"NONE"}, open : BOOLEAN]
      /\ decision_current \in BOOLEAN
  BY DEF TypeInv, TypeOK, StoreTypeOK
<1>1. CASE decide_proposal
  <2>1. approval_status' # "APPROVED" /\ approval_status' \in {approval_status, "SUPERSEDED"}
    BY <1>1 DEF decide_proposal
  <2>2. approval' = approval \/ approval' = [approval EXCEPT !.status = "SUPERSEDED"]
    BY <1>1 DEF decide_proposal
  <2>3. attempt' = attempt
    BY <1>1 DEF decide_proposal, ledger_vars
  <2> QED BY <1>0, <2>1, <2>2, <2>3
<1>2. CASE expire_purchase_approval
  BY <1>0, <1>2 DEF expire_purchase_approval, SetApproval, ledger_vars
<1>3. CASE create_prava_session \/ Time
  BY <1>3 DEF create_prava_session, session_unchanged, Time, time_only, authority_vars, ledger_vars
<1>4. ASSUME NEW s \in SessionIds,
             \/ accept_prava_browser_return(s) \/ PravaAnswersCreate(s)
             \/ RecordSession(s) \/ mark_session_create_failed(s) \/ ApiCrash(s)
      PROVE  AuthorityFrame
  BY <1>4 DEF accept_prava_browser_return, PravaAnswersCreate, RecordSession,
     RecordSessionFrom, mark_session_create_failed, ApiCrash, session_unchanged, store_vars,
     ledger_vars
<1>5. ASSUME NEW d \in Dispatchers,
             DispatchRead(d) \/ DispatchStart(d) \/ DispatchPublish(d) \/ DispatcherCrash(d)
      PROVE  AuthorityFrame
  BY <1>5 DEF DispatchRead, DispatchStart, DispatchPublish, DispatcherCrash, store_vars,
     authority_vars, ledger_vars
<1>6. ASSUME NEW t \in Slots,
             \/ Schedule(t) \/ Complete(t) \/ ActivityTimeout(t) \/ WorkerCrash(t)
             \/ PrepareRefused(t) \/ Dispatch(t) \/ Query(t) \/ PersistRefused(t) \/ ReceiptRefused(t)
             \/ Observe(t)
      PROVE  AuthorityFrame
  <2>1. UNCHANGED store_vars
    BY <1>6 DEF Schedule, Complete, ActivityTimeout, WorkerCrash, PrepareRefused, Dispatch,
       Query, PersistRefused, ReceiptRefused, Observe
  <2> QED BY <2>1 DEF store_vars
<1>7. ASSUME NEW t \in Slots, PrepareExpired(t)
      PROVE  AuthorityFrame
  BY <1>0, <1>7 DEF PrepareExpired, SetApproval, prepare_unchanged
<1>8. ASSUME NEW t \in Slots, PersistApplies(t)
      PROVE  AuthorityFrame
  <2>1. UNCHANGED authority_vars /\ attempt'.n = attempt.n
    BY <1>0, <1>8 DEF PersistApplies
  <2> QED BY <2>1 DEF authority_vars
<1>9. ASSUME NEW t \in Slots, StartVerify(t) \/ RecordVerify(t) \/ Finish(t)
      PROVE  AuthorityFrame
  BY <1>9 DEF StartVerify, RecordVerify, Finish, verify_unchanged, authority_vars, ledger_vars
<1>10. CASE MerchantSettles \/ UNCHANGED allVars
  BY <1>10 DEF MerchantSettles, allVars, vars, store_vars
<1> QED BY <1>1, <1>2, <1>3, <1>4, <1>5, <1>6, <1>7, <1>8, <1>9, <1>10

(* The dispatch finds a full approval of a current Decision.                *)
LEMMA DispatchAuthorised ==
  ASSUME TypeInv, StagesInv, AuthorityInv, NEW t \in Slots, PrepareDispatch(t)
  PROVE  decision_current /\ StagesInv' /\ AuthorityInv'
<1>1. /\ approval.status = "APPROVED" /\ approval_status = "APPROVED"
      /\ UNCHANGED <<approval, approval_status, decision_current>>
  BY DEF PrepareDispatch, DispatchAuthority, prepare_unchanged
<1> QED BY <1>1 DEF StagesInv, AuthorityInv

PurchaseInv == TypeInv /\ ChargeInv /\ StagesInv /\ AuthorityInv

(* PurchaseInv is inductive, and no step dispatches under an outdated       *)
(* Decision.                                                                *)
LEMMA PurchaseStep ==
  ASSUME PurchaseInv, [Next]_allVars
  PROVE  PurchaseInv' /\ (~decision_current => attempt'.n = attempt.n)
<1> DEFINE Goal == StagesInv' /\ AuthorityInv' /\ (~decision_current => attempt'.n = attempt.n)
<1>1. TypeInv' /\ ChargeInv'
  BY NextTypes, NextCharge DEF PurchaseInv
<1>2. ASSUME AuthorityFrame PROVE Goal
  BY <1>2, FrameKeepsAuthority DEF PurchaseInv, AuthorityFrame
<1>3. ASSUME \/ create_approval_request
             \/ \E a \in Actors, r \in Roles :
                  approve(a, r) \/ reject_approval(a, r) \/ revoke_approval(a, r)
      PROVE  Goal
  <2>1. attempt' = attempt
    BY <1>3 DEF create_approval_request, approve, reject_approval, revoke_approval,
       ExpireOnUse, ApproveStage, RejectStage, approval_unchanged, ledger_vars
  <2> QED BY <1>3, <2>1, ApprovalAuthority DEF PurchaseInv
<1>4. ASSUME NEW t \in Slots, PrepareDispatch(t) PROVE Goal
  BY <1>4, DispatchAuthorised DEF PurchaseInv
<1> HIDE DEF Goal
<1>5. ASSUME People \/ ApiSteps \/ Time PROVE Goal
  BY <1>2, <1>3, <1>5, OtherAuthority DEF People, ApiSteps, PurchaseInv
<1>6. ASSUME MerchantSettles \/ UNCHANGED allVars PROVE Goal
  BY <1>2, <1>6, OtherAuthority DEF PurchaseInv
<1>7. ASSUME \/ \E d \in Dispatchers : DispatcherStep(d)
             \/ \E t \in Slots : WorkflowStep(t) \/ ActivityStep(t) \/ TimeoutOfDead(t)
      PROVE  Goal
  BY <1>2, <1>4, <1>7, OtherAuthority DEF DispatcherStep, WorkflowStep, ActivityStep,
     TimeoutOfDead, PurchaseInv
<1>8. ASSUME Faults PROVE Goal
  BY <1>2, <1>8, OtherAuthority DEF Faults, PurchaseInv
<1>9. Goal
  BY <1>5, <1>6, <1>7, <1>8 DEF Next
<1> QED BY <1>1, <1>9 DEF Goal, PurchaseInv

LEMMA PurchaseInvariant == Spec => []PurchaseInv
<1>1. Init => PurchaseInv
  <2>1. Init => ChargeInv
    BY DEF Init, StoreInit, WorkerInit, Idle, ChargeInv, Undispatched
  <2>2. Init => StagesInv /\ AuthorityInv
    BY RolesAssumption DEF Init, StoreInit, StagesInv, AuthorityInv
  <2> QED BY <2>1, <2>2, InitTypes DEF PurchaseInv
<1>2. PurchaseInv /\ [Next]_allVars => PurchaseInv'
  BY PurchaseStep
<1> QED BY <1>1, <1>2, PTL DEF Spec

(* A rejected or revoked approval never reaches the merchant, whatever      *)
(* dispatcher, activity or create call was in flight when it was revoked.   *)
THEOREM RevokedIsSafe == Spec => []RevokedNeverCharged
<1>1. PurchaseInv => RevokedNeverCharged
  BY DEF PurchaseInv, TypeInv, TypeOK, StoreTypeOK, WorkerTypeOK, ChargeInv, AuthorityInv,
     RevokedNeverCharged
<1> QED BY <1>1, PurchaseInvariant, PTL

(* Money moves only after every required role was approved, in order, by    *)
(* different people who hold it.                                            *)
THEOREM FourEyesHold == Spec => []FourEyes
<1>1. PurchaseInv => FourEyes
  <2>1. SUFFICES ASSUME PurchaseInv, attempt.n > 0 PROVE FourEyes
    BY DEF FourEyes
  <2>2. DOMAIN approval.approvers = 1..Len(approval.approvers)
    BY DEF PurchaseInv, TypeInv, TypeOK, StoreTypeOK
  <2> QED BY <2>1, <2>2 DEF PurchaseInv, StagesInv, AuthorityInv, FourEyes
<1> QED BY <1>1, PurchaseInvariant, PTL

(* No attempt is dispatched after its Decision was superseded, though       *)
(* _prepare_attempt does not look at the Decision.                          *)
THEOREM SupersededNotDispatched == Spec => NoDispatchAfterSupersede
<1>1. PurchaseInv /\ [Next]_allVars => [~decision_current => attempt'.n = attempt.n]_allVars
  BY PurchaseStep
<1> QED BY <1>1, PurchaseInvariant, PTL DEF Spec, NoDispatchAfterSupersede

-----------------------------------------------------------------------------
(* The rows that several handlers write.  A session is bound once, when     *)
(* payment leaves NOT_STARTED, by a create request that is over then; only  *)
(* a bound session has a checkout event.                                    *)
BindingInv ==
  /\ approval.status # "NOT_REQUESTED" /\ ApprovalRowAgrees
  /\ OneUsableSession
  /\ payment_status # "NOT_STARTED" => session_count > 0
  /\ \A s \in SessionIds :
       /\ requests[s] # "NONE" => s <= session_count
       /\ sessions[s].binding # "NONE" => payment_status # "NOT_STARTED" /\ requests[s] = "DONE"
       /\ events[s] # "NONE" => sessions[s].binding # "NONE"
  /\ \A r \in transitions : r.key = "session-created" =>
       \E s \in SessionIds : s = r.id /\ sessions[s].binding # "NONE"

(* A dispatcher read an event that exists.                                  *)
ReadInv == \A d \in Dispatchers :
  dispatcher[d].step # "IDLE" => events[dispatcher[d].session] # "NONE"

(* Who has seen the workflow started, and what an event waits for before.   *)
StartedInv ==
  /\ PublishedWasStarted
  /\ \A d \in Dispatchers : dispatcher[d].step = "STARTED" => workflow.step # "NONE"
  /\ \A t \in Slots : slot[t].step # "IDLE" => workflow.step # "NONE"
  /\ \A s \in SessionIds : events[s] = "UNPUBLISHED" =>
       \/ workflow.step # "NONE" \/ sessions[s].status = "CARDHOLDER_PENDING"
       \/ payment_status = "EXPIRED"

Final == {"PRAVA_COMPLETED", "DECLINED"}

(* The log of transitions never says of a payment that it is over when it   *)
(* is not.                                                                  *)
LogInv == \A r \in transitions : r.to \in Final => payment_status = r.to

(* What the ledger says of a charge: the providers hold it, the log of      *)
(* transitions agrees with it, and a dispatched attempt keeps its Decision. *)
LedgerInv ==
  /\ payment_status # "FAILED"
  /\ attempt.n > 0 => decision_current \/ payment_status = "DECLINED"
  /\ attempt.n > 0 /\ merchant_calls = 0 => payment_status = "CHECKOUT_PENDING"
  /\ prava # "NONE" => prava = merchant
  /\ LedgerMatchesProviders
  /\ ClosedAttemptIsSettled
  /\ LogInv

(* What fulfillment, receipt, run and workflow say of the purchase.         *)
FulfilledInv ==
  /\ FulfillmentOnlyAfterPayment /\ RunCompletedIsTrue
  /\ receipt # 0 <=> fulfillment_status = "VERIFIED"
  /\ receipt # 0 => order # "NONE"
  /\ \A r \in transitions : r.to = "VERIFIED" => fulfillment_status = "VERIFIED"
  /\ workflow.step \in {"VERIFY", "FAIL_FULFILL"} =>
       payment_status = "PRAVA_COMPLETED" /\ order # "NONE"

(* What an attempt may rely on at each of its steps, however late it runs:  *)
(* its result is what the providers hold, it verifies a completed payment,  *)
(* and it completes a run that is over.                                     *)
ResultTrue(r) ==
  /\ merchant_calls > 0
  /\ r.outcome # "UNKNOWN" => merchant = r.outcome
  /\ r.reported => prava = r.outcome
  /\ ~r.required => r.reported /\ r.outcome # "UNKNOWN"

Lost == {"PERSIST", "RETRYABLE", "NON_RETRYABLE", "DEAD"}

SlotTrue(x) ==
  /\ x.step = "PERSIST" => ResultTrue(x.result)
  /\ x.step = "QUERY" => /\ x.result.outcome = "UNKNOWN" /\ x.result.required
                         /\ ~x.result.reported
  /\ x.step \in {"START", "OBSERVE", "RESULT"} =>
       payment_status = "PRAVA_COMPLETED" /\ order # "NONE"
  /\ x.step = "FINISH" => payment_status = "DECLINED" \/ fulfillment_status = "VERIFIED"
  /\ x.step \notin Lost /\ ~x.result.required /\ x.result.outcome = "APPROVED" =>
       payment_status = "PRAVA_COMPLETED" /\ (x.result.order_id => order # "NONE")

SlotsInv == \A t \in Slots : SlotTrue(slot[t])

OutcomeInv == LedgerInv /\ FulfilledInv /\ SlotsInv

-----------------------------------------------------------------------------
(* What the handlers leave of a session row.                                *)
LEMMA SessionRowFields ==
  ASSUME NEW row \in SessionRow
  PROVE  /\ RevokedRow(row).binding # "NONE" <=> row.binding # "NONE"
         /\ RevokedRow(row).status =
              IF row.status \in {"SESSION_CREATED", "CARDHOLDER_PENDING"}
              THEN "REVOKED" ELSE row.status
         /\ SupersededRow(row).binding = row.binding
         /\ SupersededRow(row).status =
              IF row.status \in {"SESSION_CREATED", "CARDHOLDER_PENDING"}
              THEN "EXPIRED" ELSE row.status
<1> DEFINE revoked == IF row.status \in {"SESSION_CREATED", "CARDHOLDER_PENDING"}
                      THEN "REVOKED" ELSE row.status
           expired == IF row.status \in {"SESSION_CREATED", "CARDHOLDER_PENDING"}
                      THEN "EXPIRED" ELSE row.status
           binding == IF row.binding = "OPEN" THEN "CONSUMED" ELSE row.binding
<1>1. RevokedRow(row) = [row EXCEPT !.status = revoked, !.binding = binding]
  BY DEF RevokedRow, SessionRow
<1>2. SupersededRow(row) = [row EXCEPT !.status = expired]
  BY DEF SupersededRow, SessionRow
<1>3. binding # "NONE" <=> row.binding # "NONE"
  OBVIOUS
<1> HIDE DEF revoked, expired, binding
<1>4. RevokedRow(row).binding = binding /\ RevokedRow(row).status = revoked
  BY <1>1 DEF SessionRow
<1>5. SupersededRow(row).binding = row.binding /\ SupersededRow(row).status = expired
  BY <1>2 DEF SessionRow
<1> QED BY <1>3, <1>4, <1>5 DEF revoked, expired

(* Steps that bind no session and create no request.                        *)
BindingFrame ==
  /\ \A s \in SessionIds :
       /\ sessions'[s].binding # "NONE" <=> sessions[s].binding # "NONE"
       /\ requests'[s] # "NONE" => requests[s] # "NONE"
       /\ requests[s] = "DONE" => requests'[s] = "DONE"
       /\ events'[s] # "NONE" => events[s] # "NONE" \/ sessions[s].binding # "NONE"
  /\ payment_status' = "NOT_STARTED" <=> payment_status = "NOT_STARTED"
  /\ session_count' = session_count
  /\ \A r \in transitions' : r.key = "session-created" => r \in transitions

SameAuthority == UNCHANGED <<approval, approval_status>>

LEMMA FrameKeepsBinding ==
  ASSUME BindingInv, BindingFrame, approval'.status # "NOT_REQUESTED" /\ ApprovalRowAgrees'
  PROVE  BindingInv'
BY DEF BindingInv, BindingFrame, OneUsableSession

(* The approval endpoints and the Decision change: both status columns are  *)
(* written together.                                                        *)
LEMMA ApprovalKeepsBinding ==
  ASSUME TypeInv, BindingInv,
         \/ create_approval_request /\ UNCHANGED requests
         \/ \E a \in Actors, r \in Roles :
              (approve(a, r) \/ reject_approval(a, r) \/ revoke_approval(a, r))
              /\ UNCHANGED requests
         \/ decide_proposal /\ UNCHANGED requests
         \/ expire_purchase_approval
  PROVE  BindingInv'
<1>0. /\ approval \in [status : ApprovalStatus \cup {"NONE"},
                       approved_roles : Seq(Roles), approvers : Seq(Actors)]
      /\ sessions \in [SessionIds -> SessionRow]
      /\ events \in [SessionIds -> {"NONE", "UNPUBLISHED", "PUBLISHED"}]
  BY DEF TypeInv, TypeOK, StoreTypeOK
<1>1. approval'.status # "NOT_REQUESTED" /\ ApprovalRowAgrees'
  <2>1. ASSUME NEW status, SetApproval(status)
        PROVE  approval'.status = status /\ approval_status' = status
    BY <1>0, <2>1 DEF SetApproval
  <2>2. CASE \/ ExpireOnUse \/ expire_purchase_approval
             \/ \E a \in Actors, r \in Roles : RejectStage(a, r) \/ revoke_approval(a, r)
    <3>1. PICK status \in {"EXPIRED", "REJECTED", "REVOKED"} : SetApproval(status)
      BY <2>2 DEF ExpireOnUse, expire_purchase_approval, RejectStage, revoke_approval
    <3> QED BY <2>1, <3>1 DEF ApprovalRowAgrees
  <2>3. CASE create_approval_request
    BY <2>3 DEF create_approval_request, ApprovalRowAgrees
  <2>4. ASSUME NEW a \in Actors, NEW r \in Roles, ApproveStage(a, r)
        PROVE  approval'.status # "NOT_REQUESTED" /\ ApprovalRowAgrees'
    BY <2>4 DEF ApproveStage, OpenRequest, BindingInv, ApprovalRowAgrees
  <2>5. CASE decide_proposal
    BY <1>0, <2>5 DEF decide_proposal, OpenRequest, BindingInv, ApprovalRowAgrees
  <2> QED BY <2>2, <2>3, <2>4, <2>5 DEF approve, reject_approval
<1>2. /\ UNCHANGED <<session_count, transitions>>
      /\ UNCHANGED requests
      /\ payment_status' = "NOT_STARTED" <=> payment_status = "NOT_STARTED"
  BY DEF create_approval_request, approve, reject_approval, revoke_approval, ExpireOnUse,
     ApproveStage, RejectStage, approval_unchanged, expire_purchase_approval, decide_proposal,
     session_vars, ledger_vars
<1>3. \A s \in SessionIds : /\ sessions'[s].binding # "NONE" <=> sessions[s].binding # "NONE"
                            /\ events'[s] # "NONE" => events[s] # "NONE"
  <2>1. ASSUME NEW a \in Actors, NEW r \in Roles, revoke_approval(a, r)
        PROVE  \A s \in SessionIds :
                 /\ sessions'[s].binding # "NONE" <=> sessions[s].binding # "NONE"
                 /\ events'[s] # "NONE" => events[s] # "NONE"
    BY <1>0, <2>1, SessionRowFields DEF revoke_approval
  <2>2. CASE decide_proposal
    BY <1>0, <2>2, SessionRowFields DEF decide_proposal
  <2>3. CASE UNCHANGED <<sessions, events>>
    BY <2>3
  <2> QED BY <2>1, <2>2, <2>3 DEF create_approval_request, approve, reject_approval,
          ExpireOnUse, ApproveStage, RejectStage, approval_unchanged, expire_purchase_approval,
          session_vars
<1> QED BY <1>1, <1>2, <1>3, FrameKeepsBinding DEF BindingFrame

(* create_prava_session takes a number nobody used.                         *)
LEMMA CreateKeepsBinding ==
  ASSUME TypeInv, BindingInv, create_prava_session
  PROVE  BindingInv'
<1> DEFINE new == session_count + 1
<1>0. session_count \in Nat /\ new \in SessionIds /\ MaxSessions \in Nat
      /\ sessions \in [SessionIds -> SessionRow] /\ requests \in [SessionIds -> RequestSteps]
  BY SessionsAssumption DEF create_prava_session, SessionIds, TypeInv, TypeOK, StoreTypeOK,
     SessionTypeOK
<1>1. requests[new] = "NONE"
  BY <1>0 DEF BindingInv
<1>2. sessions[new].binding = "NONE" /\ events[new] = "NONE"
  BY <1>0, <1>1 DEF BindingInv
<1>3. \A s \in SessionIds : sessions'[s].binding # "NONE" <=> sessions[s].binding # "NONE"
  <2> SUFFICES ASSUME NEW s \in SessionIds
               PROVE  sessions'[s].binding # "NONE" <=> sessions[s].binding # "NONE"
    OBVIOUS
  <2>1. sessions[s] \in SessionRow
    BY <1>0
  <2>2. [sessions[s] EXCEPT !.status = "EXPIRED"].binding = sessions[s].binding
    BY <2>1 DEF SessionRow
  <2>3. Placeholder.binding = "NONE"
    BY DEF Placeholder
  <2> QED BY <1>2, <2>2, <2>3 DEF create_prava_session
<1>4. /\ session_count' = session_count + 1
      /\ requests'[new] = "CALLING" /\ \A s \in SessionIds : s # new => requests'[s] = requests[s]
      /\ UNCHANGED <<approval, approval_status, payment_status, events, transitions>>
  BY <1>0 DEF create_prava_session, session_unchanged, ledger_vars
<1>5. \A s \in SessionIds : requests'[s] # "NONE" => s <= session_count'
  BY <1>0, <1>4 DEF BindingInv, SessionIds
<1>6. \A s \in SessionIds : sessions'[s].binding # "NONE" =>
        payment_status' # "NOT_STARTED" /\ requests'[s] = "DONE"
  BY <1>2, <1>3, <1>4 DEF BindingInv
<1>7. session_count' > 0
  BY <1>0, <1>4
<1> HIDE DEF new
<1> QED BY <1>3, <1>4, <1>5, <1>6, <1>7 DEF BindingInv, ApprovalRowAgrees, OneUsableSession

(* RecordSession: the answer is recorded for the session of its own         *)
(* request, while payment has not started, so no other one is bound.        *)
LEMMA RecordKeepsBinding ==
  ASSUME TypeInv, BindingInv, NEW s \in SessionIds, RecordSession(s)
  PROVE  /\ BindingInv'
         /\ \/ UNCHANGED <<sessions, payment_status, transitions>>
            \/ /\ payment_status = "NOT_STARTED" /\ payment_status' = "SESSION_CREATED"
               /\ transitions' = transitions \cup {SessionCreatedRow(s)}
         /\ \A u \in SessionIds : u # s => sessions'[u] = sessions[u]
<1> DEFINE row == SessionCreatedRow(s)
           bound == [status |-> "SESSION_CREATED", hosted |-> TRUE, live |-> TRUE,
                     binding |-> "OPEN"]
<1>0. /\ requests[s] = "CREATED" /\ requests'[s] = "DONE"
      /\ \A u \in SessionIds : u # s => requests'[u] = requests[u]
      /\ UNCHANGED <<approval, approval_status, session_count, events>>
      /\ sessions \in [SessionIds -> SessionRow] /\ session_count \in Nat
  BY DEF RecordSession, RecordSessionFrom, TypeInv, TypeOK, StoreTypeOK, SessionTypeOK
<1>1. sessions[s].binding = "NONE" /\ s <= session_count
  BY <1>0 DEF BindingInv
<1>2. row.key = "session-created" /\ row.id = s /\ row.to = "SESSION_CREATED"
  BY DEF SessionCreatedRow, Row
<1>3. ~Replayed(transitions, row)
  BY <1>1, <1>2 DEF Replayed, BindingInv
<1>4. CASE UNCHANGED <<sessions, payment_status, transitions>>
  <2>1. BindingFrame
    BY <1>0, <1>4 DEF BindingFrame
  <2>2. approval'.status # "NOT_REQUESTED" /\ ApprovalRowAgrees'
    BY <1>0 DEF BindingInv, ApprovalRowAgrees
  <2> QED BY <1>4, <2>1, <2>2, FrameKeepsBinding
<1>5. CASE /\ ~TransitionConflict(transitions, payment_status, {"NOT_STARTED"}, row)
           /\ sessions' = [sessions EXCEPT ![s] = bound]
           /\ payment_status' = TransitionState(transitions, payment_status, row)
           /\ transitions' = TransitionLog(transitions, row)
  <2>1. /\ payment_status = "NOT_STARTED" /\ payment_status' = "SESSION_CREATED"
        /\ transitions' = transitions \cup {row}
    BY <1>2, <1>3, <1>5 DEF TransitionConflict, TransitionState, TransitionLog
  <2>2. /\ sessions'[s].binding = "OPEN"
        /\ \A u \in SessionIds : u # s => sessions'[u] = sessions[u]
    BY <1>0, <1>5
  <2>3. \A u \in SessionIds : sessions[u].binding = "NONE" /\ events[u] = "NONE"
    BY <2>1 DEF BindingInv
  <2>4. OneUsableSession' /\ \A u \in SessionIds : sessions'[u].binding # "NONE" => u = s
    BY <2>2, <2>3 DEF OneUsableSession
  <2>5. session_count' > 0
    BY <1>0, <1>1 DEF SessionIds
  <2>6. \A u \in SessionIds : requests'[u] # "NONE" => u <= session_count'
    BY <1>0, <1>1 DEF BindingInv
  <2>7. \A r \in transitions' : r.key = "session-created" => r.id = s
    BY <1>2, <2>1, <2>3 DEF BindingInv
  <2>8. BindingInv'
    BY <1>0, <2>1, <2>2, <2>3, <2>4, <2>5, <2>6, <2>7 DEF BindingInv, ApprovalRowAgrees
  <2> QED BY <2>1, <2>2, <2>8
<1> QED BY <1>4, <1>5 DEF RecordSession, RecordSessionFrom

(* The other steps of the API, deadlines, dispatchers and Temporal.         *)
LEMMA ApiKeepsBinding ==
  ASSUME TypeInv, BindingInv, ReadInv,
         \/ \E s \in SessionIds : \/ accept_prava_browser_return(s) \/ PravaAnswersCreate(s)
                                  \/ mark_session_create_failed(s) \/ ApiCrash(s)
         \/ Time
         \/ \E d \in Dispatchers : DispatchPublish(d)
         \/ UNCHANGED <<store_vars, requests>>
  PROVE  BindingInv'
<1>0. /\ sessions \in [SessionIds -> SessionRow] /\ requests \in [SessionIds -> RequestSteps]
      /\ events \in [SessionIds -> {"NONE", "UNPUBLISHED", "PUBLISHED"}]
  BY DEF TypeInv, TypeOK, StoreTypeOK, SessionTypeOK
<1>1. SameAuthority /\ session_count' = session_count
  BY DEF SameAuthority, accept_prava_browser_return, PravaAnswersCreate,
     mark_session_create_failed, session_unchanged, ApiCrash, Time, time_only, authority_vars,
     DispatchPublish, session_vars, store_vars
<1>2. approval'.status # "NOT_REQUESTED" /\ ApprovalRowAgrees'
  BY <1>1 DEF SameAuthority, BindingInv, ApprovalRowAgrees
<1>3. ASSUME NEW s \in SessionIds, accept_prava_browser_return(s) PROVE BindingFrame
  <2>1. /\ payment_status = "SESSION_CREATED" /\ payment_status' = "CARDHOLDER_PENDING"
        /\ UNCHANGED <<requests, session_count>> /\ sessions[s].binding = "OPEN"
    BY <1>3 DEF accept_prava_browser_return, ReturnAuthority
  <2>2. /\ \A u \in SessionIds : u # s => sessions'[u] = sessions[u] /\ events'[u] = events[u]
        /\ sessions'[s].binding = "CONSUMED"
    BY <1>0, <1>3 DEF accept_prava_browser_return, SessionRow
  <2>3. transitions' = transitions \cup {Row("browser-return", s, "CARDHOLDER_PENDING", NoResult)}
    BY <1>3 DEF accept_prava_browser_return, TransitionLog
  <2>4. Row("browser-return", s, "CARDHOLDER_PENDING", NoResult).key = "browser-return"
    BY DEF Row
  <2> QED BY <2>1, <2>2, <2>3, <2>4 DEF BindingFrame
<1>4. ASSUME NEW s \in SessionIds,
             PravaAnswersCreate(s) \/ mark_session_create_failed(s) \/ ApiCrash(s)
      PROVE  BindingFrame
  <2>1. UNCHANGED <<payment_status, session_count, events, transitions>>
    BY <1>4 DEF PravaAnswersCreate, mark_session_create_failed, session_unchanged, ApiCrash,
       store_vars, ledger_vars
  <2>2. /\ requests[s] \notin {"NONE", "DONE"}
        /\ \A u \in SessionIds : u # s => requests'[u] = requests[u]
    BY <1>0, <1>4 DEF PravaAnswersCreate, mark_session_create_failed, ApiCrash
  <2>3. \A u \in SessionIds : sessions'[u].binding = sessions[u].binding
    BY <1>0, <1>4 DEF PravaAnswersCreate, mark_session_create_failed, ApiCrash, store_vars,
       SessionRow
  <2> QED BY <2>1, <2>2, <2>3 DEF BindingFrame
<1>5. ASSUME Time PROVE BindingFrame
  <2>1. \A u \in SessionIds : sessions'[u].binding = sessions[u].binding
    BY <1>0, <1>5 DEF Time, SessionExpires, SessionRow
  <2>2. UNCHANGED <<payment_status, session_count, events, transitions>>
        /\ \A u \in SessionIds : requests'[u] = requests[u]
    BY <1>5 DEF Time, time_only, ledger_vars
  <2> QED BY <2>1, <2>2 DEF BindingFrame
<1>6. ASSUME NEW d \in Dispatchers, DispatchPublish(d) PROVE BindingFrame
  <2> DEFINE s == dispatcher[d].session
  <2>1. s \in SessionIds /\ events[s] # "NONE"
    BY <1>6 DEF DispatchPublish, ReadInv, TypeInv, TypeOK, WorkerTypeOK
  <2>2. UNCHANGED <<payment_status, sessions, session_count, requests, transitions>>
    BY <1>6 DEF DispatchPublish, session_vars, ledger_vars
  <2>3. \A u \in SessionIds : events'[u] # "NONE" => events[u] # "NONE"
    BY <1>0, <1>6, <2>1 DEF DispatchPublish
  <2> QED BY <2>2, <2>3 DEF BindingFrame
<1>7. ASSUME UNCHANGED <<store_vars, requests>> PROVE BindingFrame
  <2>1. UNCHANGED <<payment_status, session_count, transitions>>
        /\ \A u \in SessionIds : /\ sessions'[u] = sessions[u] /\ requests'[u] = requests[u]
                                /\ events'[u] = events[u]
    BY <1>7 DEF store_vars
  <2> QED BY <2>1 DEF BindingFrame
<1> QED BY <1>2, <1>3, <1>4, <1>5, <1>6, <1>7, FrameKeepsBinding

(* A status written to a session row leaves its binding.                    *)
LEMMA StatusKeepsBinding ==
  ASSUME NEW rows \in [SessionIds -> SessionRow], NEW s, NEW status
  PROVE  \A u \in SessionIds : [rows EXCEPT ![s].status = status][u].binding = rows[u].binding
<1> SUFFICES ASSUME NEW u \in SessionIds
             PROVE  [rows EXCEPT ![s].status = status][u].binding = rows[u].binding
  OBVIOUS
<1>1. [rows[u] EXCEPT !.status = status].binding = rows[u].binding
  BY DEF SessionRow
<1>2. [rows EXCEPT ![s].status = status][u] \in {rows[u], [rows[u] EXCEPT !.status = status]}
  OBVIOUS
<1> QED BY <1>1, <1>2

(* The rows _persist_checkout_result logs, and what they make of payment.   *)
LEMMA PersistFacts ==
  ASSUME TypeInv, NEW t \in Slots, PersistApplies(t)
  PROVE  LET r == slot[t].result IN
         /\ UncertainRow(r).key = "checkout-uncertain" /\ UncertainRow(r).to = "UNCERTAIN"
         /\ DeclinedRow(r).key = "checkout-declined" /\ DeclinedRow(r).to = "DECLINED"
         /\ ApprovedRow(r).key = "merchant-approved" /\ ApprovedRow(r).to = "MERCHANT_APPROVED"
         /\ ReportRow(r).key \in {"prava-report:prava_completed", "prava-report:reporting"}
         /\ ReportRow(r).to = (IF r.reported THEN "PRAVA_COMPLETED" ELSE "REPORTING")
         /\ transitions' \subseteq transitions \cup
              (IF r.outcome = "UNKNOWN" THEN {UncertainRow(r)}
               ELSE IF r.outcome = "DECLINED" THEN {DeclinedRow(r)}
               ELSE {ApprovedRow(r), ReportRow(r)})
         /\ ~PersistConflict(r) /\ payment_status' = PersistedState(r)
         /\ r.outcome \in {"UNKNOWN", "DECLINED", "APPROVED"} /\ r \in CheckoutResults
<1> DEFINE r == slot[t].result
<1>1. r \in CheckoutResults /\ r.outcome \in {"UNKNOWN", "DECLINED", "APPROVED"}
  BY DEF TypeInv, TypeOK, WorkerTypeOK, CheckoutResults, Outcomes
<1>2. ~PersistConflict(r) /\ payment_status' = PersistedState(r) /\ transitions' = PersistedLog(r)
  BY DEF PersistApplies
<1> HIDE DEF r
<1>3. /\ UncertainRow(r).key = "checkout-uncertain" /\ UncertainRow(r).to = "UNCERTAIN"
      /\ DeclinedRow(r).key = "checkout-declined" /\ DeclinedRow(r).to = "DECLINED"
      /\ ApprovedRow(r).key = "merchant-approved" /\ ApprovedRow(r).to = "MERCHANT_APPROVED"
  BY DEF UncertainRow, DeclinedRow, ApprovedRow, Row
<1>4. /\ ReportRow(r).key \in {"prava-report:prava_completed", "prava-report:reporting"}
      /\ ReportRow(r).to = (IF r.reported THEN "PRAVA_COMPLETED" ELSE "REPORTING")
  BY DEF ReportRow, ReportTarget, Row
<1>5. transitions' \subseteq transitions \cup
        (IF r.outcome = "UNKNOWN" THEN {UncertainRow(r)}
         ELSE IF r.outcome = "DECLINED" THEN {DeclinedRow(r)}
         ELSE {ApprovedRow(r), ReportRow(r)})
  BY <1>1, <1>2 DEF PersistedLog, ApprovedLog, TransitionLog
<1> QED BY <1>1, <1>2, <1>3, <1>4, <1>5 DEF r

(* The coordinator's transactions.                                          *)
LEMMA CoordinatorKeepsBinding ==
  ASSUME TypeInv, BindingInv, NEW t \in Slots,
         \/ PrepareExpired(t) \/ PrepareDispatch(t) \/ PersistApplies(t)
         \/ StartVerify(t) \/ RecordVerify(t) \/ Finish(t)
  PROVE  BindingInv'
<1>0. /\ sessions \in [SessionIds -> SessionRow]
      /\ approval \in [status : ApprovalStatus \cup {"NONE"},
                       approved_roles : Seq(Roles), approvers : Seq(Actors)]
  BY DEF TypeInv, TypeOK, StoreTypeOK
<1>1. /\ UNCHANGED <<session_count>>
      /\ \A s \in SessionIds : requests'[s] = requests[s] /\ events'[s] = events[s]
  BY DEF PrepareExpired, PrepareDispatch, prepare_unchanged, PersistApplies, StartVerify,
     RecordVerify, verify_unchanged, Finish, session_vars
<1>2. approval'.status # "NOT_REQUESTED" /\ ApprovalRowAgrees'
  <2>1. CASE PrepareExpired(t) /\ SetApproval("EXPIRED")
    BY <1>0, <2>1 DEF SetApproval, ApprovalRowAgrees
  <2>2. CASE UNCHANGED <<approval, approval_status>>
    BY <2>2 DEF BindingInv, ApprovalRowAgrees
  <2> QED BY <2>1, <2>2 DEF PrepareExpired, PrepareDispatch, PersistApplies, StartVerify,
          RecordVerify, verify_unchanged, Finish, authority_vars
<1>3. \A u \in SessionIds : sessions'[u].binding = sessions[u].binding
  <2>1. sessions' = sessions \/ \E s, status : sessions' = [sessions EXCEPT ![s].status = status]
    BY DEF PrepareExpired, PrepareDispatch, PersistApplies, StartVerify, RecordVerify,
       verify_unchanged, Finish, session_vars
  <2>2. CASE sessions' = sessions
    BY <2>2
  <2>3. CASE sessions' # sessions
    <3>1. PICK s, status : sessions' = [sessions EXCEPT ![s].status = status]
      BY <2>1, <2>3
    <3>2. \A u \in SessionIds :
            [sessions EXCEPT ![s].status = status][u].binding = sessions[u].binding
      BY <1>0, StatusKeepsBinding
    <3> QED BY <3>1, <3>2
  <2> QED BY <2>2, <2>3
<1>4. /\ payment_status' = "NOT_STARTED" <=> payment_status = "NOT_STARTED"
      /\ \A r \in transitions' : r.key = "session-created" => r \in transitions
  <2>1. CASE PrepareExpired(t) \/ PrepareDispatch(t)
    BY <2>1 DEF PrepareExpired, PrepareDispatch, DispatchAuthority, TransitionLog, Row
  <2>2. CASE PersistApplies(t)
    <3> DEFINE r == slot[t].result
    <3>1. /\ r.outcome \in {"UNKNOWN", "DECLINED", "APPROVED"}
          /\ UncertainRow(r).to = "UNCERTAIN" /\ DeclinedRow(r).to = "DECLINED"
          /\ ApprovedRow(r).to = "MERCHANT_APPROVED"
          /\ ReportRow(r).to \in {"PRAVA_COMPLETED", "REPORTING"}
          /\ ~PersistConflict(r) /\ payment_status' = PersistedState(r)
      BY <2>2, PersistFacts
    <3>2. /\ UncertainRow(r).key = "checkout-uncertain" /\ DeclinedRow(r).key = "checkout-declined"
          /\ ApprovedRow(r).key = "merchant-approved"
          /\ ReportRow(r).key \in {"prava-report:prava_completed", "prava-report:reporting"}
          /\ transitions' \subseteq transitions \cup
               {UncertainRow(r), DeclinedRow(r), ApprovedRow(r), ReportRow(r)}
      BY <2>2, PersistFacts
    <3> HIDE DEF r
    <3>3. payment_status' = "NOT_STARTED" <=> payment_status = "NOT_STARTED"
      BY <3>1 DEF PersistConflict, PersistedState, ApprovedState, TransitionConflict,
         TransitionState, UnsettledCheckout
    <3> QED BY <3>2, <3>3
  <2>3. CASE StartVerify(t)
    <3>1. payment_status' = payment_status /\ transitions' \subseteq transitions \cup {StartedRow}
      BY <2>3 DEF StartVerify, verify_unchanged, TransitionLog
    <3>2. StartedRow.key = "fulfillment-started"
      BY DEF StartedRow, Row
    <3> QED BY <3>1, <3>2
  <2>4. CASE RecordVerify(t)
    <3> DEFINE row == ResultRow(slot[t].target)
    <3>1. payment_status' = payment_status /\ transitions' \subseteq transitions \cup {row}
      BY <2>4 DEF RecordVerify, verify_unchanged, TransitionLog
    <3>2. row.key # "session-created"
      BY ResultKeyType DEF ResultRow, Row, ResultKey, TypeInv, TypeOK, WorkerTypeOK
    <3> HIDE DEF row
    <3> QED BY <3>1, <3>2
  <2>5. CASE Finish(t)
    BY <2>5 DEF Finish, ledger_vars
  <2> QED BY <2>1, <2>2, <2>3, <2>4, <2>5
<1>5. BindingFrame
  BY <1>1, <1>3, <1>4 DEF BindingFrame
<1> QED BY <1>2, <1>5, FrameKeepsBinding

LEMMA NextBinding == TypeInv /\ BindingInv /\ ReadInv /\ [Next]_allVars => BindingInv'
<1> SUFFICES ASSUME TypeInv, BindingInv, ReadInv, [Next]_allVars PROVE BindingInv'
  OBVIOUS
<1>1. CASE People \/ ApiSteps \/ Time
  BY <1>1, ApprovalKeepsBinding, CreateKeepsBinding, RecordKeepsBinding, ApiKeepsBinding
     DEF People, ApiSteps
<1>2. ASSUME NEW d \in Dispatchers, DispatcherStep(d) \/ DispatcherCrash(d) PROVE BindingInv'
  BY <1>2, ApiKeepsBinding DEF DispatcherStep, DispatchRead, DispatchStart, DispatcherCrash
<1>3. ASSUME NEW t \in Slots,
             Schedule(t) \/ Complete(t) \/ ActivityTimeout(t) \/ WorkerCrash(t)
      PROVE  BindingInv'
  <2>1. UNCHANGED <<store_vars, requests>>
    BY <1>3 DEF Schedule, Complete, ActivityTimeout, WorkerCrash
  <2> QED BY <2>1, ApiKeepsBinding
<1>4. ASSUME NEW t \in Slots, ActivityStep(t) PROVE BindingInv'
  <2>1. \/ UNCHANGED <<store_vars, requests>>
        \/ PrepareExpired(t) \/ PrepareDispatch(t) \/ PersistApplies(t)
        \/ StartVerify(t) \/ RecordVerify(t) \/ Finish(t)
    BY <1>4 DEF ActivityStep, PrepareRefused, Dispatch, Query, PersistRefused, ReceiptRefused, Observe
  <2> QED BY <2>1, ApiKeepsBinding, CoordinatorKeepsBinding
<1>5. CASE MerchantSettles \/ UNCHANGED allVars
  <2>1. UNCHANGED <<store_vars, requests>>
    BY <1>5 DEF MerchantSettles, allVars, vars
  <2> QED BY <2>1, ApiKeepsBinding
<1>6. ASSUME NEW s \in SessionIds, ApiCrash(s) PROVE BindingInv'
  BY <1>6, ApiKeepsBinding
<1> QED BY <1>1, <1>2, <1>3, <1>4, <1>5, <1>6 DEF Next, WorkflowStep, TimeoutOfDead, Faults

-----------------------------------------------------------------------------
(* An event once queued stays, so a dispatcher's event does.                *)
LEMMA EventsStay ==
  ASSUME TypeInv, [Next]_allVars
  PROVE  \A s \in SessionIds : events[s] # "NONE" => events'[s] # "NONE"
<1>0. events \in [SessionIds -> {"NONE", "UNPUBLISHED", "PUBLISHED"}]
  BY DEF TypeInv, TypeOK, StoreTypeOK
<1>1. \/ events' = events
      \/ \E a \in Actors, r \in Roles : revoke_approval(a, r)
      \/ \E s \in SessionIds : accept_prava_browser_return(s)
      \/ \E d \in Dispatchers : DispatchPublish(d)
  BY DEF Next, People, ApiSteps, Time, time_only, DispatcherStep, WorkflowStep, ActivityStep,
     TimeoutOfDead, Faults, create_approval_request, approve, reject_approval, ExpireOnUse,
     ApproveStage, RejectStage, approval_unchanged, decide_proposal, expire_purchase_approval,
     create_prava_session, PravaAnswersCreate, RecordSession, RecordSessionFrom,
     mark_session_create_failed, ApiCrash, DispatchRead, DispatchStart, DispatcherCrash,
     Schedule, Complete, ActivityTimeout, WorkerCrash, PrepareRefused, PrepareExpired,
     PrepareDispatch, prepare_unchanged, Dispatch, Query, PersistApplies, PersistRefused, ReceiptRefused,
     StartVerify, Observe, RecordVerify, verify_unchanged, Finish, MerchantSettles,
     store_vars, vars, allVars
<1>2. ASSUME NEW a \in Actors, NEW r \in Roles, revoke_approval(a, r)
      PROVE  \A s \in SessionIds : events[s] # "NONE" => events'[s] # "NONE"
  BY <1>0, <1>2 DEF revoke_approval
<1>3. ASSUME NEW u \in SessionIds, accept_prava_browser_return(u)
      PROVE  \A s \in SessionIds : events[s] # "NONE" => events'[s] # "NONE"
  BY <1>0, <1>3 DEF accept_prava_browser_return
<1>4. ASSUME NEW d \in Dispatchers, DispatchPublish(d)
      PROVE  \A s \in SessionIds : events[s] # "NONE" => events'[s] # "NONE"
  BY <1>0, <1>4 DEF DispatchPublish
<1> QED BY <1>1, <1>2, <1>3, <1>4

LEMMA NextRead == TypeInv /\ ReadInv /\ [Next]_allVars => ReadInv'
<1> SUFFICES ASSUME TypeInv, ReadInv, [Next]_allVars PROVE ReadInv'
  OBVIOUS
<1>0. dispatcher \in [Dispatchers -> [step : {"IDLE", "READ", "STARTED"}, session : SessionIds]]
  BY DEF TypeInv, TypeOK, WorkerTypeOK
<1>1. \/ dispatcher' = dispatcher
      \/ \E d \in Dispatchers : \/ DispatchRead(d) \/ DispatchStart(d) \/ DispatchPublish(d)
                                \/ DispatcherCrash(d)
  BY DEF Next, People, ApiSteps, Time, time_only, api_only, DispatcherStep, WorkflowStep,
     ActivityStep, TimeoutOfDead, Faults, Schedule, Complete, ActivityTimeout, WorkerCrash,
     PrepareRefused, PrepareExpired, PrepareDispatch, prepare_unchanged, Dispatch, Query,
     PersistApplies, PersistRefused, ReceiptRefused, StartVerify, Observe, RecordVerify, verify_unchanged,
     Finish, MerchantSettles, worker_vars, vars, allVars
<1>2. CASE dispatcher' = dispatcher
  BY <1>0, <1>2, EventsStay DEF ReadInv
<1>3. ASSUME NEW d \in Dispatchers, DispatchRead(d) PROVE ReadInv'
  <2>1. PICK s \in SessionIds :
          /\ events[s] = "UNPUBLISHED"
          /\ dispatcher' = [dispatcher EXCEPT ![d] = [step |-> "READ", session |-> s]]
    BY <1>3 DEF DispatchRead
  <2>2. dispatcher'[d].session = s /\ \A c \in Dispatchers : c # d => dispatcher'[c] = dispatcher[c]
    BY <1>0, <2>1
  <2>3. events' = events
    BY <1>3 DEF DispatchRead, store_vars
  <2> QED BY <2>1, <2>2, <2>3 DEF ReadInv
<1>4. ASSUME NEW d \in Dispatchers,
             DispatchStart(d) \/ DispatchPublish(d) \/ DispatcherCrash(d)
      PROVE  ReadInv'
  <2>1. /\ dispatcher[d].step # "IDLE" /\ dispatcher'[d].session = dispatcher[d].session
        /\ \A c \in Dispatchers : c # d => dispatcher'[c] = dispatcher[c]
    BY <1>0, <1>4 DEF DispatchStart, DispatchPublish, DispatcherCrash
  <2>2. \A c \in Dispatchers : dispatcher[c].session \in SessionIds
    BY <1>0
  <2> QED BY <2>1, <2>2, EventsStay DEF ReadInv
<1> QED BY <1>1, <1>2, <1>3, <1>4

-----------------------------------------------------------------------------
(* Where the workflow goes from an activity: it never forgets that it was   *)
(* started, verifies only a final approved result with an order, and gives  *)
(* fulfillment up only from there.                                          *)
LEMMA AfterSuccessStep ==
  ASSUME NEW w \in WorkflowType, w.step \in Activities, NEW r \in CheckoutResults
  PROVE  /\ AfterSuccess(w, r).step \notin {"NONE", "FAIL_FULFILL"}
         /\ AfterSuccess(w, r).step = "VERIFY" =>
              ~r.required /\ r.outcome = "APPROVED" /\ r.order_id
<1>1. \A step \in Activities \cup {"COMPLETED", "FAILED"} : Advance(w, step).step = step
  BY DEF Advance, WorkflowType
<1>2. CASE w.step \in {"EXECUTE", "RECONCILE"}
  <2>1. CASE ~r.required
    BY <1>1, <1>2, <2>1 DEF AfterSuccess, AfterCheckout, Activities
  <2>2. CASE r.required /\ w.step = "EXECUTE"
    <3>1. AfterSuccess(w, r) = [Advance(w, "RECONCILE") EXCEPT !.reference = r.reference]
      BY <2>2 DEF AfterSuccess, AfterCheckout
    <3>2. AfterSuccess(w, r).step = "RECONCILE"
      BY <3>1 DEF Advance, WorkflowType
    <3> QED BY <3>2
  <2>3. CASE r.required /\ w.step = "RECONCILE"
    <3>1. \/ AfterSuccess(w, r) = [Advance(w, "RECONCILE") EXCEPT !.round = w.round + 1]
          \/ AfterSuccess(w, r) = Advance(w, "FAIL_RECONCILE")
      BY <2>3 DEF AfterSuccess, AfterCheckout
    <3>2. AfterSuccess(w, r).step \in {"RECONCILE", "FAIL_RECONCILE"}
      BY <3>1 DEF Advance, WorkflowType
    <3> QED BY <3>2
  <2> QED BY <1>2, <2>1, <2>2, <2>3 DEF CheckoutResults
<1>3. CASE w.step \in {"VERIFY", "FAIL_RECONCILE", "FAIL_FULFILL"}
  BY <1>1, <1>3 DEF AfterSuccess
<1> QED BY <1>2, <1>3 DEF Activities

LEMMA AfterFailureStep ==
  ASSUME NEW w \in WorkflowType, w.step \in Activities, NEW retryable \in BOOLEAN
  PROVE  /\ AfterFailure(w, retryable).step # "NONE"
         /\ AfterFailure(w, retryable).step \in {"VERIFY", "FAIL_FULFILL"} =>
              w.step \in {"VERIFY", "FAIL_FULFILL"}
<1>1. CASE retryable /\ MayRetry(w)
  BY <1>1 DEF AfterFailure, WorkflowType, Activities
<1>2. CASE ~(retryable /\ MayRetry(w))
  BY <1>2 DEF AfterFailure, Advance, WorkflowType
<1> QED BY <1>1, <1>2

(* Every step: a started workflow stays started, and it comes to verify or  *)
(* to give up fulfillment only after the end of such an attempt.            *)
LEMMA WorkflowStays ==
  ASSUME TypeInv, [Next]_allVars
  PROVE  /\ workflow.step # "NONE" => workflow'.step # "NONE"
         /\ workflow'.step \in {"VERIFY", "FAIL_FULFILL"} =>
              \/ workflow.step \in {"VERIFY", "FAIL_FULFILL"}
              \/ \E t \in Slots : /\ slot[t].step = "OK" /\ ~slot[t].result.required
                                  /\ slot[t].result.outcome = "APPROVED"
                                  /\ slot[t].result.order_id
<1>0. workflow \in WorkflowType /\ slot \in [Slots -> SlotType]
  BY DEF TypeInv, TypeOK, WorkerTypeOK, WorkflowType, SlotType
<1>1. \/ workflow' = workflow
      \/ \E d \in Dispatchers : DispatchStart(d)
      \/ \E t \in Slots : Schedule(t) \/ Complete(t) \/ ActivityTimeout(t)
  BY DEF Next, People, ApiSteps, Time, time_only, api_only, DispatcherStep, WorkflowStep,
     ActivityStep, TimeoutOfDead, Faults, DispatchRead, DispatchPublish, DispatcherCrash,
     WorkerCrash, PrepareRefused, PrepareExpired, PrepareDispatch, prepare_unchanged, Dispatch,
     Query, PersistApplies, PersistRefused, ReceiptRefused, StartVerify, Observe, RecordVerify,
     verify_unchanged, Finish, MerchantSettles, worker_vars, vars, allVars
<1>2. ASSUME NEW d \in Dispatchers, DispatchStart(d)
      PROVE  workflow'.step = workflow.step \/ workflow'.step = "EXECUTE"
  BY <1>0, <1>2 DEF DispatchStart, StartedWorkflow, WorkflowType
<1>3. ASSUME NEW t \in Slots, Schedule(t) PROVE workflow'.step = workflow.step
  BY <1>0, <1>3 DEF Schedule, WorkflowType
<1>4. ASSUME NEW t \in Slots, workflow.awaits = t PROVE workflow.step \in Activities
  BY <1>4, WorkerAssumption DEF TypeInv, AwaitsActivity
<1>5. ASSUME NEW t \in Slots, ActivityTimeout(t)
      PROVE  /\ workflow'.step # "NONE"
             /\ workflow'.step \in {"VERIFY", "FAIL_FULFILL"} =>
                  workflow.step \in {"VERIFY", "FAIL_FULFILL"}
  BY <1>0, <1>4, <1>5, AfterFailureStep DEF ActivityTimeout
<1>6. ASSUME NEW t \in Slots, Complete(t)
      PROVE  \/ workflow' = workflow
             \/ /\ workflow'.step # "NONE"
                /\ workflow'.step \in {"VERIFY", "FAIL_FULFILL"} =>
                     \/ workflow.step \in {"VERIFY", "FAIL_FULFILL"}
                     \/ /\ slot[t].step = "OK" /\ ~slot[t].result.required
                        /\ slot[t].result.outcome = "APPROVED" /\ slot[t].result.order_id
  <2>1. CASE workflow.awaits # t
    BY <1>6, <2>1 DEF Complete
  <2>2. CASE workflow.awaits = t /\ slot[t].step = "OK"
    <3>1. workflow' = AfterSuccess(workflow, slot[t].result) /\ slot[t].result \in CheckoutResults
      BY <1>0, <1>6, <2>2 DEF Complete, SlotType
    <3> QED BY <1>0, <1>4, <2>2, <3>1, AfterSuccessStep
  <2>3. CASE workflow.awaits = t /\ slot[t].step # "OK"
    <3>1. PICK retryable \in BOOLEAN : workflow' = AfterFailure(workflow, retryable)
      BY <1>6, <2>3 DEF Complete
    <3> QED BY <1>0, <1>4, <2>3, <3>1, AfterFailureStep
  <2> QED BY <2>1, <2>2, <2>3
<1> QED BY <1>1, <1>2, <1>3, <1>5, <1>6

-----------------------------------------------------------------------------
(* Until the workflow is started only people, the API, deadlines and a      *)
(* reading dispatcher act.                                                  *)
LEMMA NextStarted ==
  TypeInv /\ BindingInv /\ StartedInv /\ [Next]_allVars => StartedInv'
<1> SUFFICES ASSUME TypeInv, BindingInv, StartedInv, [Next]_allVars PROVE StartedInv'
  OBVIOUS
<1>1. CASE workflow'.step # "NONE"
  BY <1>1 DEF StartedInv, PublishedWasStarted
<1>2. CASE workflow'.step = "NONE"
  <2>0. /\ workflow.step = "NONE" /\ sessions \in [SessionIds -> SessionRow]
        /\ events \in [SessionIds -> {"NONE", "UNPUBLISHED", "PUBLISHED"}]
        /\ dispatcher \in [Dispatchers -> [step : {"IDLE", "READ", "STARTED"},
                                           session : SessionIds]]
        /\ workflow \in WorkflowType
    BY <1>2, WorkflowStays DEF TypeInv, TypeOK, StoreTypeOK, WorkerTypeOK, WorkflowType
  <2>1. /\ \A t \in Slots : slot[t].step = "IDLE" /\ workflow.awaits # t
        /\ \A d \in Dispatchers : dispatcher[d].step # "STARTED"
    BY <2>0, WorkerAssumption DEF StartedInv, TypeInv, AwaitsActivity, Activities
  <2>2. ASSUME NEW d \in Dispatchers, DispatchStart(d) PROVE FALSE
    BY <1>2, <2>0, <2>2 DEF DispatchStart, StartedWorkflow, WorkflowType
  <2>3. \/ People \/ ApiSteps \/ Time \/ MerchantSettles \/ UNCHANGED allVars
        \/ \E d \in Dispatchers : DispatchRead(d) \/ DispatcherCrash(d)
        \/ \E s \in SessionIds : ApiCrash(s) /\ UNCHANGED worker_vars
    <3>1. \A t \in Slots : ~ActivityStep(t)
      BY <2>1 DEF ActivityStep, PrepareRefused, PrepareExpired, PrepareDispatch, Dispatch, Query,
         PersistApplies, PersistRefused, ReceiptRefused, StartVerify, Observe, RecordVerify, Finish, FinishStatus
    <3>2. \A t \in Slots : ~Schedule(t) /\ ~Complete(t) /\ ~ActivityTimeout(t) /\ ~WorkerCrash(t)
      BY <2>0, <2>1 DEF Schedule, Complete, ActivityTimeout, WorkerCrash, Activities
    <3>3. \A d \in Dispatchers : ~DispatchPublish(d)
      BY <2>1 DEF DispatchPublish
    <3> QED BY <2>2, <3>1, <3>2, <3>3 DEF Next, DispatcherStep, WorkflowStep, TimeoutOfDead, Faults
  <2>4. slot' = slot
    BY <2>3 DEF People, ApiSteps, Time, time_only, api_only, MerchantSettles, allVars, vars,
       DispatchRead, DispatcherCrash, worker_vars
  <2>5. \A d \in Dispatchers : dispatcher'[d].step # "STARTED"
    BY <2>0, <2>1, <2>3 DEF People, ApiSteps, Time, time_only, api_only, MerchantSettles, allVars,
       vars, DispatchRead, DispatcherCrash, worker_vars
  <2> DEFINE Waits(s) ==
        /\ events'[s] = "PUBLISHED" => sessions'[s].status = "REVOKED"
        /\ events'[s] = "UNPUBLISHED" =>
             sessions'[s].status = "CARDHOLDER_PENDING" \/ payment_status' = "EXPIRED"
  <2>6. \A s \in SessionIds :
          /\ events[s] = "PUBLISHED" => sessions[s].status = "REVOKED"
          /\ events[s] = "UNPUBLISHED" =>
               sessions[s].status = "CARDHOLDER_PENDING" \/ payment_status = "EXPIRED"
    BY <2>0 DEF StartedInv, PublishedWasStarted
  <2>7. \A s \in SessionIds : events[s] # "NONE" => requests[s] = "DONE"
    BY DEF BindingInv
  <2>8. \A s \in SessionIds : Waits(s)
    <3> SUFFICES ASSUME NEW s \in SessionIds PROVE Waits(s)
      OBVIOUS
    <3>0. sessions[s] \in SessionRow
      BY <2>0
    <3>1. ASSUME sessions'[s].status = sessions[s].status, events'[s] = events[s],
                 payment_status' = payment_status
          PROVE  Waits(s)
      BY <2>6, <3>1
    <3>2. ASSUME NEW a \in Actors, NEW r \in Roles, revoke_approval(a, r) PROVE Waits(s)
      <4>1. /\ sessions'[s].status = (IF sessions[s].status \in {"SESSION_CREATED", "CARDHOLDER_PENDING"}
                                      THEN "REVOKED" ELSE sessions[s].status)
            /\ events'[s] = (IF events[s] = "UNPUBLISHED" THEN "PUBLISHED" ELSE events[s])
            /\ payment_status # "EXPIRED"
        BY <3>0, <3>2, SessionRowFields DEF revoke_approval, Revocable
      <4> QED BY <2>6, <4>1
    <3>3. CASE decide_proposal
      <4>1. CASE payment_status \in {"SESSION_CREATED", "CARDHOLDER_PENDING"}
        <5>1. payment_status' = "EXPIRED" /\ events' = events
              /\ sessions'[s] = SupersededRow(sessions[s])
          BY <3>3, <4>1 DEF decide_proposal
        <5>2. sessions[s].status = "REVOKED" => sessions'[s].status = "REVOKED"
          BY <3>0, <5>1, SessionRowFields
        <5> QED BY <2>6, <5>1, <5>2
      <4>2. CASE payment_status \notin {"SESSION_CREATED", "CARDHOLDER_PENDING"}
        BY <3>1, <3>3, <4>2 DEF decide_proposal
      <4> QED BY <4>1, <4>2
    <3>4. ASSUME NEW u \in SessionIds, accept_prava_browser_return(u) PROVE Waits(s)
      <4>1. /\ payment_status = "SESSION_CREATED" /\ sessions[u].status = "SESSION_CREATED"
            /\ sessions'[u].status = "CARDHOLDER_PENDING"
            /\ events'[u] = (IF events[u] = "NONE" THEN "UNPUBLISHED" ELSE events[u])
            /\ s # u => sessions'[s] = sessions[s] /\ events'[s] = events[s]
        BY <2>0, <3>4 DEF accept_prava_browser_return, ReturnAuthority, SessionRow
      <4> QED BY <2>6, <4>1
    <3>5. CASE create_prava_session
      <4>1. UNCHANGED <<events, payment_status>>
        BY <3>5 DEF create_prava_session
      <4>2. s = session_count + 1 => events[s] = "NONE"
        <5>1. session_count \in Nat
          BY DEF TypeInv, TypeOK, StoreTypeOK
        <5> QED BY <2>7, <5>1 DEF BindingInv
      <4>3. s # session_count + 1 =>
              \/ sessions'[s] = sessions[s]
              \/ sessions[s].status = "CREATING"
        BY <3>5 DEF create_prava_session
      <4> QED BY <2>0, <2>6, <4>1, <4>2, <4>3
    <3>6. ASSUME NEW u \in SessionIds, RecordSession(u) PROVE Waits(s)
      <4>1. events' = events /\ requests[u] = "CREATED"
        BY <3>6 DEF RecordSession, RecordSessionFrom
      <4>2. s # u => sessions'[s] = sessions[s]
        BY <3>6, RecordKeepsBinding
      <4>3. payment_status' = payment_status \/ payment_status = "NOT_STARTED"
        BY <3>6, RecordKeepsBinding
      <4>4. events[u] = "NONE"
        BY <2>7, <4>1
      <4> QED BY <2>6, <4>1, <4>2, <4>3, <4>4
    <3>7. ASSUME NEW u \in SessionIds, mark_session_create_failed(u) PROVE Waits(s)
      <4>1. UNCHANGED <<events, payment_status>> /\ requests[u] \in {"REFUSED_RETRYABLE", "REFUSED"}
        BY <3>7 DEF mark_session_create_failed
      <4>2. s # u => sessions'[s] = sessions[s]
        BY <2>0, <3>7 DEF mark_session_create_failed
      <4>3. events[u] = "NONE"
        BY <2>7, <4>1
      <4> QED BY <2>6, <4>1, <4>2, <4>3
    <3>8. CASE Time
      <4>1. sessions'[s].status = sessions[s].status
        BY <2>0, <3>8 DEF Time, SessionExpires, SessionRow
      <4> QED BY <3>1, <3>8, <4>1 DEF Time, time_only
    <3> HIDE DEF Waits
    <3>9. CASE \/ create_approval_request \/ expire_purchase_approval
               \/ \E a \in Actors, r \in Roles : approve(a, r) \/ reject_approval(a, r)
      <4>1. UNCHANGED <<sessions, events, payment_status>>
        BY <3>9 DEF create_approval_request, expire_purchase_approval, approve, reject_approval,
           ExpireOnUse, ApproveStage, RejectStage, approval_unchanged, session_vars
      <4> QED BY <3>1, <4>1
    <3>10. CASE \/ MerchantSettles \/ UNCHANGED allVars
                \/ \E d \in Dispatchers : DispatchRead(d) \/ DispatcherCrash(d)
                \/ \E u \in SessionIds : ApiCrash(u) \/ PravaAnswersCreate(u)
      <4>1. UNCHANGED <<sessions, events, payment_status>>
        BY <3>10 DEF MerchantSettles, allVars, vars, DispatchRead, DispatcherCrash, ApiCrash,
           PravaAnswersCreate, store_vars
      <4> QED BY <3>1, <4>1
    <3> QED BY <2>3, <3>2, <3>3, <3>4, <3>5, <3>6, <3>7, <3>8, <3>9, <3>10 DEF People, ApiSteps
  <2> QED BY <2>1, <2>4, <2>5, <2>8 DEF StartedInv, PublishedWasStarted
<1> QED BY <1>1, <1>2

(* However create requests overlap and answer late, one session becomes     *)
(* usable; the approval row and the intent agree; and an event is published *)
(* only when its workflow was started or its session revoked.               *)
THEOREM RowsAgree == Spec => []RecordsAgree
<1> DEFINE RecordsInv == TypeInv /\ BindingInv /\ ReadInv /\ StartedInv
<1>1. Init => RecordsInv
  <2>1. Init => BindingInv
    BY SessionsAssumption DEF Init, StoreInit, SessionInit, NoSession, BindingInv,
       ApprovalRowAgrees, OneUsableSession, SessionIds
  <2>2. Init => ReadInv /\ StartedInv
    BY DEF Init, StoreInit, WorkerInit, Idle, ReadInv, StartedInv, PublishedWasStarted
  <2> QED BY <2>1, <2>2, InitTypes
<1>2. RecordsInv /\ [Next]_allVars => RecordsInv'
  BY NextTypes, NextBinding, NextRead, NextStarted
<1>3. RecordsInv => RecordsAgree
  BY DEF BindingInv, StartedInv, RecordsAgree
<1> QED BY <1>1, <1>2, <1>3, PTL DEF Spec

-----------------------------------------------------------------------------
(* Whatever the providers answer to the checkout call, what the coordinator *)
(* sees of it is so: Prava was told only the merchant's outcome, a known    *)
(* outcome is the merchant's, and a final result was reported.              *)
LEMMA AnswersTrue ==
  \A a \in CheckoutAnswers :
    /\ a.prava # "NONE" => a.prava = a.merchant
    /\ a.result.outcome # "UNKNOWN" => a.merchant = a.result.outcome
    /\ a.result.reported => a.prava = a.result.outcome
    /\ ~a.result.required => a.result.reported /\ a.result.outcome # "UNKNOWN"
<1> DEFINE True(a) ==
      /\ a.prava # "NONE" => a.prava = a.merchant
      /\ a.result.outcome # "UNKNOWN" => a.merchant = a.result.outcome
      /\ a.result.reported => a.prava = a.result.outcome
      /\ ~a.result.required => a.result.reported /\ a.result.outcome # "UNKNOWN"
<1>1. ASSUME NEW p \in BOOLEAN, NEW reported \in BOOLEAN, NEW required \in BOOLEAN,
             reported => p, ~required => reported,
             NEW a \in KnownAnswers(p, reported, required)
      PROVE  True(a)
  <2>1. PICK o \in Known : \E i \in OrderIds(o) :
          a = Answer(o, IF p THEN o ELSE "NONE", KnownResult(o, i, reported, required))
    BY <1>1 DEF KnownAnswers
  <2>2. PICK i \in OrderIds(o) :
          a = Answer(o, IF p THEN o ELSE "NONE", KnownResult(o, i, reported, required))
    BY <2>1
  <2>3. /\ a.merchant = o /\ a.prava = (IF p THEN o ELSE "NONE")
        /\ a.result.outcome = o /\ a.result.reported = reported /\ a.result.required = required
    BY <2>2 DEF Answer, KnownResult, Result
  <2> QED BY <1>1, <2>3 DEF Known
<1>2. ASSUME NEW a \in ExceptionAnswers PROVE True(a)
  <2>1. /\ ExceptionResult.outcome = "UNKNOWN" /\ ~ExceptionResult.reported
        /\ ExceptionResult.required
    BY DEF ExceptionResult, Result
  <2> QED BY <1>2, <2>1 DEF ExceptionAnswers, Answer, Known, MerchantStates
<1>3. ASSUME NEW a \in UncertainAnswers PROVE True(a)
  <2> DEFINE with == UncertainResult(TRUE)
             without == UncertainResult(FALSE)
  <2>1. /\ with.outcome = "UNKNOWN" /\ ~with.reported /\ with.required
        /\ without.outcome = "UNKNOWN" /\ ~without.reported /\ without.required
    BY DEF UncertainResult, Result
  <2>2. a \in {Answer(m, "NONE", without) : m \in MerchantStates}
              \cup {Answer("PENDING", "NONE", with)}
    BY <1>3 DEF UncertainAnswers
  <2> HIDE DEF with, without
  <2> QED BY <2>1, <2>2 DEF Answer, MerchantStates
<1> HIDE DEF True
<1>4. \A a \in FinalAnswers \cup ReportLostAnswers \cup MismatchAnswers : True(a)
  BY <1>1 DEF FinalAnswers, ReportLostAnswers, MismatchAnswers
<1>5. \A a \in CheckoutAnswers : True(a)
  BY <1>2, <1>3, <1>4 DEF CheckoutAnswers
<1> QED BY <1>5 DEF True

(* Where _persist_checkout_result takes the payment, replays included.      *)
LEMMA PersistMoves ==
  ASSUME TypeInv, LogInv, NEW t \in Slots, PersistApplies(t), NEW r, r = slot[t].result
  PROVE  /\ LogInv'
         /\ payment_status \in Final => payment_status' = payment_status
         /\ payment_status' # payment_status =>
              /\ payment_status \in {"CHECKOUT_PENDING", "UNCERTAIN", "MERCHANT_APPROVED",
                                     "REPORTING"}
              /\ r.outcome # "APPROVED" => payment_status \in UnsettledCheckout
              /\ r.outcome = "UNKNOWN" => payment_status' = "UNCERTAIN"
              /\ r.outcome = "DECLINED" => payment_status' = "DECLINED"
              /\ r.outcome = "APPROVED" =>
                   payment_status' \in {"MERCHANT_APPROVED",
                     IF r.reported THEN "PRAVA_COMPLETED" ELSE "REPORTING"}
              /\ payment_status' = "MERCHANT_APPROVED" => payment_status \in UnsettledCheckout
         /\ r.outcome = "DECLINED" => payment_status' = "DECLINED"
         /\ r.outcome = "APPROVED" /\ r.reported => payment_status' = "PRAVA_COMPLETED"
         /\ \A x \in transitions' : x.to = "VERIFIED" => x \in transitions
<1> DEFINE target == IF r.reported THEN "PRAVA_COMPLETED" ELSE "REPORTING"
<1>1. /\ UncertainRow(r).to = "UNCERTAIN" /\ DeclinedRow(r).to = "DECLINED"
      /\ ApprovedRow(r).to = "MERCHANT_APPROVED" /\ ReportRow(r).to = target
      /\ ApprovedRow(r).key = "merchant-approved"
      /\ ReportRow(r).key \in {"prava-report:prava_completed", "prava-report:reporting"}
      /\ ~PersistConflict(r) /\ payment_status' = PersistedState(r)
      /\ r.outcome \in {"UNKNOWN", "DECLINED", "APPROVED"} /\ r \in CheckoutResults
  BY PersistFacts
<1>2. transitions' = PersistedLog(r)
  BY DEF PersistApplies
<1>3. target \in {"PRAVA_COMPLETED", "REPORTING"} /\ (r.reported <=> target = "PRAVA_COMPLETED")
  BY <1>1 DEF CheckoutResults
<1> HIDE DEF target
<1>4. CASE r.outcome = "UNKNOWN"
  <2> DEFINE row == UncertainRow(r)
  <2>1. transitions' = transitions \cup {row} /\ row.to = "UNCERTAIN"
    BY <1>1, <1>2, <1>4 DEF PersistedLog, TransitionLog
  <2>2. \/ row \in transitions /\ payment_status' = payment_status
        \/ payment_status \in UnsettledCheckout /\ payment_status' = "UNCERTAIN"
    BY <1>1, <1>4 DEF PersistConflict, PersistedState, TransitionConflict, TransitionState
  <2> HIDE DEF row
  <2> QED BY <1>4, <2>1, <2>2 DEF LogInv, Final, UnsettledCheckout
<1>5. CASE r.outcome = "DECLINED"
  <2> DEFINE row == DeclinedRow(r)
  <2>1. transitions' = transitions \cup {row} /\ row.to = "DECLINED"
    BY <1>1, <1>2, <1>5 DEF PersistedLog, TransitionLog
  <2>2. \/ row \in transitions /\ payment_status' = payment_status
        \/ payment_status \in UnsettledCheckout /\ payment_status' = "DECLINED"
    BY <1>1, <1>5 DEF PersistConflict, PersistedState, TransitionConflict, TransitionState
  <2> HIDE DEF row
  <2> QED BY <1>5, <2>1, <2>2 DEF LogInv, Final, UnsettledCheckout
<1>6. CASE r.outcome = "APPROVED"
  <2> DEFINE first == ApprovedRow(r)
             second == ReportRow(r)
  <2>1. /\ first # second /\ first.to = "MERCHANT_APPROVED" /\ second.to = target
        /\ transitions' \subseteq transitions \cup {first, second}
    BY <1>1, <1>2, <1>6 DEF PersistedLog, ApprovedLog, TransitionLog
  <2>2. CASE payment_status \in UnsettledCheckout
    <3>1. /\ ApprovedLog(r) = transitions \cup {first}
          /\ \/ first \in transitions /\ ApprovedState(r) = payment_status
             \/ ApprovedState(r) = "MERCHANT_APPROVED"
      BY <1>1, <1>6, <2>2 DEF PersistConflict, ApprovedLog, ApprovedState, TransitionLog,
         TransitionConflict, TransitionState
    <3>2. \/ second \in ApprovedLog(r) /\ payment_status' = ApprovedState(r)
          \/ ApprovedState(r) \in {"MERCHANT_APPROVED", "REPORTING"} /\ payment_status' = target
      BY <1>1, <1>6 DEF PersistConflict, PersistedState, TransitionConflict, TransitionState
    <3> HIDE DEF first, second
    <3>3. second \in transitions \/ payment_status' = target
      BY <2>1, <3>1, <3>2
    <3>4. second.to \notin Final \/ second \notin transitions
      BY <2>2 DEF LogInv, Final, UnsettledCheckout
    <3>5. payment_status' \in {payment_status, "MERCHANT_APPROVED", target}
      BY <3>1, <3>2
    <3>6. target = "PRAVA_COMPLETED" => payment_status' = "PRAVA_COMPLETED"
      BY <2>1, <3>3, <3>4 DEF Final
    <3>7. \A x \in transitions' : x.to \notin Final \/ x = second
      BY <2>1, <2>2 DEF LogInv, Final, UnsettledCheckout
    <3>8. LogInv'
      BY <1>3, <2>1, <3>6, <3>7 DEF LogInv, Final
    <3>9. \A x \in transitions' : x.to = "VERIFIED" => x \in transitions
      BY <1>3, <2>1
    <3> QED BY <1>3, <1>6, <2>2, <3>5, <3>6, <3>8, <3>9 DEF Final, UnsettledCheckout, target
  <2>3. CASE payment_status \notin UnsettledCheckout
    <3>1. ApprovedLog(r) = transitions /\ ApprovedState(r) = payment_status
      BY <2>3 DEF ApprovedLog, ApprovedState
    <3>2. transitions' = transitions \cup {second}
      BY <1>2, <1>6, <3>1 DEF PersistedLog, TransitionLog
    <3>3. \/ second \in transitions /\ payment_status' = payment_status
          \/ payment_status \in {"MERCHANT_APPROVED", "REPORTING"} /\ payment_status' = target
      BY <1>1, <1>6, <3>1 DEF PersistConflict, PersistedState, TransitionConflict, TransitionState
    <3> HIDE DEF first, second
    <3>4. LogInv' /\ (target = "PRAVA_COMPLETED" => payment_status' = "PRAVA_COMPLETED")
      BY <1>3, <2>1, <3>2, <3>3 DEF LogInv, Final
    <3>5. \A x \in transitions' : x.to = "VERIFIED" => x \in transitions
      BY <1>3, <2>1, <3>2
    <3> QED BY <1>3, <1>6, <3>3, <3>4, <3>5 DEF Final, target
  <2> QED BY <2>2, <2>3
<1> QED BY <1>1, <1>4, <1>5, <1>6

(* Where recording an observation takes fulfillment and receipt.            *)
LEMMA VerifyMoves ==
  ASSUME TypeInv, BindingInv, FulfilledInv, NEW t \in Slots, SlotTrue(slot[t]), RecordVerify(t),
         NEW target, target = slot[t].target
  PROVE  /\ target \in {"VERIFIED", "PARTIAL", "FAILED_RETRYABLE", "FAILED_FINAL"}
         /\ payment_status = "PRAVA_COMPLETED" /\ order # "NONE"
         /\ \/ UNCHANGED <<fulfillment_status, receipt, transitions>>
            \/ /\ fulfillment_status \in VerifyOpen /\ fulfillment_status' = target
               /\ receipt' # 0 <=> target = "VERIFIED"
               /\ transitions' = transitions \cup {ResultRow(target)}
         /\ ResultRow(target).to = target
         /\ slot'[t].step = "FINISH" => fulfillment_status' = "VERIFIED"
<1> DEFINE row == ResultRow(target)
<1>0. /\ slot \in [Slots -> SlotType] /\ receipt \in Nat /\ session_count \in Nat
      /\ fulfillment_status \in FulfillmentStatus
  BY DEF TypeInv, TypeOK, StoreTypeOK, WorkerTypeOK, SlotType
<1>1. target \in {"VERIFIED", "PARTIAL", "FAILED_RETRYABLE", "FAILED_FINAL"}
  BY <1>0, ResultKeyType DEF SlotType
<1>2. slot[t].step = "RESULT" /\ payment_status = "PRAVA_COMPLETED" /\ order # "NONE"
  BY DEF RecordVerify, SlotTrue
<1>3. session_count > 0
  BY <1>2 DEF BindingInv
<1>4. row.to = target
  BY DEF ResultRow, Row
<1>5. VerifyOutcome[target] = "FINISH" => target = "VERIFIED"
  BY <1>1 DEF VerifyOutcome
<1>6. CASE ResultRefused(target)
  <2>1. UNCHANGED <<fulfillment_status, receipt, transitions>> /\ slot'[t].step = "RETRYABLE"
    BY <1>0, <1>6 DEF RecordVerify, To, SlotType
  <2> QED BY <1>1, <1>2, <1>4, <2>1
<1>7. CASE ~ResultRefused(target)
  <2>1. /\ fulfillment_status' = TransitionState(transitions, fulfillment_status, row)
        /\ transitions' = transitions \cup {row}
        /\ receipt' = (IF target = "VERIFIED" THEN IssuedReceipt ELSE receipt)
        /\ slot'[t].step = VerifyOutcome[target]
    BY <1>0, <1>7 DEF RecordVerify, To, TransitionLog, SlotType
  <2>2. ~TransitionConflict(transitions, fulfillment_status, VerifyOpen, row)
    BY <1>7 DEF ResultRefused
  <2> HIDE DEF row
  <2>3. CASE Replayed(transitions, row)
    <3>1. row \in transitions /\ fulfillment_status' = fulfillment_status
      BY <2>1, <2>2, <2>3 DEF TransitionConflict, TransitionState
    <3>2. target = "VERIFIED" => fulfillment_status = "VERIFIED" /\ receipt # 0
      BY <1>4, <3>1 DEF FulfilledInv
    <3>3. receipt' = receipt /\ transitions' = transitions
      BY <2>1, <3>1, <3>2 DEF IssuedReceipt
    <3> QED BY <1>1, <1>2, <1>4, <1>5, <2>1, <3>1, <3>2, <3>3 DEF row
  <2>4. CASE ~Replayed(transitions, row)
    <3>1. fulfillment_status \in VerifyOpen /\ fulfillment_status' = target
      BY <1>4, <2>1, <2>2, <2>4 DEF TransitionConflict, TransitionState
    <3>2. receipt = 0
      BY <1>0, <3>1 DEF FulfilledInv, VerifyOpen
    <3>3. receipt' # 0 <=> target = "VERIFIED"
      BY <1>3, <2>1, <3>2 DEF IssuedReceipt
    <3> QED BY <1>1, <1>2, <1>4, <1>5, <2>1, <3>1, <3>3 DEF row
  <2> QED BY <2>3, <2>4
<1> QED BY <1>6, <1>7

-----------------------------------------------------------------------------
(* What never goes back: the call, an outcome, what Prava was told, a final *)
(* payment, an order and a verified fulfillment.                            *)
Progress ==
  /\ merchant_calls > 0 => merchant_calls' > 0
  /\ merchant \in Known => merchant' = merchant
  /\ prava # "NONE" => prava' = prava
  /\ payment_status \in Final => payment_status' = payment_status
  /\ order # "NONE" => order' # "NONE"
  /\ fulfillment_status = "VERIFIED" => fulfillment_status' = "VERIFIED"

CheckoutInv == PurchaseInv /\ BindingInv /\ ReadInv /\ OutcomeInv

(* The steps that touch the charge, the ledger or fulfillment.              *)
LEMMA OutcomeMovers ==
  ASSUME [Next]_allVars
  PROVE  \/ UNCHANGED <<payment_status, attempt, order, transitions, receipt, fulfillment_status,
                        decision_current, merchant, merchant_calls, prava>>
         \/ decide_proposal /\ UNCHANGED worker_vars
         \/ \E s \in SessionIds : /\ accept_prava_browser_return(s) \/ RecordSession(s)
                                  /\ UNCHANGED worker_vars
         \/ MerchantSettles
         \/ \E t \in Slots : \/ PrepareExpired(t) \/ PrepareDispatch(t) \/ Dispatch(t) \/ Query(t)
                             \/ PersistApplies(t) \/ StartVerify(t) \/ RecordVerify(t)
<1> DEFINE Same == UNCHANGED <<payment_status, attempt, order, transitions, receipt,
                               fulfillment_status, decision_current, merchant, merchant_calls,
                               prava>>
<1>1. ASSUME People \/ ApiSteps \/ Time
      PROVE  \/ Same
             \/ decide_proposal /\ UNCHANGED worker_vars
             \/ \E s \in SessionIds : /\ accept_prava_browser_return(s) \/ RecordSession(s)
                                      /\ UNCHANGED worker_vars
  <2>1. UNCHANGED worker_vars
    BY <1>1 DEF People, ApiSteps, Time, time_only, api_only
  <2>2. \/ UNCHANGED <<payment_status, attempt, order, transitions, receipt, fulfillment_status,
                       decision_current>>
        \/ decide_proposal
        \/ \E s \in SessionIds : accept_prava_browser_return(s) \/ RecordSession(s)
    BY <1>1 DEF People, ApiSteps, Time, time_only, create_approval_request, approve,
       reject_approval, revoke_approval, ExpireOnUse, ApproveStage, RejectStage,
       approval_unchanged, expire_purchase_approval, create_prava_session, PravaAnswersCreate,
       session_unchanged, mark_session_create_failed, authority_vars, ledger_vars, store_vars
  <2>3. UNCHANGED <<merchant, merchant_calls, prava>>
    BY <2>1 DEF worker_vars
  <2> QED BY <2>1, <2>2, <2>3
<1>2. ASSUME NEW d \in Dispatchers, DispatcherStep(d) \/ DispatcherCrash(d) PROVE Same
  BY <1>2 DEF DispatcherStep, DispatchRead, DispatchStart, DispatchPublish, DispatcherCrash,
     authority_vars, ledger_vars, store_vars
<1>3. ASSUME NEW t \in Slots,
             \/ Schedule(t) \/ Complete(t) \/ ActivityTimeout(t) \/ WorkerCrash(t)
             \/ PrepareRefused(t) \/ PersistRefused(t) \/ ReceiptRefused(t) \/ Observe(t) \/ Finish(t)
      PROVE  Same
  BY <1>3 DEF Schedule, Complete, ActivityTimeout, WorkerCrash, PrepareRefused, PersistRefused, ReceiptRefused,
     Observe, Finish, authority_vars, ledger_vars, store_vars
<1>4. ASSUME \/ UNCHANGED allVars
             \/ \E s \in SessionIds : ApiCrash(s) /\ UNCHANGED worker_vars
      PROVE  Same
  BY <1>4 DEF ApiCrash, allVars, vars, store_vars, worker_vars
<1> HIDE DEF Same
<1>5. \/ Same
      \/ decide_proposal /\ UNCHANGED worker_vars
      \/ \E s \in SessionIds : /\ accept_prava_browser_return(s) \/ RecordSession(s)
                               /\ UNCHANGED worker_vars
      \/ MerchantSettles
      \/ \E t \in Slots : \/ PrepareExpired(t) \/ PrepareDispatch(t) \/ Dispatch(t) \/ Query(t)
                          \/ PersistApplies(t) \/ StartVerify(t) \/ RecordVerify(t)
  BY <1>1, <1>2, <1>3, <1>4 DEF Next, WorkflowStep, ActivityStep, TimeoutOfDead, Faults
<1> QED BY <1>5 DEF Same

(* Before the attempt at DISPATCH calls, nothing is known of a charge.      *)
LEMMA DispatchFacts ==
  ASSUME CheckoutInv, NEW t \in Slots, Dispatch(t)
  PROVE  /\ attempt.n = 1 /\ merchant_calls = 0 /\ merchant_calls' = 1
         /\ merchant = "NONE" /\ prava = "NONE" /\ payment_status = "CHECKOUT_PENDING"
         /\ prava' # "NONE" => prava' = merchant'
<1>1. attempt.n = 1 /\ merchant_calls = 0
  BY DEF Dispatch, CheckoutInv, PurchaseInv, ChargeInv
<1>2. merchant = "NONE" /\ payment_status = "CHECKOUT_PENDING"
  BY <1>1 DEF CheckoutInv, PurchaseInv, ChargeInv, OutcomeInv, LedgerInv
<1>3. prava = "NONE"
  BY <1>2 DEF CheckoutInv, OutcomeInv, LedgerInv
<1>4. PICK a \in CheckoutAnswers : merchant' = a.merchant /\ prava' = a.prava
  BY DEF Dispatch
<1> QED BY <1>1, <1>2, <1>3, <1>4, AnswersTrue DEF Dispatch

LEMMA QueryFacts ==
  ASSUME NEW t \in Slots, Query(t)
  PROVE  prava' = prava \/ (merchant \in Known /\ prava' = merchant)
BY DEF Query, QueryFails, QueryRefused, QueryUnknown, QueryKnown

LEMMA NextProgress == ASSUME CheckoutInv, [Next]_allVars PROVE Progress
<1>0. /\ merchant_calls \in Nat /\ merchant \in MerchantStates
      /\ prava # "NONE" => prava = merchant
  BY DEF CheckoutInv, PurchaseInv, TypeInv, TypeOK, WorkerTypeOK, OutcomeInv, LedgerInv,
     MerchantStates
<1>1. CASE UNCHANGED <<payment_status, attempt, order, transitions, receipt, fulfillment_status,
                       decision_current, merchant, merchant_calls, prava>>
  BY <1>1 DEF Progress
<1>2. CASE decide_proposal /\ UNCHANGED worker_vars
  BY <1>2 DEF decide_proposal, worker_vars, ledger_vars, Progress, Final
<1>3. ASSUME NEW s \in SessionIds, accept_prava_browser_return(s), UNCHANGED worker_vars
      PROVE  Progress
  BY <1>3 DEF accept_prava_browser_return, ReturnAuthority, worker_vars, Progress, Final
<1>4. ASSUME NEW s \in SessionIds, RecordSession(s), UNCHANGED worker_vars PROVE Progress
  <2>1. payment_status' = payment_status \/ payment_status = "NOT_STARTED"
    BY <1>4, RecordKeepsBinding DEF CheckoutInv, PurchaseInv
  <2> QED BY <1>4, <2>1 DEF RecordSession, RecordSessionFrom, worker_vars, Progress, Final
<1>5. CASE MerchantSettles
  BY <1>5 DEF MerchantSettles, store_vars, Progress, Known
<1>6. ASSUME NEW t \in Slots, PrepareExpired(t) \/ PrepareDispatch(t) PROVE Progress
  BY <1>6 DEF PrepareExpired, PrepareDispatch, DispatchAuthority, prepare_unchanged, Progress,
     Final
<1>7. ASSUME NEW t \in Slots, Dispatch(t) PROVE Progress
  <2>1. /\ merchant_calls' = 1 /\ merchant = "NONE" /\ prava = "NONE"
        /\ UNCHANGED <<payment_status, order, fulfillment_status>>
    BY <1>7, DispatchFacts DEF Dispatch, store_vars
  <2> QED BY <2>1 DEF Progress, Known
<1>8. ASSUME NEW t \in Slots, Query(t) PROVE Progress
  BY <1>0, <1>8, QueryFacts DEF Query, store_vars, Progress
<1>9. ASSUME NEW t \in Slots, PersistApplies(t) PROVE Progress
  <2>1. payment_status \in Final => payment_status' = payment_status
    BY <1>9, PersistMoves DEF CheckoutInv, PurchaseInv, OutcomeInv, LedgerInv
  <2>2. order # "NONE" => order' # "NONE"
    BY <1>9 DEF PersistApplies
  <2> QED BY <1>9, <2>1, <2>2 DEF PersistApplies, Progress
<1>10. ASSUME NEW t \in Slots, StartVerify(t) PROVE Progress
  BY <1>10 DEF StartVerify, verify_unchanged, Progress
<1>11. ASSUME NEW t \in Slots, RecordVerify(t) PROVE Progress
  <2>1. fulfillment_status = "VERIFIED" => fulfillment_status' = "VERIFIED"
    BY <1>11, VerifyMoves DEF CheckoutInv, PurchaseInv, OutcomeInv, SlotsInv, VerifyOpen
  <2> QED BY <1>11, <2>1 DEF RecordVerify, verify_unchanged, Progress
<1> QED BY <1>1, <1>2, <1>3, <1>4, <1>5, <1>6, <1>7, <1>8, <1>9, <1>10, <1>11, OutcomeMovers

(* The payment states that need nothing of the providers.                   *)
LEMMA OpenLedger ==
  ASSUME LogInv', prava' # "NONE" => prava' = merchant',
         payment_status' \in {"SESSION_CREATED", "CARDHOLDER_PENDING", "EXPIRED",
                              "CHECKOUT_PENDING"},
         attempt'.n = 0 \/ (attempt'.open /\ decision_current' /\
                             payment_status' = "CHECKOUT_PENDING")
  PROVE  LedgerInv'
BY DEF LedgerInv, LedgerMatchesProviders, ClosedAttemptIsSettled, Final

(* Every step keeps the ledger true to the providers.                       *)
LEMMA NextLedger == ASSUME CheckoutInv, [Next]_allVars PROVE LedgerInv'
<1>0. /\ TypeInv /\ ChargeInv /\ LedgerInv /\ SlotsInv /\ LogInv
      /\ attempt.n \in Nat /\ merchant_calls \in Nat /\ Progress
      /\ prava # "NONE" => prava = merchant
  BY NextProgress DEF CheckoutInv, PurchaseInv, OutcomeInv, LedgerInv, TypeInv, TypeOK, StoreTypeOK,
     WorkerTypeOK
<1>1. CASE UNCHANGED <<payment_status, attempt, order, transitions, receipt, fulfillment_status,
                       decision_current, merchant, merchant_calls, prava>>
  BY <1>0, <1>1 DEF LedgerInv, LedgerMatchesProviders, ClosedAttemptIsSettled, LogInv
<1>2. CASE decide_proposal /\ UNCHANGED worker_vars
  <2>1. /\ payment_status \in SafePreCheckout
        /\ UNCHANGED <<attempt, transitions, merchant, merchant_calls, prava>>
        /\ \/ payment_status' = payment_status
           \/ /\ payment_status \in {"SESSION_CREATED", "CARDHOLDER_PENDING"}
              /\ payment_status' = "EXPIRED"
    BY <1>2 DEF decide_proposal, ledger_vars, worker_vars
  <2>2. CASE payment_status' # payment_status
    <3>1. attempt.n = 0
      BY <1>0, <2>1, <2>2 DEF ChargeInv, Undispatched
    <3>2. LogInv'
      BY <1>0, <2>1, <2>2 DEF LogInv, Final
    <3> QED BY <1>0, <2>1, <2>2, <3>1, <3>2, OpenLedger
  <2>3. CASE payment_status' = payment_status
    <3>1. attempt.n > 0 => payment_status = "DECLINED"
      BY <1>0, <2>1 DEF ChargeInv, LedgerInv, Undispatched, SafePreCheckout
    <3> QED BY <1>0, <2>1, <2>3, <3>1 DEF LedgerInv, LedgerMatchesProviders,
            ClosedAttemptIsSettled, LogInv
  <2> QED BY <2>2, <2>3
<1>3. ASSUME NEW s \in SessionIds, accept_prava_browser_return(s), UNCHANGED worker_vars
      PROVE  LedgerInv'
  <2> DEFINE row == Row("browser-return", s, "CARDHOLDER_PENDING", NoResult)
  <2>1. /\ payment_status = "SESSION_CREATED" /\ payment_status' = "CARDHOLDER_PENDING"
        /\ UNCHANGED <<attempt, merchant, prava>> /\ transitions' = transitions \cup {row}
    BY <1>3 DEF accept_prava_browser_return, ReturnAuthority, worker_vars, TransitionLog
  <2>2. row.to = "CARDHOLDER_PENDING"
    BY DEF Row
  <2> HIDE DEF row
  <2>3. LogInv' /\ attempt.n = 0
    BY <1>0, <2>1, <2>2 DEF LogInv, Final, ChargeInv, Undispatched
  <2> QED BY <1>0, <2>1, <2>3, OpenLedger
<1>4. ASSUME NEW s \in SessionIds, RecordSession(s), UNCHANGED worker_vars PROVE LedgerInv'
  <2>0. UNCHANGED <<attempt, merchant, merchant_calls, prava, decision_current>>
    BY <1>4 DEF RecordSession, RecordSessionFrom, worker_vars
  <2>1. \/ UNCHANGED <<payment_status, transitions>>
        \/ /\ payment_status = "NOT_STARTED" /\ payment_status' = "SESSION_CREATED"
           /\ transitions' = transitions \cup {SessionCreatedRow(s)}
    BY <1>4, RecordKeepsBinding DEF CheckoutInv, PurchaseInv
  <2>2. CASE UNCHANGED <<payment_status, transitions>>
    BY <1>0, <2>0, <2>2 DEF LedgerInv, LedgerMatchesProviders, ClosedAttemptIsSettled, LogInv
  <2>3. CASE payment_status = "NOT_STARTED" /\ payment_status' = "SESSION_CREATED"
    <3>1. SessionCreatedRow(s).to = "SESSION_CREATED"
      BY DEF SessionCreatedRow, Row
    <3>2. LogInv' /\ attempt.n = 0
      BY <1>0, <2>1, <2>3, <3>1 DEF LogInv, Final, ChargeInv, Undispatched
    <3> QED BY <1>0, <2>0, <2>3, <3>2, OpenLedger
  <2> QED BY <2>1, <2>2, <2>3
<1>5. CASE MerchantSettles
  <2>1. /\ UNCHANGED <<payment_status, attempt, transitions, decision_current, merchant_calls, prava>>
        /\ merchant \in {"IN_FLIGHT", "PENDING"}
    BY <1>5 DEF MerchantSettles, store_vars
  <2>2. prava \notin Known
    BY <1>0, <2>1 DEF LedgerInv, Known
  <2> QED BY <1>0, <2>1, <2>2 DEF LedgerInv, LedgerMatchesProviders, ClosedAttemptIsSettled,
          LogInv, Known, TypeInv, TypeOK, WorkerTypeOK
<1>6. ASSUME NEW t \in Slots, PrepareExpired(t) PROVE LedgerInv'
  <2> DEFINE row == Row("checkout-expired", workflow.session, "EXPIRED", NoResult)
  <2>1. /\ payment_status = "CARDHOLDER_PENDING" /\ payment_status' = "EXPIRED"
        /\ UNCHANGED <<attempt, merchant, prava>> /\ transitions' = transitions \cup {row}
    BY <1>6 DEF PrepareExpired, DispatchAuthority, prepare_unchanged, TransitionLog
  <2>2. row.to = "EXPIRED"
    BY DEF Row
  <2> HIDE DEF row
  <2>3. LogInv' /\ attempt.n = 0
    BY <1>0, <2>1, <2>2 DEF LogInv, Final, ChargeInv, Undispatched
  <2> QED BY <1>0, <2>1, <2>3, OpenLedger
<1>7. ASSUME NEW t \in Slots, PrepareDispatch(t) PROVE LedgerInv'
  <2> DEFINE row == Row("checkout-dispatched", workflow.session, "CHECKOUT_PENDING", NoResult)
  <2>1. /\ payment_status = "CARDHOLDER_PENDING" /\ payment_status' = "CHECKOUT_PENDING"
        /\ UNCHANGED <<merchant, prava, decision_current>> /\ transitions' = transitions \cup {row}
        /\ attempt'.open
    BY <1>7 DEF PrepareDispatch, DispatchAuthority, prepare_unchanged, TransitionLog
  <2>2. row.to = "CHECKOUT_PENDING"
    BY DEF Row
  <2> HIDE DEF row
  <2>3. LogInv'
    BY <1>0, <2>1, <2>2 DEF LogInv, Final
  <2>4. decision_current
    BY <1>7, DispatchAuthorised DEF CheckoutInv, PurchaseInv
  <2> QED BY <1>0, <2>1, <2>3, <2>4, OpenLedger
<1>8. ASSUME NEW t \in Slots, Dispatch(t) PROVE LedgerInv'
  <2>1. /\ payment_status = "CHECKOUT_PENDING" /\ merchant_calls' = 1
        /\ prava' # "NONE" => prava' = merchant'
        /\ UNCHANGED <<payment_status, attempt, transitions, decision_current>>
    BY <1>8, DispatchFacts DEF Dispatch, store_vars
  <2> QED BY <1>0, <2>1 DEF LedgerInv, LedgerMatchesProviders, ClosedAttemptIsSettled, LogInv
<1>9. ASSUME NEW t \in Slots, Query(t) PROVE LedgerInv'
  <2>1. /\ UNCHANGED <<payment_status, attempt, transitions, decision_current, merchant,
                       merchant_calls>>
        /\ prava' = prava \/ prava' = merchant
    BY <1>9, QueryFacts DEF Query, store_vars
  <2> QED BY <1>0, <2>1 DEF LedgerInv, LedgerMatchesProviders, ClosedAttemptIsSettled, LogInv
<1>10. ASSUME NEW t \in Slots, PersistApplies(t) PROVE LedgerInv'
  <2> DEFINE r == slot[t].result
  <2>1. /\ LogInv'
        /\ payment_status \in Final => payment_status' = payment_status
        /\ payment_status' # payment_status =>
              /\ r.outcome = "UNKNOWN" => payment_status' = "UNCERTAIN"
              /\ r.outcome = "DECLINED" => payment_status' = "DECLINED"
              /\ r.outcome = "APPROVED" =>
                   payment_status' \in {"MERCHANT_APPROVED",
                     IF r.reported THEN "PRAVA_COMPLETED" ELSE "REPORTING"}
        /\ r.outcome = "DECLINED" => payment_status' = "DECLINED"
        /\ r.outcome = "APPROVED" /\ r.reported => payment_status' = "PRAVA_COMPLETED"
    BY <1>0, <1>10, PersistMoves
  <2>2. r.outcome \in {"UNKNOWN", "DECLINED", "APPROVED"} /\ r \in CheckoutResults
    BY <1>0, <1>10, PersistFacts
  <2>3. ResultTrue(r)
    BY <1>0, <1>10 DEF PersistApplies, SlotsInv, SlotTrue
  <2>4. /\ UNCHANGED <<decision_current, merchant, merchant_calls, prava>>
        /\ attempt'.n = attempt.n
        /\ ~attempt'.open => ~attempt.open \/ (r.outcome # "UNKNOWN" /\ ~r.required)
    BY <1>10 DEF PersistApplies, authority_vars, TypeInv, TypeOK, StoreTypeOK, CheckoutInv,
       PurchaseInv
  <2> HIDE DEF r
  <2>5. payment_status' # "FAILED"
    BY <1>0, <2>1, <2>2 DEF LedgerInv
  <2>6. LedgerMatchesProviders'
    <3>1. CASE payment_status' = payment_status
      BY <1>0, <2>4, <3>1 DEF LedgerInv, LedgerMatchesProviders
    <3>2. CASE payment_status' # payment_status
      <4>1. CASE r.outcome = "UNKNOWN"
        BY <2>1, <3>2, <4>1 DEF LedgerMatchesProviders
      <4>2. CASE r.outcome = "DECLINED"
        <5>1. merchant = "DECLINED" /\ prava # "APPROVED"
          BY <1>0, <2>3, <4>2 DEF ResultTrue
        <5> QED BY <2>1, <2>4, <4>2, <5>1 DEF LedgerMatchesProviders
      <4>3. CASE r.outcome = "APPROVED"
        <5>1. merchant = "APPROVED" /\ (r.reported => prava = "APPROVED")
          BY <2>3, <4>3 DEF ResultTrue
        <5> QED BY <2>1, <2>4, <3>2, <4>3, <5>1 DEF LedgerMatchesProviders
      <4> QED BY <2>2, <4>1, <4>2, <4>3
    <3> QED BY <3>1, <3>2
  <2>7. ClosedAttemptIsSettled'
    <3>1. CASE ~attempt.open
      BY <1>0, <2>1, <2>4, <3>1 DEF LedgerInv, ClosedAttemptIsSettled, Final
    <3>2. CASE r.outcome # "UNKNOWN" /\ ~r.required
      BY <2>1, <2>2, <2>3, <3>2 DEF ResultTrue, ClosedAttemptIsSettled
    <3> QED BY <2>4, <3>1, <3>2 DEF ClosedAttemptIsSettled
  <2>8. attempt.n > 0 => decision_current \/ payment_status' = "DECLINED"
    BY <1>0, <2>1 DEF LedgerInv, Final
  <2>9. merchant_calls > 0
    BY <2>3 DEF ResultTrue
  <2> QED BY <1>0, <2>1, <2>4, <2>5, <2>6, <2>7, <2>8, <2>9 DEF LedgerInv
<1>11. ASSUME NEW t \in Slots, StartVerify(t) \/ RecordVerify(t) PROVE LedgerInv'
  <2>1. /\ UNCHANGED <<payment_status, attempt, decision_current, merchant, merchant_calls, prava>>
        /\ transitions' \subseteq transitions \cup {StartedRow, ResultRow(slot[t].target)}
    BY <1>11 DEF StartVerify, RecordVerify, verify_unchanged, authority_vars, TransitionLog
  <2>2. StartedRow.to \notin Final /\ ResultRow(slot[t].target).to \notin Final
    BY <1>0, ResultKeyType DEF StartedRow, ResultRow, Row, Final, TypeInv, TypeOK, WorkerTypeOK
  <2>3. LogInv'
    BY <1>0, <2>1, <2>2 DEF LogInv
  <2> QED BY <1>0, <2>1, <2>3 DEF LedgerInv, LedgerMatchesProviders, ClosedAttemptIsSettled
<1> QED BY <1>1, <1>2, <1>3, <1>4, <1>5, <1>6, <1>7, <1>8, <1>9, <1>10, <1>11, OutcomeMovers

-----------------------------------------------------------------------------
(* Every step: a terminal run stays, and a run is completed only by an      *)
(* attempt at FINISH.                                                       *)
LEMMA RunMoves ==
  ASSUME TypeInv, [Next]_allVars
  PROVE  /\ run \in RunTerminal => run' = run
         /\ run' = "COMPLETED" => run = "COMPLETED" \/ \E t \in Slots : slot[t].step = "FINISH"
<1>1. \/ run' = run
      \/ \E a \in Actors, r \in Roles : revoke_approval(a, r)
      \/ \E s \in SessionIds : accept_prava_browser_return(s)
      \/ \E d \in Dispatchers : DispatchPublish(d)
      \/ \E t \in Slots : Finish(t)
  BY DEF Next, People, ApiSteps, Time, time_only, DispatcherStep, WorkflowStep, ActivityStep,
     TimeoutOfDead, Faults, create_approval_request, approve, reject_approval, ExpireOnUse,
     ApproveStage, RejectStage, approval_unchanged, decide_proposal, expire_purchase_approval,
     create_prava_session, session_unchanged, PravaAnswersCreate, RecordSession,
     RecordSessionFrom, mark_session_create_failed, ApiCrash, DispatchRead, DispatchStart,
     DispatcherCrash, Schedule, Complete, ActivityTimeout, WorkerCrash, PrepareRefused,
     PrepareExpired, PrepareDispatch, prepare_unchanged, Dispatch, Query, PersistApplies,
     PersistRefused, ReceiptRefused, StartVerify, Observe, RecordVerify, verify_unchanged, MerchantSettles,
     store_vars, vars, allVars
<1>2. ASSUME \/ \E a \in Actors, r \in Roles : revoke_approval(a, r)
             \/ \E s \in SessionIds : accept_prava_browser_return(s)
             \/ \E d \in Dispatchers : DispatchPublish(d)
      PROVE  run' = run \/ (run \in {"NONE", "PENDING"} /\ run' # "COMPLETED")
  BY <1>2 DEF revoke_approval, accept_prava_browser_return, DispatchPublish
<1>3. ASSUME NEW t \in Slots, Finish(t)
      PROVE  /\ run \in RunTerminal => run' = run
             /\ run' = "COMPLETED" => run = "COMPLETED" \/ slot[t].step = "FINISH"
  BY <1>3 DEF Finish, FinishedRun, FinishStatus
<1> QED BY <1>1, <1>2, <1>3 DEF RunTerminal

(* A terminal WorkflowRun is never reopened or relabelled by a dispatcher's *)
(* late publish, a revocation or a late attempt.                            *)
THEOREM RunsStayOver == Spec => TerminalRunStays
<1>1. TypeInv /\ [Next]_allVars => [(run \in RunTerminal) => run' = run]_allVars
  BY RunMoves
<1>2. Init => TypeInv
  BY InitTypes
<1>3. TypeInv /\ [Next]_allVars => TypeInv'
  BY NextTypes
<1> QED BY <1>1, <1>2, <1>3, PTL DEF Spec, TerminalRunStays

(* Every step keeps what fulfillment, receipt, run and workflow say so.     *)
LEMMA NextFulfilled == ASSUME CheckoutInv, [Next]_allVars PROVE FulfilledInv'
<1>0. TypeInv /\ BindingInv /\ FulfilledInv /\ SlotsInv /\ Progress /\ receipt \in Nat
  BY NextProgress DEF CheckoutInv, PurchaseInv, OutcomeInv, TypeInv, TypeOK, StoreTypeOK
<1>1. workflow'.step \in {"VERIFY", "FAIL_FULFILL"} =>
        payment_status' = "PRAVA_COMPLETED" /\ order' # "NONE"
  <2>1. workflow'.step \in {"VERIFY", "FAIL_FULFILL"} =>
          payment_status = "PRAVA_COMPLETED" /\ order # "NONE"
    BY <1>0, WorkflowStays DEF FulfilledInv, SlotsInv, SlotTrue, Lost
  <2> QED BY <1>0, <2>1 DEF Progress, Final
<1>2. RunCompletedIsTrue'
  <2>1. run' = "COMPLETED" => payment_status = "DECLINED" \/ fulfillment_status = "VERIFIED"
    BY <1>0, RunMoves DEF FulfilledInv, RunCompletedIsTrue, SlotsInv, SlotTrue
  <2> QED BY <1>0, <2>1 DEF Progress, Final, RunCompletedIsTrue
<1> DEFINE Kept == /\ FulfillmentOnlyAfterPayment'
                   /\ receipt' # 0 <=> fulfillment_status' = "VERIFIED"
                   /\ receipt' # 0 => order' # "NONE"
                   /\ \A r \in transitions' : r.to = "VERIFIED" => fulfillment_status' = "VERIFIED"
<1>3. ASSUME UNCHANGED <<fulfillment_status, receipt>>,
             \A r \in transitions' : r.to = "VERIFIED" => r \in transitions
      PROVE  Kept
  BY <1>0, <1>3 DEF FulfilledInv, FulfillmentOnlyAfterPayment, Progress, Final
<1>4. ASSUME NEW t \in Slots, StartVerify(t) PROVE Kept
  <2>1. StartedRow.to = "PENDING" /\ transitions' \subseteq transitions \cup {StartedRow}
    BY <1>4 DEF StartVerify, StartedRow, Row, TransitionLog
  <2>2. \A r \in transitions' : r.to = "VERIFIED" => r \in transitions
    BY <2>1
  <2>3. payment_status = "PRAVA_COMPLETED" /\ UNCHANGED <<payment_status, order, receipt>>
    BY <1>0, <1>4 DEF StartVerify, verify_unchanged, SlotsInv, SlotTrue
  <2>4. \/ fulfillment_status' = fulfillment_status
        \/ fulfillment_status = "NOT_STARTED" /\ fulfillment_status' = "PENDING"
    BY <1>4 DEF StartVerify
  <2> QED BY <1>0, <2>2, <2>3, <2>4 DEF FulfilledInv, FulfillmentOnlyAfterPayment
<1>5. ASSUME NEW t \in Slots, RecordVerify(t) PROVE Kept
  <2> DEFINE target == slot[t].target
             row == ResultRow(target)
  <2>1. /\ payment_status = "PRAVA_COMPLETED" /\ order # "NONE"
        /\ \/ UNCHANGED <<fulfillment_status, receipt, transitions>>
           \/ /\ fulfillment_status \in VerifyOpen /\ fulfillment_status' = target
              /\ receipt' # 0 <=> target = "VERIFIED"
              /\ transitions' = transitions \cup {row}
        /\ row.to = target
    BY <1>0, <1>5, VerifyMoves DEF SlotsInv
  <2>2. UNCHANGED <<payment_status, order>>
    BY <1>5 DEF RecordVerify, verify_unchanged
  <2> HIDE DEF target, row
  <2>3. CASE UNCHANGED <<fulfillment_status, receipt, transitions>>
    BY <1>3, <2>3
  <2>4. CASE /\ fulfillment_status \in VerifyOpen /\ fulfillment_status' = target
             /\ receipt' # 0 <=> target = "VERIFIED"
             /\ transitions' = transitions \cup {row}
    <3>1. \A r \in transitions' : r.to = "VERIFIED" => fulfillment_status' = "VERIFIED"
      BY <1>0, <2>1, <2>4 DEF FulfilledInv, VerifyOpen
    <3> QED BY <2>1, <2>2, <2>4, <3>1 DEF FulfillmentOnlyAfterPayment
  <2> QED BY <2>1, <2>3, <2>4
<1>6. ASSUME NEW t \in Slots, PersistApplies(t) PROVE Kept
  <2>1. \A x \in transitions' : x.to = "VERIFIED" => x \in transitions
    BY <1>0, <1>6, PersistMoves DEF CheckoutInv, OutcomeInv, LedgerInv
  <2> QED BY <1>3, <1>6, <2>1 DEF PersistApplies
<1>7. ASSUME NEW t \in Slots, PrepareExpired(t) \/ PrepareDispatch(t) PROVE Kept
  <2>1. \A x \in transitions' : x.to = "VERIFIED" => x \in transitions
    BY <1>7 DEF PrepareExpired, PrepareDispatch, TransitionLog, Row
  <2> QED BY <1>3, <1>7, <2>1 DEF PrepareExpired, PrepareDispatch, prepare_unchanged
<1>8. ASSUME NEW s \in SessionIds, accept_prava_browser_return(s) PROVE Kept
  <2>1. \A x \in transitions' : x.to = "VERIFIED" => x \in transitions
    BY <1>8 DEF accept_prava_browser_return, TransitionLog, Row
  <2> QED BY <1>3, <1>8, <2>1 DEF accept_prava_browser_return
<1>9. ASSUME NEW s \in SessionIds, RecordSession(s) PROVE Kept
  <2>1. SessionCreatedRow(s).to = "SESSION_CREATED"
    BY DEF SessionCreatedRow, Row
  <2>2. transitions' \subseteq transitions \cup {SessionCreatedRow(s)}
    BY <1>0, <1>9, RecordKeepsBinding
  <2>3. \A x \in transitions' : x.to = "VERIFIED" => x \in transitions
    BY <2>1, <2>2
  <2> QED BY <1>3, <1>9, <2>3 DEF RecordSession, RecordSessionFrom
<1>10. ASSUME \/ UNCHANGED <<fulfillment_status, receipt, transitions>>
              \/ decide_proposal \/ MerchantSettles
              \/ \E t \in Slots : Dispatch(t) \/ Query(t)
       PROVE  Kept
  <2>1. UNCHANGED <<fulfillment_status, receipt, transitions>>
    BY <1>10 DEF decide_proposal, MerchantSettles, Dispatch, Query, store_vars, ledger_vars
  <2> QED BY <1>3, <2>1
<1> HIDE DEF Kept
<1>11. Kept
  BY <1>4, <1>5, <1>6, <1>7, <1>8, <1>9, <1>10, OutcomeMovers
<1> QED BY <1>1, <1>2, <1>11 DEF FulfilledInv, Kept

-----------------------------------------------------------------------------
(* What held of an attempt that does not move still holds: its rows only    *)
(* progress.                                                                *)
LEMMA SlotStays ==
  ASSUME Progress, merchant_calls \in Nat, NEW t \in Slots, slot[t] \in SlotType,
         SlotTrue(slot[t]), slot'[t] = slot[t]
  PROVE  SlotTrue(slot[t])'
<1> DEFINE r == slot[t].result
<1>1. r.outcome \in {"UNKNOWN", "DECLINED", "APPROVED"}
  BY DEF SlotType, CheckoutResults, Outcomes
<1>2. ResultTrue(r) => ResultTrue(r)'
  BY <1>1 DEF ResultTrue, Progress, Known
<1> QED BY <1>2 DEF SlotTrue, Progress, Final

(* An attempt that keeps its result and moves on, to a step that asks       *)
(* nothing more of the rows.                                                *)
LEMMA SlotMovesOn ==
  ASSUME TypeInv, Progress, NEW t \in Slots, SlotTrue(slot[t]), NEW step \in Steps, To(t, step),
         slot[t].step \notin Lost \/ step \in {"RETRYABLE", "NON_RETRYABLE"},
         step \notin {"PERSIST", "QUERY"},
         step \in {"START", "OBSERVE", "RESULT"} =>
           payment_status' = "PRAVA_COMPLETED" /\ order' # "NONE",
         step = "FINISH" => payment_status' = "DECLINED" \/ fulfillment_status' = "VERIFIED"
  PROVE  SlotTrue(slot[t])'
<1>1. slot'[t].step = step /\ slot'[t].result = slot[t].result
  BY DEF To, TypeInv, TypeOK, WorkerTypeOK
<1>2. step \notin Lost /\ ~slot[t].result.required /\ slot[t].result.outcome = "APPROVED" =>
        payment_status' = "PRAVA_COMPLETED" /\ (slot[t].result.order_id => order' # "NONE")
  BY DEF SlotTrue, Progress, Final, Lost
<1> QED BY <1>1, <1>2 DEF SlotTrue

(* Each step moves at most the one attempt it runs.                         *)
LEMMA SlotMovers ==
  ASSUME TypeInv, [Next]_allVars, NEW t \in Slots
  PROVE  \/ slot'[t] = slot[t]
         \/ Schedule(t) \/ Complete(t) \/ ActivityTimeout(t) \/ WorkerCrash(t)
         \/ PrepareRefused(t) \/ PrepareExpired(t) \/ PrepareDispatch(t) \/ Dispatch(t)
         \/ Query(t) \/ PersistApplies(t) \/ PersistRefused(t) \/ ReceiptRefused(t) \/ StartVerify(t)
         \/ Observe(t) \/ RecordVerify(t) \/ Finish(t)
<1>0. slot \in [Slots -> SlotType]
  BY DEF TypeInv, TypeOK, WorkerTypeOK, SlotType
<1>1. ASSUME NEW u \in Slots, u # t,
             \/ Schedule(u) \/ Complete(u) \/ ActivityTimeout(u) \/ WorkerCrash(u)
             \/ PrepareRefused(u) \/ PrepareExpired(u) \/ PrepareDispatch(u) \/ Dispatch(u)
             \/ PersistApplies(u) \/ PersistRefused(u) \/ ReceiptRefused(u) \/ StartVerify(u)
             \/ RecordVerify(u) \/ Finish(u)
      PROVE  slot'[t] = slot[t]
  BY <1>0, <1>1 DEF Schedule, Complete, ActivityTimeout, WorkerCrash, PrepareRefused,
     PrepareExpired, PrepareDispatch, Dispatch, PersistApplies, PersistRefused, ReceiptRefused, StartVerify,
     RecordVerify, Finish, To
<1>2. ASSUME NEW u \in Slots, u # t, Query(u) \/ Observe(u) PROVE slot'[t] = slot[t]
  BY <1>0, <1>2 DEF Query, QueryFails, QueryRefused, QueryUnknown, QueryKnown, Observe, To
<1>3. ASSUME \/ People \/ ApiSteps \/ Time \/ MerchantSettles \/ UNCHANGED allVars
             \/ \E d \in Dispatchers : DispatcherStep(d) \/ DispatcherCrash(d)
             \/ \E s \in SessionIds : ApiCrash(s) /\ UNCHANGED worker_vars
      PROVE  slot'[t] = slot[t]
  BY <1>3 DEF People, ApiSteps, Time, time_only, api_only, MerchantSettles, DispatcherStep,
     DispatchRead, DispatchStart, DispatchPublish, DispatcherCrash, worker_vars, vars, allVars
<1> QED BY <1>1, <1>2, <1>3 DEF Next, WorkflowStep, ActivityStep, TimeoutOfDead, Faults

(* Every step leaves every attempt with what it relies on.                  *)
LEMMA NextSlots == ASSUME CheckoutInv, [Next]_allVars PROVE SlotsInv'
<1> SUFFICES ASSUME NEW t \in Slots PROVE SlotTrue(slot[t])'
  BY DEF SlotsInv
<1>0. /\ TypeInv /\ ChargeInv /\ LedgerInv /\ FulfilledInv /\ SlotTrue(slot[t]) /\ Progress
      /\ merchant_calls \in Nat /\ slot \in [Slots -> SlotType] /\ slot[t] \in SlotType
  BY NextProgress DEF CheckoutInv, PurchaseInv, OutcomeInv, SlotsInv, TypeInv, TypeOK, WorkerTypeOK,
     SlotType
<1>1. {"DISPATCH", "OBSERVE", "RESULT", "FINISH", "FINISH_FAILED", "OK", "RETRYABLE",
       "NON_RETRYABLE", "ABORT"} \subseteq Steps \ {"PERSIST", "QUERY"}
  BY DEF Steps
<1>2. CASE Schedule(t)
  <2> DEFINE r == [NoResult EXCEPT !.reference = workflow.reference]
  <2>1. slot'[t].step = FirstStep[workflow.step] /\ slot'[t].result = r
    BY <1>0, <1>2 DEF Schedule
  <2>2. r.outcome = "UNKNOWN" /\ r.required /\ ~r.reported
    BY DEF NoResult
  <2> HIDE DEF r
  <2>3. /\ FirstStep[workflow.step] \in {"PREPARE", "QUERY", "START", "FINISH_FAILED"}
        /\ FirstStep[workflow.step] = "START" => workflow.step = "VERIFY"
    BY <1>2 DEF Schedule, FirstStep, Activities
  <2>4. FirstStep[workflow.step] = "START" => payment_status' = "PRAVA_COMPLETED" /\ order' # "NONE"
    BY <1>0, <2>3 DEF FulfilledInv, Progress, Final
  <2> QED BY <2>1, <2>2, <2>3, <2>4 DEF SlotTrue
<1>3. CASE Complete(t)
  <2>1. slot'[t] = Idle
    BY <1>0, <1>3 DEF Complete
  <2>2. Idle.step = "IDLE" /\ Idle.result.required
    BY DEF Idle, NoResult
  <2> QED BY <2>1, <2>2 DEF SlotTrue
<1>4. CASE ActivityTimeout(t) \/ WorkerCrash(t)
  <2>1. slot'[t] = slot[t] \/ slot'[t] = Idle \/ slot'[t].step = "DEAD"
    BY <1>0, <1>4 DEF ActivityTimeout, WorkerCrash, SlotType
  <2>2. Idle.step = "IDLE" /\ Idle.result.required
    BY DEF Idle, NoResult
  <2>3. CASE slot'[t] = Idle \/ slot'[t].step = "DEAD"
    BY <2>2, <2>3 DEF SlotTrue, Lost
  <2> QED BY <1>0, <2>1, <2>3, SlotStays
<1>5. CASE PrepareRefused(t) \/ PersistRefused(t) \/ ReceiptRefused(t)
  BY <1>0, <1>1, <1>5, SlotMovesOn DEF PrepareRefused, PersistRefused, ReceiptRefused
<1>6. CASE PrepareExpired(t) \/ PrepareDispatch(t)
  BY <1>0, <1>1, <1>6, SlotMovesOn DEF PrepareExpired, PrepareDispatch, Lost
<1>7. CASE Dispatch(t)
  <2>1. PICK a \in CheckoutAnswers :
          /\ merchant' = a.merchant /\ prava' = a.prava
          /\ slot' = [slot EXCEPT ![t].step = "PERSIST", ![t].result = a.result]
    BY <1>7 DEF Dispatch
  <2>2. slot'[t].step = "PERSIST" /\ slot'[t].result = a.result
    BY <1>0, <2>1 DEF SlotType
  <2>3. merchant_calls' > 0
    BY <1>7, DispatchFacts
  <2>4. ResultTrue(slot[t].result)'
    BY <2>1, <2>2, <2>3, AnswersTrue DEF ResultTrue
  <2> QED BY <2>2, <2>4 DEF SlotTrue, Lost
<1>8. CASE Query(t)
  <2>0. /\ slot[t].step = "QUERY" /\ UNCHANGED <<merchant, merchant_calls>>
        /\ slot[t].result.outcome = "UNKNOWN" /\ slot[t].result.required /\ ~slot[t].result.reported
    BY <1>0, <1>8 DEF Query, SlotTrue
  <2>1. CASE QueryFails(t) \/ QueryRefused(t)
    BY <1>0, <1>1, <2>1, SlotMovesOn DEF QueryFails, QueryRefused
  <2>2. CASE QueryUnknown(t)
    <3>1. PICK known \in BOOLEAN :
            slot' = [slot EXCEPT ![t].step = "PERSIST", ![t].result = [@ EXCEPT !.order_id = known]]
      BY <2>2 DEF QueryUnknown
    <3>2. /\ slot'[t].step = "PERSIST"
          /\ slot'[t].result = [slot[t].result EXCEPT !.order_id = known]
      BY <1>0, <3>1 DEF SlotType
    <3>3. /\ slot'[t].result.outcome = slot[t].result.outcome
          /\ slot'[t].result.required = slot[t].result.required
          /\ slot'[t].result.reported = slot[t].result.reported
      BY <1>0, <3>2 DEF SlotType, CheckoutResults
    <3>4. merchant_calls' > 0
      BY <1>0, <2>0, <2>2 DEF QueryUnknown, ChargeInv
    <3> QED BY <2>0, <3>2, <3>3, <3>4 DEF SlotTrue, ResultTrue, Lost
  <2>3. CASE QueryKnown(t)
    <3>1. PICK known : slot' = [slot EXCEPT ![t].step = "PERSIST",
                                  ![t].result = KnownResult(merchant, known, TRUE, FALSE)]
      BY <2>3 DEF QueryKnown
    <3>2. /\ slot'[t].step = "PERSIST"
          /\ slot'[t].result = KnownResult(merchant, known, TRUE, FALSE)
      BY <1>0, <3>1 DEF SlotType
    <3>3. /\ slot'[t].result.outcome = merchant /\ merchant \in Known /\ prava' = merchant
          /\ slot'[t].result.reported /\ ~slot'[t].result.required
      BY <2>3, <3>2 DEF QueryKnown, KnownResult, Result
    <3>4. merchant_calls' > 0
      BY <1>0, <2>0, <3>3 DEF ChargeInv, Known
    <3> QED BY <2>0, <3>2, <3>3, <3>4 DEF SlotTrue, ResultTrue, Lost, Known
  <2> QED BY <1>8, <2>1, <2>2, <2>3 DEF Query
<1>9. CASE PersistApplies(t)
  <2> DEFINE r == slot[t].result
  <2>1. ResultTrue(r)
    BY <1>0, <1>9 DEF PersistApplies, SlotTrue
  <2>2. /\ r.outcome = "DECLINED" => payment_status' = "DECLINED"
        /\ r.outcome = "APPROVED" /\ r.reported => payment_status' = "PRAVA_COMPLETED"
    BY <1>0, <1>9, PersistMoves DEF LedgerInv
  <2>3. r.outcome \in {"UNKNOWN", "DECLINED", "APPROVED"}
    BY <1>0 DEF SlotType, CheckoutResults, Outcomes
  <2>4. r.order_id /\ r.outcome # "NONE" => order' # "NONE"
    BY <1>9 DEF PersistApplies
  <2>5. slot'[t].step = (IF ~r.required /\ r.outcome # "APPROVED" THEN "FINISH" ELSE "OK")
        /\ slot'[t].result = r
    BY <1>0, <1>9 DEF PersistApplies, To, SlotType
  <2> HIDE DEF r
  <2>6. ~r.required => r.reported /\ r.outcome # "UNKNOWN"
    BY <2>1 DEF ResultTrue
  <2> QED BY <2>2, <2>3, <2>4, <2>5, <2>6 DEF SlotTrue
<1>10. CASE StartVerify(t)
  <2>1. slot[t].step = "START" /\ UNCHANGED <<payment_status, order>>
    BY <1>10 DEF StartVerify, verify_unchanged
  <2>2. payment_status = "PRAVA_COMPLETED" /\ order # "NONE"
    BY <1>0, <2>1 DEF SlotTrue
  <2>3. CASE fulfillment_status = "VERIFIED"
    <3>1. To(t, "FINISH") /\ fulfillment_status' = "VERIFIED"
      BY <1>10, <2>3 DEF StartVerify
    <3> QED BY <1>0, <1>1, <2>1, <3>1, SlotMovesOn DEF Lost
  <2>4. CASE fulfillment_status # "VERIFIED"
    <3>1. To(t, "OBSERVE")
      BY <1>10, <2>4 DEF StartVerify
    <3> QED BY <1>0, <1>1, <2>1, <2>2, <3>1, SlotMovesOn DEF Lost
  <2> QED BY <2>3, <2>4
<1>11. CASE Observe(t)
  <2>1. /\ slot[t].step = "OBSERVE" /\ UNCHANGED <<payment_status, order, fulfillment_status>>
    BY <1>11 DEF Observe, store_vars
  <2>2. payment_status = "PRAVA_COMPLETED" /\ order # "NONE"
    BY <1>0, <2>1 DEF SlotTrue
  <2>3. CASE \E target \in Observations :
               slot' = [slot EXCEPT ![t].step = "RESULT", ![t].target = target]
    <3>1. slot'[t].step = "RESULT" /\ slot'[t].result = slot[t].result
      BY <1>0, <2>3 DEF SlotType
    <3> QED BY <1>0, <2>1, <2>2, <3>1 DEF SlotTrue, Lost
  <2>4. CASE \E failure \in {"RETRYABLE", "NON_RETRYABLE"} : To(t, failure)
    BY <1>0, <1>1, <2>4, SlotMovesOn
  <2> QED BY <1>11, <2>3, <2>4 DEF Observe
<1>12. CASE RecordVerify(t)
  <2>1. slot[t].step = "RESULT"
    BY <1>12 DEF RecordVerify
  <2>2. \E step \in {"RETRYABLE", "FINISH", "FINISH_FAILED"} : To(t, step)
    <3>1. VerifyOutcome[slot[t].target] \in {"RETRYABLE", "FINISH", "FINISH_FAILED"}
      BY <1>0, ResultKeyType DEF SlotType, VerifyOutcome
    <3> QED BY <1>12, <3>1 DEF RecordVerify
  <2>3. PICK step \in {"RETRYABLE", "FINISH", "FINISH_FAILED"} : To(t, step)
    BY <2>2
  <2>4. slot'[t].step = step
    BY <1>0, <2>3 DEF To, SlotType
  <2>5. step = "FINISH" => fulfillment_status' = "VERIFIED"
    BY <1>0, <1>12, <2>4, VerifyMoves DEF CheckoutInv
  <2> QED BY <1>0, <1>1, <2>1, <2>3, <2>5, SlotMovesOn DEF Lost
<1>13. CASE Finish(t)
  <2>1. slot[t].step \notin Lost
    BY <1>13 DEF Finish, FinishStatus, Lost
  <2>2. AfterFinish(slot[t].activity, slot[t].step) \in {"NON_RETRYABLE", "OK"}
    BY DEF AfterFinish
  <2> QED BY <1>0, <1>1, <1>13, <2>1, <2>2, SlotMovesOn DEF Finish
<1> QED BY <1>0, <1>2, <1>3, <1>4, <1>5, <1>6, <1>7, <1>8, <1>9, <1>10, <1>11, <1>12, <1>13,
        SlotStays, SlotMovers

-----------------------------------------------------------------------------
LEMMA CheckoutInvariant == Spec => []CheckoutInv
<1>1. Init => CheckoutInv
  <2>1. Init => ChargeInv /\ StagesInv /\ AuthorityInv
    BY RolesAssumption DEF Init, StoreInit, WorkerInit, Idle, ChargeInv, Undispatched, StagesInv,
       AuthorityInv
  <2>2. Init => BindingInv
    BY SessionsAssumption DEF Init, StoreInit, SessionInit, NoSession, BindingInv,
       ApprovalRowAgrees, OneUsableSession, SessionIds
  <2>3. Init => LedgerInv /\ FulfilledInv
    BY DEF Init, StoreInit, WorkerInit, LedgerInv, LogInv, LedgerMatchesProviders,
       ClosedAttemptIsSettled, FulfilledInv, FulfillmentOnlyAfterPayment, RunCompletedIsTrue
  <2>4. Init => SlotsInv /\ ReadInv
    BY DEF Init, WorkerInit, Idle, NoResult, SlotsInv, SlotTrue, Lost, ReadInv
  <2> QED BY <2>1, <2>2, <2>3, <2>4, InitTypes DEF CheckoutInv, PurchaseInv, OutcomeInv
<1>2. CheckoutInv /\ [Next]_allVars => CheckoutInv'
  <2> SUFFICES ASSUME CheckoutInv, [Next]_allVars PROVE CheckoutInv'
    OBVIOUS
  <2>1. PurchaseInv' /\ BindingInv' /\ ReadInv'
    BY PurchaseStep, NextBinding, NextRead DEF CheckoutInv, PurchaseInv
  <2> QED BY <2>1, NextLedger, NextFulfilled, NextSlots DEF CheckoutInv, OutcomeInv
<1> QED BY <1>1, <1>2, PTL DEF Spec

(* Lost reports, late attempts and reconciliation leave a settled payment   *)
(* row with what merchant and Prava hold, an attempt closed only when its   *)
(* payment is over, and a possible charge under the Decision it was         *)
(* approved for.                                                            *)
THEOREM LedgerIsTrue == Spec => []LedgerTrue
<1>1. CheckoutInv => LedgerTrue
  <2> SUFFICES ASSUME CheckoutInv PROVE LedgerTrue
    OBVIOUS
  <2>0. ChargeInv /\ LedgerInv /\ merchant_calls \in Nat /\ attempt.n \in Nat
    BY DEF CheckoutInv, PurchaseInv, OutcomeInv, TypeInv, TypeOK, StoreTypeOK, WorkerTypeOK
  <2>1. ChargeKeepsDecision
    <3>1. merchant # "NONE" => attempt.n > 0
      BY <2>0 DEF ChargeInv
    <3> QED BY <2>0, <3>1 DEF LedgerInv, LedgerMatchesProviders, ChargeKeepsDecision
  <2> QED BY <2>0, <2>1 DEF LedgerInv, LedgerTrue
<1> QED BY <1>1, CheckoutInvariant, PTL

(* Fulfillment, Receipt and WorkflowRun say of the purchase what is so,     *)
(* whichever of several late attempts wrote them.                           *)
THEOREM OutcomeIsTrue == Spec => []OutcomeTrue
<1>1. CheckoutInv => OutcomeTrue
  <2> SUFFICES ASSUME CheckoutInv PROVE OutcomeTrue
    OBVIOUS
  <2>0. ChargeInv /\ AuthorityInv /\ FulfilledInv /\ attempt.n \in Nat
    BY DEF CheckoutInv, PurchaseInv, OutcomeInv, TypeInv, TypeOK, StoreTypeOK
  <2>1. ReceiptSound
    <3>1. receipt # 0 => payment_status = "PRAVA_COMPLETED" /\ order # "NONE"
      BY <2>0 DEF FulfilledInv, FulfillmentOnlyAfterPayment
    <3>2. payment_status = "PRAVA_COMPLETED" => approval.approved_roles = RequiredRoles
      BY <2>0 DEF ChargeInv, AuthorityInv, Undispatched
    <3> QED BY <2>0, <3>1, <3>2 DEF FulfilledInv, ReceiptSound
  <2> QED BY <2>0, <2>1 DEF FulfilledInv, OutcomeTrue
<1> QED BY <1>1, CheckoutInvariant, PTL

-----------------------------------------------------------------------------
(* The refinement of PurchaseLifecycle: the entries of its tables, the      *)
(* unlisted transitions and the approved commit that the code takes.        *)
PaymentCommit(from, to) == Lifecycle!PaymentMove(from, to) \/ Lifecycle!ApprovedCommit(from, to)

LEMMA PaymentEntries ==
  /\ PaymentCommit("NOT_STARTED", "SESSION_CREATED")
  /\ \A q \in {"CARDHOLDER_PENDING", "EXPIRED"} : PaymentCommit("SESSION_CREATED", q)
  /\ \A q \in {"CHECKOUT_PENDING", "EXPIRED"} : PaymentCommit("CARDHOLDER_PENDING", q)
  /\ \A q \in {"MERCHANT_APPROVED", "REPORTING", "PRAVA_COMPLETED", "DECLINED", "UNCERTAIN"} :
       PaymentCommit("CHECKOUT_PENDING", q)
  /\ \A q \in {"MERCHANT_APPROVED", "REPORTING", "PRAVA_COMPLETED", "DECLINED"} :
       PaymentCommit("UNCERTAIN", q)
  /\ \A q \in {"REPORTING", "PRAVA_COMPLETED"} : PaymentCommit("MERCHANT_APPROVED", q)
  /\ PaymentCommit("REPORTING", "PRAVA_COMPLETED")
BY DEF PaymentCommit, Lifecycle!PaymentMove, Lifecycle!PaymentAllowed, Lifecycle!PaymentUnlisted,
       Lifecycle!ApprovedCommit

LEMMA FulfillmentEntries ==
  /\ Lifecycle!FulfillmentMove("NOT_STARTED", "PENDING")
  /\ \A f \in VerifyOpen, g \in {"VERIFIED", "PARTIAL", "FAILED_RETRYABLE", "FAILED_FINAL"} :
       f # g => Lifecycle!FulfillmentMove(f, g)
BY DEF Lifecycle!FulfillmentMove, Lifecycle!FulfillmentAllowed, Lifecycle!FulfillmentUnlisted, VerifyOpen

(* What the refinement mapping makes of the merchant's order.               *)
charge == IF merchant = "IN_FLIGHT" THEN "PENDING" ELSE merchant

(* Steps that change neither payment, fulfillment nor the merchant's order. *)
LEMMA StepStutters ==
  ASSUME UNCHANGED <<payment_status, fulfillment_status, merchant>>
  PROVE  UNCHANGED <<payment_status, fulfillment_status, charge>>
BY DEF charge

(* A transition of the payment alone, along the tables, keeping to what the *)
(* merchant holds, is a step of the abstract machine.                       *)
LEMMA PaymentMoves ==
  ASSUME PaymentCommit(payment_status, payment_status'),
         payment_status = "UNCERTAIN" => merchant \in Known,
         payment_status' \in {"MERCHANT_APPROVED", "REPORTING", "PRAVA_COMPLETED"} =>
           merchant = "APPROVED",
         payment_status' = "DECLINED" => merchant = "DECLINED",
         UNCHANGED <<fulfillment_status, merchant>>
  PROVE  Lifecycle!Next
BY DEF Lifecycle!Next, Lifecycle!PaymentStep, PaymentCommit, Known

(* Every step of the system is a step of PurchaseLifecycle or a stutter.    *)
LEMMA StepImplements ==
  ASSUME CheckoutInv, [Next]_allVars
  PROVE  [Lifecycle!Next]_<<payment_status, fulfillment_status, charge>>
<1> DEFINE Same == UNCHANGED <<payment_status, fulfillment_status, merchant>>
<1>0. /\ TypeInv /\ BindingInv /\ FulfilledInv /\ SlotsInv /\ LedgerInv /\ LedgerInv'
      /\ payment_status \in PaymentStatus
  BY NextLedger DEF CheckoutInv, PurchaseInv, OutcomeInv, TypeInv, TypeOK, StoreTypeOK
<1>1. ASSUME \/ UNCHANGED <<payment_status, attempt, order, transitions, receipt,
                            fulfillment_status, decision_current, merchant, merchant_calls, prava>>
             \/ \E t \in Slots : Query(t)
      PROVE  Same
  BY <1>1 DEF Query, store_vars
<1>2. ASSUME decide_proposal, UNCHANGED worker_vars PROVE Same \/ Lifecycle!Next
  <2>1. /\ UNCHANGED <<fulfillment_status, merchant>>
        /\ \/ payment_status' = payment_status
           \/ /\ payment_status \in {"SESSION_CREATED", "CARDHOLDER_PENDING"}
              /\ payment_status' = "EXPIRED"
    BY <1>2 DEF decide_proposal, ledger_vars, worker_vars
  <2> QED BY <2>1, PaymentEntries, PaymentMoves
<1>3. ASSUME NEW s \in SessionIds, accept_prava_browser_return(s), UNCHANGED worker_vars
      PROVE  Lifecycle!Next
  <2>1. /\ UNCHANGED <<fulfillment_status, merchant>>
        /\ payment_status = "SESSION_CREATED" /\ payment_status' = "CARDHOLDER_PENDING"
    BY <1>3 DEF accept_prava_browser_return, ReturnAuthority, worker_vars
  <2> QED BY <2>1, PaymentEntries, PaymentMoves
<1>4. ASSUME NEW s \in SessionIds, RecordSession(s), UNCHANGED worker_vars
      PROVE  Same \/ Lifecycle!Next
  <2>1. UNCHANGED <<fulfillment_status, merchant>>
    BY <1>4 DEF RecordSession, RecordSessionFrom, worker_vars
  <2>2. \/ payment_status' = payment_status
        \/ payment_status = "NOT_STARTED" /\ payment_status' = "SESSION_CREATED"
    BY <1>0, <1>4, RecordKeepsBinding
  <2> QED BY <2>1, <2>2, PaymentEntries, PaymentMoves
<1>5. ASSUME NEW t \in Slots, PrepareExpired(t) \/ PrepareDispatch(t) PROVE Lifecycle!Next
  <2>1. /\ UNCHANGED <<fulfillment_status, merchant>>
        /\ payment_status = "CARDHOLDER_PENDING"
        /\ payment_status' \in {"EXPIRED", "CHECKOUT_PENDING"}
    BY <1>5 DEF PrepareExpired, PrepareDispatch, DispatchAuthority, prepare_unchanged
  <2> QED BY <2>1, PaymentEntries, PaymentMoves
<1>6. ASSUME NEW t \in Slots, PersistApplies(t) PROVE Same \/ Lifecycle!Next
  <2> DEFINE r == slot[t].result
  <2>1. UNCHANGED <<fulfillment_status, merchant>>
    BY <1>6 DEF PersistApplies
  <2>2. payment_status' # payment_status =>
          /\ payment_status \in {"CHECKOUT_PENDING", "UNCERTAIN", "MERCHANT_APPROVED",
                                 "REPORTING"}
          /\ r.outcome # "APPROVED" => payment_status \in UnsettledCheckout
          /\ r.outcome = "UNKNOWN" => payment_status' = "UNCERTAIN"
          /\ r.outcome = "DECLINED" => payment_status' = "DECLINED"
          /\ r.outcome = "APPROVED" =>
               payment_status' \in {"MERCHANT_APPROVED",
                 IF r.reported THEN "PRAVA_COMPLETED" ELSE "REPORTING"}
          /\ payment_status' = "MERCHANT_APPROVED" => payment_status \in UnsettledCheckout
    BY <1>0, <1>6, PersistMoves DEF LedgerInv
  <2>3. r.outcome \in {"UNKNOWN", "DECLINED", "APPROVED"} /\ ResultTrue(r)
    BY <1>0, <1>6, PersistFacts DEF PersistApplies, SlotsInv, SlotTrue
  <2> HIDE DEF r
  <2>4. CASE payment_status' # payment_status
    <3>1. PaymentCommit(payment_status, payment_status')
      BY <2>2, <2>3, <2>4, PaymentEntries DEF UnsettledCheckout
    <3>2. payment_status = "UNCERTAIN" => merchant \in Known
      BY <2>2, <2>3, <2>4 DEF ResultTrue, Known
    <3>3. /\ payment_status' \in {"MERCHANT_APPROVED", "REPORTING", "PRAVA_COMPLETED"} =>
               merchant = "APPROVED"
          /\ payment_status' = "DECLINED" => merchant = "DECLINED"
      BY <1>0, <2>1 DEF LedgerInv, LedgerMatchesProviders
    <3> QED BY <2>1, <3>1, <3>2, <3>3, PaymentMoves
  <2> QED BY <2>1, <2>4
<1>7. ASSUME NEW t \in Slots, StartVerify(t) \/ RecordVerify(t) PROVE Same \/ Lifecycle!Next
  <2>1. UNCHANGED <<payment_status, merchant>>
    BY <1>7 DEF StartVerify, RecordVerify, verify_unchanged
  <2>2. ASSUME Lifecycle!FulfillmentMove(fulfillment_status, fulfillment_status'),
               fulfillment_status = "NOT_STARTED" =>
                 payment_status = "PRAVA_COMPLETED" /\ fulfillment_status' = "PENDING"
        PROVE  Lifecycle!Next
    BY <2>1, <2>2 DEF Lifecycle!Next, Lifecycle!FulfillmentStep
  <2>3. CASE StartVerify(t)
    <3>1. \/ fulfillment_status' = fulfillment_status
          \/ fulfillment_status = "NOT_STARTED" /\ fulfillment_status' = "PENDING"
      BY <2>3 DEF StartVerify
    <3>2. payment_status = "PRAVA_COMPLETED"
      BY <1>0, <2>3 DEF StartVerify, SlotsInv, SlotTrue
    <3> QED BY <2>1, <2>2, <3>1, <3>2, FulfillmentEntries
  <2>4. CASE RecordVerify(t)
    <3> DEFINE target == slot[t].target
    <3>1. /\ target \in {"VERIFIED", "PARTIAL", "FAILED_RETRYABLE", "FAILED_FINAL"}
          /\ \/ fulfillment_status' = fulfillment_status
             \/ fulfillment_status \in VerifyOpen /\ fulfillment_status' = target
      BY <1>0, <2>4, VerifyMoves DEF SlotsInv
    <3> HIDE DEF target
    <3>2. fulfillment_status \in VerifyOpen => fulfillment_status # "NOT_STARTED"
      BY DEF VerifyOpen
    <3> QED BY <2>1, <2>2, <3>1, <3>2, FulfillmentEntries
  <2> QED BY <1>7, <2>3, <2>4
<1>8. ASSUME \/ MerchantSettles \/ \E t \in Slots : Dispatch(t)
      PROVE  UNCHANGED <<payment_status, fulfillment_status, charge>> \/ Lifecycle!Next
  <2>1. UNCHANGED <<payment_status, fulfillment_status>>
    BY <1>8 DEF MerchantSettles, Dispatch, store_vars
  <2>2. \/ merchant = "NONE" /\ payment_status = "CHECKOUT_PENDING" /\ merchant' \in MerchantStates
        \/ merchant = "IN_FLIGHT" /\ merchant' \in Known \cup {"PENDING"}
        \/ merchant = "PENDING" /\ merchant' \in Known
    BY <1>8, DispatchFacts, AnswersType DEF Dispatch, MerchantSettles
  <2>3. \/ charge' = charge
        \/ /\ charge = "NONE" /\ payment_status = "CHECKOUT_PENDING"
           /\ charge' \in {"PENDING", "APPROVED", "DECLINED"}
        \/ charge = "PENDING" /\ charge' \in {"APPROVED", "DECLINED"}
    BY <2>2 DEF charge, Known, MerchantStates
  <2> QED BY <2>1, <2>3 DEF Lifecycle!Next, Lifecycle!ChargeStep, charge
<1>9. Same => UNCHANGED <<payment_status, fulfillment_status, charge>>
  BY StepStutters
<1> HIDE DEF Same
<1> QED BY <1>1, <1>2, <1>3, <1>4, <1>5, <1>6, <1>7, <1>8, <1>9, OutcomeMovers

(* The code, which writes these columns without consulting the tables of    *)
(* state_machines.py, leaves them only by the transitions PurchaseLifecycle *)
(* names; apart from those payment and fulfillment follow the canonical     *)
(* machines one entry a step, and money moves once.                         *)
THEOREM LifecycleImplemented == Spec => ImplementsLifecycle
<1>1. Init => Lifecycle!Init
  BY DEF Init, StoreInit, WorkerInit, Lifecycle!Init
<1>2. CheckoutInv /\ [Next]_allVars =>
        [Lifecycle!Next]_<<payment_status, fulfillment_status, charge>>
  BY StepImplements
<1> QED BY <1>1, <1>2, CheckoutInvariant, PTL DEF Spec, ImplementsLifecycle, Lifecycle!Spec, charge
=============================================================================
