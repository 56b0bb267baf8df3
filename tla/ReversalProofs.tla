--------------------------- MODULE ReversalProofs ---------------------------
(***************************************************************************)
(* What TLAPS proves of PurchaseReversal, for every amount, number of      *)
(* reversals, dispatchers, slots, rounds, tries and faults.                *)
(***************************************************************************)
EXTENDS PurchaseReversal, FiniteSetTheorems, TLAPS

(***************************************************************************)
(* Types of the operators the steps are built from.                        *)
(***************************************************************************)

(* What the workflow does after an attempt keeps its record in its domain.  *)
LEMMA WorkflowTypes ==
  ASSUME NEW w \in Workflows, NEW result \in RefundResults, NEW b \in BOOLEAN
  PROVE  AfterSuccess(w, result) \in Workflows /\ AfterFailure(w, b) \in Workflows
<1>1. ASSUME NEW step \in {"RECONCILE", "COMPLETED", "FAILED"}
      PROVE  /\ Advance(w, step) \in Workflows
             /\ Advance(w, step).round = w.round
  <2>1. step \in {"NONE", "EXECUTE", "RECONCILE", "COMPLETED", "FAILED"} /\ 1 \in 1..MaxTries
    BY <1>1, ReversalAssumption
  <2>2. Advance(w, step) = [w EXCEPT !.step = step, !.tries = 1, !.awaits = NoSlot]
    BY DEF Advance
  <2> QED BY <2>1, <2>2 DEF Workflows
<1>2. Unsettled(result) \in BOOLEAN
  BY DEF Unsettled
<1>3. AfterSuccess(w, result) \in Workflows
  <2>1. CASE ~Unsettled(result)
    BY <1>1, <2>1 DEF AfterSuccess
  <2>2. CASE Unsettled(result) /\ w.step = "EXECUTE"
    BY <1>1, <2>2 DEF AfterSuccess
  <2>3. CASE Unsettled(result) /\ w.step # "EXECUTE" /\ w.round < MaxRounds
    <3>1. AfterSuccess(w, result) = [Advance(w, "RECONCILE") EXCEPT !.round = w.round + 1]
      BY <2>3 DEF AfterSuccess
    <3>2. w.round + 1 \in 1..MaxRounds
      BY <2>3, ReversalAssumption DEF Workflows
    <3> QED BY <1>1, <3>1, <3>2 DEF Workflows
  <2>4. CASE Unsettled(result) /\ w.step # "EXECUTE" /\ ~(w.round < MaxRounds)
    BY <1>1, <2>4 DEF AfterSuccess
  <2> QED BY <1>2, <2>1, <2>2, <2>3, <2>4
<1>4. AfterFailure(w, b) \in Workflows
  <2>1. CASE b /\ w.step = "RECONCILE" /\ w.tries < MaxTries
    <3>1. w.tries + 1 \in 1..MaxTries
      BY <2>1, ReversalAssumption DEF Workflows
    <3> QED BY <2>1, <3>1 DEF AfterFailure, Workflows
  <2>2. CASE ~(b /\ w.step = "RECONCILE" /\ w.tries < MaxTries)
    BY <1>1, <2>2 DEF AfterFailure
  <2> QED BY <2>1, <2>2
<1> QED BY <1>3, <1>4

(* The status a result is persisted under.                                  *)
LEMMA RefundStatusType ==
  ASSUME NEW row, NEW result \in RefundResults
  PROVE  RefundStatus(row, result) \in
           {"PROVIDER_PENDING", "PARTIALLY_REFUNDED", "REJECTED", "REFUNDED",
            "COMPENSATION_REQUIRED"}
  BY DEF RefundStatus, RefundResults

(* The uncertain result and the idle slot.                                  *)
LEMMA UnknownType == Unknown \in RefundResults
  BY ReversalAssumption DEF Unknown, RefundResults

LEMMA IdleType == Idle \in Attempts
  BY UnknownType, ReversalAssumption DEF Idle, Attempts, ReversalIds, Steps

(* A slot whose attempt moves on, or receives an answer.                    *)
LEMMA SlotTypes ==
  ASSUME slot \in [Slots -> Attempts], NEW t \in Slots
  PROVE  /\ \A step \in Steps : To(t, step) => slot' \in [Slots -> Attempts]
         /\ \A result \in RefundResults : Answered(t, result) => slot' \in [Slots -> Attempts]
  BY DEF To, Answered, Attempts, Steps

(* The merchant's answer, and a refund it opens.                            *)
LEMMA MerchantTypes ==
  ASSUME NEW m \in MerchantRefunds
  PROVE  /\ Opened(m) \in MerchantRefunds
         /\ Opened(m).status \notin {"NONE", "IN_FLIGHT"}
         /\ m.status \notin {"NONE", "IN_FLIGHT"} => Answer(m) \in RefundResults
  BY DEF Opened, Answer, MerchantRefunds, RefundResults

(* An attempt belongs to a reversal.                                        *)
LEMMA AttemptFields ==
  ASSUME TypeOK, NEW t \in Slots
  PROVE  /\ slot[t] \in Attempts
         /\ slot[t].reversal \in ReversalIds
         /\ slot[t].result \in RefundResults
         /\ workflow[slot[t].reversal] \in Workflows
         /\ refund[slot[t].reversal] \in MerchantRefunds
         /\ reversals[slot[t].reversal] \in ReversalRows
  BY DEF TypeOK, Attempts

(***************************************************************************)
(* Type correctness.                                                       *)
(***************************************************************************)
LEMMA TypeInit == Init => TypeOK
<1> SUFFICES ASSUME Init PROVE TypeOK
  OBVIOUS
<1>1. NoReversal \in ReversalRows
  BY ReversalAssumption DEF NoReversal, ReversalRows
<1>2. 1 \in ReversalIds /\ 1 \in 1..MaxRounds /\ 1 \in 1..MaxTries /\ 0 \in 0..Amount
  BY ReversalAssumption DEF ReversalIds
<1> QED BY <1>1, <1>2, IdleType
        DEF Init, TypeOK, Deliveries, Workflows, MerchantRefunds, Fulfillment

LEMMA TypeStep == TypeOK /\ [Next]_vars => TypeOK'
<1> SUFFICES ASSUME TypeOK, [Next]_vars PROVE TypeOK'
  OBVIOUS
<1> USE DEF TypeOK
<1>1. ASSUME NEW r \in ReversalIds, NEW requested \in 1..Amount, request_reversal(r, requested)
      PROVE  TypeOK'
  <2>1. [status |-> "REQUESTED", requested |-> requested, refunded |-> 0,
         confirmed |-> FALSE] \in ReversalRows
    BY ReversalAssumption DEF ReversalRows, ReversalStatus
  <2> QED BY <1>1, <2>1 DEF request_reversal, worker_vars, merchant_vars
<1>2. CASE FulfillmentVerified
  BY <1>2 DEF FulfillmentVerified, worker_vars, merchant_vars, Fulfillment
<1>4. ASSUME NEW d \in Dispatchers, DispatchRead(d) PROVE TypeOK'
  <2>1. dispatcher' \in [Dispatchers -> Deliveries]
    BY <1>4 DEF DispatchRead, Deliveries
  <2> QED BY <1>4, <2>1 DEF DispatchRead, row_vars, merchant_vars
<1>5. ASSUME NEW d \in Dispatchers, DispatchStart(d) PROVE TypeOK'
  <2>1. dispatcher' \in [Dispatchers -> Deliveries]
    BY <1>5 DEF DispatchStart, Deliveries
  <2>2. workflow' \in [ReversalIds -> Workflows]
    <3>1. dispatcher[d].reversal \in ReversalIds
      BY DEF Deliveries
    <3>2. ASSUME NEW w \in Workflows
          PROVE  [w EXCEPT !.step = IF w.step = "NONE" THEN "EXECUTE" ELSE w.step] \in Workflows
      BY DEF Workflows
    <3> QED BY <1>5, <3>1, <3>2 DEF DispatchStart
  <2> QED BY <1>5, <2>1, <2>2 DEF DispatchStart, row_vars, merchant_vars
<1>6. ASSUME NEW d \in Dispatchers, DispatchPublish(d) PROVE TypeOK'
  <2>1. dispatcher' \in [Dispatchers -> Deliveries]
    BY <1>6 DEF DispatchPublish, Deliveries
  <2> QED BY <1>6, <2>1 DEF DispatchPublish, row_vars, merchant_vars
<1>7. ASSUME NEW d \in Dispatchers, DispatcherCrash(d) PROVE TypeOK'
  <2>1. dispatcher' \in [Dispatchers -> Deliveries]
    BY <1>7 DEF DispatcherCrash, Deliveries
  <2> QED BY <1>7, <2>1 DEF DispatcherCrash, row_vars, merchant_vars, CountFault
<1>8. ASSUME NEW r \in ReversalIds, NEW t \in Slots, Schedule(r, t) PROVE TypeOK'
  <2>1. workflow' \in [ReversalIds -> Workflows]
    BY <1>8 DEF Schedule, Workflows
  <2>2. slot' \in [Slots -> Attempts]
    BY <1>8, UnknownType DEF Schedule, Attempts, Steps
  <2> QED BY <1>8, <2>1, <2>2 DEF Schedule, row_vars, merchant_vars
<1>9. ASSUME NEW t \in Slots, load_refund_state(t) PROVE TypeOK'
  <2>1. slot' \in [Slots -> Attempts]
    BY <1>9, SlotTypes DEF load_refund_state, Steps
  <2> QED BY <1>9, <2>1 DEF load_refund_state, row_vars, merchant_vars
<1>10. ASSUME NEW t \in Slots, RefundAnswered(t) PROVE TypeOK'
  <2>1. refund' \in [ReversalIds -> MerchantRefunds]
    BY <1>10, AttemptFields, MerchantTypes DEF RefundAnswered
  <2>2. refund'[slot[t].reversal].status \notin {"NONE", "IN_FLIGHT"}
    BY <1>10, AttemptFields, MerchantTypes DEF RefundAnswered
  <2>3. Answer(refund'[slot[t].reversal]) \in RefundResults
    BY <2>1, <2>2, AttemptFields, MerchantTypes
  <2>4. slot' \in [Slots -> Attempts]
    BY <1>10, <2>3, SlotTypes DEF RefundAnswered
  <2> QED BY <1>10, <2>1, <2>4, AttemptFields DEF RefundAnswered, Sent, row_vars
<1>11. ASSUME NEW t \in Slots, RefundUncertain(t) PROVE TypeOK'
  <2>1. refund' \in [ReversalIds -> MerchantRefunds]
    BY <1>11, AttemptFields DEF RefundUncertain, MerchantRefunds
  <2>2. slot' \in [Slots -> Attempts]
    BY <1>11, UnknownType, SlotTypes DEF RefundUncertain
  <2>3. refund_calls' \in [ReversalIds -> Nat] /\ faults' \in Nat
    BY <1>11, AttemptFields DEF RefundUncertain, Sent, CountFault
  <2> QED BY <1>11, <2>1, <2>2, <2>3 DEF RefundUncertain, row_vars
<1>12. ASSUME NEW t \in Slots, RefundRaises(t) PROVE TypeOK'
  <2>1. refund' \in [ReversalIds -> MerchantRefunds]
    BY <1>12, AttemptFields, MerchantTypes DEF RefundRaises
  <2>2. slot' \in [Slots -> Attempts]
    BY <1>12, SlotTypes DEF RefundRaises, Steps
  <2>3. refund_calls' \in [ReversalIds -> Nat] /\ faults' \in Nat
    BY <1>12, AttemptFields DEF RefundRaises, Sent, CountFault
  <2> QED BY <1>12, <2>1, <2>2, <2>3 DEF RefundRaises, row_vars
<1>13. ASSUME NEW t \in Slots, QueryAnswered(t) PROVE TypeOK'
  <2>1. slot' \in [Slots -> Attempts]
    BY <1>13, SlotTypes, AttemptFields, MerchantTypes DEF QueryAnswered, Steps
  <2> QED BY <1>13, <2>1 DEF QueryAnswered, row_vars, merchant_vars
<1>14. ASSUME NEW t \in Slots, QueryFails(t) PROVE TypeOK'
  <2>1. slot' \in [Slots -> Attempts]
    BY <1>14, SlotTypes DEF QueryFails, Steps
  <2> QED BY <1>14, <2>1 DEF QueryFails, CountFault, row_vars, merchant_vars
<1>15. ASSUME NEW t \in Slots, persist_refund_result(t) PROVE TypeOK'
  <2> DEFINE r == slot[t].reversal
             result == slot[t].result
             status == RefundStatus(reversals[r], result)
  <2>1. status \in ReversalStatus
    BY AttemptFields, RefundStatusType DEF ReversalStatus
  <2>2. result.amount \in 0..Amount /\ result.confirmed \in BOOLEAN
    BY AttemptFields DEF RefundResults
  <2>3. reversals' = [reversals EXCEPT ![r] = [@ EXCEPT !.status = status,
                                                       !.refunded = result.amount,
                                                       !.confirmed = result.confirmed]]
    BY <1>15, AttemptFields DEF persist_refund_result
  <2>4. [reversals[r] EXCEPT !.status = status, !.refunded = result.amount,
                             !.confirmed = result.confirmed] \in ReversalRows
    <3> HIDE DEF status
    <3> QED BY <2>1, <2>2, AttemptFields DEF ReversalRows
  <2>5. reversals' \in [ReversalIds -> ReversalRows]
    BY <2>3, <2>4
  <2>6. slot' \in [Slots -> Attempts]
    BY <1>15, SlotTypes DEF persist_refund_result, Steps
  <2> QED
    BY <1>15, <2>5, <2>6 DEF persist_refund_result, merchant_vars, Fulfillment
<1>16. ASSUME NEW t \in Slots, PersistRefused(t) PROVE TypeOK'
  <2>1. slot' \in [Slots -> Attempts]
    BY <1>16, SlotTypes DEF PersistRefused, Steps
  <2> QED BY <1>16, <2>1 DEF PersistRefused, row_vars, merchant_vars
<1>17. ASSUME NEW t \in Slots, Complete(t) PROVE TypeOK'
  <2>1. /\ AfterSuccess(workflow[slot[t].reversal], slot[t].result) \in Workflows
        /\ AfterFailure(workflow[slot[t].reversal], slot[t].step = "RETRYABLE") \in Workflows
    BY AttemptFields, WorkflowTypes
  <2>2. workflow' \in [ReversalIds -> Workflows]
    BY <1>17, <2>1 DEF Complete
  <2> QED BY <1>17, <2>2, IdleType DEF Complete, row_vars, merchant_vars
<1>18. ASSUME NEW t \in Slots, GiveUp(t), faults' \in Nat PROVE TypeOK'
  <2>1. AfterFailure(workflow[slot[t].reversal], TRUE) \in Workflows
    BY AttemptFields, WorkflowTypes, UnknownType
  <2>2. workflow' \in [ReversalIds -> Workflows]
    BY <1>18, <2>1 DEF GiveUp
  <2> QED BY <1>18, <2>2, IdleType DEF GiveUp, row_vars, merchant_vars
<1>19. ASSUME NEW t \in Slots, TimeoutOfDead(t) \/ ActivityTimeout(t) PROVE TypeOK'
  BY <1>18, <1>19 DEF TimeoutOfDead, ActivityTimeout, CountFault
<1>20. ASSUME NEW t \in Slots, WorkerCrash(t) PROVE TypeOK'
  <2>1. [slot[t] EXCEPT !.step = "DEAD"] \in Attempts
    BY AttemptFields DEF Attempts, Steps
  <2> QED BY <1>20, <2>1, IdleType DEF WorkerCrash, CountFault, row_vars, merchant_vars
<1>21. ASSUME NEW r \in ReversalIds, MerchantReceives(r) PROVE TypeOK'
  BY <1>21, MerchantTypes DEF MerchantReceives, row_vars, worker_vars
<1>22. ASSUME NEW r \in ReversalIds, MerchantPays(r) PROVE TypeOK'
  <2>1. reversals[r].requested \in 0..Amount /\ refund[r].amount \in 0..Amount
    BY DEF ReversalRows, MerchantRefunds
  <2>2. \A amount \in (refund[r].amount + 1)..reversals[r].requested : amount \in 0..Amount
    BY <2>1, ReversalAssumption
  <2>3. refund' \in [ReversalIds -> MerchantRefunds]
    <3>1. \A amount \in 0..Amount, revoked \in BOOLEAN,
             status \in {"REFUNDED", "PARTIALLY_REFUNDED"} :
            [status |-> status, amount |-> amount, revoked |-> revoked] \in MerchantRefunds
      BY DEF MerchantRefunds
    <3>2. PICK amount \in (refund[r].amount + 1)..reversals[r].requested, revoked \in BOOLEAN :
            \/ refund' = [refund EXCEPT ![r] = [status |-> "REFUNDED", amount |-> amount,
                                                revoked |-> revoked]]
            \/ refund' = [refund EXCEPT ![r] = [status |-> "PARTIALLY_REFUNDED",
                                                amount |-> amount, revoked |-> FALSE]]
      BY <1>22 DEF MerchantPays
    <3>3. amount \in 0..Amount
      BY <2>2
    <3> QED BY <3>1, <3>2, <3>3
  <2> QED BY <1>22, <2>3 DEF MerchantPays, row_vars, worker_vars
<1>23. ASSUME NEW r \in ReversalIds, MerchantRejects(r) PROVE TypeOK'
  <2>1. refund' \in [ReversalIds -> MerchantRefunds]
    BY <1>23 DEF MerchantRejects, MerchantRefunds
  <2> QED BY <1>23, <2>1 DEF MerchantRejects, row_vars, worker_vars
<1>24. CASE UNCHANGED vars
  BY <1>24 DEF vars, row_vars, worker_vars, merchant_vars
<1> QED
  BY <1>1, <1>2, <1>4, <1>5, <1>6, <1>7, <1>8, <1>9, <1>10, <1>11, <1>12, <1>13,
     <1>14, <1>15, <1>16, <1>17, <1>19, <1>20, <1>21, <1>22, <1>23, <1>24
  DEF Next, ActivityStep

(* Every row, event, workflow and activity attempt of a refund stays in its *)
(* domain; rounds and tries keep to the limits of PurchaseReversalWorkflow. *)
THEOREM RefundTypes == Spec => []TypeOK
  BY TypeInit, TypeStep, PTL DEF Spec

(***************************************************************************)
(* One refund request per reversal.                                        *)
(***************************************************************************)

(* execute_refund of reversal r has not been scheduled yet.                 *)
Unscheduled(r) ==
  \/ workflow[r].step = "NONE"
  \/ workflow[r].step = "EXECUTE" /\ workflow[r].awaits = NoSlot

(* The attempt may still send a refund request.                             *)
Sending(t) == slot[t].activity = "EXECUTE" /\ slot[t].step \in {"LOAD", "CALL"}

(* Only one attempt of a reversal may ever send, and until it does nothing  *)
(* was sent: Temporal schedules execute_refund once, and the workflow never *)
(* returns to it.                                                           *)
RequestInv ==
  /\ \A r \in ReversalIds : Unscheduled(r) => refund_calls[r] = 0
  /\ \A t \in Slots : Sending(t) => /\ refund_calls[slot[t].reversal] = 0
                                    /\ ~Unscheduled(slot[t].reversal)
  /\ \A t, u \in Slots :
       Sending(t) /\ Sending(u) /\ slot[t].reversal = slot[u].reversal => t = u
  /\ \A r \in ReversalIds : refund_calls[r] \in {0, 1}

(* After an attempt the workflow does not stand before execute_refund.      *)
LEMMA NeverBack ==
  ASSUME NEW w \in Workflows, NEW result, NEW b
  PROVE  /\ AfterSuccess(w, result).step \in {"COMPLETED", "RECONCILE"}
         /\ AfterFailure(w, b).step \in {"FAILED", "RECONCILE"}
  BY DEF AfterSuccess, AfterFailure, Advance, Workflows

(* Steps that send nothing, start no attempt and move no workflow back.     *)
LEMMA RequestFrame ==
  ASSUME TypeOK, RequestInv, refund_calls' = refund_calls,
         \A r \in ReversalIds : Unscheduled(r)' => Unscheduled(r),
         \A t \in Slots : Sending(t)' => Sending(t) /\ slot'[t].reversal = slot[t].reversal
  PROVE  RequestInv'
  BY AttemptFields DEF RequestInv

LEMMA RequestStep == TypeOK /\ TypeOK' /\ RequestInv /\ [Next]_vars => RequestInv'
<1> SUFFICES ASSUME TypeOK, TypeOK', RequestInv, [Next]_vars PROVE RequestInv'
  OBVIOUS
<1>0. ASSUME NEW t \in Slots, NEW step \in {"PERSIST", "OK", "RETRYABLE", "NON_RETRYABLE"},
             slot'[t].step = step, \A u \in Slots \ {t} : slot'[u] = slot[u]
      PROVE  \A u \in Slots : Sending(u)' => Sending(u) /\ slot'[u].reversal = slot[u].reversal
  BY <1>0 DEF Sending
<1>1. ASSUME UNCHANGED <<worker_vars, refund_calls>> PROVE RequestInv'
  BY <1>1 DEF RequestInv, Unscheduled, Sending, worker_vars
<1>2. ASSUME UNCHANGED <<workflow, slot, refund_calls>> PROVE RequestInv'
  BY <1>2 DEF RequestInv, Unscheduled, Sending
<1>3. ASSUME NEW d \in Dispatchers, DispatchStart(d) PROVE RequestInv'
  <2>1. dispatcher[d].reversal \in ReversalIds
    BY DEF TypeOK, Deliveries
  <2>2. \A r \in ReversalIds : Unscheduled(r)' => Unscheduled(r)
    BY <1>3, <2>1 DEF DispatchStart, Unscheduled, TypeOK, Workflows
  <2> QED BY <1>3, <2>2, RequestFrame DEF DispatchStart, Sending, merchant_vars
<1>4. ASSUME NEW r \in ReversalIds, NEW t \in Slots, Schedule(r, t) PROVE RequestInv'
  <2>1. /\ refund_calls' = refund_calls
        /\ slot'[t] = [reversal |-> r, activity |-> workflow[r].step, step |-> "LOAD",
                       result |-> Unknown]
        /\ \A u \in Slots \ {t} : slot'[u] = slot[u]
    BY <1>4 DEF Schedule, TypeOK, merchant_vars
  <2>2. /\ \A q \in ReversalIds \ {r} : workflow'[q] = workflow[q]
        /\ workflow'[r].step \in {"EXECUTE", "RECONCILE"}
        /\ workflow'[r].awaits # NoSlot
        /\ workflow[r].awaits = NoSlot
    BY <1>4, ReversalAssumption DEF Schedule, TypeOK, Workflows
  <2>3. ~Unscheduled(r)' /\ \A q \in ReversalIds : Unscheduled(q)' => Unscheduled(q)
    BY <2>2 DEF Unscheduled
  <2>4. \A u \in Slots \ {t} : Sending(u)' <=> Sending(u)
    BY <2>1 DEF Sending
  <2>5. Sending(t)' => Unscheduled(r) /\ slot'[t].reversal = r
    BY <2>1, <2>2 DEF Sending, Unscheduled
  <2>6. \A u \in Slots : slot[u].reversal \in ReversalIds
    BY AttemptFields
  <2>7. \A u \in Slots : (Sending(u) => /\ refund_calls[slot[u].reversal] = 0
                                        /\ ~Unscheduled(slot[u].reversal))'
    BY <2>1, <2>3, <2>4, <2>5, <2>6 DEF RequestInv
  <2>8. \A u, v \in Slots :
          Sending(u)' /\ Sending(v)' /\ slot'[u].reversal = slot'[v].reversal => u = v
    BY <2>1, <2>4, <2>5 DEF RequestInv
  <2> QED BY <2>1, <2>3, <2>7, <2>8 DEF RequestInv
<1>5. ASSUME NEW t \in Slots, load_refund_state(t) PROVE RequestInv'
  <2>1. \A u \in Slots : Sending(u)' => Sending(u) /\ slot'[u].reversal = slot[u].reversal
    BY <1>5, AttemptFields DEF load_refund_state, To, Sending, TypeOK, Attempts
  <2> QED BY <1>5, <2>1, RequestFrame DEF load_refund_state, Unscheduled, merchant_vars
<1>6. ASSUME NEW t \in Slots, NEW step \in {"PERSIST", "OK", "RETRYABLE", "NON_RETRYABLE"},
             slot'[t].step = step, \A u \in Slots \ {t} : slot'[u] = slot[u],
             UNCHANGED workflow, slot[t].step = "CALL", slot[t].activity = "EXECUTE",
             Sent(slot[t].reversal)
      PROVE  RequestInv'
  <2> DEFINE r == slot[t].reversal
  <2>1. r \in ReversalIds
    BY AttemptFields
  <2>2. Sending(t) /\ ~Sending(t)' /\ \A u \in Slots \ {t} : Sending(u)' <=> Sending(u)
    BY <1>6 DEF Sending
  <2>3. /\ refund_calls[r] = 0
        /\ refund_calls'[r] = 1
        /\ \A q \in ReversalIds \ {r} : refund_calls'[q] = refund_calls[q]
    BY <1>6, <2>1, <2>2 DEF RequestInv, Sent, TypeOK
  <2>4. \A u \in Slots \ {t} : Sending(u) => slot[u].reversal # r
    BY <2>2 DEF RequestInv
  <2>5. ~Unscheduled(r)
    BY <2>2 DEF RequestInv
  <2>6. \A q \in ReversalIds : Unscheduled(q)' <=> Unscheduled(q)
    BY <1>6 DEF Unscheduled
  <2>7. \A u \in Slots : slot[u].reversal \in ReversalIds
    BY AttemptFields
  <2> HIDE DEF r
  <2> QED BY <1>6, <2>1, <2>2, <2>3, <2>4, <2>5, <2>6, <2>7 DEF RequestInv
<1>7. ASSUME NEW t \in Slots, RefundAnswered(t) \/ RefundUncertain(t) \/ RefundRaises(t)
      PROVE  RequestInv'
  <2>1. /\ slot'[t].step \in {"PERSIST", "NON_RETRYABLE"}
        /\ \A u \in Slots \ {t} : slot'[u] = slot[u]
    BY <1>7 DEF RefundAnswered, RefundUncertain, RefundRaises, Answered, To, TypeOK, Attempts
  <2> QED BY <1>6, <1>7, <2>1 DEF RefundAnswered, RefundUncertain, RefundRaises
<1>8. ASSUME NEW t \in Slots,
             QueryAnswered(t) \/ QueryFails(t) \/ persist_refund_result(t) \/ PersistRefused(t)
      PROVE  RequestInv'
  <2>1. /\ slot'[t].step \in {"PERSIST", "OK", "RETRYABLE", "NON_RETRYABLE"}
        /\ \A u \in Slots \ {t} : slot'[u] = slot[u]
    BY <1>8 DEF QueryAnswered, QueryFails, persist_refund_result, PersistRefused,
                Answered, To, TypeOK, Attempts
  <2>2. UNCHANGED <<workflow, refund_calls>>
    BY <1>8 DEF QueryAnswered, QueryFails, persist_refund_result, PersistRefused,
                merchant_vars
  <2> QED BY <1>0, <2>1, <2>2, RequestFrame DEF Unscheduled
<1>9. ASSUME NEW t \in Slots, Complete(t) \/ GiveUp(t) PROVE RequestInv'
  <2>1. \A q \in ReversalIds : Unscheduled(q)' => Unscheduled(q)
    <3>1. \A q \in ReversalIds : \/ workflow'[q] = workflow[q]
                                 \/ workflow'[q].step \in {"COMPLETED", "RECONCILE", "FAILED"}
      <4>1. CASE Complete(t)
        <5> DEFINE w == workflow[slot[t].reversal]
        <5>1. w \in Workflows
          BY AttemptFields
        <5>2. /\ AfterSuccess(w, slot[t].result).step \in {"COMPLETED", "RECONCILE"}
              /\ AfterFailure(w, slot[t].step = "RETRYABLE").step \in {"FAILED", "RECONCILE"}
          BY <5>1, NeverBack
        <5> QED BY <4>1, <5>2, AttemptFields DEF Complete, TypeOK
      <4>2. CASE GiveUp(t)
        BY <4>2, AttemptFields, NeverBack DEF GiveUp, TypeOK
      <4> QED BY <1>9, <4>1, <4>2
    <3> QED BY <3>1 DEF Unscheduled
  <2>2. \A u \in Slots : Sending(u)' => Sending(u) /\ slot'[u].reversal = slot[u].reversal
    <3>1. \A u \in Slots : slot'[u] = slot[u] \/ slot'[u].step = "IDLE"
      <4>1. Idle.step = "IDLE"
        BY DEF Idle
      <4> QED BY <1>9, <4>1 DEF Complete, GiveUp, TypeOK
    <3> QED BY <3>1 DEF Sending
  <2> QED BY <1>9, <2>1, <2>2, RequestFrame DEF Complete, GiveUp, merchant_vars
<1>10. ASSUME NEW t \in Slots, WorkerCrash(t) PROVE RequestInv'
  <2>1. \A u \in Slots : Sending(u)' => Sending(u) /\ slot'[u].reversal = slot[u].reversal
    BY <1>10 DEF WorkerCrash, Sending, Idle, TypeOK, Attempts
  <2> QED BY <1>10, <2>1, RequestFrame DEF WorkerCrash, Unscheduled, merchant_vars
<1>11. ASSUME NEW r \in ReversalIds,
              MerchantReceives(r) \/ MerchantPays(r) \/ MerchantRejects(r)
       PROVE  RequestInv'
  BY <1>1, <1>11 DEF MerchantReceives, MerchantPays, MerchantRejects
<1>12. ASSUME NEW d \in Dispatchers, DispatchRead(d) \/ DispatchPublish(d) \/ DispatcherCrash(d)
       PROVE  RequestInv'
  BY <1>2, <1>12 DEF DispatchRead, DispatchPublish, DispatcherCrash, merchant_vars
<1>13. ASSUME NEW r \in ReversalIds, NEW requested \in 1..Amount, request_reversal(r, requested)
       PROVE  RequestInv'
  BY <1>1, <1>13 DEF request_reversal, merchant_vars
<1>14. CASE FulfillmentVerified
  BY <1>1, <1>14 DEF FulfillmentVerified, merchant_vars
<1>15. CASE UNCHANGED vars
  BY <1>1, <1>15 DEF vars, merchant_vars
<1> QED
  BY <1>3, <1>4, <1>5, <1>7, <1>8, <1>9, <1>10, <1>11, <1>12, <1>13, <1>14, <1>15
  DEF Next, ActivityStep, TimeoutOfDead, ActivityTimeout

(* One refund request per reversal, for any number of dispatchers, slots,   *)
(* crashes, timeouts and redelivered events (PurchaseReversalWorkflow,      *)
(* REJECT_DUPLICATE in dispatch_once).                                      *)
THEOREM RefundRequestedOnce == Spec => []OneRefundPerReversal
<1>1. Init => RequestInv
  BY DEF Init, RequestInv, Sending, Idle
<1>2. RequestInv => OneRefundPerReversal
  BY DEF RequestInv, OneRefundPerReversal
<1> QED BY <1>1, <1>2, RefundTypes, RequestStep, PTL DEF Spec

(***************************************************************************)
(* The ledger and the merchant.                                            *)
(***************************************************************************)

(* A result that is still to be persisted, and a reversal row, never say    *)
(* more than the merchant's refund m; what they say of a final refund is    *)
(* all of it.                                                               *)
TrueResult(result, m) ==
  /\ result.amount <= m.amount
  /\ result.status \in {"REFUNDED", "REJECTED"} => result = Answer(m)

TrueRow(row, m) ==
  /\ row.refunded <= m.amount
  /\ row.status \in Settled =>
       /\ row.confirmed = TRUE
       /\ row.refunded = m.amount
       /\ m.status = IF row.status = "REJECTED" THEN "REJECTED" ELSE "REFUNDED"
  /\ row.status = "REFUNDED" => m.amount = row.requested

LedgerInv ==
  /\ \A t \in Slots : slot[t].step = "PERSIST" =>
                        TrueResult(slot[t].result, refund[slot[t].reversal])
  /\ \A r \in ReversalIds : TrueRow(reversals[r], refund[r])
  /\ RunMatchesReversal
  /\ RevokedWasRefunded

(* The merchant pays back more over time and never changes a final refund.  *)
Later(m, n) == m.amount <= n.amount /\ (m.status \in {"REFUNDED", "REJECTED"} => n = m)

LEMMA TruthStays ==
  ASSUME NEW m \in MerchantRefunds, NEW n \in MerchantRefunds, Later(m, n)
  PROVE  /\ \A result \in RefundResults : TrueResult(result, m) => TrueResult(result, n)
         /\ \A row \in ReversalRows : TrueRow(row, m) => TrueRow(row, n)
<1>1. m.amount \in Nat /\ n.amount \in Nat /\ Answer(m).status = m.status
  BY ReversalAssumption DEF MerchantRefunds, Answer
<1>2. ASSUME NEW result \in RefundResults, TrueResult(result, m) PROVE TrueResult(result, n)
  <2>1. result.amount \in Nat
    BY ReversalAssumption DEF RefundResults
  <2> QED BY <1>1, <1>2, <2>1 DEF TrueResult, Later
<1>3. ASSUME NEW row \in ReversalRows, TrueRow(row, m) PROVE TrueRow(row, n)
  <2>1. row.refunded \in Nat
    BY ReversalAssumption DEF ReversalRows
  <2>2. row.status \in Settled => n = m
    BY <1>3 DEF TrueRow, Later
  <2>3. row.status = "REFUNDED" => n = m
    BY <2>2 DEF Settled
  <2> QED BY <1>1, <1>3, <2>1, <2>2, <2>3 DEF TrueRow, Later
<1> QED BY <1>2, <1>3

LEMMA MerchantLater ==
  ASSUME TypeOK, [Next]_vars
  PROVE  \A r \in ReversalIds : Later(refund[r], refund'[r])
<1> USE DEF TypeOK
<1>0. \A r \in ReversalIds : refund[r].amount \in Nat /\ refund[r] \in MerchantRefunds
  BY ReversalAssumption DEF MerchantRefunds
<1>1. \A m \in MerchantRefunds : m.amount \in Nat => Later(m, m) /\ Later(m, Opened(m))
  BY DEF Later, Opened, MerchantRefunds
<1>2. ASSUME UNCHANGED refund PROVE \A r \in ReversalIds : Later(refund[r], refund'[r])
  BY <1>0, <1>1, <1>2
<1>3. ASSUME NEW q \in ReversalIds, refund' = [refund EXCEPT ![q] = Opened(@)]
      PROVE  \A r \in ReversalIds : Later(refund[r], refund'[r])
  BY <1>0, <1>1, <1>3
<1>4. ASSUME NEW q \in ReversalIds, NEW status, refund[q].status \notin {"REFUNDED", "REJECTED"},
             refund' = [refund EXCEPT ![q].status = status]
      PROVE  \A r \in ReversalIds : Later(refund[r], refund'[r])
  <2>1. refund'[q].amount = refund[q].amount
    BY <1>4 DEF MerchantRefunds
  <2>2. \A r \in ReversalIds \ {q} : refund'[r] = refund[r]
    BY <1>4
  <2> QED BY <1>0, <1>4, <2>1, <2>2 DEF Later
<1>5. ASSUME NEW q \in ReversalIds, MerchantPays(q)
      PROVE  \A r \in ReversalIds : Later(refund[r], refund'[r])
  <2>1. PICK amount \in (refund[q].amount + 1)..reversals[q].requested, revoked \in BOOLEAN :
          \/ refund' = [refund EXCEPT ![q] = [status |-> "REFUNDED", amount |-> amount,
                                              revoked |-> revoked]]
          \/ refund' = [refund EXCEPT ![q] = [status |-> "PARTIALLY_REFUNDED",
                                              amount |-> amount, revoked |-> FALSE]]
    BY <1>5 DEF MerchantPays
  <2>2. refund'[q].amount = amount /\ \A r \in ReversalIds \ {q} : refund'[r] = refund[r]
    BY <2>1
  <2>3. reversals[q].requested \in Nat
    BY ReversalAssumption DEF ReversalRows
  <2>4. refund[q].amount <= amount
    BY <1>0, <2>3
  <2>5. refund[q].status \notin {"REFUNDED", "REJECTED"}
    BY <1>5 DEF MerchantPays
  <2> QED BY <1>0, <2>2, <2>4, <2>5 DEF Later
<1>6. ASSUME NEW q \in ReversalIds, MerchantReceives(q) \/ MerchantRejects(q)
      PROVE  \A r \in ReversalIds : Later(refund[r], refund'[r])
  BY <1>3, <1>4, <1>6 DEF MerchantReceives, MerchantRejects
<1>7. ASSUME NEW t \in Slots, RefundAnswered(t) \/ RefundRaises(t)
      PROVE  \A r \in ReversalIds : Later(refund[r], refund'[r])
  BY <1>2, <1>3, <1>7, AttemptFields DEF RefundAnswered, RefundRaises
<1>8. ASSUME NEW t \in Slots, RefundUncertain(t)
      PROVE  \A r \in ReversalIds : Later(refund[r], refund'[r])
  <2> DEFINE q == slot[t].reversal
  <2>1. q \in ReversalIds
    BY AttemptFields
  <2>2. CASE refund[q].status = "NONE"
    BY <1>4, <1>8, <2>1, <2>2 DEF RefundUncertain
  <2>3. CASE refund[q].status # "NONE"
    <3>1. refund'[q] = refund[q]
      BY <1>8, <2>1, <2>3 DEF RefundUncertain, MerchantRefunds
    <3>2. \A r \in ReversalIds \ {q} : refund'[r] = refund[r]
      BY <1>8 DEF RefundUncertain
    <3> QED BY <1>0, <1>1, <3>1, <3>2
  <2> QED BY <2>2, <2>3
<1> QED
  BY <1>2, <1>5, <1>6, <1>7, <1>8
  DEF Next, ActivityStep, vars, merchant_vars, request_reversal, FulfillmentVerified, DispatchRead, DispatchStart, DispatchPublish, DispatcherCrash,
      Schedule, load_refund_state, QueryAnswered, QueryFails, persist_refund_result,
      PersistRefused, Complete, GiveUp, TimeoutOfDead, ActivityTimeout, WorkerCrash

(* _persist_refund_result writes a true row, leaves a settled one as it is, *)
(* and completes the run exactly when it settles the row.                   *)
LEMMA PersistTrue ==
  ASSUME TypeOK, LedgerInv, NEW t \in Slots, persist_refund_result(t)
  PROVE  /\ TrueRow(reversals'[slot[t].reversal], refund[slot[t].reversal])
         /\ reversals[slot[t].reversal].status \in Settled =>
              reversals'[slot[t].reversal] = reversals[slot[t].reversal]
         /\ runs'[slot[t].reversal] = "COMPLETED" <=>
              reversals'[slot[t].reversal].status \in Settled
         /\ fulfillment_status' # fulfillment_status =>
              /\ reversals'[slot[t].reversal].status = "REFUNDED"
              /\ refund[slot[t].reversal].revoked
         /\ \A q \in ReversalIds \ {slot[t].reversal} :
              reversals'[q] = reversals[q] /\ runs'[q] = runs[q]
<1> DEFINE r == slot[t].reversal
           result == slot[t].result
           row == reversals[r]
           m == refund[r]
           status == RefundStatus(row, result)
<1>1. /\ r \in ReversalIds /\ result \in RefundResults /\ m \in MerchantRefunds
      /\ row \in ReversalRows
  BY AttemptFields
<1>2. /\ TrueResult(result, m) /\ TrueRow(row, m)
      /\ result.amount \in Nat /\ m.amount \in Nat
  BY <1>1, ReversalAssumption
  DEF LedgerInv, persist_refund_result, RefundResults, MerchantRefunds
<1>3. /\ reversals'[r] = [row EXCEPT !.status = status, !.refunded = result.amount,
                                     !.confirmed = result.confirmed]
      /\ runs'[r] = IF Unsettled(result) THEN "RUNNING" ELSE "COMPLETED"
      /\ \A q \in ReversalIds \ {r} : reversals'[q] = reversals[q] /\ runs'[q] = runs[q]
      /\ ~RefundConflict(row, result)
      /\ fulfillment_status' # fulfillment_status => TakesAccess(status, result)
  BY <1>1 DEF persist_refund_result, TypeOK
<1>4. /\ Unsettled(result) => status \in {"PROVIDER_PENDING", "PARTIALLY_REFUNDED"}
      /\ result.status = "REJECTED" => status = "REJECTED"
      /\ result.status = "REFUNDED" => status \in {"REFUNDED", "COMPENSATION_REQUIRED"}
      /\ status = "REFUNDED" => result.amount = row.requested
      /\ result.status \in {"REFUNDED", "REJECTED"} <=> ~Unsettled(result)
  BY <1>1 DEF RefundStatus, Unsettled, RefundResults
<1>5. row.status \in Settled => status = row.status
  <2> SUFFICES ASSUME row.status \in Settled, status # row.status PROVE FALSE
    OBVIOUS
  <2>1. status \in Allowed[row.status]
    BY <1>3 DEF RefundConflict
  <2>2. Allowed[row.status] \subseteq {"COMPENSATED"}
    BY DEF Allowed, Settled, ReversalStatus
  <2> QED BY <1>1, <2>1, <2>2, RefundStatusType
<1>6. ~Unsettled(result) => /\ result.amount = m.amount /\ result.confirmed = TRUE
                            /\ result.status = m.status /\ result.revoked = m.revoked
  BY <1>2, <1>4 DEF TrueResult, Answer
<1>7. /\ reversals'[r].status = status
      /\ reversals'[r].refunded = result.amount
      /\ reversals'[r].confirmed = result.confirmed
      /\ reversals'[r].requested = row.requested
  BY <1>1, <1>3 DEF ReversalRows
<1>8. status \in Settled <=> ~Unsettled(result)
  BY <1>1, <1>4 DEF Settled, RefundResults
<1>9. TrueRow(reversals'[r], m)
  <2>1. reversals'[r].refunded <= m.amount
    BY <1>2, <1>7 DEF TrueResult
  <2>2. ASSUME status \in Settled
        PROVE  m.status = IF status = "REJECTED" THEN "REJECTED" ELSE "REFUNDED"
    BY <1>4, <1>6, <1>8, <2>2
  <2>3. status = "REFUNDED" => m.amount = row.requested
    BY <1>4, <1>6, <1>8 DEF Settled
  <2> QED BY <1>6, <1>7, <1>8, <2>1, <2>2, <2>3 DEF TrueRow
<1>10. row.status \in Settled => reversals'[r] = row
  <2> SUFFICES ASSUME row.status \in Settled PROVE reversals'[r] = row
    OBVIOUS
  <2>1. ~Unsettled(result) /\ status = row.status
    BY <1>5, <1>8
  <2>2. row.refunded = result.amount /\ row.confirmed = result.confirmed
    BY <1>2, <1>6, <2>1 DEF TrueRow
  <2>3. [row EXCEPT !.status = row.status, !.refunded = row.refunded,
                    !.confirmed = row.confirmed] = row
    BY <1>1 DEF ReversalRows
  <2> HIDE DEF row, status, result
  <2> QED BY <1>3, <2>1, <2>2, <2>3
<1>11. fulfillment_status' # fulfillment_status => status = "REFUNDED" /\ m.revoked
  BY <1>3, <1>4, <1>6 DEF TakesAccess, Settled, Unsettled
<1> QED BY <1>3, <1>7, <1>8, <1>9, <1>10, <1>11

(* How a step changes the rows: not at all, a new request, or a result.     *)
LEMMA RowSteps ==
  ASSUME TypeOK, LedgerInv, [Next]_vars
  PROVE  \/ UNCHANGED <<fulfillment_status, reversals>> /\ UNCHANGED runs
         \/ UNCHANGED <<fulfillment_status, reversals>> /\
              \E d \in Dispatchers : DispatchPublish(d)
         \/ FulfillmentVerified
         \/ \E r \in ReversalIds, requested \in 1..Amount : request_reversal(r, requested)
         \/ \E t \in Slots : persist_refund_result(t)
  BY DEF Next, ActivityStep, vars, row_vars, DispatchRead, DispatchStart, DispatchPublish,
         DispatcherCrash, Schedule, load_refund_state, RefundAnswered, RefundUncertain,
         RefundRaises, QueryAnswered, QueryFails, PersistRefused, Complete, GiveUp,
         TimeoutOfDead, ActivityTimeout, WorkerCrash, MerchantReceives, MerchantPays,
         MerchantRejects

(* A settled reversal keeps its row in every step.                          *)
LEMMA SettledStep ==
  ASSUME TypeOK, LedgerInv, [Next]_vars, NEW r \in ReversalIds, reversals[r].status \in Settled
  PROVE  reversals'[r] = reversals[r]
<1>1. CASE UNCHANGED reversals
  BY <1>1
<1>2. ASSUME NEW q \in ReversalIds, NEW requested \in 1..Amount, request_reversal(q, requested)
      PROVE  reversals'[r] = reversals[r]
  <2>1. q # r
    BY <1>2 DEF request_reversal, Settled
  <2> QED BY <1>2, <2>1 DEF request_reversal, TypeOK
<1>3. ASSUME NEW t \in Slots, persist_refund_result(t) PROVE reversals'[r] = reversals[r]
  BY <1>3, PersistTrue
<1> QED BY <1>1, <1>2, <1>3, RowSteps DEF FulfillmentVerified

(* Results waiting to be persisted stay true.                               *)
LEMMA ResultStep ==
  ASSUME TypeOK, TypeOK', LedgerInv, [Next]_vars, NEW t \in Slots, slot'[t].step = "PERSIST"
  PROVE  TrueResult(slot'[t].result, refund'[slot'[t].reversal])
<1>1. CASE slot'[t] = slot[t]
  <2>1. slot[t].step = "PERSIST" /\ TrueResult(slot[t].result, refund[slot[t].reversal])
    BY <1>1 DEF LedgerInv
  <2>2. /\ slot[t].result \in RefundResults /\ slot[t].reversal \in ReversalIds
        /\ refund[slot[t].reversal] \in MerchantRefunds
        /\ refund'[slot[t].reversal] \in MerchantRefunds
    BY AttemptFields DEF TypeOK
  <2> QED BY <1>1, <2>1, <2>2, TruthStays, MerchantLater
<1>2. \A m \in MerchantRefunds : TrueResult(Answer(m), m)
  BY ReversalAssumption DEF TrueResult, Answer, MerchantRefunds
<1>3. \A m \in MerchantRefunds : TrueResult(Unknown, m)
  BY ReversalAssumption DEF TrueResult, Unknown, MerchantRefunds
<1>4. ASSUME NEW result, Answered(t, result)
      PROVE  slot'[t].result = result /\ slot'[t].reversal = slot[t].reversal
  BY <1>4, AttemptFields DEF Answered, TypeOK, Attempts
<1>5. slot[t].reversal \in ReversalIds /\ refund[slot[t].reversal] \in MerchantRefunds
      /\ refund'[slot[t].reversal] \in MerchantRefunds
  BY AttemptFields DEF TypeOK
<1>6. CASE RefundAnswered(t)
  BY <1>2, <1>4, <1>5, <1>6 DEF RefundAnswered
<1>7. CASE RefundUncertain(t)
  BY <1>3, <1>4, <1>5, <1>7 DEF RefundUncertain
<1>8. CASE QueryAnswered(t)
  <2>1. Answered(t, Answer(refund[slot[t].reversal])) /\ refund' = refund
    BY <1>8 DEF QueryAnswered, To, TypeOK, Attempts, merchant_vars
  <2> QED BY <1>2, <1>4, <1>5, <2>1
<1>9. ASSUME NEW u \in Slots, u # t, ActivityStep(u) \/ GiveUp(u) \/ WorkerCrash(u)
      PROVE  slot'[t] = slot[t]
  BY <1>9 DEF ActivityStep, load_refund_state, RefundAnswered, RefundUncertain, RefundRaises,
              QueryAnswered, QueryFails, persist_refund_result, PersistRefused, Complete,
              GiveUp, WorkerCrash, To, Answered, TypeOK
<1>10. CASE load_refund_state(t) \/ RefundRaises(t) \/ QueryFails(t) \/ PersistRefused(t)
            \/ persist_refund_result(t)
  BY <1>10 DEF load_refund_state, RefundRaises, QueryFails, PersistRefused,
               persist_refund_result, To, TypeOK, Attempts
<1>11. CASE Complete(t) \/ GiveUp(t) \/ WorkerCrash(t)
  <2>1. Idle.step # "PERSIST" /\ [slot[t] EXCEPT !.step = "DEAD"].step # "PERSIST"
    BY AttemptFields DEF Idle, Attempts
  <2>2. slot'[t] \in {slot[t], Idle, [slot[t] EXCEPT !.step = "DEAD"]}
    BY <1>11 DEF Complete, GiveUp, WorkerCrash, TypeOK
  <2> QED BY <1>1, <2>1, <2>2
<1>12. ASSUME NEW r \in ReversalIds, NEW u \in Slots, Schedule(r, u)
       PROVE  slot'[t] = slot[t] \/ slot'[t].step # "PERSIST"
  BY <1>12 DEF Schedule, TypeOK
<1>13. CASE UNCHANGED slot
  BY <1>1, <1>13
<1> QED
  BY <1>1, <1>6, <1>7, <1>8, <1>9, <1>10, <1>11, <1>12, <1>13
  DEF Next, ActivityStep, vars, worker_vars, request_reversal, FulfillmentVerified, DispatchRead, DispatchStart, DispatchPublish, DispatcherCrash,
      TimeoutOfDead, ActivityTimeout, MerchantReceives, MerchantPays, MerchantRejects

LEMMA LedgerStep == TypeOK /\ TypeOK' /\ LedgerInv /\ [Next]_vars => LedgerInv'
<1> SUFFICES ASSUME TypeOK, TypeOK', LedgerInv, [Next]_vars PROVE LedgerInv'
  OBVIOUS
<1>1. \A t \in Slots : (slot[t].step = "PERSIST" =>
                          TrueResult(slot[t].result, refund[slot[t].reversal]))'
  BY ResultStep
<1>2. ASSUME NEW r \in ReversalIds PROVE TrueRow(reversals'[r], refund'[r])
  <2>1. /\ reversals'[r] \in ReversalRows /\ refund[r] \in MerchantRefunds
        /\ refund'[r] \in MerchantRefunds /\ Later(refund[r], refund'[r])
    BY MerchantLater DEF TypeOK
  <2>2. TrueRow(reversals'[r], refund[r])
    <3>1. CASE UNCHANGED reversals
      BY <3>1 DEF LedgerInv
    <3>2. ASSUME NEW q \in ReversalIds, NEW requested \in 1..Amount,
                 request_reversal(q, requested)
          PROVE  TrueRow(reversals'[r], refund[r])
      <4>1. CASE q = r
        <5>1. reversals'[r] = [status |-> "REQUESTED", requested |-> requested,
                               refunded |-> 0, confirmed |-> FALSE]
          BY <3>2, <4>1 DEF request_reversal, TypeOK
        <5> QED BY <2>1, <5>1, ReversalAssumption DEF TrueRow, Settled, MerchantRefunds
      <4>2. CASE q # r
        BY <3>2, <4>2 DEF request_reversal, TypeOK, LedgerInv
      <4> QED BY <4>1, <4>2
    <3>3. ASSUME NEW t \in Slots, persist_refund_result(t)
          PROVE  TrueRow(reversals'[r], refund[r])
      BY <3>3, PersistTrue DEF LedgerInv
    <3> QED BY <3>1, <3>2, <3>3, RowSteps DEF FulfillmentVerified
  <2> QED BY <2>1, <2>2, TruthStays
<1>3. ASSUME NEW r \in ReversalIds
      PROVE  runs'[r] = "COMPLETED" <=> reversals'[r].status \in Settled
  <2>0. runs[r] = "COMPLETED" <=> reversals[r].status \in Settled
    BY DEF LedgerInv, RunMatchesReversal
  <2>1. CASE UNCHANGED <<reversals, runs>>
    BY <2>0, <2>1
  <2>2. ASSUME NEW d \in Dispatchers, DispatchPublish(d)
        PROVE  runs'[r] = "COMPLETED" <=> reversals'[r].status \in Settled
    BY <2>0, <2>2 DEF DispatchPublish, TypeOK, Deliveries
  <2>3. ASSUME NEW q \in ReversalIds, NEW requested \in 1..Amount,
               request_reversal(q, requested)
        PROVE  runs'[r] = "COMPLETED" <=> reversals'[r].status \in Settled
    BY <2>0, <2>3 DEF request_reversal, TypeOK, Settled
  <2>4. ASSUME NEW t \in Slots, persist_refund_result(t)
        PROVE  runs'[r] = "COMPLETED" <=> reversals'[r].status \in Settled
    BY <2>0, <2>4, PersistTrue
  <2> QED BY <2>1, <2>2, <2>3, <2>4, RowSteps DEF FulfillmentVerified
<1>4. RevokedWasRefunded'
  <2> SUFFICES ASSUME fulfillment_status' = "REVOKED"
               PROVE  \E r \in ReversalIds :
                        reversals'[r].status = "REFUNDED" /\ refund'[r].revoked
    BY DEF RevokedWasRefunded
  <2>1. ASSUME NEW r \in ReversalIds, TrueRow(reversals'[r], refund[r]),
               reversals'[r].status = "REFUNDED", refund[r].revoked
        PROVE  reversals'[r].status = "REFUNDED" /\ refund'[r].revoked
    BY <2>1, MerchantLater DEF TrueRow, Settled, Later
  <2>2. CASE fulfillment_status = "REVOKED"
    <3>1. PICK r \in ReversalIds : reversals[r].status = "REFUNDED" /\ refund[r].revoked
      BY <2>2 DEF LedgerInv, RevokedWasRefunded
    <3>2. reversals'[r] = reversals[r]
      BY <3>1, SettledStep DEF Settled
    <3> QED BY <2>1, <3>1, <3>2 DEF LedgerInv
  <2>3. CASE fulfillment_status # "REVOKED"
    <3>1. PICK t \in Slots : persist_refund_result(t)
      BY <2>3, RowSteps DEF FulfillmentVerified, request_reversal
    <3>2. slot[t].reversal \in ReversalIds
      BY AttemptFields
    <3> QED BY <2>1, <2>3, <3>1, <3>2, PersistTrue
  <2> QED BY <2>2, <2>3
<1> QED BY <1>1, <1>2, <1>3, <1>4 DEF LedgerInv, RunMatchesReversal

LEMMA LedgerInit == Init => LedgerInv
<1> SUFFICES ASSUME Init PROVE LedgerInv
  OBVIOUS
<1>1. \A r \in ReversalIds : TrueRow(reversals[r], refund[r])
  BY DEF Init, TrueRow, NoReversal, Settled
<1>2. \A t \in Slots : slot[t].step # "PERSIST"
  BY DEF Init, Idle
<1>3. RunMatchesReversal /\ RevokedWasRefunded
  BY DEF Init, RunMatchesReversal, RevokedWasRefunded, NoReversal, Settled
<1> QED BY <1>1, <1>2, <1>3 DEF LedgerInv

LEMMA LedgerAlways == Spec => [](TypeOK /\ LedgerInv)
  BY LedgerInit, LedgerStep, RefundTypes, PTL DEF Spec

(* What a settled reversal says is what the merchant did, and the ledger is *)
(* never ahead of the merchant (_persist_refund_result).                    *)
THEOREM RefundLedgerTrue == Spec => []LedgerMatchesMerchant
<1>1. TypeOK /\ LedgerInv => LedgerMatchesMerchant
  BY DEF LedgerInv, TrueRow, LedgerMatchesMerchant, Settled
<1> QED BY <1>1, LedgerAlways, PTL

(* A run is COMPLETED exactly when its reversal is settled.                 *)
THEOREM RefundRunTrue == Spec => []RunMatchesReversal
<1>1. LedgerInv => RunMatchesReversal
  BY DEF LedgerInv
<1> QED BY <1>1, LedgerAlways, PTL

(* Fulfillment is REVOKED only for a refund with revoked entitlements.      *)
THEOREM RevocationTrue == Spec => []RevokedWasRefunded
<1>1. LedgerInv => RevokedWasRefunded
  BY DEF LedgerInv
<1> QED BY <1>1, LedgerAlways, PTL

(***************************************************************************)
(* The merchant pays back no more than was paid.                           *)
(***************************************************************************)

(* A reversal that does not count against the payment.                      *)
Uncommitted == {"NONE", "REJECTED", "CANCELLED"}

Paid == {"PARTIALLY_REFUNDED", "REFUNDED"}

(* What the merchant paid on a row is what was requested there, or less; it *)
(* pays nothing on a refund that it has not opened or that it rejects.      *)
WithinRequest(row, m) ==
  /\ row.status # "CANCELLED"
  /\ row.status = "NONE" => row.requested = 0
  /\ m.amount <= row.requested
  /\ m.status \notin Paid => m.amount = 0

(* A rejected row frees its amount for later requests: nothing was paid on  *)
(* it, so what was paid stays within what still counts, and that within the *)
(* payment.                                                                 *)
PaymentInv ==
  /\ \A r \in ReversalIds : WithinRequest(reversals[r], refund[r])
  /\ Committed <= Amount

(* The units of amounts that are no larger than the payment are finitely    *)
(* many.                                                                    *)
LEMMA UnitsFinite ==
  ASSUME NEW f \in [ReversalIds -> 0..Amount], NEW S \in SUBSET ReversalIds
  PROVE  IsFiniteSet(Units(f, S)) /\ Cardinality(Units(f, S)) \in Nat
<1>1. MaxReversals \in Int /\ Amount \in Int /\ 1 \in Int
  BY ReversalAssumption
<1>2. IsFiniteSet(ReversalIds \X (1..Amount))
  BY <1>1, FS_Interval, FS_Product DEF ReversalIds
<1>3. Units(f, S) \in SUBSET (ReversalIds \X (1..Amount))
  <2> SUFFICES ASSUME NEW r \in S, NEW u \in {r} \X (1..f[r])
               PROVE  u \in ReversalIds \X (1..Amount)
    BY DEF Units
  <2>1. f[r] \in 0..Amount
    OBVIOUS
  <2>2. 1..f[r] \subseteq 1..Amount
    BY <1>1, <2>1
  <2> QED BY <2>2
<1> QED BY <1>2, <1>3, FS_Subset, FS_CardinalityType

(* More reversals with larger amounts have a larger total.                  *)
LEMMA TotalMonotone ==
  ASSUME NEW f \in [ReversalIds -> 0..Amount], NEW g \in [ReversalIds -> 0..Amount],
         NEW S \in SUBSET ReversalIds, NEW T \in SUBSET ReversalIds,
         \A r \in S : f[r] = 0 \/ (r \in T /\ f[r] <= g[r])
  PROVE  Total(f, S) <= Total(g, T)
<1>1. Units(f, S) \in SUBSET Units(g, T)
  <2> SUFFICES ASSUME NEW r \in S, NEW u \in {r} \X (1..f[r]) PROVE u \in Units(g, T)
    BY DEF Units
  <2>1. f[r] \in 0..Amount /\ g[r] \in 0..Amount /\ Amount \in Nat
    BY ReversalAssumption
  <2>2. r \in T /\ 1..f[r] \subseteq 1..g[r]
    BY <2>1
  <2> QED BY <2>2 DEF Units
<1> QED BY <1>1, UnitsFinite, FS_Subset DEF Total

(* One reversal more raises the total by its amount at most.                *)
LEMMA TotalExtended ==
  ASSUME NEW f \in [ReversalIds -> 0..Amount], NEW g \in [ReversalIds -> 0..Amount],
         NEW S \in SUBSET ReversalIds, NEW T \in SUBSET ReversalIds, NEW q \in ReversalIds,
         \A r \in S \ {q} : r \in T /\ f[r] = g[r]
  PROVE  Total(f, S) <= Total(g, T) + f[q]
<1> DEFINE New == {q} \X (1..f[q])
<1>1. f[q] \in Nat /\ f[q] \in Int /\ 1 \in Int
  BY ReversalAssumption
<1>2. IsFiniteSet(New) /\ Cardinality(New) = f[q]
  <2>1. IsFiniteSet(1..f[q]) /\ Cardinality(1..f[q]) = f[q]
    BY <1>1, FS_Interval
  <2>2. IsFiniteSet({q}) /\ Cardinality({q}) = 1
    BY FS_Singleton
  <2>3. IsFiniteSet(New) /\ Cardinality(New) = 1 * f[q]
    <3> HIDE DEF New
    <3>1. \A A, B : IsFiniteSet(A) /\ IsFiniteSet(B) =>
            /\ IsFiniteSet(A \X B)
            /\ Cardinality(A \X B) = Cardinality(A) * Cardinality(B)
      BY FS_Product
    <3> QED BY <2>1, <2>2, <3>1 DEF New
  <2> QED BY <1>1, <2>3
<1>3. Units(f, S) \in SUBSET (Units(g, T) \cup New)
  BY DEF Units
<1>4. /\ IsFiniteSet(Units(g, T)) /\ Cardinality(Units(g, T)) \in Nat
      /\ Cardinality(Units(f, S)) \in Nat
  BY UnitsFinite
<1> HIDE DEF New
<1>5. /\ IsFiniteSet(Units(g, T) \cup New)
      /\ Cardinality(Units(g, T) \cup New) =
           Cardinality(Units(g, T)) + Cardinality(New) - Cardinality(Units(g, T) \cap New)
  BY <1>2, <1>4, FS_Union
<1>6. Cardinality(Units(g, T) \cap New) \in Nat
  BY <1>2, FS_Subset, FS_CardinalityType
<1>7. Cardinality(Units(f, S)) <= Cardinality(Units(g, T) \cup New)
  BY <1>3, <1>5, FS_Subset
<1> QED BY <1>1, <1>2, <1>4, <1>5, <1>6, <1>7 DEF Total

(* How a step changes what the merchant paid on a reversal: not at all, or  *)
(* it pays within the request as it stands.                                 *)
LEMMA RefundSteps ==
  ASSUME TypeOK, [Next]_vars, NEW r \in ReversalIds
  PROVE  \/ refund'[r] = refund[r]
         \/ /\ reversals' = reversals
            /\ \/ /\ refund'[r].amount = refund[r].amount
                  /\ refund'[r].status \notin Paid => refund[r].status \notin Paid
               \/ refund'[r].status \in Paid /\ refund'[r].amount <= reversals[r].requested
<1> DEFINE Good == \/ refund'[r] = refund[r]
                   \/ /\ reversals' = reversals
                      /\ \/ /\ refund'[r].amount = refund[r].amount
                            /\ refund'[r].status \notin Paid => refund[r].status \notin Paid
                         \/ /\ refund'[r].status \in Paid
                            /\ refund'[r].amount <= reversals[r].requested
<1>1. \A m \in MerchantRefunds :
         /\ Opened(m).amount = m.amount
         /\ Opened(m).status \notin Paid => m.status \notin Paid
  BY DEF Opened, MerchantRefunds, Paid
<1>2. refund[r] \in MerchantRefunds
  BY DEF TypeOK
<1>3. ASSUME NEW q \in ReversalIds, refund' = [refund EXCEPT ![q] = Opened(@)],
             reversals' = reversals
      PROVE  Good
  BY <1>1, <1>2, <1>3 DEF TypeOK
<1>4. ASSUME NEW t \in Slots, RefundAnswered(t) \/ RefundRaises(t) PROVE Good
  BY <1>3, <1>4, AttemptFields DEF RefundAnswered, RefundRaises, row_vars
<1>5. ASSUME NEW t \in Slots, RefundUncertain(t) PROVE Good
  BY <1>2, <1>5, AttemptFields DEF RefundUncertain, row_vars, TypeOK, MerchantRefunds, Paid
<1>6. ASSUME NEW q \in ReversalIds, MerchantReceives(q) PROVE Good
  BY <1>3, <1>6 DEF MerchantReceives, row_vars
<1>7. ASSUME NEW q \in ReversalIds, MerchantPays(q) PROVE Good
  <2>1. CASE q # r
    BY <2>1, <1>7 DEF MerchantPays, TypeOK
  <2>2. CASE q = r
    <3>1. PICK amount \in (refund[r].amount + 1)..reversals[r].requested :
            refund'[r].status \in Paid /\ refund'[r].amount = amount
      BY <1>7, <2>2 DEF MerchantPays, TypeOK, Paid
    <3>2. reversals[r].requested \in Nat /\ refund[r].amount \in Nat
      BY ReversalAssumption DEF TypeOK, ReversalRows, MerchantRefunds
    <3>3. refund'[r].amount <= reversals[r].requested
      BY <3>1, <3>2
    <3> QED BY <1>7, <3>1, <3>3 DEF MerchantPays, row_vars
  <2> QED BY <2>1, <2>2
<1>8. ASSUME NEW q \in ReversalIds, MerchantRejects(q) PROVE Good
  BY <1>2, <1>8 DEF MerchantRejects, row_vars, TypeOK, MerchantRefunds, Paid
<1> QED
  BY <1>4, <1>5, <1>6, <1>7, <1>8
  DEF Next, ActivityStep, vars, merchant_vars, request_reversal, FulfillmentVerified, DispatchRead, DispatchStart, DispatchPublish, DispatcherCrash,
      Schedule, load_refund_state, QueryAnswered, QueryFails, persist_refund_result,
      PersistRefused, Complete, GiveUp, TimeoutOfDead, ActivityTimeout, WorkerCrash

(* _persist_refund_result keeps what was requested, and never brings a row  *)
(* back among those that do not count, nor cancels one.                     *)
LEMMA PersistKeepsRequest ==
  ASSUME TypeOK, LedgerInv, NEW t \in Slots, persist_refund_result(t), NEW r \in ReversalIds
  PROVE  /\ reversals'[r].requested = reversals[r].requested
         /\ reversals[r].status \in {"NONE", "REJECTED"} =>
              reversals'[r].status = reversals[r].status
         /\ reversals[r].status # "CANCELLED" => reversals'[r].status # "CANCELLED"
         /\ reversals[r].status # "NONE" => reversals'[r].status # "NONE"
<1> DEFINE q == slot[t].reversal
           status == RefundStatus(reversals[q], slot[t].result)
<1>1. q \in ReversalIds /\ slot[t].result \in RefundResults /\ reversals[q] \in ReversalRows
  BY AttemptFields
<1>2. CASE r # q
  BY <1>2, PersistTrue
<1>3. CASE r = q
  <2>1. /\ reversals'[q].status = status
        /\ reversals'[q].requested = reversals[q].requested
    BY <1>1 DEF persist_refund_result, TypeOK, ReversalRows
  <2>2. status \notin {"NONE", "CANCELLED"}
    BY <1>1, RefundStatusType
  <2>3. reversals[q].status = "REJECTED" => reversals'[q] = reversals[q]
    BY PersistTrue DEF Settled
  <2>4. reversals[q].status # "NONE"
    <3>1. Allowed["NONE"] = {}
      BY DEF Allowed
    <3> QED BY <2>2, <3>1 DEF persist_refund_result, RefundConflict
  <2> HIDE DEF status, q
  <2> QED BY <1>3, <2>1, <2>2, <2>3, <2>4
<1> QED BY <1>2, <1>3

LEMMA PaymentRowsStep ==
  ASSUME TypeOK, TypeOK', LedgerInv, PaymentInv, [Next]_vars, NEW r \in ReversalIds
  PROVE  WithinRequest(reversals'[r], refund'[r])
<1>1. /\ reversals[r].requested \in Nat /\ reversals'[r].requested \in Nat
      /\ refund[r].amount \in Nat /\ refund'[r].amount \in Nat
  BY ReversalAssumption DEF TypeOK, ReversalRows, MerchantRefunds
<1>2. WithinRequest(reversals[r], refund[r])
  BY DEF PaymentInv
<1>3. WithinRequest(reversals'[r], refund[r])
  <2>1. CASE UNCHANGED reversals
    BY <1>2, <2>1
  <2>2. ASSUME NEW q \in ReversalIds, NEW requested \in 1..Amount,
               request_reversal(q, requested)
        PROVE  WithinRequest(reversals'[r], refund[r])
    <3>1. CASE q # r
      BY <1>2, <2>2, <3>1 DEF request_reversal, TypeOK
    <3>2. CASE q = r
      <4>1. reversals[r].status = "NONE" /\ reversals'[r].status = "REQUESTED"
        BY <2>2, <3>2 DEF request_reversal, TypeOK
      <4> QED BY <1>1, <1>2, <4>1 DEF WithinRequest
    <3> QED BY <3>1, <3>2
  <2>3. ASSUME NEW t \in Slots, persist_refund_result(t)
        PROVE  WithinRequest(reversals'[r], refund[r])
    BY <1>2, <2>3, PersistKeepsRequest DEF WithinRequest
  <2> QED BY <2>1, <2>2, <2>3, RowSteps DEF FulfillmentVerified
<1> QED BY <1>1, <1>2, <1>3, RefundSteps DEF WithinRequest

(* What counts against the payment stays within it: a request adds no more  *)
(* than remains, and a result adds nothing.                                 *)
LEMMA CommittedStep ==
  ASSUME TypeOK, TypeOK', LedgerInv, PaymentInv, [Next]_vars
  PROVE  Committed' <= Amount
<1> DEFINE f == [r \in ReversalIds |-> reversals[r].requested]
           g == [r \in ReversalIds |-> reversals'[r].requested]
           S == {r \in ReversalIds : reversals[r].status \notin Uncommitted}
           T == {r \in ReversalIds : reversals'[r].status \notin Uncommitted}
<1>1. /\ f \in [ReversalIds -> 0..Amount] /\ g \in [ReversalIds -> 0..Amount]
      /\ S \in SUBSET ReversalIds /\ T \in SUBSET ReversalIds
  BY DEF TypeOK, ReversalRows
<1>2. Committed = Total(f, S) /\ Committed' = Total(g, T) /\ Committed <= Amount
  BY DEF Committed, PaymentInv, Uncommitted
<1>3. /\ Amount \in Nat /\ Total(f, S) \in Nat /\ Total(g, T) \in Nat
      /\ \A r \in ReversalIds : f[r] \in Nat /\ g[r] \in Nat
  BY <1>1, ReversalAssumption, UnitsFinite DEF Total
<1>4. CASE UNCHANGED reversals
  BY <1>2, <1>4
<1>5. ASSUME NEW t \in Slots, persist_refund_result(t) PROVE Committed' <= Amount
  <2>1. \A r \in T : r \in S /\ g[r] <= f[r]
    BY <1>3, <1>5, PersistKeepsRequest DEF Uncommitted, PaymentInv, WithinRequest
  <2> HIDE DEF f, g, S, T
  <2>2. Total(g, T) <= Total(f, S)
    BY <1>1, <2>1, TotalMonotone
  <2> QED BY <1>2, <1>3, <2>2
<1>6. ASSUME NEW q \in ReversalIds, NEW requested \in 1..Amount, request_reversal(q, requested)
      PROVE  Committed' <= Amount
  <2>1. requested <= Amount - Committed /\ g[q] = requested
    BY <1>6 DEF request_reversal, Remaining, TypeOK
  <2>2. \A r \in T \ {q} : r \in S /\ g[r] = f[r]
    BY <1>6 DEF request_reversal, TypeOK
  <2> HIDE DEF f, g, S, T
  <2>3. Total(g, T) <= Total(f, S) + g[q]
    BY <1>1, <2>2, TotalExtended
  <2> QED BY <1>2, <1>3, <2>1, <2>3
<1> QED BY <1>4, <1>5, <1>6, RowSteps DEF FulfillmentVerified

LEMMA PaymentInit == Init => PaymentInv
<1> SUFFICES ASSUME Init PROVE PaymentInv
  OBVIOUS
<1>1. \A r \in ReversalIds : WithinRequest(reversals[r], refund[r])
  BY DEF Init, WithinRequest, NoReversal
<1>2. Committed <= Amount
  <2>1. {r \in ReversalIds : reversals[r].status \notin Uncommitted} = {}
    BY DEF Init, NoReversal, Uncommitted
  <2>2. Committed = Cardinality({})
    BY <2>1 DEF Committed, Uncommitted, Total, Units
  <2> QED BY <2>2, FS_EmptySet, ReversalAssumption
<1> QED BY <1>1, <1>2 DEF PaymentInv

(* The merchant never pays back more than was paid: what it paid on a row   *)
(* counts against the payment, unless the row was rejected and nothing was. *)
THEOREM RefundsStayWithinPayment == Spec => []RefundsWithinPayment
<1>1. TypeOK /\ TypeOK' /\ LedgerInv /\ PaymentInv /\ [Next]_vars => PaymentInv'
  BY PaymentRowsStep, CommittedStep DEF PaymentInv
<1>2. ASSUME TypeOK, LedgerInv, PaymentInv PROVE RefundsWithinPayment
  <2> DEFINE f == [r \in ReversalIds |-> refund[r].amount]
             g == [r \in ReversalIds |-> reversals[r].requested]
             T == {r \in ReversalIds : reversals[r].status \notin Uncommitted}
  <2>1. /\ f \in [ReversalIds -> 0..Amount] /\ g \in [ReversalIds -> 0..Amount]
        /\ ReversalIds \in SUBSET ReversalIds /\ T \in SUBSET ReversalIds
    BY <1>2 DEF TypeOK, ReversalRows, MerchantRefunds
  <2>2. \A r \in ReversalIds : f[r] = 0 \/ (r \in T /\ f[r] <= g[r])
    <3> SUFFICES ASSUME NEW r \in ReversalIds PROVE f[r] = 0 \/ (r \in T /\ f[r] <= g[r])
      OBVIOUS
    <3>1. WithinRequest(reversals[r], refund[r]) /\ TrueRow(reversals[r], refund[r])
      BY <1>2 DEF PaymentInv, LedgerInv
    <3>2. refund[r].amount \in Nat
      BY <1>2, ReversalAssumption DEF TypeOK, MerchantRefunds
    <3>3. reversals[r].status = "REJECTED" => refund[r].amount = 0
      BY <3>1 DEF TrueRow, WithinRequest, Settled, Paid
    <3>4. reversals[r].status = "NONE" => refund[r].amount = 0
      BY <3>1, <3>2 DEF WithinRequest
    <3> QED BY <3>1, <3>3, <3>4 DEF WithinRequest, Uncommitted
  <2>3. Total(g, T) = Committed /\ Committed <= Amount
    BY <1>2 DEF Committed, PaymentInv, Uncommitted
  <2>4. Total(f, ReversalIds) \in Nat /\ Total(g, T) \in Nat /\ Amount \in Nat
    BY <2>1, UnitsFinite, ReversalAssumption DEF Total
  <2>5. RefundsWithinPayment <=> Total(f, ReversalIds) <= Amount
    BY DEF RefundsWithinPayment
  <2> HIDE DEF f, g, T
  <2>6. Total(f, ReversalIds) <= Total(g, T)
    BY <2>1, <2>2, TotalMonotone
  <2> QED BY <2>3, <2>4, <2>5, <2>6
<1> QED BY <1>1, <1>2, PaymentInit, LedgerAlways, PTL DEF Spec

(* A state shown as REFUNDED rests on one reversal, whose row is not ahead   *)
(* of the merchant (purchase_status).                                       *)
LEMMA ShownFollowsLedger ==
  ASSUME TypeOK, LedgerMatchesMerchant
  PROVE  ShownRefundTrue
<1> SUFFICES ASSUME purchase_state = "REFUNDED"
             PROVE  \E r \in ReversalIds :
                      refund[r].status = "REFUNDED" /\ refund[r].amount = Amount
  BY DEF ShownRefundTrue
<1>1. PICK r \in ReversalIds : reversals[r].status = "REFUNDED" /\ reversals[r].refunded = Amount
  BY DEF purchase_state
<1>2. refund[r].status = "REFUNDED" /\ Amount <= refund[r].amount
  BY <1>1 DEF LedgerMatchesMerchant
<1>3. refund[r].amount \in 0..Amount /\ Amount \in Nat
  BY ReversalAssumption DEF TypeOK, MerchantRefunds
<1> QED BY <1>2, <1>3

(* Run, fulfillment and reversal rows and the state shown of the purchase   *)
(* agree, whatever interleaves.                                             *)
THEOREM RefundRowsTrue == Spec => []RefundRowsAgree
<1>1. TypeOK /\ LedgerMatchesMerchant /\ RunMatchesReversal /\ RevokedWasRefunded
        => RefundRowsAgree
  BY ShownFollowsLedger DEF RefundRowsAgree
<1> QED BY <1>1, RefundTypes, RefundLedgerTrue, RefundRunTrue, RevocationTrue, PTL

(* No step, late attempts included, changes a settled reversal.             *)
THEOREM SettledIsFinal == Spec => SettledReversalStays
<1> DEFINE Stays == \A r \in ReversalIds :
                      reversals[r].status \in Settled => reversals'[r] = reversals[r]
<1>1. TypeOK /\ LedgerInv /\ [Next]_vars => [Stays]_vars
  BY SettledStep
<1>2. SettledReversalStays <=> [][Stays]_vars
  BY DEF SettledReversalStays
<1> HIDE DEF Stays
<1> QED BY <1>1, <1>2, LedgerAlways, PTL DEF Spec
=============================================================================
