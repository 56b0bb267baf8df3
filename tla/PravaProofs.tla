---------------------------- MODULE PravaProofs ----------------------------
(***************************************************************************)
(* What TLAPS proves of the two halves of the Prava integration:           *)
(* PravaShopping, for every set of requests, payment sessions, spellings   *)
(* of Prava's status, dispatchers, slots, polls, tries and faults; and     *)
(* PravaConnection, for every number of people, authorizations,            *)
(* overlapping calls and tokens.                                           *)
(***************************************************************************)
EXTENDS PravaShopping, PravaConnection, FiniteSetTheorems, TLAPS

(***************************************************************************)
(* The inductive invariant: types, one payment session, who acts because   *)
(* of whom, and what an attempt's answer says of Prava.                    *)
(***************************************************************************)
OneSession ==
  /\ payment.session = NoSession <=> payment.status = "NONE"
  /\ run.payment_session \in {NoSession, payment.session}
  /\ \A q \in Requests : request[q].step = "STORE" =>
       request[q].payment_session = payment.session /\ payment.session # NoSession
  /\ event.state # "NONE" =>
       event.payment_session = run.payment_session /\ run.payment_session # NoSession

Causes ==
  /\ \A d \in Dispatchers : dispatcher[d] # "IDLE" => event.state # "NONE"
  /\ workflow.step # "NONE" => event.state # "NONE"
  /\ \A t \in Slots : slot[t].step # "IDLE" => workflow.step # "NONE"

AnswersTrue ==
  /\ workflow.step = "CHECKOUT" => payment.status \in Approved
  /\ \A t \in Slots :
       /\ slot[t].step # "IDLE" /\ slot[t].activity = "CHECKOUT" => payment.status \in Approved
       /\ slot[t].status \in Approved \cup Refused => payment.status = slot[t].status

RunTrue ==
  /\ order_calls > 0 => payment.status \in Approved
  /\ workflow_run # "COMPLETED"
  /\ workflow_run = "FAILED" => payment.status \in Refused

Inv == TypeOK /\ OneSession /\ Causes /\ AnswersTrue /\ RunTrue

(***************************************************************************)
(* Lemmas about the operators the steps are built from.                    *)
(***************************************************************************)

(* What the workflow does after an attempt: its record stays in its domain, *)
(* it never returns to the start, and it asks for the order only after an   *)
(* approval.                                                                *)
LEMMA WorkflowFacts ==
  ASSUME NEW w \in Workflows, NEW status
  PROVE  /\ AfterSuccess(w, status) \in Workflows
         /\ AfterSuccess(w, status).step # "NONE"
         /\ AfterSuccess(w, status).step = "CHECKOUT" => status \in Approved
         /\ AfterFailure(w) \in Workflows
         /\ AfterFailure(w).step \in {w.step, "FAILED"}
<1>1. ASSUME NEW step \in {"STATUS", "CHECKOUT", "FAIL", "DONE", "FAILED"}
      PROVE  /\ Advance(w, step) \in Workflows
             /\ Advance(w, step).step = step
             /\ w.poll < MaxPolls =>
                  /\ [Advance(w, step) EXCEPT !.poll = w.poll + 1] \in Workflows
                  /\ [Advance(w, step) EXCEPT !.poll = w.poll + 1].step = step
  <2>1. step \in Activities \cup {"NONE", "DONE", "FAILED"} /\ 1 \in 1..MaxTries
    BY <1>1, ShoppingAssumption DEF Activities
  <2>2. w.poll < MaxPolls => w.poll + 1 \in 1..MaxPolls
    BY ShoppingAssumption DEF Workflows
  <2> QED BY <2>1, <2>2 DEF Advance, Workflows
<1>2. /\ AfterSuccess(w, status) \in Workflows
      /\ AfterSuccess(w, status).step # "NONE"
      /\ AfterSuccess(w, status).step = "CHECKOUT" => status \in Approved
  <2>1. CASE w.step # "STATUS"
    <3>1. AfterSuccess(w, status) = Advance(w, "DONE")
      BY <2>1 DEF AfterSuccess
    <3> QED BY <1>1, <3>1
  <2>2. CASE w.step = "STATUS" /\ status \in Approved
    <3>1. AfterSuccess(w, status) = Advance(w, "CHECKOUT")
      BY <2>2 DEF AfterSuccess, Approved, Refused
    <3> QED BY <1>1, <2>2, <3>1
  <2>3. CASE w.step = "STATUS" /\ status \in Refused
    <3>1. AfterSuccess(w, status) = Advance(w, "DONE")
      BY <2>3 DEF AfterSuccess, Approved, Refused
    <3> QED BY <1>1, <3>1
  <2>4. CASE w.step = "STATUS" /\ status \notin Approved \cup Refused
    <3>1. AfterSuccess(w, status) =
            IF w.poll < MaxPolls THEN [Advance(w, "STATUS") EXCEPT !.poll = w.poll + 1]
                                 ELSE Advance(w, "FAIL")
      BY <2>4 DEF AfterSuccess
    <3>2. CASE w.poll < MaxPolls
      BY <1>1, <3>1, <3>2
    <3>3. CASE ~(w.poll < MaxPolls)
      BY <1>1, <3>1, <3>3
    <3> QED BY <3>2, <3>3
  <2> QED BY <2>1, <2>2, <2>3, <2>4
<1>3. AfterFailure(w) \in Workflows /\ AfterFailure(w).step \in {w.step, "FAILED"}
  <2>1. CASE w.tries < MaxTries
    <3>1. w.tries + 1 \in 1..MaxTries
      BY <2>1, ShoppingAssumption DEF Workflows
    <3> QED BY <2>1, <3>1 DEF AfterFailure, Workflows
  <2>2. CASE ~(w.tries < MaxTries)
    BY <1>1, <2>2 DEF AfterFailure
  <2> QED BY <2>1, <2>2
<1> QED BY <1>2, <1>3

(* The idle slot.                                                           *)
LEMMA IdleFacts ==
  /\ Idle \in Attempts
  /\ Idle.step = "IDLE"
  /\ Idle.status \notin Approved \cup Refused
  BY DEF Idle, Attempts, Activities, Written, Approved, Refused

(* Prava's answer under the idempotency key is a payment that waits, or the *)
(* payment it already has.                                                  *)
LEMMA SessionFacts ==
  ASSUME TypeOK, OneSession, NEW p \in SessionUnderKey
  PROVE  /\ p \in [session : Sessions, status : ProviderStatuses \cup {"NONE"}]
         /\ p.session # NoSession /\ p.status # "NONE"
         /\ payment.session # NoSession => p = payment
<1>1. CASE payment.session = NoSession
  BY <1>1, ShoppingAssumption DEF SessionUnderKey, Sessions, Waiting
<1>2. CASE payment.session # NoSession
  BY <1>2 DEF SessionUnderKey, TypeOK, OneSession
<1> QED BY <1>1, <1>2

(* What Prava's payment may become: unchanged once the payer decided, and   *)
(* never without a session again.  The answers already given stay true.     *)
LEMMA PaymentMoves ==
  ASSUME Inv, payment' = payment \/ payment.status \in Waiting \cup {"NONE"},
         UNCHANGED <<workflow, slot, workflow_run, order_calls>>
  PROVE  AnswersTrue' /\ RunTrue'
<1>1. CASE payment' = payment
  BY <1>1 DEF Inv, AnswersTrue, RunTrue
<1>2. CASE payment.status \in Waiting \cup {"NONE"}
  <2>1. payment.status \notin Approved \cup Refused
    BY <1>2 DEF Waiting, Approved, Refused
  <2> QED BY <2>1 DEF Inv, AnswersTrue, RunTrue
<1> QED BY <1>1, <1>2

(***************************************************************************)
(* The invariant holds initially and every step keeps it.                  *)
(***************************************************************************)
LEMMA InvInit == Init => Inv
<1> SUFFICES ASSUME Init PROVE Inv
  OBVIOUS
<1>1. TypeOK
  <2>1. 1 \in 1..MaxPolls /\ 1 \in 1..MaxTries
    BY ShoppingAssumption
  <2> QED BY <2>1, IdleFacts DEF Init, TypeOK, Sessions, Workflows, RunStatus
<1>2. OneSession /\ Causes
  BY IdleFacts DEF Init, OneSession, Causes
<1>3. AnswersTrue /\ RunTrue
  BY IdleFacts DEF Init, AnswersTrue, RunTrue
<1> QED BY <1>1, <1>2, <1>3 DEF Inv

(* The API's steps and the payer's.                                         *)
LEMMA ApiStep ==
  ASSUME Inv,
         \/ quote \/ queue_checkout \/ PayerDecides
         \/ \E q \in Requests : \/ create_payment_session(q) \/ PravaOpensSession(q)
                                \/ CreateFails(q) \/ StorePaymentSession(q)
  PROVE  Inv'
<1> USE DEF Inv
<1>1. CASE quote
  BY <1>1 DEF quote, TypeOK, OneSession, Causes, AnswersTrue, RunTrue, worker_vars,
              prava_vars, RunStatus
<1>2. CASE queue_checkout
  <2>1. run' = [run EXCEPT !.status = "QUEUED"] /\ run.payment_session # NoSession
    BY <1>2 DEF queue_checkout
  <2>2. UNCHANGED <<request, dispatcher, workflow, slot, payment, order_calls,
                    order_placed, faults>>
    BY <1>2 DEF queue_checkout, worker_vars, prava_vars
  <2>3. \/ /\ workflow_run' = "PENDING"
           /\ event' = [state |-> "UNPUBLISHED", payment_session |-> run.payment_session]
        \/ UNCHANGED <<workflow_run, event>>
    BY <1>2 DEF queue_checkout
  <2>4. TypeOK'
    BY <2>1, <2>2, <2>3 DEF TypeOK, RunStatus
  <2>5. OneSession'
    BY <2>1, <2>2, <2>3 DEF OneSession, TypeOK
  <2>6. Causes'
    BY <2>2, <2>3 DEF Causes
  <2>7. AnswersTrue' /\ RunTrue'
    BY <2>2, <2>3 DEF AnswersTrue, RunTrue
  <2> QED BY <2>4, <2>5, <2>6, <2>7
<1>3. CASE PayerDecides
  <2>1. /\ payment.status \in Waiting
        /\ payment'.session = payment.session
        /\ payment'.status \in ProviderStatuses
        /\ payment' \in [session : Sessions, status : ProviderStatuses \cup {"NONE"}]
    BY <1>3 DEF PayerDecides, TypeOK
  <2>2. UNCHANGED <<run, workflow_run, event, request, dispatcher, workflow, slot,
                    order_calls, order_placed, faults>>
    BY <1>3 DEF PayerDecides, worker_vars, row_vars
  <2>3. payment'.status # "NONE" /\ payment.status # "NONE"
    BY <2>1, ShoppingAssumption DEF Waiting
  <2>4. TypeOK'
    BY <2>1, <2>2 DEF TypeOK
  <2>5. OneSession' /\ Causes'
    BY <2>1, <2>2, <2>3 DEF OneSession, Causes
  <2> QED BY <2>1, <2>2, <2>4, <2>5, PaymentMoves
<1>4. ASSUME NEW q \in Requests, create_payment_session(q) PROVE Inv'
  BY <1>4 DEF create_payment_session, TypeOK, OneSession, Causes, AnswersTrue, RunTrue,
              row_vars, worker_vars, prava_vars
<1>5. ASSUME NEW q \in Requests, PravaOpensSession(q) PROVE Inv'
  <2>1. UNCHANGED <<run, workflow_run, event, dispatcher, workflow, slot,
                    order_calls, order_placed, faults>>
    BY <1>5 DEF PravaOpensSession, worker_vars, row_vars
  <2>2. /\ payment' \in [session : Sessions, status : ProviderStatuses \cup {"NONE"}]
        /\ payment'.session # NoSession /\ payment'.status # "NONE"
        /\ payment.session # NoSession => payment' = payment
    BY <1>5, SessionFacts DEF PravaOpensSession
  <2>3. request' = [request EXCEPT ![q] = [step |-> "STORE",
                                           payment_session |-> payment'.session]]
    BY <1>5 DEF PravaOpensSession
  <2>4. TypeOK'
    BY <2>1, <2>2, <2>3 DEF TypeOK
  <2>5. OneSession'
    BY <2>1, <2>2, <2>3 DEF OneSession, TypeOK
  <2>6. Causes'
    BY <2>1 DEF Causes
  <2>7. payment' = payment \/ payment.status \in Waiting \cup {"NONE"}
    BY <2>2 DEF OneSession
  <2> QED BY <2>1, <2>4, <2>5, <2>6, <2>7, PaymentMoves
<1>6. ASSUME NEW q \in Requests, CreateFails(q) PROVE Inv'
  <2>1. UNCHANGED <<run, workflow_run, event, dispatcher, workflow, slot,
                    order_calls, order_placed>> /\ faults' = faults + 1
    BY <1>6 DEF CreateFails, worker_vars, row_vars, CountFault
  <2>2. \/ payment' = payment
        \/ /\ payment' \in [session : Sessions, status : ProviderStatuses \cup {"NONE"}]
           /\ payment'.session # NoSession /\ payment'.status # "NONE"
           /\ payment.session # NoSession => payment' = payment
    BY <1>6, SessionFacts DEF CreateFails
  <2>3. request' = [request EXCEPT ![q] = [step |-> "IDLE", payment_session |-> NoSession]]
    BY <1>6 DEF CreateFails
  <2>4. TypeOK'
    BY <2>1, <2>2, <2>3 DEF TypeOK, Sessions
  <2>5. OneSession'
    BY <2>1, <2>2, <2>3 DEF OneSession, TypeOK
  <2>6. Causes'
    BY <2>1 DEF Causes
  <2>7. payment' = payment \/ payment.status \in Waiting \cup {"NONE"}
    BY <2>2 DEF OneSession
  <2> QED BY <2>1, <2>4, <2>5, <2>6, <2>7, PaymentMoves
<1>7. ASSUME NEW q \in Requests, StorePaymentSession(q) PROVE Inv'
  <2>1. UNCHANGED <<workflow_run, event, dispatcher, workflow, slot, payment,
                    order_calls, order_placed, faults>>
    BY <1>7 DEF StorePaymentSession, worker_vars, prava_vars
  <2>2. /\ request[q].step = "STORE"
        /\ run' = [run EXCEPT !.payment_session = request[q].payment_session,
                              !.status = "AWAITING_APPROVAL"]
        /\ request' = [request EXCEPT ![q] = [step |-> "IDLE", payment_session |-> NoSession]]
    BY <1>7 DEF StorePaymentSession
  <2>3. TypeOK'
    BY <2>1, <2>2 DEF TypeOK, Sessions, RunStatus
  <2>4. OneSession'
    BY <2>1, <2>2 DEF OneSession, TypeOK
  <2>5. Causes' /\ AnswersTrue' /\ RunTrue'
    BY <2>1 DEF Causes, AnswersTrue, RunTrue
  <2> QED BY <2>3, <2>4, <2>5
<1> QED BY <1>1, <1>2, <1>3, <1>4, <1>5, <1>6, <1>7

(* The dispatcher's steps.                                                  *)
LEMMA DispatcherStep ==
  ASSUME Inv, NEW d \in Dispatchers,
         DispatchRead(d) \/ DispatchStart(d) \/ DispatchPublish(d) \/ DispatcherCrash(d)
  PROVE  Inv'
<1> USE DEF Inv
<1>1. CASE DispatchRead(d)
  BY <1>1 DEF DispatchRead, TypeOK, OneSession, Causes, AnswersTrue, RunTrue,
              row_vars, prava_vars
<1>2. CASE DispatchStart(d)
  <2>1. UNCHANGED <<run, workflow_run, event, request, slot, payment, order_calls,
                    order_placed, faults>>
    BY <1>2 DEF DispatchStart, row_vars, prava_vars
  <2>2. /\ dispatcher[d] = "READ"
        /\ dispatcher' = [dispatcher EXCEPT ![d] = "STARTED"]
        /\ workflow' = StartedWorkflow
    BY <1>2 DEF DispatchStart
  <2>3. Started \in Workflows /\ Started.step = "STATUS"
    BY ShoppingAssumption DEF Started, Workflows, Activities
  <2>4. \/ workflow' = Started
        \/ workflow' = workflow
    BY <2>2 DEF StartedWorkflow
  <2>5. TypeOK'
    BY <2>1, <2>2, <2>3, <2>4 DEF TypeOK
  <2>6. OneSession' /\ RunTrue'
    BY <2>1 DEF OneSession, RunTrue
  <2>7. Causes'
    BY <2>1, <2>2, <2>3, <2>4 DEF Causes, TypeOK
  <2>8. AnswersTrue'
    BY <2>1, <2>3, <2>4 DEF AnswersTrue
  <2> QED BY <2>5, <2>6, <2>7, <2>8
<1>3. CASE DispatchPublish(d)
  <2>1. UNCHANGED <<run, request, workflow, slot, payment, order_calls, order_placed, faults>>
    BY <1>3 DEF DispatchPublish, prava_vars
  <2>2. /\ dispatcher[d] = "STARTED"
        /\ dispatcher' = [dispatcher EXCEPT ![d] = "IDLE"]
        /\ event' = [event EXCEPT !.state = "PUBLISHED"]
        /\ workflow_run' \in {"RUNNING", workflow_run}
    BY <1>3 DEF DispatchPublish, PublishedRun
  <2>3. TypeOK'
    BY <2>1, <2>2 DEF TypeOK
  <2>4. event.state # "NONE" /\ event'.state = "PUBLISHED"
        /\ event'.payment_session = event.payment_session
    BY <2>2 DEF Causes, TypeOK
  <2>5. OneSession' /\ Causes'
    BY <2>1, <2>2, <2>4 DEF OneSession, Causes, TypeOK
  <2>6. AnswersTrue' /\ RunTrue'
    BY <2>1, <2>2 DEF AnswersTrue, RunTrue
  <2> QED BY <2>3, <2>5, <2>6
<1>4. CASE DispatcherCrash(d)
  BY <1>4 DEF DispatcherCrash, CountFault, TypeOK, OneSession, Causes, AnswersTrue, RunTrue,
              row_vars, prava_vars
<1> QED BY <1>1, <1>2, <1>3, <1>4

(* An attempt runs only for a workflow that pays an open session.           *)
LEMMA AttemptFacts ==
  ASSUME Inv, NEW t \in Slots
  PROVE  /\ slot[t] \in Attempts
         /\ slot[t].step # "IDLE" =>
              workflow.step # "NONE" /\ payment.status \in ProviderStatuses
  BY DEF Inv, TypeOK, OneSession, Causes

(* The steps of Temporal and of the worker's activities.                    *)
LEMMA WorkerStep ==
  ASSUME Inv, NEW t \in Slots,
         \/ Schedule(t) \/ ActivityStep(t)
         \/ TimeoutOfDead(t) \/ ActivityTimeout(t) \/ WorkerCrash(t)
  PROVE  Inv'
<1> USE DEF Inv
<1>1. CASE Schedule(t)
  <2> DEFINE a == [Idle EXCEPT !.activity = workflow.step, !.step =
                     IF workflow.step = "FAIL" THEN "CHECKPOINT" ELSE "CALL"]
  <2>1. /\ workflow.step \in Activities
        /\ workflow' = [workflow EXCEPT !.awaits = t]
        /\ slot' = [slot EXCEPT ![t] = a]
        /\ UNCHANGED <<run, workflow_run, event, request, dispatcher, payment, order_calls,
                       order_placed, faults>>
    BY <1>1 DEF Schedule, row_vars, prava_vars
  <2>2. /\ a \in Attempts /\ a.step # "IDLE" /\ a.activity = workflow.step
        /\ a.status \notin Approved \cup Refused
    BY <2>1 DEF Idle, Attempts, Written, Approved, Refused, Activities
  <2>3. workflow' \in Workflows /\ workflow'.step = workflow.step /\ workflow.step # "NONE"
    BY <2>1 DEF TypeOK, Workflows, Activities
  <2> HIDE DEF a
  <2>4. TypeOK'
    BY <2>1, <2>2, <2>3 DEF TypeOK
  <2>5. OneSession' /\ RunTrue'
    BY <2>1 DEF OneSession, RunTrue
  <2>6. Causes'
    BY <2>1, <2>2, <2>3 DEF Causes, TypeOK
  <2>7. AnswersTrue'
    BY <2>1, <2>2, <2>3 DEF AnswersTrue, TypeOK
  <2> QED BY <2>4, <2>5, <2>6, <2>7
<1>2. CASE payment_status(t)
  <2>1. /\ slot[t].step = "CALL" /\ slot[t].activity = "STATUS"
        /\ slot' = [slot EXCEPT ![t].step = "CHECKPOINT", ![t].status = payment.status]
        /\ UNCHANGED <<run, workflow_run, event, request, dispatcher, workflow, payment,
                       order_calls, order_placed, faults>>
    BY <1>2 DEF payment_status, row_vars, prava_vars
  <2>2. slot[t] \in Attempts /\ payment.status \in Written
    BY <2>1, AttemptFacts DEF Written
  <2>3. TypeOK'
    BY <2>1, <2>2 DEF TypeOK, Attempts
  <2>4. OneSession' /\ RunTrue'
    BY <2>1 DEF OneSession, RunTrue
  <2>5. Causes'
    BY <2>1, <2>2 DEF Causes, TypeOK, Attempts
  <2>6. AnswersTrue'
    BY <2>1, <2>2 DEF AnswersTrue, TypeOK, Attempts
  <2> QED BY <2>3, <2>4, <2>5, <2>6
<1>3. CASE checkout(t)
  <2>1. /\ slot[t].step = "CALL" /\ slot[t].activity = "CHECKOUT"
        /\ order_calls' = order_calls + 1
        /\ order_placed' \in {order_placed, TRUE}
        /\ slot' = [slot EXCEPT ![t].step = "CHECKPOINT", ![t].status = payment.status,
                                ![t].ordered = order_placed']
        /\ UNCHANGED <<run, workflow_run, event, request, dispatcher, workflow, payment, faults>>
    BY <1>3 DEF checkout, row_vars
  <2>2. slot[t] \in Attempts /\ payment.status \in Written /\ order_placed' \in BOOLEAN
    BY <2>1, AttemptFacts DEF Written, TypeOK
  <2>3. payment.status \in Approved
    BY <2>1 DEF AnswersTrue
  <2>4. TypeOK'
    <3>1. slot' \in [Slots -> Attempts]
      BY <2>1, <2>2 DEF TypeOK, Attempts
    <3>2. order_calls' \in Nat /\ faults' \in Nat
      <4>1. order_calls \in Nat /\ faults \in Nat
        BY DEF TypeOK
      <4>2. /\ order_calls' \in {order_calls, order_calls + 1}
            /\ faults' \in {faults, faults + 1}
        BY <2>1
      <4> QED BY <4>1, <4>2
    <3>3. order_placed' \in BOOLEAN
      BY <2>1, Zenon DEF TypeOK
    <3> QED BY <2>1, <3>1, <3>2, <3>3 DEF TypeOK
  <2>5. OneSession' /\ RunTrue'
    BY <2>1, <2>3 DEF OneSession, RunTrue
  <2>6. Causes'
    BY <2>1, <2>2 DEF Causes, TypeOK, Attempts
  <2>7. AnswersTrue'
    BY <2>1, <2>2 DEF AnswersTrue, TypeOK, Attempts
  <2> QED BY <2>4, <2>5, <2>6, <2>7
<1>4. CASE CallFails(t)
  <2>1. /\ slot[t].step = "CALL"
        /\ slot' = [slot EXCEPT ![t].step = "ERROR"]
        /\ faults' = faults + 1
        /\ UNCHANGED <<run, workflow_run, event, request, dispatcher, workflow, payment>>
        /\ \/ UNCHANGED <<order_calls, order_placed>>
           \/ /\ slot[t].activity = "CHECKOUT"
              /\ order_calls' = order_calls + 1
              /\ order_placed' \in {order_placed, TRUE}
    BY <1>4 DEF CallFails, row_vars, CountFault
  <2>2. slot[t] \in Attempts
    BY AttemptFacts
  <2>3. slot[t].activity = "CHECKOUT" => payment.status \in Approved
    BY <2>1 DEF AnswersTrue
  <2>4. TypeOK'
    <3>1. slot' \in [Slots -> Attempts]
      BY <2>1, <2>2 DEF TypeOK, Attempts
    <3>2. order_calls' \in Nat /\ faults' \in Nat
      <4>1. order_calls \in Nat /\ faults \in Nat
        BY DEF TypeOK
      <4>2. /\ order_calls' \in {order_calls, order_calls + 1}
            /\ faults' \in {faults, faults + 1}
        BY <2>1
      <4> QED BY <4>1, <4>2
    <3>3. order_placed' \in BOOLEAN
      BY <2>1, Zenon DEF TypeOK
    <3> QED BY <2>1, <3>1, <3>2, <3>3 DEF TypeOK
  <2>5. OneSession' /\ RunTrue'
    BY <2>1, <2>3 DEF OneSession, RunTrue
  <2>6. Causes'
    BY <2>1, <2>2 DEF Causes, TypeOK, Attempts
  <2>7. AnswersTrue'
    BY <2>1, <2>2 DEF AnswersTrue, TypeOK, Attempts
  <2> QED BY <2>4, <2>5, <2>6, <2>7
<1>5. CASE checkpoint(t)
  <2>1. /\ slot[t].step = "CHECKPOINT"
        /\ UNCHANGED <<event, request, dispatcher, workflow, payment, order_calls,
                       order_placed, faults>>
        /\ \/ slot' = [slot EXCEPT ![t].step = "OK"]
           \/ slot' = [slot EXCEPT ![t].step = "ERROR"]
    BY <1>5 DEF checkpoint, prava_vars
  <2>2. slot[t] \in Attempts
    BY AttemptFacts
  <2>3. \/ UNCHANGED <<run, workflow_run>>
        \/ /\ NewStatus(slot[t]) \in RunStatus
           /\ run' = [run EXCEPT !.status = NewStatus(slot[t]),
                                 !.ordered = run.ordered \/ slot[t].ordered]
           /\ workflow_run' = CheckpointedRun(slot[t])
    BY <1>5 DEF checkpoint
  <2>4. ASSUME NewStatus(slot[t]) \in RunStatus
        PROVE  \/ CheckpointedRun(slot[t]) = workflow_run
               \/ CheckpointedRun(slot[t]) = "FAILED" /\ payment.status \in Refused
    <3>1. slot[t].activity # "CHECKOUT" /\ slot[t].status \in RunStatus
      BY <2>4 DEF NewStatus, RunStatus
    <3>2. CASE slot[t].status \notin TerminalFailure
      BY <3>1, <3>2 DEF CheckpointedRun
    <3>3. CASE slot[t].status \in TerminalFailure
      <4>1. slot[t].status \in Refused
        BY <3>1, <3>3 DEF TerminalFailure, RunStatus
      <4>2. CheckpointedRun(slot[t]) = "FAILED"
        BY <3>1, <3>3 DEF CheckpointedRun
      <4> QED BY <4>1, <4>2 DEF AnswersTrue
    <3> QED BY <3>2, <3>3
  <2>5. TypeOK'
    <3>1. slot' \in [Slots -> Attempts]
      BY <2>1, <2>2 DEF TypeOK, Attempts
    <3>2. run' \in [status : RunStatus \cup {"NONE"}, payment_session : Sessions,
                    ordered : BOOLEAN]
      BY <2>2, <2>3 DEF TypeOK, Attempts
    <3>3. workflow_run' \in {workflow_run, "FAILED"}
      BY <2>3, <2>4
    <3> QED BY <2>1, <3>1, <3>2, <3>3 DEF TypeOK
  <2>6. run'.payment_session = run.payment_session
    BY <2>3 DEF TypeOK
  <2>7. OneSession'
    BY <2>1, <2>6 DEF OneSession
  <2>8. RunTrue'
    BY <2>1, <2>3, <2>4 DEF RunTrue
  <2>9. Causes'
    BY <2>1, <2>2 DEF Causes, TypeOK, Attempts
  <2>10. AnswersTrue'
    <3>1. \A u \in Slots : /\ slot'[u].activity = slot[u].activity
                           /\ slot'[u].status = slot[u].status
                           /\ slot'[u].step # "IDLE" => slot[u].step # "IDLE"
      BY <2>1, <2>2 DEF TypeOK, Attempts
    <3> QED BY <2>1, <3>1 DEF AnswersTrue
  <2> QED BY <2>5, <2>7, <2>8, <2>9, <2>10
<1>6. CASE Complete(t)
  <2>1. /\ slot[t].step \in {"OK", "ERROR"}
        /\ \/ workflow' = workflow
           \/ workflow' = AfterSuccess(workflow, slot[t].status)
           \/ workflow' = AfterFailure(workflow)
        /\ slot' = [slot EXCEPT ![t] = Idle]
        /\ UNCHANGED <<run, workflow_run, event, request, dispatcher, payment, order_calls,
                       order_placed, faults>>
    BY <1>6 DEF Complete, row_vars, prava_vars
  <2>2. workflow.step # "NONE"
    BY <2>1, AttemptFacts
  <2>3. /\ workflow' \in Workflows /\ workflow'.step # "NONE"
        /\ workflow'.step = "CHECKOUT" => payment.status \in Approved
    <3>1. workflow \in Workflows
      BY DEF TypeOK
    <3>2. CASE workflow' = workflow
      BY <2>2, <3>1, <3>2 DEF AnswersTrue
    <3>3. CASE workflow' = AfterSuccess(workflow, slot[t].status)
      BY <3>1, <3>3, WorkflowFacts DEF AnswersTrue
    <3>4. CASE workflow' = AfterFailure(workflow)
      BY <2>2, <3>1, <3>4, WorkflowFacts DEF AnswersTrue
    <3> QED BY <2>1, <3>2, <3>3, <3>4
  <2>4. TypeOK'
    BY <2>1, <2>3, IdleFacts DEF TypeOK
  <2>5. OneSession' /\ RunTrue'
    BY <2>1 DEF OneSession, RunTrue
  <2>6. Causes'
    BY <2>1, <2>2, <2>3, IdleFacts DEF Causes, TypeOK
  <2>7. AnswersTrue'
    BY <2>1, <2>3, IdleFacts DEF AnswersTrue, TypeOK
  <2> QED BY <2>4, <2>5, <2>6, <2>7
<1>7. CASE TimeoutOfDead(t) \/ ActivityTimeout(t) \/ WorkerCrash(t)
  <2>1. /\ slot[t].step # "IDLE"
        /\ workflow' \in {workflow, AfterFailure(workflow)}
        /\ \/ slot' = slot
           \/ slot' = [slot EXCEPT ![t] = Idle]
           \/ slot' = [slot EXCEPT ![t].step = "DEAD"]
        /\ faults' \in {faults, faults + 1}
        /\ UNCHANGED <<run, workflow_run, event, request, dispatcher, payment, order_calls,
                       order_placed>>
    BY <1>7 DEF TimeoutOfDead, ActivityTimeout, WorkerCrash, GiveUp, CountFault, row_vars,
                prava_vars
  <2>2. slot[t] \in Attempts /\ workflow.step # "NONE"
    BY <2>1, AttemptFacts
  <2>3. /\ workflow' \in Workflows /\ workflow'.step # "NONE"
        /\ workflow'.step = "CHECKOUT" => payment.status \in Approved
    BY <2>1, <2>2, WorkflowFacts DEF TypeOK, AnswersTrue
  <2>4. TypeOK'
    <3>1. slot' \in [Slots -> Attempts]
      BY <2>1, <2>2, IdleFacts DEF TypeOK, Attempts
    <3>2. faults' \in Nat
      BY <2>1 DEF TypeOK
    <3> QED BY <2>1, <2>3, <3>1, <3>2 DEF TypeOK
  <2>5. OneSession' /\ RunTrue'
    BY <2>1 DEF OneSession, RunTrue
  <2>6. Causes'
    BY <2>1, <2>2, <2>3, IdleFacts DEF Causes, TypeOK, Attempts
  <2>7. AnswersTrue'
    BY <2>1, <2>2, <2>3, IdleFacts DEF AnswersTrue, TypeOK, Attempts
  <2> QED BY <2>4, <2>5, <2>6, <2>7
<1> QED BY <1>1, <1>2, <1>3, <1>4, <1>5, <1>6, <1>7 DEF ActivityStep

LEMMA InvStep == Inv /\ [Next]_vars => Inv'
<1> SUFFICES ASSUME Inv, [Next]_vars PROVE Inv'
  OBVIOUS
<1>1. CASE Next
  BY <1>1, ApiStep, DispatcherStep, WorkerStep DEF Next
<1>2. CASE UNCHANGED vars
  BY <1>2 DEF vars, row_vars, worker_vars, prava_vars, Inv, TypeOK, OneSession, Causes,
              AnswersTrue, RunTrue
<1> QED BY <1>1, <1>2

LEMMA InvAlways == Spec => []Inv
  BY InvInit, InvStep, PTL DEF Spec

(***************************************************************************)
(* The theorems.                                                           *)
(***************************************************************************)

(* Rows, event, workflow and attempts of a shopping run stay in their       *)
(* domains, polls and retries within their bounds.                          *)
THEOREM ShoppingTypes == Spec => []TypeOK
<1>1. Inv => TypeOK
  BY DEF Inv
<1> QED BY <1>1, InvAlways, PTL

(* PravaShoppingWorkflow asks for the order only once the payer approved.   *)
THEOREM OrderNeedsApproval == Spec => []OrderOnlyAfterApproval
<1>1. Inv => OrderOnlyAfterApproval
  BY DEF Inv, RunTrue, OrderOnlyAfterApproval
<1> QED BY <1>1, InvAlways, PTL

(* The session the workflow pays is the one create_payment_session showed.  *)
THEOREM PaidSessionShown == Spec => []SessionPaidIsShown
<1>1. Inv => SessionPaidIsShown
  BY DEF Inv, OneSession, SessionPaidIsShown
<1> QED BY <1>1, InvAlways, PTL

(* A WorkflowRun is FAILED only for a payment the payer refused, or was     *)
(* asked about MaxPolls times.                                              *)
THEOREM FailureTrue == Spec => []FailedRunIsTrue
<1>1. Inv => FailedRunIsTrue
  BY DEF Inv, RunTrue, FailedRunIsTrue
<1> QED BY <1>1, InvAlways, PTL

(* The buyer is shown the session that is paid and the reason of a failure. *)
THEOREM ShownTrue == Spec => []ShownIsTrue
<1>1. SessionPaidIsShown /\ FailedRunIsTrue => ShownIsTrue
  BY DEF ShownIsTrue
<1> QED BY <1>1, PaidSessionShown, FailureTrue, PTL

(* A WorkflowRun that ended stays as it is.                                 *)
THEOREM EndedStays == Spec => EndedRunStays
<1>1. ASSUME Inv, [Next]_vars
      PROVE  workflow_run \in {"COMPLETED", "FAILED"} => workflow_run' = workflow_run
  <2> SUFFICES ASSUME workflow_run \in {"COMPLETED", "FAILED"}
               PROVE  workflow_run' = workflow_run
    OBVIOUS
  <2>1. CASE queue_checkout
    BY <2>1 DEF queue_checkout
  <2>2. ASSUME NEW d \in Dispatchers, DispatchPublish(d) PROVE workflow_run' = workflow_run
    BY <2>2 DEF DispatchPublish, PublishedRun
  <2>3. ASSUME NEW t \in Slots, checkpoint(t) PROVE workflow_run' = workflow_run
    <3>1. workflow_run = "FAILED"
      BY <1>1 DEF Inv, RunTrue
    <3>2. CASE NewStatus(slot[t]) \in RunStatus
      <4>1. slot[t].activity # "CHECKOUT"
        BY <3>2 DEF NewStatus, RunStatus
      <4>2. workflow_run' = CheckpointedRun(slot[t])
        BY <2>3, <3>2 DEF checkpoint
      <4> QED BY <3>1, <4>1, <4>2 DEF CheckpointedRun
    <3>3. CASE NewStatus(slot[t]) \notin RunStatus
      BY <2>3, <3>3 DEF checkpoint
    <3> QED BY <3>2, <3>3
  <2>4. ASSUME ~queue_checkout,
               \A d \in Dispatchers : ~DispatchPublish(d),
               \A t \in Slots : ~checkpoint(t)
        PROVE  workflow_run' = workflow_run
    BY <1>1, <2>4
       DEF Next, vars, row_vars, quote, create_payment_session, PravaOpensSession, CreateFails,
           StorePaymentSession, DispatchRead, DispatchStart, DispatcherCrash, Schedule,
           ActivityStep, payment_status, checkout, CallFails, Complete, PayerDecides,
           TimeoutOfDead, ActivityTimeout, WorkerCrash, GiveUp
  <2> QED BY <2>1, <2>2, <2>3, <2>4
<1>2. Inv /\ [Next]_vars =>
        [(workflow_run \in {"COMPLETED", "FAILED"}) => workflow_run' = workflow_run]_vars
  BY <1>1
<1> QED BY <1>2, InvAlways, PTL DEF Spec, EndedRunStays

(***************************************************************************)
(* The bound on order requests: calls made plus attempts about to call     *)
(* never exceed the attempts RetryPolicy has allowed so far.               *)
(***************************************************************************)
Pending == {t \in Slots : slot[t].step = "CALL" /\ slot[t].activity = "CHECKOUT"}

Allowed(w) ==
  IF w.step = "CHECKOUT" THEN IF w.awaits = NoSlot THEN w.tries - 1 ELSE w.tries
  ELSE IF w.step \in {"DONE", "FAILED"} THEN MaxTries ELSE 0

CallsAllowed == order_calls + Cardinality(Pending) <= Allowed(workflow)

(* Attempts allowed only grow, up to maximum_attempts.                      *)
LEMMA AllowedGrows ==
  ASSUME NEW w \in Workflows, NEW status
  PROVE  /\ Allowed(w) \in 0..MaxTries
         /\ Allowed(AfterSuccess(w, status)) >= Allowed(w)
         /\ Allowed(AfterFailure(w)) >= Allowed(w)
<1>1. Allowed(w) \in 0..MaxTries
  BY ShoppingAssumption DEF Allowed, Workflows
<1>2. Allowed(AfterSuccess(w, status)) >= Allowed(w)
  <2>1. CASE w.step # "STATUS"
    <3>1. AfterSuccess(w, status) = Advance(w, "DONE")
      BY <2>1 DEF AfterSuccess
    <3>2. AfterSuccess(w, status).step = "DONE"
      BY <3>1 DEF Advance, Workflows
    <3>3. Allowed(AfterSuccess(w, status)) = MaxTries
      BY <3>2 DEF Allowed
    <3> QED BY <1>1, <3>3, ShoppingAssumption
  <2>2. CASE w.step = "STATUS"
    <3>1. Allowed(w) = 0
      BY <2>2 DEF Allowed
    <3>2. AfterSuccess(w, status) \in Workflows
      BY WorkflowFacts
    <3>3. Allowed(AfterSuccess(w, status)) >= 0
      BY <3>2, ShoppingAssumption DEF Allowed, Workflows
    <3> QED BY <3>1, <3>3
  <2> QED BY <2>1, <2>2
<1>3. Allowed(AfterFailure(w)) >= Allowed(w)
  <2>1. CASE w.tries < MaxTries
    <3>1. /\ AfterFailure(w).step = w.step /\ AfterFailure(w).awaits = NoSlot
          /\ AfterFailure(w).tries = w.tries + 1
      BY <2>1 DEF AfterFailure, Workflows
    <3>2. w.tries \in Nat
      BY ShoppingAssumption DEF Workflows
    <3> QED BY <3>1, <3>2, ShoppingAssumption DEF Allowed
  <2>2. CASE ~(w.tries < MaxTries)
    <3>1. AfterFailure(w).step = "FAILED"
      BY <2>2 DEF AfterFailure, Advance, Workflows
    <3>2. Allowed(AfterFailure(w)) = MaxTries
      BY <3>1 DEF Allowed
    <3> QED BY <1>1, <3>2, ShoppingAssumption
  <2> QED BY <2>1, <2>2
<1> QED BY <1>1, <1>2, <1>3

(* Counting the attempts about to call.                                     *)
LEMMA PendingCounts ==
  /\ IsFiniteSet(Pending) /\ Cardinality(Pending) \in Nat
  /\ \A t \in Pending : Cardinality(Pending \ {t}) = Cardinality(Pending) - 1
  /\ \A t : Cardinality(Pending \cup {t}) <= Cardinality(Pending) + 1
  /\ \A S \in SUBSET Pending : Cardinality(S) \in Nat /\ Cardinality(S) <= Cardinality(Pending)
<1>1. IsFiniteSet(Pending)
  BY ShoppingAssumption, FS_Subset DEF Pending
<1>2. Cardinality(Pending) \in Nat
  BY <1>1, FS_CardinalityType
<1>3. ASSUME NEW t \in Pending PROVE Cardinality(Pending \ {t}) = Cardinality(Pending) - 1
  BY <1>1, FS_RemoveElement
<1>4. ASSUME NEW t PROVE Cardinality(Pending \cup {t}) <= Cardinality(Pending) + 1
  BY <1>1, <1>2, FS_AddElement
<1>5. ASSUME NEW S \in SUBSET Pending
      PROVE  Cardinality(S) \in Nat /\ Cardinality(S) <= Cardinality(Pending)
  BY <1>1, FS_Subset, FS_CardinalityType
<1> QED BY <1>1, <1>2, <1>3, <1>4, <1>5

(* A step that neither calls nor schedules only removes attempts.           *)
LEMMA NoCall ==
  ASSUME Inv, CallsAllowed, order_calls' = order_calls, Pending' \subseteq Pending,
         \/ workflow' = workflow
         \/ workflow' = AfterFailure(workflow)
         \/ \E status : workflow' = AfterSuccess(workflow, status)
         \/ workflow.step = "NONE" /\ workflow' \in Workflows
  PROVE  CallsAllowed'
<1>1. Allowed(workflow') >= Allowed(workflow)
  <2>1. workflow \in Workflows
    BY DEF Inv, TypeOK
  <2>2. CASE workflow.step = "NONE" /\ workflow' \in Workflows
    <3>1. Allowed(workflow) = 0
      BY <2>2 DEF Allowed
    <3>2. Allowed(workflow') \in 0..MaxTries
      BY <2>2, AllowedGrows
    <3> QED BY <3>1, <3>2
  <2>3. Allowed(workflow) \in 0..MaxTries
    BY <2>1, AllowedGrows
  <2> QED BY <2>1, <2>2, <2>3, AllowedGrows
<1>2. Cardinality(Pending') \in Nat /\ Cardinality(Pending') <= Cardinality(Pending)
  BY PendingCounts
<1>3. Allowed(workflow) \in Int /\ Allowed(workflow') \in Int
  <2>1. workflow \in Workflows /\ workflow' \in Workflows
    BY WorkflowFacts DEF Inv, TypeOK
  <2> QED BY <2>1, AllowedGrows
<1>4. order_calls \in Nat /\ Cardinality(Pending) \in Nat
  BY PendingCounts DEF Inv, TypeOK
<1>5. order_calls + Cardinality(Pending') <= Allowed(workflow')
  BY <1>1, <1>2, <1>3, <1>4 DEF CallsAllowed
<1> QED BY <1>5 DEF CallsAllowed

LEMMA CallsStep == Inv /\ CallsAllowed /\ [Next]_vars => CallsAllowed'
<1> SUFFICES ASSUME Inv, CallsAllowed, [Next]_vars PROVE CallsAllowed'
  OBVIOUS
<1>0. /\ order_calls \in Nat /\ workflow \in Workflows /\ slot \in [Slots -> Attempts]
      /\ Allowed(workflow) \in 0..MaxTries /\ Cardinality(Pending) \in Nat
  BY AllowedGrows, PendingCounts DEF Inv, TypeOK
<1>1. ASSUME NEW t \in Slots, Schedule(t) PROVE CallsAllowed'
  <2>1. /\ workflow.step \in Activities /\ workflow.awaits = NoSlot
        /\ workflow' = [workflow EXCEPT !.awaits = t]
        /\ order_calls' = order_calls
        /\ slot' = [slot EXCEPT ![t] = [Idle EXCEPT !.activity = workflow.step, !.step =
                      IF workflow.step = "FAIL" THEN "CHECKPOINT" ELSE "CALL"]]
    BY <1>1 DEF Schedule, prava_vars
  <2>2. CASE workflow.step = "CHECKOUT"
    <3>1. Pending' = Pending \cup {t}
      BY <1>0, <2>1, <2>2 DEF Pending, Idle
    <3>2. Allowed(workflow') = Allowed(workflow) + 1
      BY <1>0, <2>1, <2>2, ShoppingAssumption DEF Allowed, Workflows
    <3>3. Cardinality(Pending') <= Cardinality(Pending) + 1
      BY <3>1, PendingCounts
    <3>4. Cardinality(Pending') \in Nat
      <4>1. IsFiniteSet(Pending \cup {t})
        BY PendingCounts, FS_AddElement
      <4> QED BY <3>1, <4>1, FS_CardinalityType
    <3>5. order_calls + Cardinality(Pending') <= Allowed(workflow')
      BY <1>0, <3>2, <3>3, <3>4 DEF CallsAllowed
    <3> QED BY <2>1, <3>5 DEF CallsAllowed
  <2>3. CASE workflow.step # "CHECKOUT"
    <3>1. Pending' \subseteq Pending
      BY <1>0, <2>1, <2>3 DEF Pending, Idle
    <3>2. Allowed(workflow') = Allowed(workflow)
      BY <1>0, <2>1, <2>3 DEF Allowed, Workflows
    <3>3. Cardinality(Pending') \in Nat /\ Cardinality(Pending') <= Cardinality(Pending)
      BY <3>1, PendingCounts
    <3>4. order_calls + Cardinality(Pending') <= Allowed(workflow')
      BY <1>0, <3>2, <3>3 DEF CallsAllowed
    <3> QED BY <2>1, <3>4 DEF CallsAllowed
  <2> QED BY <2>2, <2>3
<1>2. ASSUME NEW t \in Slots, checkout(t) \/ CallFails(t) PROVE CallsAllowed'
  <2>1. /\ slot[t].step = "CALL" /\ workflow' = workflow
        /\ slot'[t].step # "CALL"
        /\ \A u \in Slots \ {t} : slot'[u] = slot[u]
    <3>1. CASE checkout(t)
      <4>1. slot' = [slot EXCEPT ![t] = [[[slot[t] EXCEPT !.step = "CHECKPOINT"]
                       EXCEPT !.status = payment.status] EXCEPT !.ordered = order_placed']]
        BY <1>0, <3>1 DEF checkout
      <4>2. slot'[t].step = "CHECKPOINT"
        BY <1>0, <4>1 DEF Attempts
      <4> QED BY <1>0, <3>1, <4>1, <4>2 DEF checkout
    <3>2. CASE CallFails(t)
      BY <1>0, <3>2 DEF CallFails, Attempts
    <3> QED BY <1>2, <3>1, <3>2
  <2>2. Pending' = Pending \ {t}
    BY <2>1 DEF Pending
  <2>3. CASE order_calls' = order_calls
    BY <2>1, <2>2, <2>3, NoCall
  <2>4. CASE slot[t].activity = "CHECKOUT" /\ order_calls' = order_calls + 1
    <3>1. t \in Pending
      BY <2>1, <2>4 DEF Pending
    <3>2. Cardinality(Pending') = Cardinality(Pending) - 1
      BY <2>2, <3>1, PendingCounts
    <3>3. order_calls' + Cardinality(Pending') <= Allowed(workflow)
      BY <1>0, <2>4, <3>2 DEF CallsAllowed
    <3> QED BY <2>1, <3>3 DEF CallsAllowed
  <2> QED BY <1>2, <2>3, <2>4 DEF checkout, CallFails
<1>3. ASSUME NEW t \in Slots, payment_status(t) \/ checkpoint(t) PROVE CallsAllowed'
  <2>1. /\ workflow' = workflow /\ order_calls' = order_calls
        /\ slot'[t].step # "CALL"
        /\ \A u \in Slots \ {t} : slot'[u] = slot[u]
    BY <1>0, <1>3 DEF payment_status, checkpoint, prava_vars, Attempts
  <2>2. Pending' \subseteq Pending
    BY <2>1 DEF Pending
  <2> QED BY <2>1, <2>2, NoCall
<1>4. ASSUME NEW t \in Slots,
             Complete(t) \/ TimeoutOfDead(t) \/ ActivityTimeout(t) \/ WorkerCrash(t)
      PROVE  CallsAllowed'
  <2>1. /\ order_calls' = order_calls
        /\ \/ workflow' = workflow
           \/ workflow' = AfterFailure(workflow)
           \/ workflow' = AfterSuccess(workflow, slot[t].status)
    BY <1>4 DEF Complete, TimeoutOfDead, ActivityTimeout, WorkerCrash, GiveUp, prava_vars
  <2>2. \/ slot' = slot
        \/ slot' = [slot EXCEPT ![t] = Idle]
        \/ slot' = [slot EXCEPT ![t].step = "DEAD"]
    BY <1>4 DEF Complete, TimeoutOfDead, ActivityTimeout, WorkerCrash, GiveUp
  <2>3. Pending' \subseteq Pending
    BY <1>0, <2>2 DEF Pending, Idle, Attempts
  <2> QED BY <2>1, <2>3, NoCall
<1>5. ASSUME NEW d \in Dispatchers, DispatchStart(d) PROVE CallsAllowed'
  <2>1. /\ order_calls' = order_calls /\ slot' = slot /\ workflow' = StartedWorkflow
    BY <1>5 DEF DispatchStart, prava_vars
  <2>2. Pending' = Pending
    BY <2>1 DEF Pending
  <2>3. workflow' = workflow \/ (workflow.step = "NONE" /\ workflow' \in Workflows)
    BY <2>1, ShoppingAssumption DEF StartedWorkflow, Started, Workflows, Activities
  <2> QED BY <2>1, <2>2, <2>3, NoCall
<1>6. ASSUME UNCHANGED <<workflow, slot, order_calls>> PROVE CallsAllowed'
  <2>1. Pending' = Pending
    BY <1>6 DEF Pending
  <2> QED BY <1>6, <2>1, NoCall
<1>7. CASE UNCHANGED vars
  BY <1>6, <1>7 DEF vars, worker_vars, prava_vars
<1>8. CASE Next
  <2>1. CASE \/ quote \/ queue_checkout \/ PayerDecides
             \/ \E q \in Requests : \/ create_payment_session(q) \/ PravaOpensSession(q)
                                    \/ CreateFails(q) \/ StorePaymentSession(q)
             \/ \E d \in Dispatchers :
                  DispatchRead(d) \/ DispatchPublish(d) \/ DispatcherCrash(d)
    BY <1>6, <2>1
       DEF worker_vars, prava_vars, quote, queue_checkout, PayerDecides,
           create_payment_session, PravaOpensSession, CreateFails, StorePaymentSession,
           DispatchRead, DispatchPublish, DispatcherCrash
  <2> QED BY <1>1, <1>2, <1>3, <1>4, <1>5, <1>8, <2>1 DEF Next, ActivityStep
<1> QED BY <1>7, <1>8

(* Prava is asked for the order at most maximum_attempts times.             *)
THEOREM OrderCallsWithinRetries == Spec => []OrderCallsBounded
<1>1. Init => CallsAllowed
  <2> SUFFICES ASSUME Init PROVE CallsAllowed
    OBVIOUS
  <2>1. Pending = {}
    BY DEF Init, Pending, Idle
  <2>2. Cardinality(Pending) = 0
    BY <2>1, FS_EmptySet
  <2> QED BY <2>2 DEF Init, CallsAllowed, Allowed
<1>2. Inv /\ CallsAllowed => OrderCallsBounded
  <2> SUFFICES ASSUME Inv, CallsAllowed PROVE OrderCallsBounded
    OBVIOUS
  <2>1. Allowed(workflow) \in 0..MaxTries /\ order_calls \in Nat /\ Cardinality(Pending) \in Nat
    BY AllowedGrows, PendingCounts DEF Inv, TypeOK
  <2> QED BY <2>1, ShoppingAssumption DEF CallsAllowed, OrderCallsBounded
<1> QED BY <1>1, <1>2, CallsStep, InvAlways, PTL DEF Spec

(* The order is asked for after approval only, maximum_attempts times at    *)
(* most.                                                                    *)
THEOREM OrderIsSound == Spec => []OrderSound
<1>1. OrderOnlyAfterApproval /\ OrderCallsBounded => OrderSound
  BY DEF OrderSound
<1> QED BY <1>1, OrderNeedsApproval, OrderCallsWithinRetries, PTL

(***************************************************************************)
(* The connection: an authorization stores one connection, for the person  *)
(* who asked for it, and a stored refresh token can be used.               *)
(***************************************************************************)

Tokens == [client : Authorizations \cup {None}, number : Nat]
AuthorizationRows ==
  [state : {"NONE", "OPEN", "CONSUMED"}, actor : Actors \cup {None}, expired : BOOLEAN]
CallSteps == {"IDLE", "EXCHANGE", "CONNECT", "REFRESH", "STORE"}
CallType == [step : CallSteps, client : Authorizations \cup {None},
             actor : Actors \cup {None}, token : Tokens]

(* The domains of the rows, of what a call carries and of Prava's tokens.   *)
ConnectionTypeOK ==
  /\ authorization \in [Authorizations -> AuthorizationRows]
  /\ connection \in [client : Authorizations \cup {None}, actor : Actors \cup {None},
                     token : Tokens, stale : BOOLEAN]
  /\ call \in [Calls -> CallType]
  /\ live \in SUBSET Tokens
  /\ rotates \in BOOLEAN /\ lost \in BOOLEAN /\ raced \in BOOLEAN
  /\ issued \in Nat
  /\ installs \in [Authorizations -> Nat]

(* A callback in flight carries the actor its authorization was begun by,   *)
(* and an authorization stored a connection exactly when it is CONSUMED.    *)
AuthorizedInv ==
  /\ \A a \in Authorizations :
       installs[a] = IF authorization[a].state = "CONSUMED" THEN 1 ELSE 0
  /\ \A c \in Calls : call[c].step \in {"EXCHANGE", "CONNECT"} =>
       /\ call[c].client \in Authorizations
       /\ authorization[call[c].client].state # "NONE"
       /\ authorization[call[c].client].actor = call[c].actor
  /\ ConnectionIsAuthorized

(* A call holds a token that nobody else has seen: the answer to a code, or *)
(* to a refresh when Prava rotates.                                         *)
Holds(c) == call[c].step = "CONNECT" \/ (rotates /\ call[c].step = "STORE")

(* No token is known before Prava issued it.                                *)
TokensIssued ==
  /\ connection.token.number <= issued
  /\ \A c \in Calls : call[c].token.number <= issued

(* What a call is about to store is live and of the client it asked for.    *)
StorableLive ==
  \A c \in Calls : call[c].step \in {"CONNECT", "STORE"} =>
    call[c].token \in live /\ call[c].token.client = call[c].client

(* A held token is in no other hand, so no other refresh can use it up.     *)
HeldAlone ==
  \A c \in Calls : Holds(c) =>
    /\ call[c].token.number > 0 /\ connection.token # call[c].token
    /\ \A d \in Calls : call[d].token = call[c].token => d = c

TokenInv == TokensIssued /\ StorableLive /\ HeldAlone /\ StoredTokenLive

-----------------------------------------------------------------------------
LEMMA NoneIsNot == None \notin Authorizations /\ None \notin Actors
BY ConnectionAssumption

LEMMA IdleIsCall == IdleCall \in CallType /\ NoToken \in Tokens
BY DEF IdleCall, CallType, CallSteps, NoToken, Tokens

(* A call that goes on with a new token.                                    *)
LEMMA CallMoves ==
  ASSUME ConnectionTypeOK, NEW c \in Calls, NEW step \in CallSteps, NEW token \in Tokens
  PROVE  [call EXCEPT ![c].step = step, ![c].token = token] \in [Calls -> CallType]
<1>1. [call[c] EXCEPT !.step = step, !.token = token] \in CallType
  BY DEF ConnectionTypeOK, CallType
<1>2. [call EXCEPT ![c].step = step, ![c].token = token]
        = [call EXCEPT ![c] = [call[c] EXCEPT !.step = step, !.token = token]]
  BY DEF ConnectionTypeOK, CallType
<1> QED BY <1>1, <1>2 DEF ConnectionTypeOK

LEMMA InitTypes == ConnectionInit => ConnectionTypeOK
<1> SUFFICES ASSUME ConnectionInit PROVE ConnectionTypeOK
  OBVIOUS
<1>1. authorization \in [Authorizations -> AuthorizationRows]
  BY DEF ConnectionInit, AuthorizationRows
<1>2. call \in [Calls -> CallType] /\ live \in SUBSET Tokens
  BY IdleIsCall DEF ConnectionInit
<1>3. connection \in [client : Authorizations \cup {None}, actor : Actors \cup {None},
                     token : Tokens, stale : BOOLEAN]
  BY IdleIsCall DEF ConnectionInit
<1> QED BY <1>1, <1>2, <1>3 DEF ConnectionInit, ConnectionTypeOK

(* Every step stays in the domains.                                         *)
LEMMA NextTypes == ConnectionTypeOK /\ [ConnectionNext]_connection_vars => ConnectionTypeOK'
<1> SUFFICES ASSUME ConnectionTypeOK, [ConnectionNext]_connection_vars PROVE ConnectionTypeOK'
  OBVIOUS
<1> USE DEF ConnectionTypeOK
<1>1. ASSUME NEW a \in Authorizations, AuthorizationExpires(a) PROVE ConnectionTypeOK'
  BY <1>1 DEF AuthorizationExpires, AuthorizationRows
<1>2. ASSUME NEW a \in Authorizations, NEW actor \in Actors, begin(a, actor) PROVE ConnectionTypeOK'
  BY <1>2 DEF begin, AuthorizationRows
<1>3. ASSUME NEW c \in Calls, NEW a \in Authorizations, NEW actor \in Actors,
             complete(c, a, actor)
      PROVE  ConnectionTypeOK'
  <2>1. [step |-> "EXCHANGE", client |-> a, actor |-> actor, token |-> NoToken] \in CallType
    BY IdleIsCall DEF CallType, CallSteps
  <2> QED BY <1>3, <2>1 DEF complete
<1>4. ASSUME NEW c \in Calls, PravaExchanges(c) PROVE ConnectionTypeOK'
  <2> DEFINE token == [client |-> call[c].client, number |-> issued + 1]
  <2>1. token \in Tokens
    BY DEF Tokens, CallType
  <2> HIDE DEF token
  <2>2. call' = [call EXCEPT ![c].step = "CONNECT", ![c].token = token]
    BY <1>4 DEF PravaExchanges, token
  <2>3. call' \in [Calls -> CallType]
    BY <2>1, <2>2, CallMoves DEF CallSteps
  <2>4. live' \in SUBSET Tokens /\ issued' \in Nat
    BY <1>4, <2>1 DEF PravaExchanges, token
  <2> QED BY <1>4, <2>3, <2>4 DEF PravaExchanges
<1>5. ASSUME NEW c \in Calls, StoreConnection(c) PROVE ConnectionTypeOK'
  <2>1. connection' \in [client : Authorizations \cup {None}, actor : Actors \cup {None},
                        token : Tokens, stale : BOOLEAN]
    BY <1>5 DEF StoreConnection, Connected, CallType
  <2>2. authorization' \in [Authorizations -> AuthorizationRows]
    <3>1. \A b \in Authorizations :
            authorization'[b] \in {authorization[b], [authorization[b] EXCEPT !.state = "CONSUMED"]}
      BY <1>5 DEF StoreConnection
    <3>2. \A b \in Authorizations : authorization'[b] \in AuthorizationRows
      BY <3>1 DEF AuthorizationRows
    <3> DEFINE rows == [b \in Authorizations |-> authorization'[b]]
    <3>3. authorization' = rows
      BY <1>5 DEF StoreConnection
    <3>4. rows \in [Authorizations -> AuthorizationRows]
      BY <3>2
    <3> QED BY <3>3, <3>4
  <2>3. call' \in [Calls -> CallType]
    BY <1>5, IdleIsCall DEF StoreConnection
  <2>4. installs' \in [Authorizations -> Nat]
    <3> DEFINE a == call[c].client
    <3>1. installs' = [installs EXCEPT ![a] = installs[a] + 1]
      BY <1>5 DEF StoreConnection
    <3>2. a \in Authorizations => installs[a] + 1 \in Nat
      OBVIOUS
    <3> HIDE DEF a
    <3> QED BY <3>1, <3>2
  <2> QED BY <1>5, <2>1, <2>2, <2>3, <2>4 DEF StoreConnection
<1>6. ASSUME NEW c \in Calls, CompleteReplayed(c) \/ PravaRefuses(c) \/ CallDies(c)
      PROVE  ConnectionTypeOK'
  BY <1>6, IdleIsCall DEF CompleteReplayed, PravaRefuses, CallDies
<1>7. ASSUME NEW c \in Calls, access_token(c) PROVE ConnectionTypeOK'
  <2>1. [step |-> "REFRESH", client |-> connection.client, actor |-> None,
         token |-> connection.token] \in CallType
    BY DEF CallType, CallSteps
  <2> QED BY <1>7, <2>1 DEF access_token
<1>8. ASSUME NEW c \in Calls, PravaRefreshes(c) PROVE ConnectionTypeOK'
  <2> DEFINE token == [call[c].token EXCEPT !.number = issued + 1]
  <2>1. token \in Tokens
    BY DEF Tokens, CallType
  <2> HIDE DEF token
  <2>2. CASE rotates
    <3>1. call' = [call EXCEPT ![c].step = "STORE", ![c].token = token]
      BY <1>8, <2>2 DEF PravaRefreshes, token
    <3>2. call' \in [Calls -> CallType]
      BY <2>1, <3>1, CallMoves DEF CallSteps
    <3>3. live' \in SUBSET Tokens /\ issued' \in Nat
      BY <1>8, <2>1, <2>2 DEF PravaRefreshes, token
    <3> QED BY <1>8, <3>2, <3>3 DEF PravaRefreshes
  <2>3. CASE ~rotates
    BY <1>8, <2>3 DEF PravaRefreshes, CallType, CallSteps
  <2> QED BY <2>2, <2>3
<1>9. ASSUME NEW c \in Calls, StoreTokens(c) PROVE ConnectionTypeOK'
  BY <1>9, IdleIsCall DEF StoreTokens, RefreshedToken, CallType
<1>10. CASE AccessExpires
  BY <1>10 DEF AccessExpires
<1>11. CASE UNCHANGED connection_vars
  BY <1>11 DEF connection_vars
<1> QED BY <1>1, <1>2, <1>3, <1>4, <1>5, <1>6, <1>7, <1>8, <1>9, <1>10, <1>11 DEF ConnectionNext

(* Rows, calls and tokens of a connection stay in their domains, for every  *)
(* number of people, authorizations and overlapping calls.                  *)
THEOREM ConnectionTypes == ConnectionSpec => []ConnectionTypeOK
BY InitTypes, NextTypes, PTL DEF ConnectionSpec

-----------------------------------------------------------------------------
(* What every step but complete, StoreConnection and the steps on the       *)
(* authorization rows does: no call newly carries a callback, and no        *)
(* connection changes hands.                                                *)
AuthorizedFrame ==
  /\ UNCHANGED <<authorization, installs>>
  /\ connection'.client = connection.client /\ connection'.actor = connection.actor
  /\ \A c \in Calls : call'[c].step \in {"EXCHANGE", "CONNECT"} =>
       /\ call[c].step \in {"EXCHANGE", "CONNECT"}
       /\ call'[c].client = call[c].client /\ call'[c].actor = call[c].actor

LEMMA FrameKeepsAuthorized ==
  ASSUME AuthorizedInv, AuthorizedFrame PROVE AuthorizedInv'
BY DEF AuthorizedInv, AuthorizedFrame, ConnectionIsAuthorized

LEMMA StepsKeepFrame ==
  ASSUME ConnectionTypeOK,
         \/ \E c \in Calls : \/ PravaExchanges(c) \/ CompleteReplayed(c) \/ access_token(c)
                            \/ PravaRefreshes(c) \/ PravaRefuses(c) \/ StoreTokens(c)
                            \/ CallDies(c)
         \/ AccessExpires \/ UNCHANGED connection_vars
  PROVE  AuthorizedFrame
<1> USE DEF ConnectionTypeOK, AuthorizedFrame, CallType
<1>1. ASSUME NEW c \in Calls, PravaExchanges(c) PROVE AuthorizedFrame
  BY <1>1 DEF PravaExchanges
<1>2. ASSUME NEW c \in Calls, CompleteReplayed(c) \/ PravaRefuses(c) \/ CallDies(c)
      PROVE  AuthorizedFrame
  BY <1>2 DEF CompleteReplayed, PravaRefuses, CallDies, IdleCall
<1>3. ASSUME NEW c \in Calls, access_token(c) PROVE AuthorizedFrame
  BY <1>3 DEF access_token
<1>4. ASSUME NEW c \in Calls, PravaRefreshes(c) PROVE AuthorizedFrame
  BY <1>4 DEF PravaRefreshes
<1>5. ASSUME NEW c \in Calls, StoreTokens(c) PROVE AuthorizedFrame
  BY <1>5 DEF StoreTokens, IdleCall
<1>6. CASE AccessExpires
  BY <1>6 DEF AccessExpires
<1>7. CASE UNCHANGED connection_vars
  BY <1>7 DEF connection_vars
<1> QED BY <1>1, <1>2, <1>3, <1>4, <1>5, <1>6, <1>7

LEMMA NextAuthorized ==
  ConnectionTypeOK /\ AuthorizedInv /\ [ConnectionNext]_connection_vars => AuthorizedInv'
<1> SUFFICES ASSUME ConnectionTypeOK, AuthorizedInv, [ConnectionNext]_connection_vars
             PROVE  AuthorizedInv'
  OBVIOUS
<1> USE NoneIsNot
<1>1. ASSUME NEW a \in Authorizations, AuthorizationExpires(a) PROVE AuthorizedInv'
  BY <1>1 DEF AuthorizationExpires, ConnectionTypeOK, AuthorizationRows, CallType, AuthorizedInv,
     ConnectionIsAuthorized
<1>2. ASSUME NEW a \in Authorizations, NEW actor \in Actors, begin(a, actor)
      PROVE  AuthorizedInv'
  BY <1>2 DEF begin, ConnectionTypeOK, AuthorizationRows, CallType, AuthorizedInv,
     ConnectionIsAuthorized
<1>3. ASSUME NEW c \in Calls, NEW a \in Authorizations, NEW actor \in Actors,
             complete(c, a, actor)
      PROVE  AuthorizedInv'
  BY <1>3 DEF complete, Completable, ConnectionTypeOK, AuthorizedInv, ConnectionIsAuthorized
<1>4. ASSUME NEW c \in Calls, StoreConnection(c) PROVE AuthorizedInv'
  <2> DEFINE a == call[c].client
  <2>1. /\ a \in Authorizations /\ authorization[a].state = "OPEN"
        /\ authorization[a].actor = call[c].actor /\ installs[a] = 0
    BY <1>4 DEF StoreConnection, NotReplayed, AuthorizedInv
  <2>2. /\ authorization' = [authorization EXCEPT ![a].state = "CONSUMED"]
        /\ installs' = [installs EXCEPT ![a] = @ + 1]
        /\ connection'.client = a /\ connection'.actor = call[c].actor
        /\ call' = [call EXCEPT ![c] = IdleCall]
    BY <1>4 DEF StoreConnection, Connected
  <2> HIDE DEF a
  <2>3. \A b \in Authorizations :
          /\ authorization'[b].actor = authorization[b].actor
          /\ authorization'[b].state = IF b = a THEN "CONSUMED" ELSE authorization[b].state
          /\ installs'[b] = IF b = a THEN 1 ELSE installs[b]
    BY <2>1, <2>2 DEF ConnectionTypeOK, AuthorizationRows
  <2>4. \A d \in Calls : call'[d].step \in {"EXCHANGE", "CONNECT"} => call'[d] = call[d]
    BY <2>2 DEF ConnectionTypeOK, IdleCall
  <2> QED BY <2>1, <2>2, <2>3, <2>4 DEF AuthorizedInv, ConnectionIsAuthorized
<1> QED BY <1>1, <1>2, <1>3, <1>4, StepsKeepFrame, FrameKeepsAuthorized DEF ConnectionNext

(* However callbacks, refreshes and deaths overlap, an authorization stores *)
(* a connection at most once, and the connection is of the person who asked *)
(* for it.                                                                  *)
THEOREM ConnectionIsSound == ConnectionSpec => []ConnectionSound
<1>1. ConnectionInit => AuthorizedInv
  BY DEF ConnectionInit, IdleCall, AuthorizedInv, ConnectionIsAuthorized
<1>2. AuthorizedInv => ConnectionSound
  BY DEF AuthorizedInv, ConnectionSound, AuthorizationUsedOnce
<1> QED BY <1>1, <1>2, InitTypes, NextTypes, NextAuthorized, PTL DEF ConnectionSpec

-----------------------------------------------------------------------------
(* A call that ends without storing: what it held is lost only if it had    *)
(* been rotated.                                                            *)
LEMMA EndedKeepsTokens ==
  ASSUME ConnectionTypeOK, TokenInv, NEW c \in Calls,
         CompleteReplayed(c) \/ PravaRefuses(c) \/ CallDies(c)
  PROVE  TokenInv'
<1>1. /\ UNCHANGED <<connection, live, rotates, issued, raced>>
      /\ ~lost' => ~lost /\ call[c].step # "STORE"
  <2>1. CASE CompleteReplayed(c) \/ PravaRefuses(c)
    BY <2>1 DEF CompleteReplayed, PravaRefuses
  <2>2. CASE CallDies(c)
    BY <2>2, Zenon DEF CallDies
  <2> QED BY <2>1, <2>2
<1>2. \A d \in Calls : IF d = c THEN call'[d] = IdleCall ELSE call'[d] = call[d]
  BY DEF CompleteReplayed, PravaRefuses, CallDies, ConnectionTypeOK
<1>3. /\ IdleCall.step = "IDLE" /\ IdleCall.token = NoToken /\ NoToken.number = 0
      /\ \A d \in Calls : call[d].token.number \in Nat
  BY DEF IdleCall, NoToken, ConnectionTypeOK, CallType, Tokens
<1>4. TokensIssued' /\ StorableLive'
  BY <1>1, <1>2, <1>3 DEF TokenInv, TokensIssued, StorableLive, ConnectionTypeOK
<1>5. HeldAlone'
  BY <1>1, <1>2, <1>3 DEF TokenInv, HeldAlone, Holds
<1>6. StoredTokenLive'
  BY <1>1, <1>2 DEF TokenInv, StoredTokenLive
<1> QED BY <1>4, <1>5, <1>6 DEF TokenInv

(* A code is exchanged for a token nobody has seen.                         *)
LEMMA ExchangeKeepsTokens ==
  ASSUME ConnectionTypeOK, TokenInv, NEW c \in Calls, PravaExchanges(c)
  PROVE  TokenInv'
<1> DEFINE token == [client |-> call[c].client, number |-> issued + 1]
<1>1. /\ UNCHANGED <<connection, rotates, lost, raced>>
      /\ issued' = issued + 1 /\ live' = live \cup {token} /\ call[c].step = "EXCHANGE"
  BY DEF PravaExchanges
<1>2. token.number = issued + 1 /\ token.client = call[c].client
  OBVIOUS
<1>3. /\ call'[c].step = "CONNECT" /\ call'[c].token = token
      /\ call'[c].client = call[c].client
      /\ \A d \in Calls : d # c => call'[d] = call[d]
  BY DEF PravaExchanges, ConnectionTypeOK, CallType
<1> HIDE DEF token
<1>4. /\ issued \in Nat /\ connection.token.number \in Nat
      /\ \A d \in Calls : call[d].token.number \in Nat
  BY DEF ConnectionTypeOK, CallType, Tokens
<1>5. TokensIssued'
  BY <1>1, <1>2, <1>3, <1>4 DEF TokenInv, TokensIssued
<1>6. StorableLive'
  BY <1>1, <1>2, <1>3 DEF TokenInv, StorableLive
<1>7. HeldAlone'
  <2>1. connection.token # token /\ \A d \in Calls : call[d].token # token
    BY <1>2, <1>4 DEF TokenInv, TokensIssued
  <2> QED BY <1>1, <1>2, <1>3, <1>4, <2>1 DEF TokenInv, HeldAlone, Holds
<1>8. StoredTokenLive'
  BY <1>1, <1>3 DEF TokenInv, StoredTokenLive
<1> QED BY <1>5, <1>6, <1>7, <1>8 DEF TokenInv

(* The connection is stored with a token of its own client.                 *)
LEMMA ConnectKeepsTokens ==
  ASSUME ConnectionTypeOK, TokenInv, NEW c \in Calls, StoreConnection(c)
  PROVE  TokenInv'
<1>1. /\ UNCHANGED <<live, rotates, issued, lost, raced>> /\ call[c].step = "CONNECT"
      /\ connection'.client = call[c].client /\ connection'.token = call[c].token
  BY DEF StoreConnection, Connected
<1>2. \A d \in Calls : IF d = c THEN call'[d] = IdleCall ELSE call'[d] = call[d]
  BY DEF StoreConnection, ConnectionTypeOK
<1>3. /\ IdleCall.step = "IDLE" /\ IdleCall.token = NoToken /\ NoToken.number = 0
      /\ issued \in Nat
  BY DEF IdleCall, NoToken, ConnectionTypeOK
<1>4. TokensIssued' /\ StorableLive'
  BY <1>1, <1>2, <1>3 DEF TokenInv, TokensIssued, StorableLive
<1>5. HeldAlone'
  BY <1>1, <1>2, <1>3 DEF TokenInv, HeldAlone, Holds
<1>6. StoredTokenLive'
  BY <1>1 DEF TokenInv, StorableLive, StoredTokenLive
<1> QED BY <1>4, <1>5, <1>6 DEF TokenInv

(* A refresh starts from the token of the row, which nobody holds.          *)
LEMMA ReadKeepsTokens ==
  ASSUME ConnectionTypeOK, TokenInv, NEW c \in Calls, access_token(c)
  PROVE  TokenInv'
<1>1. /\ UNCHANGED <<connection, live, rotates, issued, lost, raced>> /\ call[c].step = "IDLE"
      /\ \A d \in Calls : IF d = c THEN call'[d].step = "REFRESH"
                                        /\ call'[d].token = connection.token
                           ELSE call'[d] = call[d]
  BY DEF access_token, ConnectionTypeOK
<1>2. TokensIssued' /\ StorableLive'
  BY <1>1 DEF TokenInv, TokensIssued, StorableLive
<1>3. HeldAlone'
  BY <1>1 DEF TokenInv, HeldAlone, Holds
<1>4. StoredTokenLive'
  BY <1>1 DEF TokenInv, StoredTokenLive
<1> QED BY <1>2, <1>3, <1>4 DEF TokenInv

(* Prava rotates a token: what the row or a second reader still has is      *)
(* dead, and the one that replaced it is in this call's hand alone.         *)
LEMMA RefreshKeepsTokens ==
  ASSUME ConnectionTypeOK, TokenInv, NEW c \in Calls, PravaRefreshes(c)
  PROVE  TokenInv'
<1>0. /\ UNCHANGED <<connection, rotates, lost, raced>> /\ call[c].step = "REFRESH"
      /\ call[c].token \in live /\ call[c].token.client = call[c].client
  BY DEF PravaRefreshes, Accepted
<1>1. CASE rotates
  <2> DEFINE token == [call[c].token EXCEPT !.number = issued + 1]
  <2>1. issued' = issued + 1 /\ live' = (live \ {call[c].token}) \cup {token}
    BY <1>1 DEF PravaRefreshes
  <2>2. token.number = issued + 1 /\ token.client = call[c].client
    BY <1>0 DEF ConnectionTypeOK, CallType, Tokens
  <2>3. /\ call'[c].step = "STORE" /\ call'[c].token = token
        /\ call'[c].client = call[c].client
        /\ \A d \in Calls : d # c => call'[d] = call[d]
    BY <1>1 DEF PravaRefreshes, ConnectionTypeOK, CallType
  <2> HIDE DEF token
  <2>4. /\ issued \in Nat /\ connection.token.number \in Nat
        /\ \A d \in Calls : call[d].token.number \in Nat
    BY DEF ConnectionTypeOK, CallType, Tokens
  <2>5. TokensIssued'
    BY <1>0, <2>1, <2>2, <2>3, <2>4 DEF TokenInv, TokensIssued
  <2>6. \A d \in Calls : call[d].step \in {"CONNECT", "STORE"} =>
          d # c /\ call[d].token # call[c].token
    BY <1>0, <1>1 DEF TokenInv, HeldAlone, Holds
  <2>7. StorableLive'
    BY <2>1, <2>2, <2>3, <2>6 DEF TokenInv, StorableLive
  <2>8. HeldAlone'
    <3>1. connection.token # token /\ \A d \in Calls : call[d].token # token
      BY <2>2, <2>4 DEF TokenInv, TokensIssued
    <3> QED BY <1>0, <2>2, <2>3, <2>4, <3>1 DEF TokenInv, HeldAlone, Holds
  <2>9. StoredTokenLive'
    BY <1>0, <2>1, <2>3, <2>6 DEF TokenInv, StoredTokenLive
  <2> QED BY <2>5, <2>7, <2>8, <2>9 DEF TokenInv
<1>2. CASE ~rotates
  <2>1. /\ UNCHANGED <<live, issued>>
        /\ call'[c].step = "STORE" /\ call'[c].token = call[c].token
        /\ call'[c].client = call[c].client
        /\ \A d \in Calls : d # c => call'[d] = call[d]
    BY <1>2 DEF PravaRefreshes, ConnectionTypeOK, CallType
  <2>2. TokensIssued' /\ StorableLive'
    BY <1>0, <2>1 DEF TokenInv, TokensIssued, StorableLive
  <2>3. HeldAlone'
    BY <1>0, <1>2, <2>1 DEF TokenInv, HeldAlone, Holds
  <2>4. StoredTokenLive'
    BY <1>0, <2>1 DEF TokenInv, StoredTokenLive
  <2> QED BY <2>2, <2>3, <2>4 DEF TokenInv
<1> QED BY <1>1, <1>2

(* The refreshed token is written; over another client's row it is a race.  *)
LEMMA StoreKeepsTokens ==
  ASSUME ConnectionTypeOK, TokenInv, NEW c \in Calls, StoreTokens(c)
  PROVE  TokenInv'
<1>1. /\ UNCHANGED <<live, rotates, issued, lost>> /\ call[c].step = "STORE"
      /\ connection'.client = connection.client /\ connection'.token = call[c].token
      /\ ~raced' => ~raced /\ connection.client = call[c].client
  BY DEF StoreTokens, RefreshedToken, ConnectionTypeOK
<1>2. \A d \in Calls : IF d = c THEN call'[d] = IdleCall ELSE call'[d] = call[d]
  BY DEF StoreTokens, ConnectionTypeOK
<1>3. /\ IdleCall.step = "IDLE" /\ IdleCall.token = NoToken /\ NoToken.number = 0
      /\ issued \in Nat
  BY DEF IdleCall, NoToken, ConnectionTypeOK
<1>4. TokensIssued' /\ StorableLive'
  BY <1>1, <1>2, <1>3 DEF TokenInv, TokensIssued, StorableLive
<1>5. HeldAlone'
  BY <1>1, <1>2, <1>3 DEF TokenInv, HeldAlone, Holds
<1>6. StoredTokenLive'
  BY <1>1 DEF TokenInv, StorableLive, StoredTokenLive
<1> QED BY <1>4, <1>5, <1>6 DEF TokenInv

LEMMA NextTokens == ConnectionTypeOK /\ TokenInv /\ [ConnectionNext]_connection_vars => TokenInv'
<1> SUFFICES ASSUME ConnectionTypeOK, TokenInv, [ConnectionNext]_connection_vars PROVE TokenInv'
  OBVIOUS
<1>1. ASSUME UNCHANGED <<call, live, rotates, issued, lost, raced>>,
             connection'.client = connection.client, connection'.token = connection.token
      PROVE  TokenInv'
  BY <1>1 DEF TokenInv, TokensIssued, StorableLive, HeldAlone, Holds, StoredTokenLive
<1>2. ASSUME NEW a \in Authorizations,
             AuthorizationExpires(a) \/ \E actor \in Actors : begin(a, actor)
      PROVE  TokenInv'
  BY <1>1, <1>2 DEF AuthorizationExpires, begin
<1>3. ASSUME NEW c \in Calls, NEW a \in Authorizations, NEW actor \in Actors,
             complete(c, a, actor)
      PROVE  TokenInv'
  <2>1. /\ UNCHANGED <<connection, live, rotates, issued, lost, raced>> /\ call[c].step = "IDLE"
        /\ \A d \in Calls : IF d = c THEN call'[d].step = "EXCHANGE" /\ call'[d].token = NoToken
                             ELSE call'[d] = call[d]
    BY <1>3 DEF complete, ConnectionTypeOK
  <2>2. NoToken.number = 0 /\ issued \in Nat
    BY DEF NoToken, ConnectionTypeOK
  <2> QED BY <2>1, <2>2 DEF TokenInv, TokensIssued, StorableLive, HeldAlone, Holds,
             StoredTokenLive
<1>4. CASE AccessExpires \/ UNCHANGED connection_vars
  BY <1>1, <1>4 DEF AccessExpires, connection_vars, ConnectionTypeOK
<1> QED BY <1>2, <1>3, <1>4, EndedKeepsTokens, ExchangeKeepsTokens, ConnectKeepsTokens,
           ReadKeepsTokens, RefreshKeepsTokens, StoreKeepsTokens DEF ConnectionNext

(* Whatever overlaps, the refresh token of a CONNECTED row is live and its  *)
(* client's, or a caller holds its successor; only a caller that dies with  *)
(* that token, and a refresh that overlaps a reconnect, break this.         *)
THEOREM StoredTokenIsLive == ConnectionSpec => []StoredTokenLive
<1>1. ConnectionInit => TokenInv
  BY DEF ConnectionInit, IdleCall, NoToken, TokenInv, TokensIssued, StorableLive, HeldAlone, Holds,
     StoredTokenLive
<1>2. TokenInv => StoredTokenLive
  BY DEF TokenInv
<1> QED BY <1>1, <1>2, InitTypes, NextTypes, NextTokens, PTL DEF ConnectionSpec
=============================================================================
