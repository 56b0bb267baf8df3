-------------------------- MODULE DecisionService --------------------------
(***************************************************************************)
(* One purchase request from its creation to its Purchase Intents: briefs, *)
(* proposals, Decision versions with their frozen evaluations, selection,  *)
(* action runs and the seller engagement, as service.py and surface_v2.py  *)
(* run them over the rows of repositories.py.                              *)
(*                                                                         *)
(* Each operation is one transaction.  PostgreSQL runs them at READ        *)
(* COMMITTED, so the two that act on a row they read and did not lock take *)
(* several steps: discover reads the brief, then the newest Decision, and  *)
(* lock_purchase_intent the Decision; both write later under the unique    *)
(* constraints.                                                            *)
(***************************************************************************)
EXTENDS Idempotency, FiniteSets, FiniteSetsExt

CONSTANTS Plans,         \* Solution Plans an evaluation finds SUPPORTED
          Weights,       \* preference weights a proposal may set, within 1..5
          Sessions,      \* concurrent API transactions
          Buyer, Seller, \* the two principals of an engagement
          MaxDecisions, MaxProposals, MaxIntents \* bounds on rows

ASSUME DecisionAssumption ==
  /\ Weights \subseteq 1..5
  /\ MaxDecisions \in Nat /\ MaxProposals \in Nat /\ MaxIntents \in Nat
  /\ Buyer # Seller

VARIABLES request,     \* the PurchaseRequest row
          briefs,      \* PurchaseBriefVersion rows with requirement and source
          proposals,   \* proposals in CalibrationRun and CandidateFeedback rows
          decisions,   \* DecisionRecord rows
          evaluations, \* BASE EvaluationRun rows with the plan that has a patch
          intents,     \* PurchaseIntent rows
          actions,     \* ActionRun rows
          engagement,  \* the Engagement of one candidate
          tx           \* open transactions

service_vars == <<request, briefs, proposals, decisions, evaluations, intents,
                  actions, engagement>>
vars == <<service_vars, tx, idem_vars>>

None == 0
Idle == [op |-> "idle", key |-> Once, brief |-> None, decision |-> None]

Latest(rows) == CHOOSE r \in rows : \A q \in rows : q.version <= r.version
NextVersion(rows) == IF rows = {} THEN 1 ELSE Latest(rows).version + 1
ById(rows, id) == CHOOSE r \in rows : r.id = id
NewId(rows) == Cardinality(rows) + 1

HeldKeys == {tx[s].key : s \in {t \in Sessions : tx[t].op # "idle"}} \ {Once}
RequestLocked == \E s \in Sessions : tx[s].op \in {"discover", "evaluate"}

\* _require_current_decision
Current(d) == d = Latest(decisions)

-----------------------------------------------------------------------------
\* Requests and briefs

FirstBrief == [version |-> 1, status |-> "APPROVED", weight |-> 3, supersedes |-> None]

NoRequest == [status |-> "NONE", visibility |-> "PRIVATE", demo |-> FALSE]

create_purchase_request(k, visibility, demo) ==
  /\ request = NoRequest
  /\ Claimable(k, HeldKeys)
  /\ request' = [status |-> "DRAFT", visibility |-> visibility, demo |-> demo]
  /\ briefs' = IF demo THEN {FirstBrief} ELSE {}
  /\ Complete(k)
  /\ UNCHANGED <<proposals, decisions, evaluations, intents, actions,
                 engagement, tx>>

Proposal(base, weight) ==
  [id |-> NewId(proposals), base |-> base, weight |-> weight, status |-> "PROPOSED", result |-> None]

run_calibration(k, weight) ==
  /\ briefs # {} /\ Claimable(k, HeldKeys)
  /\ proposals' = proposals \cup {Proposal(Latest(briefs).version, weight)}
  /\ Complete(k)
  /\ UNCHANGED <<request, briefs, decisions, evaluations, intents, actions, engagement, tx>>

\* feedback of surface_v2 on a plan: its CandidateFeedback may hold a proposal,
\* but one without a base brief, which _find_proposal never returns.
feedback(k) ==
  /\ decisions # {} /\ Claimable(k, HeldKeys)
  /\ Complete(k)
  /\ UNCHANGED <<service_vars, tx>>

-----------------------------------------------------------------------------
\* Decisions and their evaluations

\* _demo_graph_artifacts and _persist_base_graph: the evaluation of a brief
\* selects a plan and gives it the Stackfile patch of this Decision.  One
\* brief is evaluated once: its hash is unique in the organization.
Evaluated(brief, id, plan) ==
  [decision |-> id, brief |-> brief.version, weight |-> brief.weight, selected |-> plan]
EvaluatesOnce(brief) == \A e \in evaluations : e.brief # brief.version

DecisionOf(id, version, supersedes, brief, plan, selection) ==
  [id |-> id, version |-> version, supersedes |-> supersedes, brief |-> brief,
   plan |-> plan, selection |-> selection]
SupersededId == IF decisions = {} THEN None ELSE Latest(decisions).id

\* Mutant: a table without uq_decision_record_version.
NoVersionConstraint(v) == TRUE

VersionFree(v) == \A d \in decisions : d.version # v

BeginDiscover(s, k) ==
  /\ tx[s].op = "idle" /\ Claimable(k, HeldKeys) /\ ~RequestLocked
  /\ request.demo
  /\ tx' = [tx EXCEPT ![s] = [op |-> "discover", key |-> k,
                              brief |-> Latest(briefs).version, decision |-> None]]
  /\ UNCHANGED <<service_vars, idem_vars>>

ReadPrevious(s) ==
  /\ tx[s].op = "discover"
  /\ tx' = [tx EXCEPT ![s].op = "evaluate", ![s].decision = SupersededId]
  /\ UNCHANGED <<service_vars, idem_vars>>

CommitDiscover(s) ==
  LET brief == CHOOSE b \in briefs : b.version = tx[s].brief
      previous == tx[s].decision
      version == IF previous = None THEN 1 ELSE ById(decisions, previous).version + 1
      id == NewId(decisions) IN
  /\ tx[s].op = "evaluate"
  /\ EvaluatesOnce(brief) /\ id <= MaxDecisions /\ VersionFree(version)
  /\ \E plan \in Plans :
       /\ decisions' = decisions \cup
            {DecisionOf(id, version, previous, brief.version, plan, FALSE)}
       /\ evaluations' = evaluations \cup {Evaluated(brief, id, plan)}
  /\ request' = [request EXCEPT !.status = "DECISION_READY"]
  /\ Complete(tx[s].key)
  /\ tx' = [tx EXCEPT ![s] = Idle]
  /\ UNCHANGED <<briefs, proposals, intents, actions, engagement>>

\* A transaction that is refused, meets a constraint or loses its connection.
Abort(s) ==
  /\ tx[s].op # "idle"
  /\ tx' = [tx EXCEPT ![s] = Idle]
  /\ UNCHANGED <<service_vars, idem_vars>>

-----------------------------------------------------------------------------
\* supersede_intents_for_decision_change

InFlight == {"CHECKOUT_PENDING", "COMPLETED"}

\* Mutant: approvals of older intents are left alone.
SupersededNever(i, current) == i

SupersededIntent(i, current) ==
  IF i.decision = current THEN i
  ELSE [i EXCEPT !.approval = IF @ \in {"NOT_REQUESTED", "PENDING", "APPROVED"}
                              THEN "SUPERSEDED" ELSE @,
                 !.payment = IF @ = "SESSION_CREATED" THEN "EXPIRED" ELSE @]

SupersedeIntents(current) ==
  /\ \A i \in intents : i.decision # current => i.payment \notin InFlight
  /\ intents' = {SupersededIntent(i, current) : i \in intents}

-----------------------------------------------------------------------------
\* Proposals are decided once, on the current brief

Decided(p, status, result) ==
  (proposals \ {p}) \cup {[p EXCEPT !.status = status, !.result = result]}

\* _find_proposal, the two conflicts that follow it.
Decidable(p) ==
  /\ p.status = "PROPOSED"
  /\ \E b \in briefs : b.version = p.base /\ b.status = "APPROVED"

reject_proposal(k, p) ==
  /\ Decidable(p) /\ Claimable(k, HeldKeys)
  /\ proposals' = Decided(p, "REJECTED", None)
  /\ Complete(k)
  /\ UNCHANGED <<request, briefs, decisions, evaluations, intents, actions,
                 engagement, tx>>

\* Mutant: the brief the proposal started from stays approved.
BaseStaysApproved(base, brief) == briefs \cup {brief}

AcceptedBriefs(base, brief) ==
  (briefs \ {base}) \cup {[base EXCEPT !.status = "SUPERSEDED"], brief}

\* _apply_proposal_changes
AppliedChanges(base, p) == [base EXCEPT !.weight = p.weight]

\* The brief is evaluated again: a new Decision and no intent of an older one.
Reevaluated(brief) ==
  LET id == NewId(decisions) IN
  /\ id <= MaxDecisions /\ VersionFree(NextVersion(decisions))
  /\ \E plan \in Plans :
       /\ decisions' = decisions \cup
            {DecisionOf(id, NextVersion(decisions), SupersededId, brief.version, plan, FALSE)}
       /\ evaluations' = evaluations \cup {Evaluated(brief, id, plan)}
  /\ SupersedeIntents(id)

accept_proposal(k, p) ==
  LET base == CHOOSE b \in briefs : b.version = p.base
      brief == [AppliedChanges(base, p) EXCEPT !.version = NextVersion(briefs),
                                               !.supersedes = base.version] IN
  /\ Decidable(p) /\ Claimable(k, HeldKeys)
  /\ briefs' = AcceptedBriefs(base, brief)
  /\ Reevaluated(brief)
  /\ proposals' = Decided(p, "ACCEPTED", brief.version)
  /\ Complete(k)
  /\ UNCHANGED <<request, actions, engagement, tx>>

select_plan(k, plan) ==
  LET source == Latest(decisions)
      id == NewId(decisions) IN
  /\ decisions # {} /\ Claimable(k, HeldKeys)
  /\ id <= MaxDecisions /\ VersionFree(source.version + 1)
  /\ decisions' = decisions \cup
       {DecisionOf(id, source.version + 1, source.id, source.brief, plan, TRUE)}
  /\ SupersedeIntents(id)
  /\ Complete(k)
  /\ UNCHANGED <<request, briefs, proposals, evaluations, actions, engagement, tx>>

-----------------------------------------------------------------------------
\* Intents, action runs and simulations of a Decision

\* get_selected_solution_plan is given supersedes_id when there is one: right
\* for a selection, whose source holds the evaluation, and the evaluation of
\* the previous Decision for any other.
PlanEvaluations(d) ==
  {e \in evaluations : e.decision = (IF d.supersedes # None THEN d.supersedes ELSE d.id)}

\* Only the plan the engine selected carries a Stackfile patch.
Lockable(d) == \E e \in PlanEvaluations(d) : e.selected = d.plan

BeginLock(s, k) ==
  LET d == Latest(decisions) IN
  /\ tx[s].op = "idle" /\ Claimable(k, HeldKeys)
  /\ decisions # {} /\ Lockable(d)
  /\ tx' = [tx EXCEPT ![s] = [op |-> "lock", key |-> k, brief |-> None, decision |-> d.id]]
  /\ UNCHANGED <<service_vars, idem_vars>>

lock_purchase_intent(s) ==
  LET d == ById(decisions, tx[s].decision)
      e == CHOOSE x \in PlanEvaluations(d) : TRUE IN
  /\ tx[s].op = "lock" /\ Cardinality(intents) < MaxIntents
  /\ \A i \in intents : <<i.decision, i.plan>> # <<d.id, d.plan>>
  /\ intents' = intents \cup {[id |-> NewId(intents), decision |-> d.id, plan |-> d.plan,
                               patch |-> e.decision, approval |-> "NOT_REQUESTED",
                               payment |-> "NOT_STARTED"]}
  /\ Complete(tx[s].key)
  /\ tx' = [tx EXCEPT ![s] = Idle]
  /\ UNCHANGED <<request, briefs, proposals, decisions, evaluations, actions, engagement>>

\* The evaluation in scope with the hash the selection copied from its source.
ActionEvaluations(d) ==
  {e \in evaluations : e.decision \in {d.id, d.supersedes} /\ e.brief = d.brief}

start_action_run(k) ==
  LET d == Latest(decisions) IN
  /\ decisions # {} /\ Claimable(k, HeldKeys)
  /\ d.selection /\ ActionEvaluations(d) # {}
  /\ actions' = actions \cup {[decision |-> d.id, plan |-> d.plan, status |-> "WAITING_FOR_HUMAN",
                               evaluation |-> (CHOOSE e \in ActionEvaluations(d) : TRUE).decision]}
  /\ Complete(k)
  /\ UNCHANGED <<request, briefs, proposals, decisions, evaluations, intents, engagement, tx>>

\* The DecisionSimulation row is not authoritative: nothing but a retry of the
\* same simulation reads it.  A selection has no evaluation to simulate.
simulate_decision(k, d) ==
  /\ Claimable(k, HeldKeys) /\ \E e \in evaluations : e.decision = d.id
  /\ Complete(k)
  /\ UNCHANGED <<service_vars, tx>>

\* replay_evaluation: the Decision whose ledger a frozen run is replayed from;
\* _verified_demo_replay_source refuses a run of another brief or Decision and
\* rebuilds the input from the brief and the weights of the ledger.
ReplaySources(e) == {d \in decisions : d.id = e.decision /\ d.brief = e.brief}
replay_evaluation(e) ==
  \E d \in ReplaySources(e), b \in briefs : b.version = d.brief /\ b.weight = e.weight

\* The purchase of an intent, as far as the Decision service reads it (the
\* module PurchaseSystem has it in full): every approval stage and session
\* requires the current Decision, the checkout only the approval.
advance_intent(i) ==
  LET d == ById(decisions, i.decision)
      To(approval, payment) ==
        intents' = (intents \ {i}) \cup {[i EXCEPT !.approval = approval, !.payment = payment]} IN
  /\ \/ Current(d) /\ i.approval = "NOT_REQUESTED" /\ To("PENDING", i.payment)
     \/ Current(d) /\ i.approval = "PENDING" /\ To("APPROVED", i.payment)
     \/ /\ Current(d) /\ i.approval = "APPROVED" /\ i.payment \in {"NOT_STARTED", "EXPIRED"}
        /\ To("APPROVED", "SESSION_CREATED")
     \/ i.approval = "APPROVED" /\ i.payment = "SESSION_CREATED" /\ To("APPROVED", "CHECKOUT_PENDING")
     \/ i.payment = "CHECKOUT_PENDING" /\ To(i.approval, "COMPLETED")
     \/ i.payment = "CHECKOUT_PENDING" /\ To(i.approval, "FAILED")
  /\ UNCHANGED <<request, briefs, proposals, decisions, evaluations, actions,
                 engagement, tx, idem_vars>>

-----------------------------------------------------------------------------
\* The engagement of a candidate's seller

NoEngagement == [status |-> "NONE", consents |-> {}, contact |-> FALSE]

\* Feedback on a candidate, with a proposal, a request for an offer or both.
candidate_action(k, offer, weight) ==
  /\ briefs # {} /\ ~RequestLocked /\ Claimable(k, HeldKeys)
  /\ offer => request.visibility # "PRIVATE" /\ engagement = NoEngagement
  /\ engagement' = IF offer THEN [NoEngagement EXCEPT !.status = "SELLER_REVIEWING"]
                   ELSE engagement
  /\ proposals' = IF weight = None THEN proposals
                  ELSE proposals \cup {Proposal(Latest(briefs).version, weight)}
  /\ Complete(k)
  /\ UNCHANGED <<request, briefs, decisions, evaluations, intents, actions, tx>>

\* Mutant: declining leaves the exchanged contact in place.
DeclinedKeepsContact(e, party) ==
  [e EXCEPT !.consents = @ \ {party}, !.status = "DECLINED"]

Declined(e, party) ==
  [e EXCEPT !.consents = @ \ {party}, !.status = "DECLINED", !.contact = FALSE]

Consented(e, party) ==
  LET both == e.consents \cup {party} = {Buyer, Seller} IN
  [e EXCEPT !.consents = @ \cup {party},
            !.status = IF both THEN "INTRODUCTION_READY"
                       ELSE IF party = Buyer THEN "SELLER_CONSENT_PENDING"
                       ELSE "BUYER_CONSENT_PENDING",
            !.contact = @ \/ both]

record_consent(k, party, consent) ==
  /\ engagement # NoEngagement /\ Claimable(k, HeldKeys)
  /\ engagement' = IF consent THEN Consented(engagement, party) ELSE Declined(engagement, party)
  /\ Complete(k)
  /\ UNCHANGED <<request, briefs, proposals, decisions, evaluations, intents, actions,
                 tx>>

-----------------------------------------------------------------------------
(***************************************************************************)
(* A new organization, or the demo organization as reset_demo leaves it.   *)
(***************************************************************************)
SeededRows ==
  /\ request = [status |-> "DECISION_READY", visibility |-> "SELECTIVE", demo |-> TRUE]
  /\ briefs = {FirstBrief}
  /\ \E plan \in Plans :
       /\ decisions = {DecisionOf(1, 1, None, 1, plan, FALSE)}
       /\ evaluations = {Evaluated(FirstBrief, 1, plan)}

Init ==
  /\ \/ request = NoRequest /\ briefs = {} /\ decisions = {} /\ evaluations = {}
     \/ SeededRows
  /\ proposals = {} /\ intents = {} /\ actions = {}
  /\ engagement = NoEngagement
  /\ tx = [s \in Sessions |-> Idle]
  /\ IdemInit

AnyKey == Keys \cup {Once}

Transactions(s) ==
  \/ \E k \in AnyKey : BeginDiscover(s, k) \/ BeginLock(s, k)
  \/ ReadPrevious(s) \/ CommitDiscover(s) \/ lock_purchase_intent(s) \/ Abort(s)

Proposing(k) == Cardinality(proposals) < MaxProposals /\ \E w \in Weights : run_calibration(k, w)

Reading(k) == feedback(k) \/ \E d \in decisions : simulate_decision(k, d)

Deciding(k) == \/ \E p \in proposals : accept_proposal(k, p) \/ reject_proposal(k, p)
               \/ \E plan \in Plans : select_plan(k, plan)
               \/ start_action_run(k)

Engaging(k) ==
  \/ \E offer \in BOOLEAN, w \in Weights \cup {None} :
       /\ w # None => Cardinality(proposals) < MaxProposals
       /\ candidate_action(k, offer, w)
  \/ \E party \in {Buyer, Seller}, consent \in BOOLEAN : record_consent(k, party, consent)

Next ==
  \/ \E k \in AnyKey, v \in {"PRIVATE", "SELECTIVE"}, demo \in BOOLEAN :
       create_purchase_request(k, v, demo)
  \/ \E k \in AnyKey : Proposing(k) \/ Reading(k) \/ Deciding(k) \/ Engaging(k)
  \/ \E s \in Sessions : Transactions(s)
  \/ \E i \in intents : advance_intent(i)

Spec == Init /\ [][Next]_vars

-----------------------------------------------------------------------------
\* Decision versions form one chain: each supersedes the one before it, also
\* when discover, accept_proposal and select_plan overlap.
DecisionsAreChain ==
  \A d \in decisions :
    /\ \A e \in decisions : e.version = d.version => e = d
    /\ IF d.version = 1 THEN d.supersedes = None
       ELSE \E e \in decisions : e.id = d.supersedes /\ e.version = d.version - 1

\* The newest Decision rests on a brief that was superseded before it was
\* written: a discover that read its brief before accept_proposal committed
\* and the newest Decision after.  discover supersedes no intent.
OvertakenDiscover ==
  \E b \in briefs : b.version = Latest(decisions).brief /\ b.status = "SUPERSEDED"

\* supersede_intents_for_decision_change: but for that overlap, an intent that
\* is waiting for approval, approved or being paid belongs to the current
\* Decision.
ExecutableIsCurrent ==
  \A i \in intents :
    (i.approval \in {"PENDING", "APPROVED"} \/ i.payment \in InFlight)
      => i.decision = Latest(decisions).id \/ OvertakenDiscover

\* Exactly the newest brief is APPROVED; each older one was superseded by the
\* brief of one accepted proposal, whatever was proposed on it.
BriefsFollowProposals ==
  /\ \A b \in briefs : b.status = "APPROVED" <=> b = Latest(briefs)
  /\ \A b \in briefs : b.supersedes # None =>
       Cardinality({p \in proposals : /\ p.status = "ACCEPTED" /\ p.result = b.version
                                      /\ p.base = b.supersedes /\ p.weight = b.weight}) = 1

\* A Decision, its selections and its action runs rest on the evaluation of
\* the Decision's own brief; replay_evaluation finds what was evaluated.
EvaluationBound ==
  /\ \A d \in decisions : \E e \in evaluations : e.brief = d.brief
  /\ \A e \in evaluations : replay_evaluation(e) /\ \A d \in ReplaySources(e) : ~d.selection
  /\ \A a \in actions : \E e \in evaluations :
       e.decision = a.evaluation /\ e.brief = ById(decisions, a.decision).brief

\* What a Decision was made from can be told: the brief the buyer accepted and
\* the evaluation of that brief.
DecisionRestsOnBrief == BriefsFollowProposals /\ EvaluationBound

\* Contact details are exchanged exactly while both parties consent, also when
\* one declines and consents again.
ConsentIsMutual ==
  /\ engagement.contact <=> engagement.consents = {Buyer, Seller}
  /\ engagement.contact => engagement.status = "INTRODUCTION_READY"
=============================================================================
