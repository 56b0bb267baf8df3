# Verification of SIRA

SIRA (`sandip-pathe/sira-seil-datahub`) is a procurement system: a FastAPI
service and a Temporal worker over one PostgreSQL database, a decision engine, a
seller side that publishes reviewed product evidence, agent missions over a
Snowflake ledger, and a checkout that charges a card through Prava and a merchant.
This directory models the parts that keep state or decide something, checks them
with TLC and proves with TLAPS the properties of purchase, refund, shopping, connection,
Decision and evidence rows, conversations, proof runs and the decision engine.

## 1. Inventory

| Part | Source | State it keeps | Operations | What makes it correct |
|---|---|---|---|---|
| Purchase ledger | `python/persistence` | `PurchaseIntent`, `ApprovalRequest`, `PaymentSession`, `PaymentAttempt`, `MerchantOrder`, `TransactionTransition`, `Receipt`, `WorkflowRun`, `OutboxEvent` | `transition_purchase_intent`, `supersede_intents_for_decision_change`, `record_approval_event` | an event key is applied once; a state changes only from an allowed one |
| Idempotency records | `repositories.py` | `IdempotencyRecord` | claim, complete | one effect per key |
| Approval service | `services/api/sira_api/service.py` | approval request, approve events | create, approve, reject, revoke, Decision change | separation of duties, order of roles, no revocation after dispatch |
| Session service | `service.py` | session placeholder, return binding | `create_prava_session` (two transactions around a call), `accept_prava_browser_return` | one usable session however creates overlap |
| Outbox dispatcher | `services/worker/sira_worker/outbox.py` | none (reads `OutboxEvent`) | `dispatch_once`: read, start workflow, publish | at-least-once delivery, no event lost |
| Checkout workflow | `workflows.py`, `activities.py` | Temporal history | execute, up to five reconciliations, verify, fail | ends; never dispatches twice |
| Checkout coordinator | `coordinator.py` | none (all in rows) | prepare, dispatch, reconcile, persist, verify, receipt, refund | rows agree with the providers, the receipt is true |
| Prava and merchant adapters | `python/integrations` | none | isolated checkout, reconcile, report, entitlement probes, refund | an unknown outcome is never reported as known |
| Canonical state machines | `python/domain/state_machines.py` | tables | `transition` per machine, `derive_purchase_state` | the code's columns follow the tables (they do but for two transitions, finding 3) |
| Reversal | `service.py`, `coordinator.py`, `workflows.py` | `Reversal` rows | request, execute, reconcile refund, status shown | refunds never exceed the payment |
| Prava MCP connection | `prava_mcp_service.py`, `prava_mcp_coordinator.py`, `integrations/prava/mcp.py` | `PravaMcpAuthorization`, `PravaMcpConnection` | begin, complete, refresh | a state is used once, by its owner; the stored token can be refreshed |
| Prava MCP shopping | `prava_mcp_service.py`, `outbox.py`, `workflows.py`, `prava_mcp_coordinator.py` | `PravaShoppingRun`, `WorkflowRun`, `OutboxEvent` | quote, create session, queue, poll, check out, checkpoint | ordered only after approval, a bounded number of times, and recorded |
| Requests, briefs, decisions | `service.py`, `surface_v2.py`, `repositories.py` | `PurchaseRequest`, briefs, proposals, `DecisionRecord`, `EvaluationRun`, intents, action runs, engagement | propose, decide, discover, select, lock, act, simulate, replay, consent | one chain of versions, only the newest executable |
| Decision engine | `python/decision_engine` | none (pure) | recall, gates, plans, bounds, ranking, counterfactual search | what it calls eligible, stable or minimal is so |
| Graph persistence and ledger | `graph_persistence.py`, `graph_ledger.py`, migration `23a8fff461fe` | decision-graph tables | build ledger, build rows | rows fit their tables and tell what was found |
| Seller evidence | `seller_service.py` | product, draft, revisions, evidence, submissions, Packs | claim, patch, attach, submit, review, publish, suspend | what is published was reviewed as it is |
| Missions and chat | `workspace_service.py`, `mission_repository.py` | missions, events, artifacts, tasks, checkpoints; discovered catalogue | chat on five routes, persist turn, refresh supply, the mission half of `create_purchase_request` | an event once and in order, whoever writes it; a verified artifact comes from what was recorded |
| Snowflake ledger | `snowflake_service.py`, `snowpark_handler.py` | `DECISION.REQUESTS`, `RUNS`, `CITATIONS` | find, insert, procedure, hydrate | a decision cites what its run recorded |
| Proof runs | `python/proof`, `infra/datahub/k0/runtime` | DataHub tags, router state, receipt documents | causal B-A-B proof, deployment proof | whatever happens, the world is restored |
| Proof runtime, rules of the older engine, projections, stackfile patches, Senso, guardrails, identity, web | see section 6 | little or none of their own | reads, parsing, HTTP | not modelled |

The API and the worker interact through the database only.  The API writes an
`OutboxEvent` in the transaction that changes the rows; the dispatcher turns it into
a Temporal workflow with a deterministic id; the workflow's activities read and write
the rows the API does.  Both sides lock the intent row first.  A Decision change
(`accept_proposal`, `select_plan`) reaches a purchase through
`supersede_intents_for_decision_change`.  The engine is called inside `discover`, and
its answer is stored by graph persistence in the same transaction.  Missions have two
writers: `chat`, and `create_purchase_request`, which adds an event, an artifact and a
checkpoint to the mission a request came from, under the same row lock.  Proof runs share
DataHub and the router with each other only.

What is hard: an API call that runs between two transactions or acts on a row it
read and did not lock; an event delivered twice; an activity that Temporal has given
up and that still runs; a provider that charged and did not answer; an approval that
is revoked, expires or is superseded while a checkout is queued; a client that
retries a call whose answer it did not see; statements that commit one by one
(Snowflake); state outside the database that must be undone after an interruption
(DataHub, router).

## 2. Modules

| Module | Models | Extends |
|---|---|---|
| `PurchaseStore` | the rows of one intent and the repository's transitions | |
| `ApprovalService` | the approval endpoints and the Decision change | `PurchaseStore` |
| `SessionService` | session creation and browser return | `ApprovalService` |
| `CheckoutWorkflow` | outbox dispatcher, Temporal workflow, activity slots | `SessionService` |
| `CheckoutCoordinator` | the activities' transactions and provider calls | `CheckoutWorkflow` |
| `PurchaseSystem` | everything together, faults, properties, fairness | `CheckoutCoordinator` |
| `PurchaseLifecycle` | abstract specification: the canonical state machines and one charge | |
| `PurchaseReversal` | refunds of a paid intent: request, delivery, workflow, activities, merchant | |
| `PravaShopping` | one Prava MCP shopping run: API, dispatcher, workflow, activities | |
| `PravaConnection` | one organization's OAuth authorizations, callback and token refresh | |
| `Idempotency` | `claim_idempotency`, `complete_idempotency` | |
| `DecisionService` | one request: briefs, proposals, Decisions, evaluations, intents, actions, engagement | `Idempotency` |
| `SellerEvidence` | one product's draft, revisions, reviews and Packs; a second, unclaimed product | `Idempotency` |
| `GraphInput` | what the constructors of the frozen input accept | |
| `GraphGates` | recall, identity, evidence assessment, hard gates | `GraphInput` |
| `RankStability` | authoritative and envelope keys, stability verdict | |
| `SolutionPlans` | closures, aggregation, bounds, ranking, frontiers: one evaluation | `GraphGates`, `RankStability` |
| `EvaluationRows` | Decision Ledger and normalized rows against their constraints | `SolutionPlans` |
| `DecisionEngine` | the whole call: base, rerun without private facts, counterfactual search, ledger, rows | `EvaluationRows` |
| `MissionStore` | the repository calls on one mission | |
| `GovernedLedger` | `create_decision` and `RUN_SIRA_DECISION`, statement by statement | |
| `Workspace` | `chat` with its five routes, retries, refreshes, restarts; `create_purchase_request` as the missions see it | `MissionStore`, `GovernedLedger` |
| `ProofRun` | causal and deployment proof, DataHub's index, the router | |
| `PurchaseProofs` | types, one charge, authority, agreement of the rows, ledger and outcome, refinement of `PurchaseLifecycle` | `PurchaseSystem` |
| `DecisionProofs` | chain, briefs, intents, consent, keys | `DecisionService` |
| `EngineProofs` | closures, gates, ranking, counterfactuals and rows, for every input | `DecisionEngine` |
| `EvidenceProofs` | reviews, Packs, the page's actions, keys | `SellerEvidence` |
| `ReversalProofs` | refunds | `PurchaseReversal` |
| `PravaProofs` | Prava shopping; one use of an authorization, live refresh token | `PravaShopping`, `PravaConnection` |
| `ProofRunProofs` | restoring tags and route, documents | `ProofRun` |
| `WorkspaceProofs` | conversations, verified artifacts, one listing per domain | `Workspace` |
| `MCPurchase`, `MCReversal`, `MCPravaShopping`, `MCPravaConnection`, `MCDecisions`, `MCSellerEvidence`, `MCEngine`, `MCWorkspace`, `MCProofRun` | constants for TLC | the module they name |

How the code became state and actions:

* **One intent.**  Nothing of a checkout is shared between intents except the
  dispatcher's polling, so the variables of `PurchaseSystem` are the rows of one
  `PurchaseIntent`.
* **A transaction is a step.**  Every handler and every coordinator transaction of a
  purchase takes `SELECT ... FOR UPDATE` on the intent before it decides; what lies
  between two transactions (a provider call, a crash) is a step of its own.  A handler
  that raises rolls back and is no step; the exceptions that commit something
  (`ExpireOnUse`, `PrepareExpired`) are steps.
* **Time** is three kinds of deadline that pass once: quote, approval, session.  The
  model does not relate them: any may pass first.
* **`transitions`** is the `TransactionTransition` log.  A row carries the event key,
  the session it names, its target and the payload hash, since a replayed key with
  another target or hash is a `PersistenceConflict`.
* **`slot`** is an activity attempt at one of its steps.  `ActivityTimeout` makes the
  workflow go on while the attempt still runs; `WorkerCrash` ends the attempt and
  the workflow learns of it only by the timeout.
* **`merchant`, `prava`** are external: the merchant's order under our idempotency key
  (`IN_FLIGHT`: sent, not yet known there) and what Prava was told.  `CheckoutAnswers`
  is the set of things the two may have done together with what
  `PravaRestAdapter.execute_isolated_checkout` returns for it.
* **Refunds** start where the checkout ended: the payment is `PRAVA_COMPLETED` and the
  order known, which no transaction changes afterwards.  What may still run is the
  verification of fulfillment.  `refund` is the merchant's side of each reversal: it
  pays in one or several parts, perhaps less than asked, rejects only what it has not
  begun to pay, and a request it never answered may still arrive (`IN_FLIGHT`).  A
  repeated reason (`uq_reversal_request`) rolls back and is no step.  `purchase_state`
  is what `purchase_status` shows of the newest reversal.
* **Prava shopping** is a second way to buy, with its own rows and workflow.  The run's
  status column is written with the provider's own word; `RunStatus` is the table's
  `CHECK` constraint, and a checkpoint that breaks it rolls back and raises.  The
  statuses Prava may answer are the constant `ProviderStatuses`, divided as the workflow
  divides them.  The idempotency key `sira-<checkout session>` names one payment session,
  and a payer decides once.
* **Prava connection.**  `complete` and `_access_token` (the API's and the worker's, which
  do the same) each read in one transaction, call Prava, and write in another.  A token
  is its client and a number; what Prava still accepts is `live`, and it either always
  replaces a refresh token at its use or never (`rotates`).  `lost` and `raced` remember
  that a caller died with a rotated token, or stored tokens over another client's row.
  State signing and encryption are left out; a forged state is no step.
* **Idempotency.**  The claim is inserted and completed in the transaction it protects, so
  there is no committed record in progress; overlapping calls meet in the unique index
  (`Claimable(k, held)`, `held` the keys of open transactions).  A key nobody sends twice
  is `Once`.
* **Decisions.**  PostgreSQL runs at READ COMMITTED.  Most operations lock what they act on
  and are one step.  `discover` reads the brief, later the newest Decision, and later
  writes; `lock_purchase_intent` reads the Decision and later writes.  Both are several
  steps of an open transaction (`tx`), whose commit is guarded by the unique constraints,
  or `Abort`.  `advance_intent` is the purchase as far as this service reads it.
* **Seller evidence.**  Every operation locks the draft row, so it is one step.  A revision is
  what validation and publication read of it: complete, free of conflicts, its evidence.
  `Age` lets evidence pass 365 days at any time.
* **Engine.**  Every operator takes the frozen input.  Ids are naturals in their lexical
  order, exact ratios are integers over one denominator, canonical payloads and hashes are
  the values they encode.  `DecisionEngine` takes one step per pass of the call; a
  `ValueError` anywhere ends in `REFUSED` (`RowsRaise` and `MembersRaise` are those of the
  builders).  The recursive `visit` of the closure is a walk: a stack of the products being
  visited, the requirements looked at, and one step per requirement or end of a visit.
  `ClosureIsExact` compares what it returns with the products that follow from the root
  (`Follows`), defined without any walk.
* **Missions.**  A call is one HTTP request, sent again under its request id by a client that
  saw no answer.  It prepares the mission in one transaction, works outside any, and
  persists each turn in one.  The route a message takes is a field of the request.  The
  agent, the web researcher and Snowflake answer, refuse or fail; a restart drops the
  process's memory and its running calls.  A chat without a `mission_id` draws a new one each
  time it is sent, so each sending is a request of its own here, with its own mission.
  `CreatePurchaseRequest` is the whole transaction as far as it touches the mission: its
  checkpoint leaves `version`, state and turn budget alone.  The request rows it also writes
  are those of `DecisionService`.  In `GovernedLedger` each statement commits by itself and
  `UNIQUE` is not enforced, as the connector and Snowflake behave unless told otherwise.
* **Proof runs** may be interrupted after every call.  DataHub answers reads from an index that
  lags (`Reindex`); other users change facts (`Drift`).  The flags the `finally` blocks
  read are fields of the process; `unrecorded` remembers a change made before its flag
  was set, `stranded` a recovery that failed itself.  An adapter answers a trial that does
  not allow the EU without its identity (`adapter_server.py:50`), which makes the campaign
  probe raise: `Campaigns`.

A definition whose comment calls it a mutant is a deliberately wrong variant of the
definition that follows; no specification uses it.  Replacing the definition by its
mutant makes TLC refute the property listed with it in `PROJECT.json`.

## 3. Runs

| Run | Instance | Shows |
|---|---|---|
| `checkout` | 1 actor, 1 session, 2 slots, 2 rounds, 2 tries, all provider faults, 1 crash or timeout, fairness; 346,000 states | money moves once; rows agree with the providers; receipt, fulfillment and run tell the truth; the columns follow the canonical tables but for the named departures (refinement); every queued checkout ends, also after two reconciliation rounds |
| `approvals` | 2 people, one with both roles, 2 stages, 2 sessions, 2 slots, 2 rounds, lost reports and failing queries, 1 crash or timeout; 419,000 states | separation of duties, agreement of the approval columns, revocation, supersession; overlapping and late session creates leave one usable session |
| `refunds` | amount 2, 2 reversals, 2 slots, 2 rounds, 2 tries, 1 fault, fairness; 1,050,000 states | refunds stay within the payment, one request each; rows, runs and the status shown agree with the merchant and are final once settled; refund workflows end |
| `shopping` | 2 session calls, 2 sessions, 4 statuses, 1 dispatcher, 2 slots, 2 polls, 2 tries, 2 faults, fairness; 441,000 states | the order is asked for only after approval and at most `MaxTries` times; the session paid is the one shown; an ended run stays; a queued checkout's workflow ends whatever the payer does |
| `connection` | 2 people, 2 authorizations, 3 overlapping calls, 4 tokens; 539,000 states | an authorization is used once and by its owner; the stored token can be refreshed except after the two races of section 5 |
| `decisions` | 2 sessions, 3 Decisions, 2 proposals, 1 intent, one retried key; 1,043,000 states | Decision versions are one chain; only the current Decision is executable; each rests on the brief accepted and its evaluation, and can be replayed; contact only while both consent; one effect per key |
| `evidence` | the owner in two roles, a reviewer, an operator; 2 sources, 3 revisions, 2 reviews, one retried key; 276,000 states | a published Pack was reviewed as it is, by somebody who neither submitted nor wrote it unless an operator wrote it (finding 4); what is under review does not change; the page offers what the handlers accept |
| `proof` | 1 causal and 1 deployment proof, or 2 deployment proofs; 1 foreign change, fairness; 263,000 states | tags and route are restored; receipts are true; proofs end |
| `engine` | about 1,300 frozen inputs of five families; 8,000 states | eligible plans, stability, counterfactual and rows hold by a reading of the raw records |
| `missions` | 5 pairs of requests over the five routes, one sent twice, 1 purchase request, 1 restart, fairness; 387,000 states | histories read as conversations and are covered by their checkpoint, which counts turns and only turns; verified artifacts come from what was recorded, with one exception (finding 5); one listing per domain; calls end |
| `provider_exception` | 1 slot, exceptions only, fairness | **refuted**: finding 1 |
| `order_record` | no fault, fairness | **refuted**: finding 2 |

Bounds.

* `MaxRounds` is 5 and `MaxTries` 5 in the code (3 for `fail_checkout_workflow`,
  `MaxFailTries`); two of each in `checkout` already give a first, a middle and a last
  one.  Two slots are what one timeout needs: the abandoned attempt and its successor;
  with `MaxFaults = 1` no third can run.  Two sessions suffice for an older create that
  answers after a newer one.  `MaxSessions` bounds the `PaymentSession` rows and is a
  guard of `create_prava_session`.  One dispatcher delivers an event twice by crashing
  between start and publication.
* A refund of amount 2 gives a partial refund and two halves; two reversals a rejected
  request followed by another.
* The shopping workflow polls 60 times and tries 3 times; two of each give a first and a
  last one.  The statuses are a waiting, an approving and a refusing word that the table's
  `CHECK` allows (`AWAITING_APPROVAL`, `PAID`, `FAILED`) and one it does not (`PENDING`).
  The proofs cover any number of dispatchers.
* Three connection calls are a callback and two refreshes that all overlap; four tokens
  two exchanges and two rotations.
* Three Decisions are a first one, its successor and one made from a stale read; two
  sessions are the two transactions that overlap.  Three revisions and two reviews
  are a rejected or changed submission followed by another.
* The engine's families vary what one part of the pipeline is sensitive to around one
  default input: duplicates and aliases, bundles and aggregation, overlapping or missing
  bounds, private facts behind gates and preferences, and defects that must refuse.
  `Limit = 3` is the code's own limit of the counterfactual search.
* One request sent twice and another once are a retry, an overlap with it and an
  overlap with a stranger.  The purchase request is of the actor of the first and the last
  pair and may be created at any point of their calls.
* Two deployment proofs meet in the router's version check; a causal and a deployment
  proof in what DataHub holds.  In `MCProofRun` the process outside the pair has failed before
  its first call, a state every process can be in.

Symmetric: actors, authorizations and calls in `connection`, sessions in `decisions`.  Slots
are alike without it: `FreeSlot` names the one that takes the next attempt.  Runs with a
liveness property use no symmetry.  Deadlock is not checked: every system here may stop
where people do nothing, and ends.

Fairness is weak fairness of loops that live processes run: dispatchers, Temporal's
scheduling, a running activity, the timeout of a dead attempt, an API request in
progress, a chat call or refresh on the event loop (each await has a timeout), and a
proof process (each read, wait and subprocess has a timeout).  For refunds it is enough
that one of these goes on while any can.  People, deadlines,
faults, restarts, the merchant, the payer at Prava, DataHub's index and its other
users are not fair.

## 4. Proofs

| Theorem | Module | States |
|---|---|---|
| `TypeCorrect` | `PurchaseProofs` | `Spec => []TypeOK` |
| `ChargedAtMostOnce` | `PurchaseProofs` | `Spec => []AtMostOneCharge` |
| `RevokedIsSafe` | `PurchaseProofs` | `Spec => []RevokedNeverCharged` |
| `FourEyesHold` | `PurchaseProofs` | `Spec => []FourEyes` |
| `SupersededNotDispatched` | `PurchaseProofs` | `Spec => NoDispatchAfterSupersede` |
| `RowsAgree` | `PurchaseProofs` | `Spec => []RecordsAgree` |
| `LedgerIsTrue` | `PurchaseProofs` | `Spec => []LedgerTrue` |
| `OutcomeIsTrue` | `PurchaseProofs` | `Spec => []OutcomeTrue` |
| `RunsStayOver` | `PurchaseProofs` | `Spec => TerminalRunStays` |
| `LifecycleImplemented` | `PurchaseProofs` | `Spec => ImplementsLifecycle` (refinement) |
| `RefundTypes` | `ReversalProofs` | `Spec => []TypeOK` |
| `RefundRequestedOnce` | `ReversalProofs` | `Spec => []OneRefundPerReversal` |
| `RefundLedgerTrue` | `ReversalProofs` | `Spec => []LedgerMatchesMerchant` |
| `RefundRowsTrue` | `ReversalProofs` | `Spec => []RefundRowsAgree` |
| `RefundsStayWithinPayment` | `ReversalProofs` | `Spec => []RefundsWithinPayment` |
| `SettledIsFinal` | `ReversalProofs` | `Spec => SettledReversalStays` |
| `ShoppingTypes` | `PravaProofs` | `Spec => []TypeOK` |
| `OrderIsSound` | `PravaProofs` | `Spec => []OrderSound` |
| `ShownTrue` | `PravaProofs` | `Spec => []ShownIsTrue` |
| `EndedStays` | `PravaProofs` | `Spec => EndedRunStays` |
| `ConnectionTypes` | `PravaProofs` | `ConnectionSpec => []ConnectionTypeOK` |
| `ConnectionIsSound` | `PravaProofs` | `ConnectionSpec => []ConnectionSound` |
| `StoredTokenIsLive` | `PravaProofs` | `ConnectionSpec => []StoredTokenLive` |
| `DecisionTypes` | `DecisionProofs` | `Spec => [](TypeOK /\ RowsInv)` |
| `DecisionsFormChain` | `DecisionProofs` | `Spec => []DecisionsAreChain` |
| `ExecutableStaysCurrent` | `DecisionProofs` | `Spec => []ExecutableIsCurrent` |
| `DecisionsRestOnBriefs` | `DecisionProofs` | `Spec => []DecisionRestsOnBrief` |
| `ConsentStaysMutual` | `DecisionProofs` | `Spec => []ConsentIsMutual` |
| `DecisionKeyServedOnce` | `DecisionProofs` | `Spec => []KeyServedOnce` |
| `EvidenceTypes` | `EvidenceProofs` | `Spec => []TypeOK` |
| `PublicationIsSound` | `EvidenceProofs` | `Spec => []PublicationSound` |
| `NothingChangesUnderReview` | `EvidenceProofs` | `Spec => FrozenUnderReview` |
| `ViewIsTrue` | `EvidenceProofs` | `Spec => []ViewMatchesHandlers` |
| `SellerKeyServedOnce` | `EvidenceProofs` | `Spec => []KeyServedOnce` |
| `ProofTypes` | `ProofRunProofs` | `Spec => []TypeOK` |
| `WorldIsRestored` | `ProofRunProofs` | `Spec => []ProofsRestore` |
| `ProofDocumentsAreTrue` | `ProofRunProofs` | `Spec => []DocumentsAreTrue` |
| `EnvelopeTestIsExact` | `EngineProofs` | the envelope comparison holds iff some outcomes put the competitor ahead |
| `VerdictIsExact` | `EngineProofs` | with all bounds available, frontier and status are exact |
| `CounterfactualStaysMinimal` | `EngineProofs` | `Spec => []CounterfactualIsMinimal` |
| `RankStaysRobust` | `EngineProofs` | `Spec => []RankIsRobust` |
| `PlansStaySound` | `EngineProofs` | `Spec => []PlansAreSound` |
| `RowsStayTrue` | `EngineProofs` | `Spec => []RowsAreTrue` |
| `WorkspaceTypes` | `WorkspaceProofs` | `Spec => []TypeOK` |
| `HistoryStaysSound` | `WorkspaceProofs` | `Spec => []HistorySound` |
| `VerifiedStaysRecorded` | `WorkspaceProofs` | `Spec => []VerifiedIsRecorded` |
| `DomainsListedOnce` | `WorkspaceProofs` | `Spec => []OneListingPerDomain` |

They hold for any sets of actors, dispatchers and slots, any list of distinct roles, any
number of sessions, rounds, tries, faults, calls, revisions, Decisions and overlapping
proofs, any amount, any frozen inputs, competitors and integer bounds, any requests and
retries, agent answers, discoveries and citations.  The assumptions, each named in
the module that declares the constants:

* `RolesAssumption` (what `create_approval_request` enforces of the role list),
  `SessionsAssumption`, `WorkerAssumption`, `FaultsAssumption`;
* `ReversalAssumption`: a positive amount, at least one round and one try;
* `ShoppingAssumption`: at least one poll and one try, finitely many slots, a status that
  neither approves nor refuses;
* `ConnectionAssumption`: `None` is nobody and no authorization, and there is a token;
* `SellerAssumption` (callers have roles, the source that ages is a source) and
  `DecisionAssumption` (a plan's weights are those of a slider, 1 to 5; Buyer and Seller
  differ), with natural bounds; `KeysAssumption`: `Once` is no retried key;
* `ProofAssumption`: no process is both kinds of proof, the drift is bounded;
* `LimitAssumption`: the limit is 1 to 3, as the code enforces;
* `InputsAssumption`: what the types of `graph_v1_models.py` and the only builder of an input
  (`graph_v1_fixtures.py`, with `_resolve_actor_conflicts` of the service) guarantee.
  Collections are tuples, so finite; ids and names are numbered in lexical order; amounts,
  ages and points are numbers; a gate blocks as one of two parties; the facts of one
  field agree; an observed outcome is a rate.  What the constructors refuse is not
  assumed: `decision_graph_input` is the guard of the first phase, and records with the same
  product, seller, id or offer, cycles, gaps, conflicts and missing bounds are all
  admitted;
* `WorkspaceAssumption`: requests are sent at least once and take the routes of their mode,
  outputs have the fields of `MissionTurnOutput` and name no governed run, citations differ
  (each has an id), and the fixtures publish one listing per domain.

`VerdictIsExact` assumes only that plans and bounds have their types (`BoundedPlan`);
that the plans of every input have them is proved (`PlansTyped`).

* **Types.**  `TypeOK` is not inductive alone: `AfterSuccess` and `AfterFailure` are
  defined for activities only, so `AwaitsActivity` (an awaited attempt belongs to a
  workflow at an activity) is added.  With it, rounds and tries stay within their limits.
* **One charge.**  `ChargeInv`: a `PaymentAttempt` exists exactly when the payment has
  left `Undispatched`, which no transaction re-enters; a slot at `DISPATCH` is the only
  one, and nothing was sent yet.  `ChargeFrame` says what all other steps leave alone.
  The argument needs neither `attempt.open` nor the workflow id's uniqueness: the
  payment column alone protects the charge.
* **Authority.**  `StagesInv` (approvers are distinct and hold their stage's role) and
  `AuthorityInv` (an APPROVED status and a dispatched attempt have all roles behind
  them; an outdated Decision has no APPROVED status).  `RevokedIsSafe` also needs
  `ChargeInv`, since `revoke_approval` is guarded by the payment column.
* **Purchase rows.**  `BindingInv`, `ReadInv` and `StartedInv`: the payment leaves
  `NOT_STARTED` once, binding a session whose create request is over by then, so an older
  request that answers late finds its row abandoned; a published event was either started
  or read by a dispatcher that found the purchase revoked.
* **Purchase ledger and outcome.**  `OutcomeInv` says, for every step an attempt may be
  at, what it may rely on however late it runs: `ResultTrue` of the answer it holds
  against the merchant, Prava and the payment, `SlotTrue` of the rows it read.  `LogInv`
  relates the transition log to the payment, so that a replayed event agrees with what it
  wrote.  Both survive the steps of others because nothing known is forgotten
  (`Progress`): a settled payment stays, an order never disappears.
* **Refinement.**  `StepImplements`: each transaction changes payment and fulfillment along
  one entry of the canonical tables or one of the departures that `PurchaseLifecycle` names
  (`PaymentEntries`, `FulfillmentEntries`), or not at all, and touches the order of
  `PurchaseLifecycle` only as its actions do.  The steps of late attempts need `OutcomeInv`:
  without it a late answer could enter a state whose order is missing (`PersistMoves`).
* **One refund request.**  `RequestInv`: an attempt that may still send is the only one of
  its reversal, nothing was sent yet, and the workflow has left the point before
  `execute_refund`, to which `AfterSuccess` and `AfterFailure` never return.
* **Refund ledger.**  `LedgerInv`: a result waiting to be persisted never says more than
  the merchant's refund, and says all of a final one (`TrueResult`); a row likewise
  (`TrueRow`).  Both survive what the merchant does next (`Later`, `TruthStays`).  That an
  abandoned attempt cannot reopen a settled reversal rests on the transition table alone
  (`PersistTrue`): `_persist_refund_result` has no other check.  `ShownFollowsLedger`
  draws from it that `REFUNDED` is shown only of a purchase paid back in full.
* **Refunds within the payment.**  `PaymentInv`: on each row the merchant paid no more than
  was requested, and nothing on a refund it rejected; the committed total, which leaves
  `REJECTED` rows out, stays within the payment.  A rejected row therefore frees only what
  was never paid: by `LedgerInv` it is `REJECTED` at the merchant too, and
  `PersistKeepsRequest` (no persisted result returns a row to those not counted, other than
  by rejecting it, or changes what it requested) shows that no late answer counts it
  again.  `func.sum` is the number of units (`Units`), so `TotalMonotone` and
  `TotalExtended` are facts about finite sets and hold for any number of reversals.
* **Prava shopping.**  `Inv` is `TypeOK` with four parts: `OneSession` (every session id at
  the API, in the row and in the event is Prava's one), `Causes` (what must have happened
  for a row, event, workflow or attempt to be where it is), `AnswersTrue` (a status an
  attempt holds is still true of the payment if it was a decision) and `RunTrue`.  The
  payer decides once, so a late answer is either a waiting word or the present status;
  that is why polls given up do no harm.  The invariant also records a consequence of
  finding 2: no `WorkflowRun` of a shopping run is ever `COMPLETED`, and none is `FAILED`
  because the approval timed out.
* **Bounded order calls.**  `CallsAllowed` counts: calls made plus attempts that may still
  call never exceed the attempts the retry policy has allowed so far.  An attempt given up
  keeps its share, so the bound does not need it to stop.
* **Connection.**  `AuthorizedInv`: a callback in flight carries the actor its authorization
  was begun by, and an authorization stored a connection exactly when it is `CONSUMED`.
  `TokenInv` follows a refresh token through the calls that hold it: none is known before
  it was issued (`TokensIssued`), what a call is about to store is live and its client's
  (`StorableLive`), and a new token is in no other hand, so that no other refresh uses it
  up (`HeldAlone`); `StoredTokenLive` follows with them.
* **Evidence.**  `EvidenceInv`: what was submitted was valid and what was approved was
  approved by somebody who did not submit it, nor wrote it unless an operator did
  (`SubmissionsSound`), the current Pack is the newest
  (`PackIsNewest`), and the three parts of `PublicationSound`.
* **Decisions.**  `RowsInv` has a part per table, among them `BriefInv` (the newest brief is
  the approved one) and `DecisionInv` (versions are a `Chain`: dense, each superseding the
  one before), and `TransactionInv`: what an open transaction read is still there when it
  writes.  `KeyInv`: the key of an open transaction has no record yet and no other
  transaction holds it.
* **Proof runs.**  `RestoreInv` gives every change of tag or route an owner: while it
  differs from the recorded original, some process still has the step ahead that undoes it
  (`OwesPii`, `OwesControl`, `OwesRoute`), unless the change was made before its flag was
  set (`unrecorded`) or the recovery itself failed (`stranded`).  Each step leaves it
  restored, owes it afterwards, or owed nothing and changed nothing (`RestoreFrame`).
  `HistoryInv` lets the documents speak of the past: the router's versions are the log's
  positions, a put in place follows the version it read, and nothing recorded is lost
  (`Recorded`).
* **Conversations.**  `Sound` says of one mission more than `HistorySound`: every event that
  a request left comes behind its own message and every tool or agent event behind its
  `assistant` event (`Ordered`); the tools of a turn are there all or not at all, as its
  `assistant` event lists them, and its agent events up to some index (`Whole`); messages
  are those of the mission's actor and mode (`Own`); the checkpoint covers turns and
  decisions, version and budget count the checkpoints of turns (`Counted`), and each
  decision is that of a created request (`DecidedBy`).  `ProposedSound` is the step of the
  second writer.  `Whole` is what makes a replay harmless: of a turn that is already there,
  `append_event` either refuses (other payload) or appends nothing but the agent events past
  the known ones (`ToldUnknown`), so that no tool is parted from its turn.  `AskedInv`: a
  call at work has left its message, which nothing removes (`HistoryStep`).
* **Verified artifacts.**  `RunInv` and `CallInv`: a run is chosen once and stays
  (`Undecided`), only the call that inserted a run cites for it, in order and one at a time
  (`CitesUpTo`), and a call that holds a result holds what a recorded run of its mission's
  request had by then, all of it if the run is its own (`Found`).  The ledger only grows
  (`Grows`), so what one call relies on survives the steps of all others (`StillRelies`).
* **Counterfactual.**  The evaluation stays unexpanded: whatever it computes, the sets of
  private facts that change the winner are the winners of their size (`WinnersBySize`), the
  search stops at the least size that has one (`LeastPosition`) and, sorted tuples being
  totally ordered (`EarlierTotal`, `EarlierTransitive`), names one of them
  (`EarliestSet`, by the fewest sets before it), so it cannot miss a smaller set.
* **Stability verdict.**  The tuple order is monotone in each component (`LexMonotone`, by the
  least position of a difference), a plan's optimistic key bounds every key it can have
  from below and its conservative key from above (`KeyMonotone`), and both are keys it
  can have (`EnvelopeIsTight`).
* **Engine.**  `EngineInv` says what each phase holds: from `GENERIC` on, the input was accepted
  and `base` is its evaluation, not raised; in `DONE`, the rows are the builder's and nothing
  refused them; in `REFUSED` with a ledger, something did.  The steps do little, so what is left
  is about one evaluation, for every input that satisfies `InputsAssumption`.
* **Bounds and ranking.**  Sums over finite sets are integers and monotone (`SumsOrdered`; a sum
  is a function on the subsets of its domain, built up by size), so every bound of every plan
  is an interval (`PlansTyped`) and the verdict applies.  The selected plan leads since the
  strict order has a least plan among finitely many (`LeaderExists`) and ranking puts it
  first (`FirstLeads`); annotating plans changes nothing the order reads
  (`AnnotationKeeps`).
* **Closure.**  `WalkInv` holds at every step of the walk: stack and finished order share no
  product, each product on the stack requires the next, what was finished has had all its
  requirements looked at, a looked-at requirement is finished before its dependent, is on the
  stack above it, or lies on a cycle through it, and the issues are those of the requirements
  looked at.  It is inductive for the two kinds of step (`PopKeeps`, `LookKeeps`), each of
  which uses up one product or one requirement (`WalkGrows`), so within `ClosureSteps` the
  stack is empty (`WalkEnd`), and `WalkInv` of an empty stack is `ClosureIsExact`.
* **Eligible plans.**  `evaluate_gate` reports no reason exactly when every condition of the gate
  left a mark that passes (`GateSilent`, `MarksTyped`), and a plan is `ELIGIBLE` only without
  reasons (`EligibleHasNoReason`).  What a gate reads was merged twice, per identity and per
  plan: `MergeKeeps` and `GateFactsStand` show that neither merge loses a value or its
  evidence, so a single clear value at the gate is a single value in the raw records
  (`ClearIsProven`), and the weakest authority of a group is its floor
  (`FloorIsWeakest`).
* **Rows.**  `RowsStayStorable` has one lemma per table: the unique keys come from the ids of the
  plans (`IdsApart`), the uniqueness the constructors enforce, and each component occurring
  once in its closure.  Ranks are the positions of the eligible bounded plans because ids with
  different keys are ranked apart (`KeysTell`, `RanksExact`).  A component cites the least
  record of its identity, which is the `INCLUDED` one (`LeastIncluded`, `PackIsSourced`).
  `FrontiersTold` draws `can_beat_selected` from the stability verdict.  The proof needed one
  refusal the model had left out, `MembersRaise`: a candidate and a current action of one
  record id would share a key of `candidate_set_members`, and `_candidate_members` refuses
  them before the table does.

Only model-checked: the liveness properties (`CheckoutEnds` but for its safety half
`RunsStayOver`, `RefundWorkflowEnds`, `QueuedWorkflowEnds`, `ProofsEnd`, `CallsEnd`) and the two
refuted ones.  Liveness under fairness and `ENABLED` are outside the prover's reach and stay
with TLC.  Every safety invariant and action property of the passing runs is proved.
Where a proof would have needed induction over data, it uses a least position, a least set or
a least size instead (`LeastPosition`, `HandedOn`), which the library's theorems provide for
finite sets.

## 5. Findings and observations

1. *A provider exception is not reconciled.*  `coordinator.py:106` makes up the reference
   `reconcile:<attempt>`, which `validate_identifier` refuses when the known outcome is
   reported, so the charge stays `UNCERTAIN` (comment at `coordinator.py:101`).
2. *A placed order is not recorded.*  `_checkpoint` writes `COMPLETED`, which the table's
   `CHECK` constraint refuses (`prava_mcp_coordinator.py:138`, `models.py:1442`).  The
   transaction rolls back, the activity asks Prava again until its retries are used up, and
   the workflow fails; nothing but a `PAID`, `FAILED` or `AWAITING_APPROVAL` word of the
   provider can be stored either.
3. *Two transitions outside the tables.*  `_persist_checkout_result` goes from
   `MERCHANT_APPROVED` to `PRAVA_COMPLETED` (`coordinator.py:860`; `state_machines.py:102` lists
   `REPORTING` and `UNCERTAIN`), and `_verify_fulfillment` from `FAILED_RETRYABLE` to `PARTIAL` or
   `FAILED_FINAL` (`coordinator.py:991`; line 166 lists `PENDING` and `VERIFIED`).  No service
   imports the transition services.  `PurchaseLifecycle` has the tables as they are and names
   these two (`PaymentUnlisted`, `FulfillmentUnlisted`) and the one commit that makes two
   transitions at once (`ApprovedCommit`).  With either of the two removed TLC finds
   `ImplementsLifecycle` violated.
4. *An operator may review their own revision.*  `review_decision` compares the reviewer with
   `draft.editor_actor_id` and the submitter, never with the revision's author
   (`seller_service.py:776`).  An operator patches, the owner submits, the operator approves and
   publishes, although "Self review must fail." (`tests/api/test_seller_evidence_api.py:195`).
   Without the exception `OperatorApprovedOwn` TLC finds `PublicationSound` violated.
5. *A VERIFIED artifact without a source.*  `_persist_snowflake_artifact`
   (`workspace_service.py:1311`) stores `VERIFIED` with whatever citations it got.  A call that
   takes over a run before its citations are stored gets none, and the downgrade of
   `workspace_service.py:1739` is not on this path.  Without the exception `TookOverRun` TLC finds
   `VerifiedIsRecorded` violated.

Findings 3 to 5 name passing runs: their properties state the exception exactly, so that
the runs also show that there is no other.

Met while modelling, without a run of their own.

*Purchase and refunds.*
* A crash or timeout of the checkout activity ends the workflow before its reconciliation
  loop (`workflows.py:93`) and the intent stays `CHECKOUT_PENDING`; a crash of
  `execute_refund` likewise leaves the reversal `REQUESTED` while the merchant pays
  (`workflows.py:196`).
* A late approve or reject writes `EXPIRED` over `REJECTED` or `REVOKED`
  (`service.py:2649`, `2748`; table in `state_machines.py:31`).
* `approve` and `revoke_approval` lock the approval row before the intent, session creation
  and `_prepare_attempt` the other way round: PostgreSQL aborts one of two such calls.
* A verification in progress does not look at reversals and may record `VERIFIED` after a
  full refund (`coordinator.py:594` against `991`).
* A final-status mismatch records `PRAVA_COMPLETED`; its reconciliation replays the event
  key with another hash and conflicts, so the purchase is paid and never fulfilled.
* The receipt names the newest session, not the attempt's.  A late `UNKNOWN` result
  rewrites the session row after settlement.  A reconciliation that overtakes the late
  request gets a 404 and leaves the payment `UNCERTAIN`.
* An abandoned refund reconciliation may lower `refunded_amount` while the reversal is not
  settled; after its last round a refund workflow completes and its run stays `RUNNING`;
  two refunds of half the amount are never shown as `REFUNDED`.
* A late answer of `create_payment_session` sets a queued or ended shopping run back to
  `AWAITING_APPROVAL`, and queueing it again writes no new event.  The checkpoint after
  `shop_checkout` does not look at what Prava answered.
* A Prava connection becomes impossible to refresh when a caller dies between Prava's
  rotation and its second transaction, or when a refresh that overlaps a reconnect stores
  the old client's tokens under the new `client_id`.

*Decisions.*
* A `discover` that read its brief before `accept_proposal` committed and the newest
  Decision after it makes a Decision on a superseded brief current, and supersedes no
  intent: the exception `OvertakenDiscover` in `ExecutableIsCurrent`.
* Selecting a plan twice makes locking and action runs impossible, since the patch is
  looked up one Decision back only.  A brief is evaluated once, so a second `discover`
  of it is refused.  A proposal made by feedback has no base and can never be decided.

*Seller evidence.*
* A published draft can never be edited again; a claimed product stays `CLAIM_PENDING`;
  evidence that ages between review and publication is not looked at again; a suspended
  Pack stays the current one.  Resubmitting an unchanged revision after
  `REQUEST_CHANGES` meets `uq_seller_review_submission`.

*Engine.*
* Two editions, sellers or regions of one product share a plan id: they are ranked, and the
  row builder refuses the evaluation.  So it does when a candidate and a current action
  share an id (`graph_persistence.py:357`), which no constructor checks.  An alias-only
  product makes the ledger builder raise.  A component's source may be the record of another
  identity, and the ledger's may be an excluded record.
* One offer in another currency or horizon, evidence dated after the evaluation or a
  missing freshness policy refuses the whole evaluation.  The `UNDETERMINED` summary says that a
  bound is unavailable also when nothing was eligible.

*Missions and Snowflake.*
* A retried turn meets the checkpoint's unique sequence and fails; one with another answer
  is refused and leaves the mission `PLANNING`; one that gets through after other events
  repeats tasks.  One with the same message and tools but more agent events appends these
  behind whatever came in between, apart from their turn.  A governed turn commits
  `GOVERNED_DECISION_READY` before its artifact, which a retry cannot add.
* A run inserted without its citations is what later retries return; overlapping creates
  make two requests or runs.
* The agent itself may write an artifact of kind `cited_decision` (it is one of the kinds of
  `MissionArtifactDraft`, and `VERIFIED` is kept when it names a source); only the artifact
  that names a run is known to come from the ledger.

*Proof runs.*
* Both proofs set a recovery flag after the call it is for has returned, so an interruption in
  between is not undone; a failure of the effect probe after the route was applied leaves
  the router on `a`; an `aclose` that raises skips the rollback.

## 6. Not modelled, and the plan

Left out of modelled parts: idempotent replays of the purchase handlers (they return a
stored response), outbox events without a consumer, the payload validation that
quarantines an event (no writer produces such a payload), HTTP and credentials, commercial
terms and replay documents of the graph ledger, canonical payloads and hashes,
`record_outcome_checkpoint` and the views of the decision service, `_approve` and
`_get_decision` of the Snowflake service, and the evaluation inside its procedure.

Not modelled: `proof_runtime.py` (starts one subprocess and reads its artifact) and
`ProofExchangeRepository` (called by tests only); the three-valued rules and publication
gate of `python/domain`, which the service does not use since it evaluates with
Decision Graph v1; the projections (workspace views, surface, decision room), which
read; stackfile patches, which are stored and never applied; Senso, guardrails, the
agent harness and experiments; identity and guest tokens, which yield the roles the
models take as constants; most migrations; the web application.

Next, in this order:

1. `record_outcome_checkpoint` and the stackfile patch staged with a receipt.
2. The dispatcher over events of several kinds with quarantine.
3. With them, the properties of the rows they write, proved as those of the purchase rows are.
