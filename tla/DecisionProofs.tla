--------------------------- MODULE DecisionProofs ---------------------------
(***************************************************************************)
(* Decisions, briefs, intents and keys for every number of concurrent      *)
(* transactions, plans and rows: Decision versions form one chain, each    *)
(* rests on the evaluation of its brief, what is approved or paid belongs  *)
(* to the current one, and a key commits one operation.                    *)
(***************************************************************************)
EXTENDS DecisionService, FiniteSetTheorems, TLAPS

BriefRow == [version : Nat \ {0}, status : {"APPROVED", "SUPERSEDED"}, weight : 1..5,
             supersedes : Nat]
ProposalRow == [id : Nat, base : Nat, weight : 1..5,
                status : {"PROPOSED", "ACCEPTED", "REJECTED"}, result : Nat]
DecisionRow == [id : Nat, version : Nat, supersedes : Nat, brief : Nat, plan : Plans,
                selection : BOOLEAN]
EvaluationRow == [decision : Nat, brief : Nat, weight : 1..5, selected : Plans]
IntentRow == [id : Nat, decision : Nat, plan : Plans, patch : Nat,
              approval : {"NOT_REQUESTED", "PENDING", "APPROVED", "SUPERSEDED"},
              payment : {"NOT_STARTED", "SESSION_CREATED", "EXPIRED", "CHECKOUT_PENDING",
                         "COMPLETED", "FAILED"}]
ActionRow == [decision : Nat, plan : Plans, status : {"WAITING_FOR_HUMAN"}, evaluation : Nat]
RequestRow == [status : {"NONE", "DRAFT", "DECISION_READY"},
               visibility : {"PRIVATE", "SELECTIVE"}, demo : BOOLEAN]
EngagementRow == [status : {"NONE", "SELLER_REVIEWING", "SELLER_CONSENT_PENDING",
                            "BUYER_CONSENT_PENDING", "INTRODUCTION_READY", "DECLINED"},
                  consents : SUBSET {Buyer, Seller}, contact : BOOLEAN]
Transaction == [op : {"idle", "discover", "evaluate", "lock"}, key : Keys \cup {Once},
                brief : Nat, decision : Nat]

(* The domains of the rows and of the open transactions.                    *)
TypeOK ==
  /\ request \in RequestRow
  /\ briefs \in SUBSET BriefRow
  /\ proposals \in SUBSET ProposalRow /\ IsFiniteSet(proposals)
  /\ decisions \in SUBSET DecisionRow /\ IsFiniteSet(decisions)
  /\ evaluations \in SUBSET EvaluationRow
  /\ intents \in SUBSET IntentRow /\ IsFiniteSet(intents)
  /\ actions \in SUBSET ActionRow
  /\ engagement \in EngagementRow
  /\ tx \in [Sessions -> Transaction]
  /\ idem \in SUBSET Keys /\ served \in [Keys -> Nat]

(* Decision ids are dense, a Decision's version is its id, and it           *)
(* supersedes the one before it (None, which is 0, for the first).          *)
Chain(rows) ==
  /\ \A d \in rows : /\ d.id \in 1..Cardinality(rows)
                     /\ d.version = d.id /\ d.supersedes = d.id - 1
  /\ \A i \in 1..Cardinality(rows) : \E d \in rows : d.id = i
  /\ \A d, e \in rows : d.id = e.id => d = e
DecisionInv == Chain(decisions)

(* One brief is approved, the newest; a later one was evaluated when its    *)
(* proposal was accepted, and an accepted proposal names its brief.         *)
Newest(b, rows) ==
  /\ b \in rows /\ b.status = "APPROVED"
  /\ \A q \in rows : q # b => q.version < b.version /\ q.status = "SUPERSEDED"
BriefInv ==
  /\ \A b, c \in briefs : b.version = c.version => b = c
  /\ briefs # {} => \E b \in briefs : Newest(b, briefs)
  /\ \A b, q \in briefs : b.status = "APPROVED" /\ q # b =>
       \E e \in evaluations : e.brief = b.version
  /\ \A b \in briefs : b.supersedes # None => \E p \in proposals :
       p.status = "ACCEPTED" /\ p.result = b.version /\ p.base = b.supersedes /\ p.weight = b.weight
  /\ \A p \in proposals : p.status = "ACCEPTED" => \E b \in briefs : b.version = p.result
  /\ \A p, q \in proposals :
       p.status = "ACCEPTED" /\ q.status = "ACCEPTED" /\ p.result = q.result => p = q

(* Evaluations, Decisions and action runs belong together.                  *)
EvaluationInv ==
  /\ \A d \in decisions : \E e \in evaluations : e.brief = d.brief
  /\ \A e \in evaluations : \E d \in decisions :
       d.id = e.decision /\ d.brief = e.brief /\ ~d.selection
  /\ \A e \in evaluations : \E b \in briefs : b.version = e.brief /\ b.weight = e.weight
  /\ \A a \in actions : \E d \in decisions, e \in evaluations :
       d.id = a.decision /\ e.decision = a.evaluation /\ e.brief = d.brief

(* What a transaction read is still there when it writes.                   *)
TransactionInv ==
  /\ \A s \in Sessions : tx[s].op \in {"discover", "evaluate"} =>
       \E b \in briefs : b.version = tx[s].brief
  /\ \A s \in Sessions : tx[s].op = "evaluate" /\ tx[s].decision # None =>
       \E d \in decisions : d.id = tx[s].decision
  /\ \A s \in Sessions : tx[s].op = "lock" =>
       \E d \in decisions : d.id = tx[s].decision /\ PlanEvaluations(d) # {}

(* Before the request exists there is nothing, and a demo request has its   *)
(* brief.                                                                   *)
RequestInv ==
  /\ request.demo => briefs # {}
  /\ request = NoRequest => briefs = {} /\ proposals = {} /\ evaluations = {}

IntentInv ==
  /\ \A i \in intents : \E d \in decisions : d.id = i.decision
  /\ ExecutableIsCurrent

RowsInv == RequestInv /\ BriefInv /\ DecisionInv /\ EvaluationInv /\ TransactionInv /\ IntentInv

(* An open transaction's key has no record, and no other one has that key.  *)
KeyInv ==
  /\ KeyServedOnce
  /\ \A s \in Sessions : tx[s].op # "idle" => tx[s].key \notin idem
  /\ \A s, t \in Sessions :
       tx[s].op # "idle" /\ tx[t].op # "idle" /\ tx[s].key = tx[t].key => s = t \/ tx[s].key = Once

-----------------------------------------------------------------------------
(* What the queries find: the newest row of a table, and a row by its key.  *)
LEMMA LatestDecision ==
  ASSUME NEW rows \in SUBSET DecisionRow, IsFiniteSet(rows), Chain(rows), rows # {}
  PROVE  Latest(rows) \in rows /\ Latest(rows).id = Cardinality(rows)
<1>1. Cardinality(rows) \in Nat
  BY FS_CardinalityType
<1>2. Cardinality(rows) \in 1..Cardinality(rows)
  BY <1>1 DEF Chain
<1>3. PICK d \in rows : d.id = Cardinality(rows)
  BY <1>2 DEF Chain
<1>4. \A q \in rows : q.version <= d.version
  BY <1>1, <1>3 DEF Chain
<1>5. Latest(rows) \in rows /\ \A q \in rows : q.version <= Latest(rows).version
  BY <1>3, <1>4 DEF Latest
<1> QED BY <1>1, <1>3, <1>5 DEF Chain

LEMMA FindDecision ==
  ASSUME NEW rows, Chain(rows), NEW d \in rows
  PROVE  ById(rows, d.id) = d
BY DEF ById, Chain

LEMMA FindBrief ==
  ASSUME BriefInv, NEW b \in briefs
  PROVE  (CHOOSE c \in briefs : c.version = b.version) = b
BY DEF BriefInv

LEMMA LatestBrief ==
  ASSUME NEW rows \in SUBSET BriefRow, NEW b, Newest(b, rows)
  PROVE  Latest(rows) = b
<1>1. \A q \in rows : q.version <= b.version
  BY DEF Newest, BriefRow
<1>2. Latest(rows) \in rows /\ \A q \in rows : q.version <= Latest(rows).version
  BY <1>1 DEF Latest, Newest
<1> QED BY <1>2 DEF Newest, BriefRow

(* A Decision appended to the chain.                                        *)
Appended(brief, plan, selection) ==
  DecisionOf(Cardinality(decisions) + 1, Cardinality(decisions) + 1, Cardinality(decisions),
             brief, plan, selection)

LEMMA AppendedRow ==
  ASSUME TypeOK, NEW brief \in Nat, NEW plan \in Plans, NEW selection \in BOOLEAN
  PROVE  LET x == Appended(brief, plan, selection)
             n == Cardinality(decisions) IN
         /\ x \in DecisionRow /\ x.id = n + 1 /\ x.version = n + 1 /\ x.supersedes = n
         /\ x.brief = brief /\ x.plan = plan /\ x.selection = selection /\ n \in Nat
<1>1. Cardinality(decisions) \in Nat
  BY FS_CardinalityType DEF TypeOK
<1> QED BY <1>1 DEF Appended, DecisionOf, DecisionRow

LEMMA AppendKeepsChain ==
  ASSUME TypeOK, DecisionInv, NEW brief \in Nat, NEW plan \in Plans,
         NEW selection \in BOOLEAN,
         decisions' = decisions \cup {Appended(brief, plan, selection)}
  PROVE  /\ decisions' \in SUBSET DecisionRow /\ IsFiniteSet(decisions') /\ DecisionInv'
         /\ Latest(decisions)' = Appended(brief, plan, selection)
         /\ \A d \in decisions : d.id # Cardinality(decisions) + 1
<1> DEFINE n == Cardinality(decisions)
           x == Appended(brief, plan, selection)
<1>1. /\ x \in DecisionRow /\ x.id = n + 1 /\ x.version = n + 1 /\ x.supersedes = n /\ n \in Nat
  BY AppendedRow
<1>2. decisions' = decisions \cup {x}
  OBVIOUS
<1> HIDE DEF x, n
<1>3. \A d \in decisions : d.id \in 1..n /\ d.id # n + 1
  BY <1>1 DEF DecisionInv, Chain, n
<1>4. Cardinality(decisions \cup {x}) = n + 1 /\ IsFiniteSet(decisions \cup {x})
  BY <1>1, <1>3, FS_AddElement DEF n, TypeOK
<1>5. Cardinality(decisions') = n + 1 /\ IsFiniteSet(decisions')
  BY <1>2, <1>4
<1>6. Chain(decisions')
  <2>1. \A d \in decisions' : /\ d.id \in 1..(n + 1)
                              /\ d.version = d.id /\ d.supersedes = d.id - 1
    BY <1>1, <1>2, <1>3 DEF DecisionInv, Chain
  <2>2. \A i \in 1..(n + 1) : \E d \in decisions' : d.id = i
    <3> SUFFICES ASSUME NEW i \in 1..(n + 1) PROVE \E d \in decisions' : d.id = i
      OBVIOUS
    <3>1. CASE i = n + 1
      BY <1>1, <1>2, <3>1
    <3>2. CASE i # n + 1
      <4>1. i \in 1..n
        BY <1>1, <3>2
      <4> QED BY <1>2, <4>1 DEF DecisionInv, Chain, n
    <3> QED BY <3>1, <3>2
  <2>3. \A d, e \in decisions' : d.id = e.id => d = e
    BY <1>1, <1>2, <1>3 DEF DecisionInv, Chain
  <2> QED BY <1>5, <2>1, <2>2, <2>3 DEF Chain
<1>7. decisions' \in SUBSET DecisionRow
  BY <1>1, <1>2 DEF TypeOK
<1>8. Latest(decisions') = x
  <2>1. Latest(decisions') \in decisions' /\ Latest(decisions').id = n + 1
    BY <1>2, <1>5, <1>6, <1>7, LatestDecision
  <2> QED BY <1>2, <1>3, <2>1
<1> QED BY <1>3, <1>5, <1>6, <1>7, <1>8 DEF DecisionInv, n, x

(* The version and the predecessor that accept_proposal computes.           *)
LEMMA NextDecision ==
  ASSUME TypeOK, DecisionInv
  PROVE  /\ NextVersion(decisions) = Cardinality(decisions) + 1
         /\ SupersededId = Cardinality(decisions)
         /\ Cardinality(decisions) \in Nat
<1>1. Cardinality(decisions) \in Nat
  BY FS_CardinalityType DEF TypeOK
<1>2. CASE decisions = {}
  BY <1>1, <1>2, FS_EmptySet DEF NextVersion, SupersededId, None
<1>3. CASE decisions # {}
  <2>1. Latest(decisions) \in decisions /\ Latest(decisions).id = Cardinality(decisions)
    BY <1>3, LatestDecision DEF TypeOK, DecisionInv
  <2> QED BY <1>1, <1>3, <2>1 DEF NextVersion, SupersededId, DecisionInv, Chain
<1> QED BY <1>1, <1>2, <1>3

(* discover: whatever was committed since it read the newest Decision, the  *)
(* unique version lets it write only the successor of the newest one.       *)
DiscoversAs(b, plan) ==
  /\ EvaluatesOnce(b)
  /\ decisions' = decisions \cup {Appended(b.version, plan, FALSE)}
  /\ evaluations' = evaluations \cup {Evaluated(b, Cardinality(decisions) + 1, plan)}

LEMMA DiscoverFacts ==
  ASSUME TypeOK, RowsInv, NEW s \in Sessions, CommitDiscover(s)
  PROVE  \E b \in briefs, plan \in Plans : DiscoversAs(b, plan)
<1> DEFINE brief == CHOOSE b \in briefs : b.version = tx[s].brief
           previous == tx[s].decision
           version == IF previous = None THEN 1 ELSE ById(decisions, previous).version + 1
           n == Cardinality(decisions)
<1>0. tx[s].op = "evaluate"
  BY DEF CommitDiscover
<1>1. PICK b \in briefs : b.version = tx[s].brief
  BY <1>0 DEF RowsInv, TransactionInv
<1>2. brief = b
  BY <1>1, FindBrief DEF RowsInv
<1>3. n \in Nat /\ previous \in Nat
  BY FS_CardinalityType DEF TypeOK, Transaction
<1>4. version = previous + 1 /\ previous <= n
  <2>1. CASE previous = None
    BY <1>3, <2>1 DEF None
  <2>2. CASE previous # None
    <3>1. PICK d \in decisions : d.id = previous
      BY <1>0, <2>2 DEF RowsInv, TransactionInv
    <3>2. ById(decisions, previous) = d
      BY <3>1, FindDecision DEF RowsInv, DecisionInv
    <3>3. d.version = previous /\ previous <= n
      BY <1>3, <3>1 DEF RowsInv, DecisionInv, Chain
    <3> QED BY <2>2, <3>2, <3>3
  <2> QED BY <2>1, <2>2
<1>5. VersionFree(version)
  BY DEF CommitDiscover
<1>6. previous = n
  <2> SUFFICES ASSUME previous # n PROVE FALSE
    OBVIOUS
  <2>1. previous + 1 \in 1..n
    BY <1>3, <1>4
  <2>2. PICK d \in decisions : d.id = previous + 1
    BY <2>1 DEF RowsInv, DecisionInv, Chain
  <2>3. d.version = previous + 1
    BY <2>2 DEF RowsInv, DecisionInv, Chain
  <2> HIDE DEF version, previous
  <2> QED BY <1>4, <1>5, <2>3 DEF VersionFree
<1>7. EvaluatesOnce(brief)
  BY DEF CommitDiscover
<1>8. PICK plan \in Plans :
        /\ decisions' = decisions \cup
             {DecisionOf(n + 1, version, previous, brief.version, plan, FALSE)}
        /\ evaluations' = evaluations \cup {Evaluated(brief, n + 1, plan)}
  BY DEF CommitDiscover, NewId
<1> HIDE DEF brief, version, previous, n
<1>9. DiscoversAs(b, plan)
  BY <1>1, <1>2, <1>4, <1>6, <1>7, <1>8 DEF DiscoversAs, Appended, n
<1> QED BY <1>9

(* select_plan: the successor of the newest Decision.                       *)
LEMMA SelectFacts ==
  ASSUME TypeOK, RowsInv, NEW k, NEW plan, select_plan(k, plan)
  PROVE  /\ Latest(decisions) \in decisions
         /\ decisions' = decisions \cup {Appended(Latest(decisions).brief, plan, TRUE)}
<1>1. Latest(decisions) \in decisions /\ Latest(decisions).id = Cardinality(decisions)
  BY LatestDecision DEF select_plan, TypeOK, RowsInv, DecisionInv
<1>2. Latest(decisions).version = Cardinality(decisions)
  BY <1>1 DEF RowsInv, DecisionInv, Chain
<1> QED BY <1>1, <1>2 DEF select_plan, NewId, Appended

(* accept_proposal: the base is the newest brief, and its successor is      *)
(* evaluated at once.                                                       *)
Superseded(base) == [base EXCEPT !.status = "SUPERSEDED"]
Accepted(p, version) == [p EXCEPT !.status = "ACCEPTED", !.result = version]

AcceptsAs(p, base, brief, plan) ==
  /\ Newest(base, briefs) /\ base.version = p.base /\ p.status = "PROPOSED"
  /\ brief.version = base.version + 1 /\ brief.status = "APPROVED"
  /\ brief.weight = p.weight /\ brief.supersedes = base.version
  /\ briefs' = (briefs \ {base}) \cup {Superseded(base), brief}
  /\ proposals' = (proposals \ {p}) \cup {Accepted(p, brief.version)}
  /\ decisions' = decisions \cup {Appended(brief.version, plan, FALSE)}
  /\ evaluations' = evaluations \cup {Evaluated(brief, Cardinality(decisions) + 1, plan)}

LEMMA AcceptFacts ==
  ASSUME TypeOK, RowsInv, NEW k, NEW p \in proposals, accept_proposal(k, p)
  PROVE  \E base \in briefs, brief \in BriefRow, plan \in Plans : AcceptsAs(p, base, brief, plan)
<1> DEFINE base == CHOOSE b \in briefs : b.version = p.base
           brief == [AppliedChanges(base, p) EXCEPT !.version = NextVersion(briefs),
                                                    !.supersedes = base.version]
           n == Cardinality(decisions)
<1>0. /\ p.status = "PROPOSED" /\ p \in ProposalRow
      /\ briefs' = AcceptedBriefs(base, brief) /\ proposals' = Decided(p, "ACCEPTED", brief.version)
  BY DEF accept_proposal, Decidable, TypeOK
<1>1. PICK b \in briefs : b.version = p.base /\ b.status = "APPROVED"
  BY DEF accept_proposal, Decidable
<1>2. base = b /\ b \in BriefRow
  BY <1>1, FindBrief DEF RowsInv, TypeOK
<1>3. Newest(b, briefs)
  BY <1>1 DEF RowsInv, BriefInv, Newest
<1>4. NextVersion(briefs) = b.version + 1
  BY <1>1, <1>3, LatestBrief DEF NextVersion, TypeOK
<1>5. brief = [b EXCEPT !.weight = p.weight, !.version = b.version + 1, !.supersedes = b.version]
  BY <1>2, <1>4 DEF AppliedChanges, BriefRow
<1>6. /\ brief \in BriefRow /\ brief.version = b.version + 1 /\ brief.status = "APPROVED"
      /\ brief.weight = p.weight /\ brief.supersedes = b.version
  <2>1. b.version + 1 \in Nat \ {0} /\ b.version \in Nat /\ b.status = "APPROVED"
    BY <1>1, <1>2 DEF BriefRow
  <2>2. p.weight \in 1..5
    BY <1>0 DEF ProposalRow
  <2> HIDE DEF brief
  <2> QED BY <1>2, <1>5, <2>1, <2>2 DEF BriefRow
<1>7. PICK plan \in Plans :
        /\ decisions' = decisions \cup
             {DecisionOf(n + 1, NextVersion(decisions), SupersededId, brief.version, plan, FALSE)}
        /\ evaluations' = evaluations \cup {Evaluated(brief, n + 1, plan)}
  BY DEF accept_proposal, Reevaluated, NewId
<1> HIDE DEF brief, base, n
<1>8. NextVersion(decisions) = n + 1 /\ SupersededId = n
  BY NextDecision DEF RowsInv, n
<1>9. /\ briefs' = (briefs \ {b}) \cup {Superseded(b), brief}
      /\ proposals' = (proposals \ {p}) \cup {Accepted(p, brief.version)}
      /\ decisions' = decisions \cup {Appended(brief.version, plan, FALSE)}
  BY <1>0, <1>2, <1>7, <1>8 DEF AcceptedBriefs, Superseded, Decided, Accepted, Appended, n
<1>10. AcceptsAs(p, b, brief, plan)
  BY <1>0, <1>1, <1>3, <1>6, <1>7, <1>9 DEF AcceptsAs, n
<1> QED BY <1>6, <1>10

-----------------------------------------------------------------------------
(* complete_idempotency in the transaction of an operation.                 *)
LEMMA CompleteTypes ==
  ASSUME TypeOK, NEW k \in Keys \cup {Once}, Complete(k)
  PROVE  idem' \in SUBSET Keys /\ served' \in [Keys -> Nat]
<1>1. CASE k = Once
  BY <1>1 DEF Complete, idem_vars, TypeOK
<1>2. CASE k # Once
  <2>1. k \in Keys /\ idem' = idem \cup {k} /\ served' = [served EXCEPT ![k] = @ + 1]
    BY <1>2 DEF Complete
  <2> QED BY <2>1 DEF TypeOK
<1> QED BY <1>1, <1>2

(* A transaction that ends or moves on.                                     *)
LEMMA TransactionTypes ==
  ASSUME TypeOK, NEW s \in Sessions, NEW row \in Transaction
  PROVE  [tx EXCEPT ![s] = row] \in [Sessions -> Transaction]
BY DEF TypeOK

LEMMA IdleType == Idle \in Transaction
BY DEF Idle, Transaction, None

(* A proposal added, and one decided.                                       *)
LEMMA ProposalTypes ==
  ASSUME TypeOK, BriefInv
  PROVE  /\ briefs # {} => \A w \in Weights :
              LET rows == proposals \cup {Proposal(Latest(briefs).version, w)} IN
              rows \in SUBSET ProposalRow /\ IsFiniteSet(rows)
         /\ \A p \in proposals, st \in {"ACCEPTED", "REJECTED"}, v \in Nat :
              Decided(p, st, v) \in SUBSET ProposalRow /\ IsFiniteSet(Decided(p, st, v))
<1>0. proposals \in SUBSET ProposalRow /\ IsFiniteSet(proposals) /\ Cardinality(proposals) \in Nat
  BY FS_CardinalityType DEF TypeOK
<1>1. ASSUME briefs # {}, NEW w \in Weights
      PROVE  LET rows == proposals \cup {Proposal(Latest(briefs).version, w)} IN
             rows \in SUBSET ProposalRow /\ IsFiniteSet(rows)
  <2> DEFINE row == Proposal(Latest(briefs).version, w)
  <2>1. PICK b \in briefs : Newest(b, briefs)
    BY <1>1 DEF BriefInv
  <2>2. Latest(briefs).version \in Nat
    BY <2>1, LatestBrief DEF TypeOK, BriefRow
  <2>3. w \in 1..5 /\ Cardinality(proposals) + 1 \in Nat
    BY <1>0, DecisionAssumption
  <2>4. row \in ProposalRow
    BY <2>2, <2>3 DEF Proposal, NewId, ProposalRow, None
  <2> HIDE DEF row
  <2>5. IsFiniteSet(proposals \cup {row})
    BY <1>0, FS_AddElement
  <2> QED BY <1>0, <2>4, <2>5 DEF row
<1>2. ASSUME NEW p \in proposals, NEW st \in {"ACCEPTED", "REJECTED"}, NEW v \in Nat
      PROVE  Decided(p, st, v) \in SUBSET ProposalRow /\ IsFiniteSet(Decided(p, st, v))
  <2> DEFINE row == [p EXCEPT !.status = st, !.result = v]
  <2>1. row \in ProposalRow
    BY <1>0 DEF ProposalRow
  <2>2. Decided(p, st, v) = (proposals \ {p}) \cup {row}
    BY DEF Decided
  <2> HIDE DEF row
  <2>3. IsFiniteSet(proposals \ {p})
    BY <1>0, FS_RemoveElement
  <2>4. IsFiniteSet((proposals \ {p}) \cup {row})
    BY <2>3, FS_AddElement
  <2> QED BY <1>0, <2>1, <2>2, <2>4
<1> QED BY <1>1, <1>2

(* supersede_intents_for_decision_change keeps the table's type.            *)
LEMMA SupersededTypes ==
  ASSUME TypeOK, NEW current, SupersedeIntents(current)
  PROVE  intents' \in SUBSET IntentRow /\ IsFiniteSet(intents')
<1>1. \A i \in intents : SupersededIntent(i, current) \in IntentRow
  <2> SUFFICES ASSUME NEW i \in IntentRow PROVE SupersededIntent(i, current) \in IntentRow
    BY DEF TypeOK
  <2> QED BY DEF SupersededIntent, IntentRow
<1>2. intents' = {SupersededIntent(i, current) : i \in intents}
  BY DEF SupersedeIntents
<1>3. IsFiniteSet(intents')
  <2> DEFINE f == [i \in intents |-> SupersededIntent(i, current)]
  <2>1. f \in Surjection(intents, intents')
    BY <1>2 DEF Surjection
  <2> HIDE DEF f
  <2> QED BY <2>1, FS_Surjection DEF TypeOK
<1> QED BY <1>1, <1>2, <1>3

LEMMA InitTypes == Init => TypeOK
<1> SUFFICES ASSUME Init PROVE TypeOK
  OBVIOUS
<1>1. /\ proposals = {} /\ intents = {} /\ actions = {} /\ engagement = NoEngagement
      /\ tx = [s \in Sessions |-> Idle] /\ idem = {} /\ served = [k \in Keys |-> 0]
  BY DEF Init, IdemInit
<1>2. IsFiniteSet({})
  BY FS_EmptySet
<1>3. engagement \in EngagementRow /\ tx \in [Sessions -> Transaction]
  BY <1>1 DEF NoEngagement, EngagementRow, Idle, Transaction, None
<1>4. /\ request \in RequestRow /\ briefs \in SUBSET BriefRow
      /\ decisions \in SUBSET DecisionRow /\ IsFiniteSet(decisions)
      /\ evaluations \in SUBSET EvaluationRow
  <2>1. CASE SeededRows
    <3>1. PICK plan \in Plans : /\ decisions = {DecisionOf(1, 1, None, 1, plan, FALSE)}
                                /\ evaluations = {Evaluated(FirstBrief, 1, plan)}
      BY <2>1 DEF SeededRows
    <3>2. IsFiniteSet({DecisionOf(1, 1, None, 1, plan, FALSE)})
      BY FS_Singleton
    <3>3. DecisionOf(1, 1, None, 1, plan, FALSE) \in DecisionRow
      BY DEF DecisionOf, DecisionRow, None
    <3>4. Evaluated(FirstBrief, 1, plan) \in EvaluationRow /\ FirstBrief \in BriefRow
      BY DEF Evaluated, FirstBrief, EvaluationRow, BriefRow, None
    <3>5. request \in RequestRow /\ briefs = {FirstBrief}
      BY <2>1 DEF SeededRows, RequestRow
    <3> QED BY <3>1, <3>2, <3>3, <3>4, <3>5
  <2>2. CASE ~SeededRows
    <3>1. request = NoRequest /\ briefs = {} /\ decisions = {} /\ evaluations = {}
      BY <2>2 DEF Init
    <3>2. NoRequest \in RequestRow
      BY DEF NoRequest, RequestRow
    <3> QED BY <1>2, <3>1, <3>2
  <2> QED BY <2>1, <2>2
<1> QED BY <1>1, <1>2, <1>3, <1>4 DEF TypeOK

(* discover, select_plan and accept_proposal write rows of their tables.    *)
LEMMA DecidingTypes ==
  ASSUME TypeOK, RowsInv
  PROVE  /\ \A s \in Sessions : CommitDiscover(s) => TypeOK'
         /\ \A k \in AnyKey, p \in proposals : accept_proposal(k, p) => TypeOK'
         /\ \A k \in AnyKey, plan \in Plans : select_plan(k, plan) => TypeOK'
<1>0. Cardinality(decisions) + 1 \in Nat /\ DecisionInv
  BY FS_CardinalityType DEF TypeOK, RowsInv
<1>1. ASSUME NEW s \in Sessions, CommitDiscover(s) PROVE TypeOK'
  <2>0. PICK b \in briefs, plan \in Plans : DiscoversAs(b, plan)
    BY <1>1, DiscoverFacts
  <2>1. /\ decisions' = decisions \cup {Appended(b.version, plan, FALSE)}
        /\ evaluations' = evaluations \cup {Evaluated(b, Cardinality(decisions) + 1, plan)}
    BY <2>0 DEF DiscoversAs
  <2>2. b.version \in Nat /\ b \in BriefRow /\ FALSE \in BOOLEAN
    BY DEF TypeOK, BriefRow
  <2>3. decisions' \in SUBSET DecisionRow /\ IsFiniteSet(decisions')
    BY <1>0, <2>1, <2>2, AppendKeepsChain
  <2>4. Evaluated(b, Cardinality(decisions) + 1, plan) \in EvaluationRow
    BY <1>0, <2>2 DEF Evaluated, EvaluationRow, BriefRow
  <2>5. request' \in RequestRow
    BY <1>1 DEF CommitDiscover, TypeOK, RequestRow
  <2>6. tx' \in [Sessions -> Transaction] /\ tx[s].key \in Keys \cup {Once}
    BY <1>1, TransactionTypes, IdleType DEF CommitDiscover, TypeOK, Transaction
  <2>7. idem' \in SUBSET Keys /\ served' \in [Keys -> Nat]
    BY <1>1, <2>6, CompleteTypes DEF CommitDiscover
  <2>8. evaluations' \in SUBSET EvaluationRow
    BY <2>1, <2>4 DEF TypeOK
  <2> QED BY <1>1, <2>3, <2>5, <2>6, <2>7, <2>8 DEF CommitDiscover, TypeOK
<1>2. ASSUME NEW k \in AnyKey, NEW p \in proposals, accept_proposal(k, p) PROVE TypeOK'
  <2>0. PICK base \in briefs, brief \in BriefRow, plan \in Plans : AcceptsAs(p, base, brief, plan)
    BY <1>2, AcceptFacts
  <2>1. /\ briefs' = (briefs \ {base}) \cup {Superseded(base), brief}
        /\ proposals' = (proposals \ {p}) \cup {Accepted(p, brief.version)}
        /\ decisions' = decisions \cup {Appended(brief.version, plan, FALSE)}
        /\ evaluations' = evaluations \cup {Evaluated(brief, Cardinality(decisions) + 1, plan)}
    BY <2>0 DEF AcceptsAs
  <2>2. brief.version \in Nat /\ FALSE \in BOOLEAN
    BY DEF BriefRow
  <2>3. decisions' \in SUBSET DecisionRow /\ IsFiniteSet(decisions')
    BY <1>0, <2>1, <2>2, AppendKeepsChain
  <2>4. Evaluated(brief, Cardinality(decisions) + 1, plan) \in EvaluationRow
    BY <1>0, <2>2 DEF Evaluated, EvaluationRow, BriefRow
  <2>5. evaluations' \in SUBSET EvaluationRow
    BY <2>1, <2>4 DEF TypeOK
  <2>6. Superseded(base) \in BriefRow
    BY DEF Superseded, BriefRow, TypeOK
  <2>7. briefs' \in SUBSET BriefRow
    BY <2>1, <2>6 DEF TypeOK
  <2>8. proposals' \in SUBSET ProposalRow /\ IsFiniteSet(proposals')
    <3>1. proposals' = Decided(p, "ACCEPTED", brief.version)
      BY <2>1 DEF Accepted, Decided
    <3> QED BY <2>2, <3>1, ProposalTypes DEF RowsInv
  <2>9. intents' \in SUBSET IntentRow /\ IsFiniteSet(intents')
    BY <1>2, SupersededTypes DEF accept_proposal, Reevaluated
  <2>10. idem' \in SUBSET Keys /\ served' \in [Keys -> Nat]
    BY <1>2, CompleteTypes DEF accept_proposal, AnyKey
  <2> QED BY <1>2, <2>3, <2>5, <2>7, <2>8, <2>9, <2>10 DEF accept_proposal, TypeOK
<1>3. ASSUME NEW k \in AnyKey, NEW plan \in Plans, select_plan(k, plan) PROVE TypeOK'
  <2>1. /\ Latest(decisions) \in decisions
        /\ decisions' = decisions \cup {Appended(Latest(decisions).brief, plan, TRUE)}
    BY <1>3, SelectFacts
  <2>2. Latest(decisions).brief \in Nat /\ TRUE \in BOOLEAN
    BY <2>1 DEF TypeOK, DecisionRow
  <2>3. decisions' \in SUBSET DecisionRow /\ IsFiniteSet(decisions')
    BY <1>0, <2>1, <2>2, AppendKeepsChain
  <2>4. intents' \in SUBSET IntentRow /\ IsFiniteSet(intents')
    BY <1>3, SupersededTypes DEF select_plan
  <2>5. idem' \in SUBSET Keys /\ served' \in [Keys -> Nat]
    BY <1>3, CompleteTypes DEF select_plan, AnyKey
  <2> QED BY <1>3, <2>3, <2>4, <2>5 DEF select_plan, TypeOK
<1> QED BY <1>1, <1>2, <1>3

(* So do the steps of the transactions, the intents and the action runs.    *)
LEMMA IntentTypes ==
  ASSUME TypeOK, RowsInv
  PROVE  /\ \A s \in Sessions, k \in AnyKey : BeginDiscover(s, k) \/ BeginLock(s, k) => TypeOK'
         /\ \A s \in Sessions : ReadPrevious(s) \/ Abort(s) \/ lock_purchase_intent(s) => TypeOK'
         /\ \A i \in intents : advance_intent(i) => TypeOK'
         /\ \A k \in AnyKey : start_action_run(k) => TypeOK'
<1>1. ASSUME NEW s \in Sessions, NEW k \in AnyKey, BeginDiscover(s, k) PROVE TypeOK'
  <2>1. PICK b \in briefs : Newest(b, briefs)
    BY <1>1 DEF BeginDiscover, RowsInv, RequestInv, BriefInv
  <2>2. Latest(briefs).version \in Nat
    BY <2>1, LatestBrief DEF TypeOK, BriefRow
  <2>3. [op |-> "discover", key |-> k, brief |-> Latest(briefs).version, decision |-> None]
          \in Transaction
    BY <2>2 DEF Transaction, None, AnyKey
  <2>4. tx' \in [Sessions -> Transaction]
    BY <1>1, <2>3, TransactionTypes DEF BeginDiscover
  <2> QED BY <1>1, <2>4 DEF BeginDiscover, service_vars, idem_vars, TypeOK
<1>2. ASSUME NEW s \in Sessions, NEW k \in AnyKey, BeginLock(s, k) PROVE TypeOK'
  <2>1. Latest(decisions) \in decisions
    BY <1>2, LatestDecision DEF BeginLock, TypeOK, RowsInv, DecisionInv
  <2>2. [op |-> "lock", key |-> k, brief |-> None, decision |-> Latest(decisions).id]
          \in Transaction
    BY <2>1 DEF Transaction, None, AnyKey, TypeOK, DecisionRow
  <2>3. tx' \in [Sessions -> Transaction]
    BY <1>2, <2>2, TransactionTypes DEF BeginLock
  <2> QED BY <1>2, <2>3 DEF BeginLock, service_vars, idem_vars, TypeOK
<1>3. ASSUME NEW s \in Sessions, ReadPrevious(s) PROVE TypeOK'
  <2>1. SupersededId \in Nat
    BY NextDecision DEF RowsInv
  <2>2. tx' \in [Sessions -> Transaction]
    <3> DEFINE id == SupersededId
    <3>1. tx' = [tx EXCEPT ![s].op = "evaluate", ![s].decision = id]
      BY <1>3 DEF ReadPrevious
    <3> HIDE DEF id
    <3>2. tx' = [tx EXCEPT ![s] = [tx[s] EXCEPT !.op = "evaluate", !.decision = id]]
      BY <3>1 DEF TypeOK, Transaction
    <3>3. [tx[s] EXCEPT !.op = "evaluate", !.decision = id] \in Transaction
      BY <2>1 DEF TypeOK, Transaction, id
    <3> QED BY <3>2, <3>3, TransactionTypes
  <2> QED BY <1>3, <2>2 DEF ReadPrevious, service_vars, idem_vars, TypeOK
<1>4. ASSUME NEW s \in Sessions, Abort(s) PROVE TypeOK'
  <2>1. tx' \in [Sessions -> Transaction]
    BY <1>4, TransactionTypes, IdleType DEF Abort
  <2> QED BY <1>4, <2>1 DEF Abort, service_vars, idem_vars, TypeOK
<1>5. ASSUME NEW s \in Sessions, lock_purchase_intent(s) PROVE TypeOK'
  <2> DEFINE d == ById(decisions, tx[s].decision)
             e == CHOOSE x \in PlanEvaluations(d) : TRUE
             row == [id |-> NewId(intents), decision |-> d.id, plan |-> d.plan,
                     patch |-> e.decision, approval |-> "NOT_REQUESTED",
                     payment |-> "NOT_STARTED"]
  <2>1. PICK r \in decisions : r.id = tx[s].decision /\ PlanEvaluations(r) # {}
    BY <1>5 DEF lock_purchase_intent, RowsInv, TransactionInv
  <2>2. d = r
    BY <2>1, FindDecision DEF RowsInv, DecisionInv
  <2>3. d \in DecisionRow /\ e \in EvaluationRow
    BY <2>1, <2>2 DEF PlanEvaluations, TypeOK
  <2>4. NewId(intents) \in Nat
    BY FS_CardinalityType DEF NewId, TypeOK
  <2>5. intents' = intents \cup {row}
    BY <1>5 DEF lock_purchase_intent
  <2> HIDE DEF d, e
  <2>6. row \in IntentRow
    BY <2>3, <2>4 DEF IntentRow, DecisionRow, EvaluationRow
  <2> HIDE DEF row
  <2>7. IsFiniteSet(intents \cup {row})
    BY FS_AddElement DEF TypeOK
  <2>8. intents' \in SUBSET IntentRow /\ IsFiniteSet(intents')
    BY <2>5, <2>6, <2>7 DEF TypeOK
  <2>9. tx' \in [Sessions -> Transaction] /\ tx[s].key \in Keys \cup {Once}
    BY <1>5, TransactionTypes, IdleType DEF lock_purchase_intent, TypeOK, Transaction
  <2>10. idem' \in SUBSET Keys /\ served' \in [Keys -> Nat]
    BY <1>5, <2>9, CompleteTypes DEF lock_purchase_intent
  <2> QED BY <1>5, <2>8, <2>9, <2>10 DEF lock_purchase_intent, TypeOK
<1>6. ASSUME NEW i \in intents, advance_intent(i) PROVE TypeOK'
  <2>1. PICK row \in IntentRow : intents' = (intents \ {i}) \cup {row}
    <3>1. i \in IntentRow
      BY DEF TypeOK
    <3>2. PICK a \in {i.approval, "PENDING", "APPROVED"},
               m \in {i.payment, "SESSION_CREATED", "CHECKOUT_PENDING", "COMPLETED", "FAILED"} :
            intents' = (intents \ {i}) \cup {[i EXCEPT !.approval = a, !.payment = m]}
      BY <1>6 DEF advance_intent
    <3>3. [i EXCEPT !.approval = a, !.payment = m] \in IntentRow
      BY <3>1 DEF IntentRow
    <3> QED BY <3>2, <3>3
  <2>2. IsFiniteSet(intents \ {i})
    BY FS_RemoveElement DEF TypeOK
  <2>3. IsFiniteSet((intents \ {i}) \cup {row})
    BY <2>2, FS_AddElement
  <2>4. intents' \in SUBSET IntentRow /\ IsFiniteSet(intents')
    BY <2>1, <2>3 DEF TypeOK
  <2> QED BY <1>6, <2>4 DEF advance_intent, idem_vars, TypeOK
<1>7. ASSUME NEW k \in AnyKey, start_action_run(k) PROVE TypeOK'
  <2> DEFINE d == Latest(decisions)
             e == CHOOSE x \in ActionEvaluations(d) : TRUE
             row == [decision |-> d.id, plan |-> d.plan, status |-> "WAITING_FOR_HUMAN",
                     evaluation |-> e.decision]
  <2>1. d \in DecisionRow
    BY <1>7, LatestDecision DEF start_action_run, TypeOK, RowsInv, DecisionInv
  <2>2. e \in EvaluationRow
    BY <1>7 DEF start_action_run, ActionEvaluations, TypeOK
  <2>3. actions' = actions \cup {row}
    BY <1>7 DEF start_action_run
  <2> HIDE DEF d, e
  <2>4. row \in ActionRow
    BY <2>1, <2>2 DEF ActionRow, DecisionRow, EvaluationRow
  <2> HIDE DEF row
  <2>5. idem' \in SUBSET Keys /\ served' \in [Keys -> Nat]
    BY <1>7, CompleteTypes DEF start_action_run, AnyKey
  <2>6. actions' \in SUBSET ActionRow
    BY <2>3, <2>4 DEF TypeOK
  <2> QED BY <1>7, <2>5, <2>6 DEF start_action_run, TypeOK
<1> QED BY <1>1, <1>2, <1>3, <1>4, <1>5, <1>6, <1>7

LEMMA ConsentTypes ==
  ASSUME NEW e \in EngagementRow, NEW party \in {Buyer, Seller}
  PROVE  Consented(e, party) \in EngagementRow /\ Declined(e, party) \in EngagementRow
<1>1. Declined(e, party) \in EngagementRow
  BY DEF Declined, EngagementRow
<1>2. Consented(e, party) \in EngagementRow
  <2> DEFINE both == e.consents \cup {party} = {Buyer, Seller}
             status == IF both THEN "INTRODUCTION_READY"
                       ELSE IF party = Buyer THEN "SELLER_CONSENT_PENDING"
                       ELSE "BUYER_CONSENT_PENDING"
             contact == e.contact \/ both
  <2>1. Consented(e, party) =
          [e EXCEPT !.consents = e.consents \cup {party}, !.status = status, !.contact = contact]
    BY DEF Consented
  <2>2. /\ status \in {"INTRODUCTION_READY", "SELLER_CONSENT_PENDING", "BUYER_CONSENT_PENDING"}
        /\ contact \in BOOLEAN /\ e.consents \cup {party} \in SUBSET {Buyer, Seller}
    BY DEF EngagementRow
  <2> HIDE DEF both, status, contact
  <2> QED BY <2>1, <2>2 DEF EngagementRow
<1> QED BY <1>1, <1>2

(* Every step stays in the domains.                                         *)
LEMMA NextTypes == TypeOK /\ RowsInv /\ [Next]_vars => TypeOK'
<1> SUFFICES ASSUME TypeOK, RowsInv, [Next]_vars PROVE TypeOK'
  OBVIOUS
<1>1. ASSUME NEW k \in AnyKey, NEW v \in {"PRIVATE", "SELECTIVE"}, NEW demo \in BOOLEAN,
             create_purchase_request(k, v, demo)
      PROVE  TypeOK'
  <2>1. request' \in RequestRow
    BY <1>1 DEF create_purchase_request, RequestRow
  <2>2. briefs' \in SUBSET BriefRow
    BY <1>1 DEF create_purchase_request, FirstBrief, BriefRow, None
  <2> QED BY <1>1, <2>1, <2>2, CompleteTypes DEF create_purchase_request, TypeOK, AnyKey
<1>2. ASSUME NEW k \in AnyKey, NEW w \in Weights, run_calibration(k, w) PROVE TypeOK'
  <2>1. proposals' \in SUBSET ProposalRow /\ IsFiniteSet(proposals')
    BY <1>2, ProposalTypes DEF run_calibration, RowsInv
  <2> QED BY <1>2, <2>1, CompleteTypes DEF run_calibration, TypeOK, AnyKey
<1>3. ASSUME NEW k \in AnyKey, NEW d, feedback(k) \/ simulate_decision(k, d) PROVE TypeOK'
  BY <1>3, CompleteTypes DEF feedback, simulate_decision, service_vars, TypeOK, AnyKey
<1>4. ASSUME NEW k \in AnyKey, NEW p \in proposals, reject_proposal(k, p) PROVE TypeOK'
  <2>1. proposals' = Decided(p, "REJECTED", None) /\ None \in Nat
    BY <1>4 DEF reject_proposal, None
  <2>2. proposals' \in SUBSET ProposalRow /\ IsFiniteSet(proposals')
    BY <2>1, ProposalTypes DEF RowsInv
  <2> QED BY <1>4, <2>2, CompleteTypes DEF reject_proposal, TypeOK, AnyKey
<1>5. ASSUME NEW k \in AnyKey, NEW offer \in BOOLEAN, NEW w \in Weights \cup {None},
             candidate_action(k, offer, w)
      PROVE  TypeOK'
  <2>1. proposals' \in SUBSET ProposalRow /\ IsFiniteSet(proposals')
    <3>1. CASE w = None
      BY <1>5, <3>1 DEF candidate_action, TypeOK
    <3>2. CASE w # None
      BY <1>5, <3>2, ProposalTypes DEF candidate_action, RowsInv
    <3> QED BY <3>1, <3>2
  <2>2. engagement' \in EngagementRow
    BY <1>5 DEF candidate_action, NoEngagement, EngagementRow, TypeOK
  <2> QED BY <1>5, <2>1, <2>2, CompleteTypes DEF candidate_action, TypeOK, AnyKey
<1>6. ASSUME NEW k \in AnyKey, NEW party \in {Buyer, Seller}, NEW consent \in BOOLEAN,
             record_consent(k, party, consent)
      PROVE  TypeOK'
  <2>1. engagement' \in EngagementRow
    BY <1>6, ConsentTypes DEF record_consent, TypeOK
  <2> QED BY <1>6, <2>1, CompleteTypes DEF record_consent, TypeOK, AnyKey
<1>7. CASE UNCHANGED vars
  BY <1>7 DEF vars, service_vars, idem_vars, TypeOK
<1> QED BY <1>1, <1>2, <1>3, <1>4, <1>5, <1>6, <1>7, DecidingTypes, IntentTypes
        DEF Next, Proposing, Reading, Deciding, Engaging, Transactions

-----------------------------------------------------------------------------
(* Steps that write none of the rows RowsInv is about.                      *)
LEMMA UnchangedRows ==
  ASSUME RowsInv, TransactionInv',
         UNCHANGED <<request, briefs, proposals, decisions, evaluations, intents, actions>>
  PROVE  RowsInv'
BY DEF RowsInv, RequestInv, BriefInv, Newest, DecisionInv, EvaluationInv, IntentInv,
   ExecutableIsCurrent, OvertakenDiscover

LEMMA UnchangedTransactions ==
  ASSUME TransactionInv, UNCHANGED <<briefs, decisions, evaluations>>,
         \A s \in Sessions : tx'[s].op # "idle" => tx'[s] = tx[s]
  PROVE  TransactionInv'
BY DEF TransactionInv, PlanEvaluations

(* BeginDiscover, ReadPrevious, BeginLock and Abort: what they note is in   *)
(* the tables.                                                              *)
LEMMA TransactionsKeepRows ==
  ASSUME TypeOK, RowsInv, NEW s \in Sessions,
         \/ \E k \in AnyKey : BeginDiscover(s, k) \/ BeginLock(s, k)
         \/ ReadPrevious(s) \/ Abort(s)
  PROVE  RowsInv'
<1>1. UNCHANGED <<request, briefs, proposals, decisions, evaluations, intents, actions>>
  BY DEF BeginDiscover, BeginLock, ReadPrevious, Abort, service_vars
<1>2. ASSUME NEW k \in AnyKey, BeginDiscover(s, k) PROVE TransactionInv'
  <2>1. PICK b \in briefs : Newest(b, briefs)
    BY <1>2 DEF BeginDiscover, RowsInv, RequestInv, BriefInv
  <2>2. Latest(briefs) = b
    BY <2>1, LatestBrief DEF TypeOK
  <2>3. /\ tx'[s].op = "discover" /\ tx'[s].brief = b.version
        /\ \A t \in Sessions : t # s => tx'[t] = tx[t]
    BY <1>2, <2>2 DEF BeginDiscover, TypeOK
  <2> QED BY <1>1, <2>3 DEF RowsInv, TransactionInv, PlanEvaluations
<1>3. ASSUME NEW k \in AnyKey, BeginLock(s, k) PROVE TransactionInv'
  <2>1. Latest(decisions) \in decisions
    BY <1>3, LatestDecision DEF BeginLock, TypeOK, RowsInv, DecisionInv
  <2>2. PlanEvaluations(Latest(decisions)) # {}
    BY <1>3 DEF BeginLock, Lockable
  <2>3. /\ tx'[s].op = "lock" /\ tx'[s].decision = Latest(decisions).id
        /\ \A t \in Sessions : t # s => tx'[t] = tx[t]
    BY <1>3 DEF BeginLock, TypeOK
  <2>4. PlanEvaluations(Latest(decisions))' = PlanEvaluations(Latest(decisions))
    BY <1>1 DEF PlanEvaluations
  <2> QED BY <1>1, <2>1, <2>2, <2>3 DEF RowsInv, TransactionInv, PlanEvaluations
<1>4. ASSUME ReadPrevious(s) PROVE TransactionInv'
  <2>1. SupersededId # None => \E d \in decisions : d.id = SupersededId
    BY LatestDecision DEF SupersededId, TypeOK, RowsInv, DecisionInv
  <2>2. /\ tx[s].op = "discover" /\ tx'[s].op = "evaluate" /\ tx'[s].brief = tx[s].brief
        /\ tx'[s].decision = SupersededId
        /\ \A t \in Sessions : t # s => tx'[t] = tx[t]
    BY <1>4 DEF ReadPrevious, TypeOK, Transaction
  <2> QED BY <1>1, <2>1, <2>2 DEF RowsInv, TransactionInv, PlanEvaluations
<1>5. ASSUME Abort(s) PROVE TransactionInv'
  <2>1. \A t \in Sessions : tx'[t].op # "idle" => tx'[t] = tx[t]
    BY <1>5 DEF Abort, Idle, TypeOK
  <2> QED BY <1>1, <2>1, UnchangedTransactions DEF RowsInv
<1> QED BY <1>1, <1>2, <1>3, <1>4, <1>5, UnchangedRows

(* The request is created over empty tables.                                *)
LEMMA CreateKeepsRows ==
  ASSUME TypeOK, RowsInv, NEW k, NEW v, NEW demo \in BOOLEAN, create_purchase_request(k, v, demo)
  PROVE  RowsInv'
<1>1. /\ request = NoRequest /\ request'.demo = demo /\ request'.status = "DRAFT"
      /\ briefs' = (IF demo THEN {FirstBrief} ELSE {})
      /\ UNCHANGED <<proposals, decisions, evaluations, intents, actions, tx>>
  BY DEF create_purchase_request
<1>2. briefs = {} /\ proposals = {} /\ evaluations = {} /\ decisions = {} /\ intents = {}
      /\ actions = {}
  BY <1>1 DEF RowsInv, RequestInv, EvaluationInv, IntentInv
<1>3. RequestInv'
  BY <1>1, <1>2 DEF RequestInv, NoRequest
<1>4. BriefInv'
  BY <1>1, <1>2 DEF BriefInv, Newest, FirstBrief, None
<1>5. DecisionInv' /\ EvaluationInv' /\ IntentInv'
  BY <1>1, <1>2 DEF RowsInv, DecisionInv, EvaluationInv, IntentInv, ExecutableIsCurrent
<1>6. TransactionInv'
  BY <1>1, <1>2 DEF RowsInv, TransactionInv, PlanEvaluations
<1> QED BY <1>3, <1>4, <1>5, <1>6 DEF RowsInv

(* Proposals come and are rejected; the accepted ones stay.                 *)
LEMMA ProposalsKeepRows ==
  ASSUME TypeOK, RowsInv, briefs # {} \/ proposals # {},
         UNCHANGED <<request, briefs, decisions, evaluations, intents, actions, tx>>,
         \A p : p \in proposals' /\ p.status = "ACCEPTED" <=> p \in proposals /\ p.status = "ACCEPTED"
  PROVE  RowsInv'
<1>1. BriefInv'
  BY DEF RowsInv, BriefInv, Newest
<1>2. RequestInv'
  BY DEF RowsInv, RequestInv
<1>3. TransactionInv'
  BY UnchangedTransactions DEF RowsInv
<1>4. DecisionInv' /\ EvaluationInv' /\ IntentInv'
  BY DEF RowsInv, DecisionInv, EvaluationInv, IntentInv, ExecutableIsCurrent, OvertakenDiscover
<1> QED BY <1>1, <1>2, <1>3, <1>4 DEF RowsInv

LEMMA ProposingKeepsRows ==
  ASSUME TypeOK, RowsInv, NEW k, NEW w, NEW offer, NEW p,
         \/ run_calibration(k, w) \/ candidate_action(k, offer, w)
         \/ p \in proposals /\ reject_proposal(k, p)
  PROVE  RowsInv'
<1>1. CASE run_calibration(k, w) \/ candidate_action(k, offer, w)
  <2> DEFINE row == Proposal(Latest(briefs).version, w)
  <2>1. row.status = "PROPOSED"
    BY DEF Proposal
  <2>2. proposals' = proposals \/ proposals' = proposals \cup {row}
    BY <1>1 DEF run_calibration, candidate_action
  <2>3. briefs # {} /\ UNCHANGED <<request, briefs, decisions, evaluations, intents, actions, tx>>
    BY <1>1 DEF run_calibration, candidate_action
  <2> HIDE DEF row
  <2>4. \A q : q \in proposals' /\ q.status = "ACCEPTED" <=> q \in proposals /\ q.status = "ACCEPTED"
    BY <2>1, <2>2
  <2> QED BY <2>3, <2>4, ProposalsKeepRows
<1>2. CASE p \in proposals /\ reject_proposal(k, p)
  <2> DEFINE row == [p EXCEPT !.status = "REJECTED", !.result = None]
  <2>1. row.status = "REJECTED" /\ p.status = "PROPOSED"
    BY <1>2 DEF reject_proposal, Decidable, TypeOK, ProposalRow
  <2>2. proposals' = (proposals \ {p}) \cup {row}
    BY <1>2 DEF reject_proposal, Decided
  <2>3. proposals # {} /\ UNCHANGED <<request, briefs, decisions, evaluations, intents, actions, tx>>
    BY <1>2 DEF reject_proposal
  <2> HIDE DEF row
  <2>4. \A q : q \in proposals' /\ q.status = "ACCEPTED" <=> q \in proposals /\ q.status = "ACCEPTED"
    BY <2>1, <2>2
  <2> QED BY <2>3, <2>4, ProposalsKeepRows
<1> QED BY <1>1, <1>2

(* An action run names the evaluation of its Decision's brief.              *)
LEMMA ActionKeepsRows ==
  ASSUME TypeOK, RowsInv, NEW k, start_action_run(k)
  PROVE  RowsInv'
<1> DEFINE d == Latest(decisions)
           e == CHOOSE x \in ActionEvaluations(d) : TRUE
           row == [decision |-> d.id, plan |-> d.plan, status |-> "WAITING_FOR_HUMAN",
                   evaluation |-> e.decision]
<1>1. d \in decisions
  BY LatestDecision DEF start_action_run, TypeOK, RowsInv, DecisionInv
<1>2. e \in evaluations /\ e.brief = d.brief
  BY DEF start_action_run, ActionEvaluations
<1>3. actions' = actions \cup {row} /\ row.decision = d.id /\ row.evaluation = e.decision
  BY DEF start_action_run
<1>4. UNCHANGED <<request, briefs, proposals, decisions, evaluations, intents, tx>>
  BY DEF start_action_run
<1> HIDE DEF d, e, row
<1>5. EvaluationInv'
  BY <1>1, <1>2, <1>3, <1>4 DEF RowsInv, EvaluationInv
<1>6. TransactionInv'
  BY <1>4, UnchangedTransactions DEF RowsInv
<1>7. RequestInv' /\ BriefInv' /\ DecisionInv' /\ IntentInv'
  BY <1>4 DEF RowsInv, RequestInv, BriefInv, Newest, DecisionInv, IntentInv,
     ExecutableIsCurrent, OvertakenDiscover
<1> QED BY <1>5, <1>6, <1>7 DEF RowsInv

(* Intents change while Decisions and briefs stay.                          *)
LEMMA IntentsKeepRows ==
  ASSUME TypeOK, RowsInv, IntentInv',
         UNCHANGED <<request, briefs, proposals, decisions, evaluations, actions>>,
         \A s \in Sessions : tx'[s].op # "idle" => tx'[s] = tx[s]
  PROVE  RowsInv'
<1>1. TransactionInv'
  BY UnchangedTransactions DEF RowsInv
<1>2. RequestInv' /\ BriefInv' /\ DecisionInv' /\ EvaluationInv'
  BY DEF RowsInv, RequestInv, BriefInv, Newest, DecisionInv, EvaluationInv
<1> QED BY <1>1, <1>2 DEF RowsInv

(* A locked intent waits for no approval yet, and whatever moves an intent  *)
(* on either requires the current Decision or finds it under way.           *)
LEMMA PurchaseKeepsRows ==
  ASSUME TypeOK, RowsInv,
         (\E s \in Sessions : lock_purchase_intent(s)) \/ (\E i \in intents : advance_intent(i))
  PROVE  RowsInv'
<1>1. ASSUME NEW s \in Sessions, lock_purchase_intent(s) PROVE RowsInv'
  <2> DEFINE d == ById(decisions, tx[s].decision)
             e == CHOOSE x \in PlanEvaluations(d) : TRUE
             row == [id |-> NewId(intents), decision |-> d.id, plan |-> d.plan,
                     patch |-> e.decision, approval |-> "NOT_REQUESTED",
                     payment |-> "NOT_STARTED"]
  <2>1. PICK r \in decisions : r.id = tx[s].decision
    BY <1>1 DEF lock_purchase_intent, RowsInv, TransactionInv
  <2>2. d = r
    BY <2>1, FindDecision DEF RowsInv, DecisionInv
  <2>3. intents' = intents \cup {row} /\ row.decision = r.id
        /\ row.approval = "NOT_REQUESTED" /\ row.payment = "NOT_STARTED"
    BY <1>1, <2>2 DEF lock_purchase_intent
  <2>4. /\ UNCHANGED <<request, briefs, proposals, decisions, evaluations, actions>>
        /\ \A t \in Sessions : tx'[t].op # "idle" => tx'[t] = tx[t]
    BY <1>1 DEF lock_purchase_intent, Idle, TypeOK
  <2> HIDE DEF d, e, row
  <2>5. IntentInv'
    BY <2>3, <2>4 DEF RowsInv, IntentInv, ExecutableIsCurrent, OvertakenDiscover, InFlight
  <2> QED BY <2>4, <2>5, IntentsKeepRows
<1>2. ASSUME NEW i \in intents, advance_intent(i) PROVE RowsInv'
  <2> DEFINE Stands == i.decision = Latest(decisions).id \/ OvertakenDiscover
  <2>1. PICK r \in decisions : r.id = i.decision
    BY DEF RowsInv, IntentInv
  <2>2. Current(ById(decisions, i.decision)) => i.decision = Latest(decisions).id
    <3>1. ById(decisions, i.decision) = r
      BY <2>1, FindDecision DEF RowsInv, DecisionInv
    <3> QED BY <2>1, <3>1 DEF Current
  <2>3. i.approval = "APPROVED" \/ i.payment = "CHECKOUT_PENDING" => Stands
    BY DEF RowsInv, IntentInv, ExecutableIsCurrent, InFlight
  <2>4. Stands
    BY <1>2, <2>2, <2>3 DEF advance_intent
  <2>5. PICK row : intents' = (intents \ {i}) \cup {row} /\ row.decision = i.decision
    <3>1. i \in IntentRow
      BY DEF TypeOK
    <3>2. PICK a, m : intents' = (intents \ {i}) \cup {[i EXCEPT !.approval = a, !.payment = m]}
      BY <1>2 DEF advance_intent
    <3>3. [i EXCEPT !.approval = a, !.payment = m].decision = i.decision
      BY <3>1 DEF IntentRow
    <3> QED BY <3>2, <3>3
  <2>6. UNCHANGED <<request, briefs, proposals, decisions, evaluations, actions, tx>>
    BY <1>2 DEF advance_intent
  <2>7. IntentInv'
    BY <2>1, <2>4, <2>5, <2>6 DEF RowsInv, IntentInv, ExecutableIsCurrent, OvertakenDiscover
  <2> QED BY <2>6, <2>7, IntentsKeepRows
<1> QED BY <1>1, <1>2

-----------------------------------------------------------------------------
(* Rows are only added: what a transaction read stays.                      *)
LEMMA GrownTransactions ==
  ASSUME TransactionInv, decisions \subseteq decisions', evaluations \subseteq evaluations',
         \A b \in briefs : \E c \in briefs' : c.version = b.version,
         \A s \in Sessions : tx'[s].op # "idle" => tx'[s] = tx[s]
  PROVE  TransactionInv'
<1>1. \A d : PlanEvaluations(d) # {} => PlanEvaluations(d)' # {}
  BY DEF PlanEvaluations
<1>2. \A s \in Sessions : tx'[s].op \in {"discover", "evaluate"} =>
         \E b \in briefs' : b.version = tx'[s].brief
  BY DEF TransactionInv
<1>3. \A s \in Sessions : tx'[s].op = "evaluate" /\ tx'[s].decision # None =>
         \E d \in decisions' : d.id = tx'[s].decision
  BY DEF TransactionInv
<1>4. \A s \in Sessions : tx'[s].op = "lock" =>
         \E d \in decisions' : d.id = tx'[s].decision /\ PlanEvaluations(d)' # {}
  BY <1>1 DEF TransactionInv
<1> QED BY <1>2, <1>3, <1>4 DEF TransactionInv, PlanEvaluations

(* supersede_intents_for_decision_change under a new Decision: no intent is *)
(* left waiting, approved or being paid.                                    *)
LEMMA SupersedeKeepsIntents ==
  ASSUME TypeOK, RowsInv, decisions \subseteq decisions',
         NEW current, \A d \in decisions : d.id # current, SupersedeIntents(current)
  PROVE  IntentInv'
<1>1. intents' = {SupersededIntent(i, current) : i \in intents}
  BY DEF SupersedeIntents
<1>2. ASSUME NEW i \in intents
      PROVE  LET j == SupersededIntent(i, current) IN
             /\ j.decision = i.decision
             /\ j.approval \notin {"PENDING", "APPROVED"} /\ j.payment \notin InFlight
  <2>1. i \in IntentRow
    BY DEF TypeOK
  <2>2. i.decision # current
    BY DEF RowsInv, IntentInv
  <2>3. i.payment \notin InFlight
    BY <2>2 DEF SupersedeIntents
  <2> DEFINE a == IF i.approval \in {"NOT_REQUESTED", "PENDING", "APPROVED"}
                  THEN "SUPERSEDED" ELSE i.approval
             m == IF i.payment = "SESSION_CREATED" THEN "EXPIRED" ELSE i.payment
  <2>4. SupersededIntent(i, current) = [i EXCEPT !.approval = a, !.payment = m]
    BY <2>2 DEF SupersededIntent
  <2>5. a \notin {"PENDING", "APPROVED"} /\ m \notin InFlight
    BY <2>3 DEF InFlight
  <2> HIDE DEF a, m
  <2> QED BY <2>1, <2>4, <2>5 DEF IntentRow
<1>3. ASSUME NEW j \in intents'
      PROVE  /\ \E d \in decisions' : d.id = j.decision
             /\ j.approval \notin {"PENDING", "APPROVED"} /\ j.payment \notin InFlight
  <2>1. PICK i \in intents : j = SupersededIntent(i, current)
    BY <1>1
  <2>2. \E d \in decisions : d.id = i.decision
    BY DEF RowsInv, IntentInv
  <2> QED BY <1>2, <2>1, <2>2
<1> QED BY <1>3 DEF IntentInv, ExecutableIsCurrent, InFlight

(* select_plan rests on the brief and the evaluation of its source.         *)
LEMMA SelectKeepsRows ==
  ASSUME TypeOK, RowsInv, NEW k, NEW plan \in Plans, select_plan(k, plan)
  PROVE  RowsInv'
<1> DEFINE n == Cardinality(decisions)
           source == Latest(decisions)
           x == Appended(source.brief, plan, TRUE)
<1>1. source \in decisions /\ decisions' = decisions \cup {x}
  BY SelectFacts
<1>2. source.brief \in Nat /\ TRUE \in BOOLEAN
  BY <1>1 DEF TypeOK, DecisionRow
<1>3. x.brief = source.brief /\ x.selection = TRUE /\ x.id = n + 1
  BY <1>2, AppendedRow
<1>4. DecisionInv' /\ \A d \in decisions : d.id # n + 1
  BY <1>1, <1>2, AppendKeepsChain DEF RowsInv
<1>5. UNCHANGED <<request, briefs, proposals, evaluations, actions, tx>>
  BY DEF select_plan
<1>6. SupersedeIntents(n + 1)
  BY DEF select_plan, NewId
<1> HIDE DEF x, n, source
<1>7. IntentInv'
  BY <1>1, <1>4, <1>6, SupersedeKeepsIntents
<1>8. EvaluationInv'
  BY <1>1, <1>3, <1>5 DEF RowsInv, EvaluationInv
<1>9. TransactionInv'
  BY <1>1, <1>5, GrownTransactions DEF RowsInv
<1>10. RequestInv' /\ BriefInv'
  BY <1>5 DEF RowsInv, RequestInv, BriefInv, Newest
<1> QED BY <1>4, <1>7, <1>8, <1>9, <1>10 DEF RowsInv

(* The fields of the rows accept_proposal writes.                           *)
LEMMA AcceptedRows ==
  ASSUME NEW base \in BriefRow, NEW p \in ProposalRow, NEW v \in Nat
  PROVE  /\ Superseded(base).version = base.version /\ Superseded(base).weight = base.weight
         /\ Superseded(base).supersedes = base.supersedes
         /\ Superseded(base).status = "SUPERSEDED"
         /\ Accepted(p, v).status = "ACCEPTED" /\ Accepted(p, v).result = v
         /\ Accepted(p, v).base = p.base /\ Accepted(p, v).weight = p.weight
BY DEF Superseded, Accepted, BriefRow, ProposalRow

(* accept_proposal: the new brief is the newest, it names the proposal it   *)
(* came from, and it is evaluated with the Decision it gets.                *)
LEMMA AcceptKeepsBriefs ==
  ASSUME TypeOK, RowsInv, NEW p \in proposals, NEW base \in briefs, NEW brief \in BriefRow,
         NEW plan \in Plans, AcceptsAs(p, base, brief, plan)
  PROVE  BriefInv'
<1> DEFINE old == Superseded(base)
           done == Accepted(p, brief.version)
           run == Evaluated(brief, Cardinality(decisions) + 1, plan)
<1>0. base \in BriefRow /\ p \in ProposalRow /\ brief.version \in Nat
  BY DEF TypeOK, BriefRow
<1>1. /\ old.version = base.version /\ old.weight = base.weight
      /\ old.supersedes = base.supersedes /\ old.status = "SUPERSEDED"
      /\ done.status = "ACCEPTED" /\ done.result = brief.version
      /\ done.base = p.base /\ done.weight = p.weight
  BY <1>0, AcceptedRows
<1>2. run.brief = brief.version
  BY DEF Evaluated
<1>3. /\ base.status = "APPROVED" /\ base.version = p.base /\ p.status = "PROPOSED"
      /\ brief.version = base.version + 1 /\ brief.status = "APPROVED"
      /\ brief.weight = p.weight /\ brief.supersedes = base.version
      /\ \A q \in briefs : q # base => q.version < base.version /\ q.status = "SUPERSEDED"
  BY DEF AcceptsAs, Newest
<1>4. /\ briefs' = (briefs \ {base}) \cup {old, brief}
      /\ proposals' = (proposals \ {p}) \cup {done}
      /\ evaluations' = evaluations \cup {run}
  BY DEF AcceptsAs
<1> HIDE DEF old, done, run
<1>5. \A q \in briefs : q.version \in Nat /\ q.version < brief.version
  BY <1>0, <1>3 DEF TypeOK, BriefRow
<1>6. Newest(brief, briefs')
  BY <1>0, <1>1, <1>3, <1>4, <1>5 DEF Newest
<1>7. \A b, c \in briefs' : b.version = c.version => b = c
  <2>1. \A b \in briefs' : b # brief => b.version < brief.version /\ b.version \in Nat
    BY <1>0, <1>1, <1>4, <1>5
  <2>2. \A b, c \in briefs : b.version = c.version => b = c
    BY DEF RowsInv, BriefInv
  <2>3. ASSUME NEW b \in briefs', NEW c \in briefs', b.version = c.version, b # brief, c # brief
        PROVE  b = c
    <3>1. (b = old \/ b \in briefs \ {base}) /\ (c = old \/ c \in briefs \ {base})
      BY <1>4, <2>3
    <3> QED BY <1>1, <2>2, <2>3, <3>1
  <2> QED BY <1>0, <2>1, <2>3
<1>8. \A b, q \in briefs' : b.status = "APPROVED" /\ q # b =>
        \E e \in evaluations' : e.brief = b.version
  BY <1>1, <1>2, <1>3, <1>4
<1>9. \A b \in briefs' : b.supersedes # None => \E q \in proposals' :
        q.status = "ACCEPTED" /\ q.result = b.version /\ q.base = b.supersedes /\ q.weight = b.weight
  <2>1. \A q \in proposals : q.status = "ACCEPTED" => q \in proposals'
    BY <1>3, <1>4
  <2>2. \A b \in briefs : b.supersedes # None => \E q \in proposals' :
        q.status = "ACCEPTED" /\ q.result = b.version /\ q.base = b.supersedes /\ q.weight = b.weight
    BY <2>1 DEF RowsInv, BriefInv
  <2>3. done \in proposals'
    BY <1>4
  <2>4. CASE brief.supersedes # None
    BY <1>1, <1>3, <1>4, <2>2, <2>3
  <2>5. CASE brief.supersedes = None
    BY <1>1, <1>3, <1>4, <2>2, <2>5
  <2> QED BY <2>4, <2>5
<1>10. \A q \in proposals' : q.status = "ACCEPTED" => \E b \in briefs' : b.version = q.result
  BY <1>1, <1>3, <1>4 DEF RowsInv, BriefInv
<1>11. \A q, r \in proposals' :
         q.status = "ACCEPTED" /\ r.status = "ACCEPTED" /\ q.result = r.result => q = r
  <2>1. \A q \in proposals : q.status = "ACCEPTED" => q.result # brief.version
    BY <1>0, <1>5 DEF RowsInv, BriefInv
  <2> QED BY <1>1, <1>4, <2>1 DEF RowsInv, BriefInv
<1>12. briefs' # {} => \E b \in briefs' : Newest(b, briefs')
  BY <1>6 DEF Newest
<1> QED BY <1>7, <1>8, <1>9, <1>10, <1>11, <1>12 DEF BriefInv, Newest

LEMMA AcceptKeepsRows ==
  ASSUME TypeOK, RowsInv, NEW k, NEW p \in proposals, accept_proposal(k, p)
  PROVE  RowsInv'
<1>0. PICK base \in briefs, brief \in BriefRow, plan \in Plans : AcceptsAs(p, base, brief, plan)
  BY AcceptFacts
<1> DEFINE n == Cardinality(decisions)
           old == Superseded(base)
           x == Appended(brief.version, plan, FALSE)
           run == Evaluated(brief, n + 1, plan)
<1>1. /\ briefs' = (briefs \ {base}) \cup {old, brief}
      /\ decisions' = decisions \cup {x} /\ evaluations' = evaluations \cup {run}
      /\ proposals' # {}
  BY <1>0 DEF AcceptsAs
<1>2. brief.version \in Nat /\ FALSE \in BOOLEAN /\ base \in BriefRow /\ p \in ProposalRow
  BY DEF TypeOK, BriefRow
<1>3. x.brief = brief.version /\ x.selection = FALSE /\ x.id = n + 1
  BY <1>2, AppendedRow
<1>4. DecisionInv' /\ \A d \in decisions : d.id # n + 1
  BY <1>1, <1>2, AppendKeepsChain DEF RowsInv
<1>5. run.decision = n + 1 /\ run.brief = brief.version /\ run.weight = brief.weight
  BY DEF Evaluated
<1>6. old.version = base.version /\ old.weight = base.weight
  BY <1>2, AcceptedRows
<1>7. UNCHANGED <<request, actions, tx>> /\ SupersedeIntents(n + 1)
  BY DEF accept_proposal, Reevaluated, NewId
<1> HIDE DEF x, n, old, run
<1>8. BriefInv'
  BY <1>0, AcceptKeepsBriefs
<1>9. IntentInv'
  BY <1>1, <1>4, <1>7, SupersedeKeepsIntents
<1>10. \A b \in briefs : \E c \in briefs' : c.version = b.version /\ c.weight = b.weight
  BY <1>1, <1>6
<1>11. EvaluationInv'
  BY <1>1, <1>3, <1>5, <1>7, <1>10 DEF RowsInv, EvaluationInv
<1>12. TransactionInv'
  BY <1>1, <1>7, <1>10, GrownTransactions DEF RowsInv
<1>13. RequestInv'
  BY <1>1, <1>7 DEF RowsInv, RequestInv
<1> QED BY <1>4, <1>8, <1>9, <1>11, <1>12, <1>13 DEF RowsInv

(* discover supersedes no intent.  It finds none of an older Decision       *)
(* unless its brief was superseded meanwhile: while the approved brief has  *)
(* no evaluation there is no Decision at all.                               *)
LEMMA DiscoverKeepsRows ==
  ASSUME TypeOK, RowsInv, NEW s \in Sessions, CommitDiscover(s)
  PROVE  RowsInv'
<1>0. PICK b \in briefs, plan \in Plans : DiscoversAs(b, plan)
  BY DiscoverFacts
<1> DEFINE n == Cardinality(decisions)
           x == Appended(b.version, plan, FALSE)
           run == Evaluated(b, n + 1, plan)
<1>1. /\ \A e \in evaluations : e.brief # b.version
      /\ decisions' = decisions \cup {x} /\ evaluations' = evaluations \cup {run}
  BY <1>0 DEF DiscoversAs, EvaluatesOnce
<1>2. b.version \in Nat /\ FALSE \in BOOLEAN /\ b \in BriefRow
  BY DEF TypeOK, BriefRow
<1>3. x.brief = b.version /\ x.selection = FALSE /\ x.id = n + 1
  BY <1>2, AppendedRow
<1>4. DecisionInv' /\ Latest(decisions)' = x
  BY <1>1, <1>2, AppendKeepsChain DEF RowsInv
<1>5. run.decision = n + 1 /\ run.brief = b.version /\ run.weight = b.weight
  BY DEF Evaluated
<1>6. /\ UNCHANGED <<briefs, proposals, intents, actions>>
      /\ request' = [request EXCEPT !.status = "DECISION_READY"]
      /\ \A t \in Sessions : tx'[t].op # "idle" => tx'[t] = tx[t]
  BY DEF CommitDiscover, Idle, TypeOK
<1> HIDE DEF x, n, run
<1>7. BriefInv'
  BY <1>1, <1>6 DEF RowsInv, BriefInv, Newest
<1>8. EvaluationInv'
  BY <1>1, <1>3, <1>5, <1>6 DEF RowsInv, EvaluationInv
<1>9. TransactionInv'
  BY <1>1, <1>6, GrownTransactions DEF RowsInv
<1>10. RequestInv'
  <2>1. request'.demo = request.demo /\ request'.status = "DECISION_READY"
    BY <1>6 DEF TypeOK, RequestRow
  <2> QED BY <1>6, <2>1 DEF RowsInv, RequestInv, NoRequest
<1>11. IntentInv'
  <2>1. CASE b.status = "SUPERSEDED"
    <3>1. OvertakenDiscover'
      BY <1>3, <1>4, <1>6, <2>1 DEF OvertakenDiscover
    <3> QED BY <1>1, <1>6, <3>1 DEF RowsInv, IntentInv, ExecutableIsCurrent
  <2>2. CASE b.status = "APPROVED"
    <3>1. \A q \in briefs : q = b
      BY <1>1, <2>2 DEF RowsInv, BriefInv
    <3>2. decisions = {}
      <4> SUFFICES ASSUME NEW d \in decisions PROVE FALSE
        OBVIOUS
      <4>1. PICK e \in evaluations : e.brief = d.brief
        BY DEF RowsInv, EvaluationInv
      <4>2. PICK c \in briefs : c.version = e.brief
        BY DEF RowsInv, EvaluationInv
      <4> QED BY <1>1, <3>1, <4>2
    <3>3. intents' = {}
      BY <1>6, <3>2 DEF RowsInv, IntentInv
    <3> QED BY <3>3 DEF IntentInv, ExecutableIsCurrent
  <2> QED BY <1>2, <2>1, <2>2 DEF BriefRow
<1> QED BY <1>4, <1>7, <1>8, <1>9, <1>10, <1>11 DEF RowsInv

LEMMA InitRows == Init => RowsInv
<1> SUFFICES ASSUME Init PROVE RowsInv
  OBVIOUS
<1>1. /\ proposals = {} /\ intents = {} /\ actions = {}
      /\ \A s \in Sessions : tx[s].op = "idle"
  BY DEF Init, Idle
<1>2. TransactionInv /\ IntentInv
  BY <1>1 DEF TransactionInv, IntentInv, ExecutableIsCurrent
<1>3. CASE SeededRows
  <2>1. PICK plan \in Plans : /\ decisions = {DecisionOf(1, 1, None, 1, plan, FALSE)}
                              /\ evaluations = {Evaluated(FirstBrief, 1, plan)}
    BY <1>3 DEF SeededRows
  <2> DEFINE d == DecisionOf(1, 1, None, 1, plan, FALSE)
             e == Evaluated(FirstBrief, 1, plan)
  <2>2. /\ d.id = 1 /\ d.version = 1 /\ d.supersedes = 0 /\ d.brief = 1 /\ d.selection = FALSE
        /\ e.decision = 1 /\ e.brief = 1 /\ e.weight = 3
    BY DEF DecisionOf, Evaluated, FirstBrief, None
  <2>3. Cardinality(decisions) = 1
    BY <2>1, FS_Singleton
  <2>4. decisions = {d} /\ evaluations = {e}
    BY <2>1
  <2> HIDE DEF d, e
  <2>5. DecisionInv
    BY <2>2, <2>3, <2>4 DEF DecisionInv, Chain
  <2>6. briefs = {FirstBrief} /\ request.demo /\ request # NoRequest
    BY <1>3 DEF SeededRows, NoRequest
  <2>7. BriefInv /\ RequestInv
    BY <1>1, <2>6 DEF BriefInv, Newest, RequestInv, FirstBrief, None
  <2>8. EvaluationInv
    BY <1>1, <2>2, <2>4, <2>6 DEF EvaluationInv, FirstBrief
  <2> QED BY <1>2, <2>5, <2>7, <2>8 DEF RowsInv
<1>4. CASE ~SeededRows
  <2>1. request = NoRequest /\ briefs = {} /\ decisions = {} /\ evaluations = {}
    BY <1>4 DEF Init
  <2>2. Cardinality(decisions) = 0
    BY <2>1, FS_EmptySet
  <2>3. DecisionInv
    BY <2>1, <2>2 DEF DecisionInv, Chain
  <2>4. RequestInv /\ BriefInv /\ EvaluationInv
    BY <1>1, <2>1 DEF RequestInv, BriefInv, EvaluationInv, NoRequest
  <2> QED BY <1>2, <2>3, <2>4 DEF RowsInv
<1> QED BY <1>3, <1>4

LEMMA NextRows == TypeOK /\ RowsInv /\ [Next]_vars => RowsInv'
<1> SUFFICES ASSUME TypeOK, RowsInv, [Next]_vars PROVE RowsInv'
  OBVIOUS
<1>1. ASSUME UNCHANGED <<service_vars, tx>> PROVE RowsInv'
  <2>1. TransactionInv'
    BY <1>1, UnchangedTransactions DEF RowsInv, service_vars
  <2> QED BY <1>1, <2>1, UnchangedRows DEF service_vars
<1>2. ASSUME NEW k, NEW party, NEW consent, record_consent(k, party, consent) PROVE RowsInv'
  <2>1. TransactionInv'
    BY <1>2, UnchangedTransactions DEF RowsInv, record_consent
  <2> QED BY <1>2, <2>1, UnchangedRows DEF record_consent
<1>3. CASE UNCHANGED vars
  BY <1>1, <1>3 DEF vars
<1>4. ASSUME NEW k \in AnyKey, Proposing(k) \/ Reading(k) \/ Deciding(k) \/ Engaging(k)
      PROVE  RowsInv'
  <2>1. CASE Proposing(k)
    BY <2>1, ProposingKeepsRows DEF Proposing
  <2>2. CASE Reading(k)
    BY <1>1, <2>2 DEF Reading, feedback, simulate_decision
  <2>3. CASE Deciding(k)
    BY <2>3, AcceptKeepsRows, ProposingKeepsRows, SelectKeepsRows, ActionKeepsRows DEF Deciding
  <2>4. CASE Engaging(k)
    BY <1>2, <2>4, ProposingKeepsRows DEF Engaging
  <2> QED BY <1>4, <2>1, <2>2, <2>3, <2>4
<1>5. ASSUME NEW s \in Sessions, Transactions(s) PROVE RowsInv'
  BY <1>5, TransactionsKeepRows, DiscoverKeepsRows, PurchaseKeepsRows DEF Transactions
<1>6. ASSUME NEW i \in intents, advance_intent(i) PROVE RowsInv'
  BY <1>6, PurchaseKeepsRows
<1> QED BY <1>3, <1>4, <1>5, <1>6, CreateKeepsRows DEF Next

-----------------------------------------------------------------------------
(* The rows of every table stay in their domains.                           *)
THEOREM DecisionTypes == Spec => [](TypeOK /\ RowsInv)
<1>1. Init => TypeOK /\ RowsInv
  BY InitTypes, InitRows
<1>2. TypeOK /\ RowsInv /\ [Next]_vars => (TypeOK /\ RowsInv)'
  BY NextTypes, NextRows
<1> QED BY <1>1, <1>2, PTL DEF Spec

(* Decision versions form one chain, however many discovers, accepted       *)
(* proposals and selections overlap.                                        *)
THEOREM DecisionsFormChain == Spec => []DecisionsAreChain
<1>1. TypeOK /\ RowsInv => DecisionsAreChain
  <2> SUFFICES ASSUME TypeOK, RowsInv, NEW d \in decisions
               PROVE  /\ \A e \in decisions : e.version = d.version => e = d
                      /\ IF d.version = 1 THEN d.supersedes = None
                         ELSE \E e \in decisions : e.id = d.supersedes /\ e.version = d.version - 1
    BY DEF DecisionsAreChain
  <2>1. Cardinality(decisions) \in Nat /\ d.id \in 1..Cardinality(decisions)
    BY FS_CardinalityType DEF TypeOK, RowsInv, DecisionInv, Chain
  <2>2. d.version = d.id /\ d.supersedes = d.id - 1
    BY DEF RowsInv, DecisionInv, Chain
  <2>3. \A e \in decisions : e.version = d.version => e = d
    BY <2>2 DEF RowsInv, DecisionInv, Chain
  <2>4. CASE d.version = 1
    BY <2>2, <2>3, <2>4 DEF None
  <2>5. CASE d.version # 1
    <3>1. d.id - 1 \in 1..Cardinality(decisions)
      BY <2>1, <2>2, <2>5
    <3>2. PICK e \in decisions : e.id = d.id - 1
      BY <3>1 DEF RowsInv, DecisionInv, Chain
    <3>3. e.version = d.version - 1
      BY <2>2, <3>2 DEF RowsInv, DecisionInv, Chain
    <3> QED BY <2>2, <2>3, <2>5, <3>2, <3>3
  <2> QED BY <2>4, <2>5
<1> QED BY <1>1, DecisionTypes, PTL

(* supersede_intents_for_decision_change: but for a discover overtaken by   *)
(* an accepted proposal, what is waiting for approval, approved or being    *)
(* paid belongs to the current Decision.                                    *)
THEOREM ExecutableStaysCurrent == Spec => []ExecutableIsCurrent
<1>1. RowsInv => ExecutableIsCurrent
  BY DEF RowsInv, IntentInv
<1> QED BY <1>1, DecisionTypes, PTL

(* The newest brief is the approved one and names the one proposal it came  *)
(* from; Decisions, selections and action runs rest on the evaluation of    *)
(* their brief, and replay_evaluation finds what was evaluated.             *)
THEOREM DecisionsRestOnBriefs == Spec => []DecisionRestsOnBrief
<1>1. TypeOK /\ RowsInv => BriefsFollowProposals
  <2> SUFFICES ASSUME TypeOK, RowsInv PROVE BriefsFollowProposals
    OBVIOUS
  <2>1. ASSUME NEW b \in briefs PROVE b.status = "APPROVED" <=> b = Latest(briefs)
    <3>1. PICK c \in briefs : Newest(c, briefs)
      BY DEF RowsInv, BriefInv
    <3>2. Latest(briefs) = c
      BY <3>1, LatestBrief DEF TypeOK
    <3> QED BY <3>1, <3>2 DEF Newest
  <2>2. ASSUME NEW b \in briefs, b.supersedes # None
        PROVE  Cardinality({p \in proposals : /\ p.status = "ACCEPTED" /\ p.result = b.version
                                              /\ p.base = b.supersedes /\ p.weight = b.weight}) = 1
    <3>1. PICK p \in proposals : /\ p.status = "ACCEPTED" /\ p.result = b.version
                                 /\ p.base = b.supersedes /\ p.weight = b.weight
      BY <2>2 DEF RowsInv, BriefInv
    <3>2. \A q \in proposals : q.status = "ACCEPTED" /\ q.result = b.version => q = p
      BY <3>1 DEF RowsInv, BriefInv
    <3>3. {q \in proposals : /\ q.status = "ACCEPTED" /\ q.result = b.version
                             /\ q.base = b.supersedes /\ q.weight = b.weight} = {p}
      BY <3>1, <3>2
    <3> QED BY <3>3, FS_Singleton
  <2> QED BY <2>1, <2>2 DEF BriefsFollowProposals
<1>2. RowsInv => EvaluationBound
  <2> SUFFICES ASSUME RowsInv PROVE EvaluationBound
    OBVIOUS
  <2>1. \A d \in decisions : \E e \in evaluations : e.brief = d.brief
    BY DEF RowsInv, EvaluationInv
  <2>2. ASSUME NEW e \in evaluations
        PROVE  replay_evaluation(e) /\ \A d \in ReplaySources(e) : ~d.selection
    <3>1. PICK d \in decisions : d.id = e.decision /\ d.brief = e.brief /\ ~d.selection
      BY DEF RowsInv, EvaluationInv
    <3>2. PICK b \in briefs : b.version = e.brief /\ b.weight = e.weight
      BY DEF RowsInv, EvaluationInv
    <3>3. \A r \in ReplaySources(e) : r = d
      BY <3>1 DEF ReplaySources, RowsInv, DecisionInv, Chain
    <3> QED BY <3>1, <3>2, <3>3 DEF ReplaySources, replay_evaluation
  <2>3. ASSUME NEW a \in actions
        PROVE  \E e \in evaluations :
                 e.decision = a.evaluation /\ e.brief = ById(decisions, a.decision).brief
    <3>1. PICK d \in decisions, e \in evaluations :
            d.id = a.decision /\ e.decision = a.evaluation /\ e.brief = d.brief
      BY DEF RowsInv, EvaluationInv
    <3>2. ById(decisions, a.decision) = d
      BY <3>1, FindDecision DEF RowsInv, DecisionInv
    <3> QED BY <3>1, <3>2
  <2> QED BY <2>1, <2>2, <2>3 DEF EvaluationBound
<1>3. TypeOK /\ RowsInv => DecisionRestsOnBrief
  BY <1>1, <1>2 DEF DecisionRestsOnBrief
<1> QED BY <1>3, DecisionTypes, PTL

-----------------------------------------------------------------------------
(* Contact details are exchanged exactly while both parties consent.        *)
THEOREM ConsentStaysMutual == Spec => []ConsentIsMutual
<1>1. Init => ConsentIsMutual
  BY DecisionAssumption DEF Init, NoEngagement, ConsentIsMutual
<1>2. TypeOK /\ ConsentIsMutual /\ [Next]_vars => ConsentIsMutual'
  <2> SUFFICES ASSUME TypeOK, ConsentIsMutual, [Next]_vars PROVE ConsentIsMutual'
    OBVIOUS
  <2>1. ASSUME NEW party \in {Buyer, Seller}, engagement' = Consented(engagement, party)
        PROVE  ConsentIsMutual'
    <3> DEFINE e == engagement
               both == e.consents \cup {party} = {Buyer, Seller}
               status == IF both THEN "INTRODUCTION_READY"
                         ELSE IF party = Buyer THEN "SELLER_CONSENT_PENDING"
                         ELSE "BUYER_CONSENT_PENDING"
               contact == e.contact \/ both
               consents == e.consents \cup {party}
    <3>1. engagement' = [e EXCEPT !.consents = consents, !.status = status, !.contact = contact]
      BY <2>1 DEF Consented
    <3>2. contact <=> consents = {Buyer, Seller}
      BY DEF ConsentIsMutual
    <3>3. contact => status = "INTRODUCTION_READY"
      BY DEF ConsentIsMutual
    <3>4. e \in EngagementRow
      BY DEF TypeOK
    <3> HIDE DEF e, both, status, contact, consents
    <3>5. engagement'.contact = contact /\ engagement'.status = status
          /\ engagement'.consents = consents
      BY <3>1, <3>4 DEF EngagementRow
    <3> QED BY <3>2, <3>3, <3>5 DEF ConsentIsMutual
  <2>2. ASSUME NEW party \in {Buyer, Seller}, engagement' = Declined(engagement, party)
        PROVE  ConsentIsMutual'
    <3>1. engagement'.contact = FALSE /\ engagement'.consents = engagement.consents \ {party}
      BY <2>2 DEF Declined, TypeOK, EngagementRow
    <3>2. engagement'.consents # {Buyer, Seller}
      BY <3>1
    <3> QED BY <3>1, <3>2 DEF ConsentIsMutual
  <2>3. ASSUME engagement' = [NoEngagement EXCEPT !.status = "SELLER_REVIEWING"]
        PROVE  ConsentIsMutual'
    BY <2>3, DecisionAssumption DEF NoEngagement, ConsentIsMutual
  <2>4. CASE UNCHANGED engagement
    BY <2>4 DEF ConsentIsMutual
  <2>5. \/ UNCHANGED engagement
        \/ engagement' = [NoEngagement EXCEPT !.status = "SELLER_REVIEWING"]
        \/ \E party \in {Buyer, Seller} : \/ engagement' = Consented(engagement, party)
                                          \/ engagement' = Declined(engagement, party)
    BY DEF Next, create_purchase_request, Proposing, run_calibration, Reading, feedback,
       simulate_decision, Deciding, accept_proposal, reject_proposal, select_plan,
       start_action_run, Engaging, candidate_action, record_consent, Transactions,
       BeginDiscover, BeginLock, ReadPrevious, CommitDiscover, lock_purchase_intent, Abort,
       advance_intent, service_vars, vars
  <2> QED BY <2>1, <2>2, <2>3, <2>4, <2>5
<1> QED BY <1>1, <1>2, DecisionTypes, PTL DEF Spec

-----------------------------------------------------------------------------
(* complete_idempotency of a key no record has: the count stays right, and  *)
(* the open transactions hold other keys.                                   *)
LEMMA CompleteKeepsKeys ==
  ASSUME TypeOK, KeyInv, NEW k \in Keys \cup {Once}, Complete(k), k \notin idem,
         \A s \in Sessions : tx'[s].op # "idle" =>
           tx'[s] = tx[s] /\ (tx[s].key # k \/ k = Once)
  PROVE  KeyInv'
<1>1. CASE k = Once
  BY <1>1 DEF Complete, idem_vars, KeyInv, KeyServedOnce
<1>2. CASE k # Once
  <2>1. /\ k \in Keys /\ idem' = idem \cup {k}
        /\ served'[k] = served[k] + 1 /\ \A j \in Keys : j # k => served'[j] = served[j]
    BY <1>2 DEF Complete, TypeOK
  <2>2. served[k] = 0
    BY <2>1 DEF KeyInv, KeyServedOnce
  <2>3. KeyServedOnce'
    BY <2>1, <2>2 DEF KeyInv, KeyServedOnce
  <2> QED BY <1>2, <2>1, <2>3 DEF KeyInv
<1> QED BY <1>1, <1>2

(* An operation in one transaction, under a key nobody holds.               *)
LEMMA SingleStepKeys ==
  ASSUME TypeOK, KeyInv, NEW k \in AnyKey, Claimable(k, HeldKeys), Complete(k), UNCHANGED tx
  PROVE  KeyInv'
<1>1. \A s \in Sessions : tx[s].op # "idle" => tx[s].key # k \/ k = Once
  BY DEF Claimable, HeldKeys
<1>2. k \notin idem /\ k \in Keys \cup {Once}
  BY DEF Claimable, AnyKey
<1> QED BY <1>1, <1>2, CompleteKeepsKeys

(* A transaction that commits under the key it claimed when it began.       *)
LEMMA CommitKeys ==
  ASSUME TypeOK, KeyInv, NEW s \in Sessions, tx[s].op # "idle", Complete(tx[s].key),
         tx' = [tx EXCEPT ![s] = Idle]
  PROVE  KeyInv'
<1>1. tx[s].key \in Keys \cup {Once} /\ tx[s].key \notin idem
  BY DEF TypeOK, Transaction, KeyInv
<1>2. \A t \in Sessions : tx'[t].op # "idle" => t # s /\ tx'[t] = tx[t]
  BY DEF Idle, TypeOK
<1>3. \A t \in Sessions : tx'[t].op # "idle" =>
        tx'[t] = tx[t] /\ (tx[t].key # tx[s].key \/ tx[s].key = Once)
  BY <1>2 DEF KeyInv
<1> QED BY <1>1, <1>3, CompleteKeepsKeys

(* A transaction that begins with a key nobody holds, or one that reads on. *)
LEMMA BeginKeys ==
  ASSUME TypeOK, KeyInv, NEW s \in Sessions, UNCHANGED idem_vars,
         \A t \in Sessions : t # s => tx'[t] = tx[t],
         \/ tx'[s].op = "idle"
         \/ Claimable(tx'[s].key, HeldKeys)
         \/ tx[s].op # "idle" /\ tx'[s].key = tx[s].key
  PROVE  KeyInv'
<1>1. idem' = idem /\ served' = served
  BY DEF idem_vars
<1>2. tx'[s].op # "idle" => tx'[s].key \notin idem
  BY DEF Claimable, KeyInv
<1>3. \A t \in Sessions : t # s /\ tx'[s].op # "idle" /\ tx[t].op # "idle" =>
        tx[t].key # tx'[s].key \/ tx[t].key = Once
  BY DEF Claimable, HeldKeys, KeyInv
<1> QED BY <1>1, <1>2, <1>3 DEF KeyInv, KeyServedOnce

(* A key that a client retries commits one operation of the Decision        *)
(* service, whatever transactions overlap it.                               *)
THEOREM DecisionKeyServedOnce == Spec => []KeyServedOnce
<1>1. Init => KeyInv
  BY DEF Init, IdemInit, Idle, KeyInv, KeyServedOnce
<1>2. TypeOK /\ KeyInv /\ [Next]_vars => KeyInv'
  <2> SUFFICES ASSUME TypeOK, KeyInv, [Next]_vars PROVE KeyInv'
    OBVIOUS
  <2>1. ASSUME NEW k \in AnyKey,
               \/ \E v, demo : create_purchase_request(k, v, demo)
               \/ Proposing(k) \/ Reading(k) \/ Deciding(k) \/ Engaging(k)
        PROVE  KeyInv'
    <3>1. Claimable(k, HeldKeys) /\ Complete(k) /\ UNCHANGED tx
      BY <2>1 DEF create_purchase_request, Proposing, run_calibration, Reading, feedback,
         simulate_decision, Deciding, accept_proposal, reject_proposal, select_plan,
         start_action_run, Engaging, candidate_action, record_consent
    <3> QED BY <3>1, SingleStepKeys
  <2>2. ASSUME NEW s \in Sessions, Transactions(s) PROVE KeyInv'
    <3>1. CASE CommitDiscover(s) \/ lock_purchase_intent(s)
      <4>1. tx[s].op # "idle" /\ Complete(tx[s].key) /\ tx' = [tx EXCEPT ![s] = Idle]
        BY <3>1 DEF CommitDiscover, lock_purchase_intent
      <4> QED BY <4>1, CommitKeys
    <3>2. ASSUME NEW k \in AnyKey, BeginDiscover(s, k) \/ BeginLock(s, k) PROVE KeyInv'
      <4>1. /\ UNCHANGED idem_vars /\ Claimable(k, HeldKeys) /\ tx'[s].key = k
            /\ \A t \in Sessions : t # s => tx'[t] = tx[t]
        BY <3>2 DEF BeginDiscover, BeginLock, TypeOK
      <4> QED BY <4>1, BeginKeys
    <3>3. CASE ReadPrevious(s) \/ Abort(s)
      <4>1. /\ UNCHANGED idem_vars
            /\ tx'[s].op = "idle" \/ (tx[s].op # "idle" /\ tx'[s].key = tx[s].key)
            /\ \A t \in Sessions : t # s => tx'[t] = tx[t]
        BY <3>3 DEF ReadPrevious, Abort, Idle, TypeOK, Transaction
      <4> QED BY <4>1, BeginKeys
    <3> QED BY <2>2, <3>1, <3>2, <3>3 DEF Transactions
  <2>3. CASE UNCHANGED <<tx, idem_vars>>
    BY <2>3 DEF idem_vars, KeyInv, KeyServedOnce
  <2> QED BY <2>1, <2>2, <2>3 DEF Next, advance_intent, vars
<1>3. KeyInv => KeyServedOnce
  BY DEF KeyInv
<1> QED BY <1>1, <1>2, <1>3, DecisionTypes, PTL DEF Spec
=============================================================================
