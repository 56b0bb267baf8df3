------------------------------ MODULE DecisionEngine ------------------------------
(* One call of evaluate_decision_graph (decision_engine/graph_v1.py) and of the     *)
(* ledger and row builders that follow it: the base evaluation, the rerun without   *)
(* private facts, the counterfactual search, the Decision Ledger, the rows.         *)
(*                                                                                 *)
(* The variables are the local state of the call.                                  *)
EXTENDS EvaluationRows

CONSTANTS
    Inputs      \* the frozen inputs considered

(* What the types of the input records say, and what their only builder adds          *)
(* (graph_v1_fixtures.py): collections are tuples, so finite; ids and names are     *)
(* numbered in lexical order; amounts and ages are numbers; a gate blocks as one of *)
(* the two parties; the facts of one field agree (_resolve_actor_conflicts); an      *)
(* observed outcome is a rate (bounds.py PreferenceCriterionBound refuses others).  *)
CostBounds == [low : Int, base : Int, high : Int]
FiniteFacts(facts) == IsFiniteSet(facts) /\ \A f \in facts : IsFiniteSet(f.ev)

FrozenFacts(in) ==
    /\ IsFiniteSet(in.facts) /\ \A f \in in.facts : f.id \in Nat
    /\ \A f, g \in in.facts : f.field = g.field => f.value = g.value

FrozenRecords(in) ==
    /\ IsFiniteSet(DOMAIN in.aliases) /\ \A n \in DOMAIN in.aliases : n \in Nat /\ in.aliases[n] \in Nat
    /\ IsFiniteSet(in.candidates)
    /\ \A r \in in.candidates :
          /\ {r.id, r.version, r.product, r.seller, r.edition, r.region, r.offer} \subseteq Nat
          /\ IsFiniteSet(r.requires) /\ r.requires \subseteq Nat
          /\ FiniteFacts(r.facts)
    /\ IsFiniteSet(in.actions)
    /\ \A a \in in.actions : a.instance \in Nat /\ a.cost.bounds \subseteq CostBounds /\ FiniteFacts(a.facts)
    /\ \A o \in DOMAIN in.offers : in.offers[o].bounds \subseteq CostBounds

FrozenRules(in) ==
    /\ \A e \in in.evidence : IsFiniteSet(e.age) /\ \A a \in e.age : a.low \in Int /\ a.high \in Int
    /\ \A f \in DOMAIN in.policies : in.policies[f].sla \in Int
    /\ \A g \in in.gates : g.blocked \in {"SIRA_INELIGIBLE", "SEIL_PASS"}
    /\ IsFiniteSet(in.preferences)
    /\ \A c \in in.preferences :
          /\ c.kind \in {"BOOLEAN_EQUALS", "SET_CONTAINS_ALL", "LOWER_IS_BETTER", "OUTCOME_RATE"}
          /\ c.points \in Seq(Int \X Int)
    /\ IsFiniteSet(in.outcomes)
    /\ \A o \in in.outcomes : IsFiniteSet(o.ev) /\ o.value \in 0..in.unit
    /\ in.unit \in Nat /\ in.scale \in Nat

ASSUME InputsAssumption ==
    \A in \in Inputs : FrozenFacts(in) /\ FrozenRecords(in) /\ FrozenRules(in)

VARIABLES
    input,      \* the DecisionGraphInput
    base,       \* the base evaluation, once computed
    generic,    \* the rerun without private facts
    counter,    \* the counterfactual record
    ledger,     \* the Decision Ledger
    rows,       \* the persisted aggregate
    phase       \* the step reached, or "REFUSED" when the code raises

vars == <<input, base, generic, counter, ledger, rows, phase>>

-----------------------------------------------------------------------------
(* The call.                                                                       *)

NoCounter == [outcome |-> "NONE", removed |-> {}, others |-> {}, after |-> {}]

Init ==
    /\ input \in Inputs
    /\ base = Refusal /\ generic = Refusal /\ counter = NoCounter
    /\ ledger = {} /\ rows = {}
    /\ phase = IF decision_graph_input(input) THEN "BASE" ELSE "REFUSED"

evaluate_base ==
    /\ phase = "BASE"
    /\ base' = evaluate_decision_graph_once(input)
    /\ phase' = IF Raised(base') THEN "REFUSED" ELSE "GENERIC"
    /\ UNCHANGED <<input, generic, counter, ledger, rows>>

evaluate_generic ==
    /\ phase = "GENERIC"
    /\ generic' = evaluate_decision_graph_once(Without(input, PrivateIds(input)))
    /\ phase' = IF Raised(generic') THEN "REFUSED" ELSE "COUNTERFACTUAL"
    /\ UNCHANGED <<input, base, counter, ledger, rows>>

search_counterfactual ==
    /\ phase = "COUNTERFACTUAL"
    /\ counter' = search_private_fact_counterfactuals(input, base)
    /\ phase' = IF counter'.outcome = "REFUSED" THEN "REFUSED" ELSE "LEDGER"
    /\ UNCHANGED <<input, base, generic, ledger, rows>>

write_ledger ==
    /\ phase = "LEDGER"
    /\ IF LedgerRaises(input, base)
       THEN phase' = "REFUSED" /\ UNCHANGED ledger
       ELSE phase' = "ROWS" /\ ledger' = {build_decision_ledger(input, base, counter)}
    /\ UNCHANGED <<input, base, generic, counter, rows>>

\* The builder refuses two plans or two members of one id; the tables refuse what
\* breaks a constraint.
write_rows ==
    /\ phase = "ROWS"
    /\ IF MembersRaise(input) \/ RowsRaise(base) \/ ~Storable(input, build_evaluation_graph_write(input, base))
       THEN phase' = "REFUSED" /\ UNCHANGED rows
       ELSE phase' = "DONE" /\ rows' = {build_evaluation_graph_write(input, base)}
    /\ UNCHANGED <<input, base, generic, counter, ledger>>

Next == evaluate_base \/ evaluate_generic \/ search_counterfactual \/ write_ledger \/ write_rows

Spec == Init /\ [][Next]_vars

-----------------------------------------------------------------------------
(* Properties.                                                                     *)

\* The recalled records a Pack plan stands on, and what they say of a field.
RecordsOf(p, n) ==
    {r \in recalled(input) : IF n = Last(p.components) THEN identity_key(input, r) = p.source
                             ELSE canonical(input, r.product) = n}
Said(records, field) == {f \in UNION {r.facts : r \in records} : f.field = field}

\* The landed total is the plan's own, on the evidence of all its components.
Stated(p, n, field) ==
    IF field # LandedTotal THEN Said(RecordsOf(p, n), field)
    ELSE {[value |-> [kind |-> "int", v |-> {b.base}],
           ev |-> UNION {f.ev : f \in Said(UNION {RecordsOf(p, k) : k \in Range(p.components)}, field)}]
             : b \in p.cost.bounds}

Acceptable(e, field) == assessment(input, e, field).state = "ACCEPTABLE"
Contested(e) == \E r \in input.evidence : r.id = e /\ (r.disputed \/ r.revoked)

\* One undisputed value with acceptable evidence.
Proven(facts, field) ==
    /\ Cardinality({f.value : f \in facts}) = 1
    /\ \E e \in UNION {f.ev : f \in facts} : Acceptable(e, field)
    /\ \A e \in UNION {f.ev : f \in facts} : ~Contested(e)

BuyerRuleHolds(p, g) ==
    LET names == Range(p.components)
        on(n, q) == \A f \in Stated(p, n, q.field) : predicate_matches(f.value, q)
    IN  /\ \A n \in names, q \in g.predicates : Proven(Stated(p, n, q.field), q.field)
        /\ IF g.mode = "REQUIRE_MATCH" THEN \A n \in names, q \in g.predicates : on(n, q)
           ELSE \E n \in names, q \in g.predicates : ~on(n, q)

SellerRuleHolds(g) ==
    LET known(q) == {f \in active_buyer_facts(input) : f.field = q.field}
        on(q) == \A f \in known(q) : predicate_matches(f.value, q)
    IN  /\ \A q \in g.predicates : known(q) # {}
        /\ IF g.mode = "REQUIRE_MATCH" THEN \A q \in g.predicates : on(q)
           ELSE \E q \in g.predicates : ~on(q)

(* A Pack plan the engine calls ELIGIBLE is one a reader of the raw records would:  *)
(* every component is there, available and sealed by its seller in every record of *)
(* its identity; every buyer gate in force holds of every component on one value   *)
(* that no record contradicts and acceptable evidence supports; every anti-fit     *)
(* rule any record declares is known not to apply (graph_v1.py, evaluate_gates,    *)
(* after the merge of duplicates, the closure and the fact aggregation).           *)
EligibleIsSound ==
    phase = "GENERIC" =>
        \A p \in {p \in PackPlans(base) : p.status = "ELIGIBLE"} :
            LET names == Range(p.components)
                records == UNION {RecordsOf(p, n) : n \in names}
                inForce == {g \in input.gates : /\ g.sources \subseteq active_source_ids(input)
                                                /\ g.actions = {} \/ p.action \in g.actions}
            IN  /\ \A r \in records : r.available /\ r.authority = "SELLER_SEALED" /\ r.requires \subseteq names
                /\ \A g \in inForce :
                      IF g.blocked # "SEIL_PASS" THEN BuyerRuleHolds(p, g)
                      ELSE (\E r \in records : g.id \in r.sellerGates) => SellerRuleHolds(g)

\* Where a walk along `next` from m can lead: the nodes in every set that holds the
\* successors of m and those of its own members.
Follows(next, m) ==
    {n \in DOMAIN next : \A C \in SUBSET DOMAIN next :
        (next[m] \subseteq C /\ \A k \in C : next[k] \subseteq C) => n \in C}

\* What the products of a Pack plan require, and what of it can be resolved.
RequiredBy(reps, root) ==
    [n \in Products(reps) |->
        UNION {r.requires : r \in IF n = root.product THEN {root} ELSE ByProduct(reps, n)}]
Resolvables(reps, root) ==
    [n \in Products(reps) |-> {k \in RequiredBy(reps, root)[n] : Cardinality(ByProduct(reps, k)) = 1}]

ClosureOf(reps, root, walked) ==
    LET next == Resolvables(reps, root)
        inside == {root.product} \cup Follows(next, root.product)
        required == UNION {RequiredBy(reps, root)[n] : n \in inside}
        order == walked.order
    IN  /\ Range(order) = inside /\ Len(order) = Cardinality(inside)
        /\ \A i, j \in 1..Len(order) :
              order[j] \in next[order[i]] => j < i \/ order[i] \in Follows(next, order[j])
        /\ "CYCLIC_COMPONENT_DEPENDENCY" \in walked.issues <=> \E n \in inside : n \in Follows(next, n)
        /\ "MISSING_REQUIRED_COMPONENT" \in walked.issues <=> \E n \in required : ByProduct(reps, n) = {}
        /\ "AMBIGUOUS_REQUIRED_COMPONENT" \in walked.issues
               <=> \E n \in required : Cardinality(ByProduct(reps, n)) > 1

(* The component list of a Pack plan is its dependency closure: the products that   *)
(* can be reached from the root, each once, dependencies before dependents unless  *)
(* they are on a cycle, and the issue codes say exactly what is wrong with it      *)
(* (graph_v1.py _pack_materials.closure).                                          *)
ClosureIsExact ==
    phase = "GENERIC" =>
        LET reps == recall_and_deduplicate(input)
        IN  \A root \in reps : ClosureOf(reps, root, closure(reps, root))

(* What the engine says of plans and their components holds of the records.        *)
PlansAreSound == EligibleIsSound /\ ClosureIsExact

(* The verdict on the ranking is right whatever the uncertain figures turn out to   *)
(* be: the selected plan leads the authoritative order; STABLE when no other       *)
(* eligible plan can come out ahead of it for any outcome of both within their     *)
(* bounds, UNSTABLE with exactly the plans that can, and no verdict while a bound  *)
(* is missing (bounds.py assess_rank_stability, graph_v1.py _rank_and_frontiers).  *)
(* It is said of the evaluations that are persisted: two plans with one id, which  *)
(* two regions of one product have, are ranked but refused there.                  *)
RankIsRobust ==
    phase = "DONE" =>
        LET eligible == {p \in base.plans : p.status \in Eligible}
            selected == {p \in eligible : p.ids \in base.selected /\ p.bounds # {}}
            rivals == {p \in eligible : p.ids \notin base.selected}
        IN  /\ base.selected = {} <=> \A p \in eligible : p.bounds = {}
            /\ \A p \in eligible, s \in selected :
                  p.bounds # {} => ~LexLess(authoritative_ordering_key(p), authoritative_ordering_key(s))
            /\ base.stability # "UNDETERMINED" =>
                  /\ \A p \in rivals : p.bounds # {}
                  /\ \A p \in rivals, s \in selected :
                        p.ids \in base.frontier <=> CanOutrank(p, s, Corners)
                  /\ base.stability = "STABLE" <=> base.frontier = base.selected

(* The counterfactual names a smallest set of private facts whose removal changes   *)
(* the selected plan, and all the others of that size; it reports none only when   *)
(* no set within the limit does (graph_v1.py search_private_fact_counterfactuals). *)
CounterfactualIsMinimal ==
    phase = "LEDGER" =>
        LET sets == {S \in SUBSET PrivateIds(input) : S # {} /\ Cardinality(S) <= Limit}
            changing == {S \in sets : evaluate_decision_graph_once(Without(input, S)).selected # base.selected}
            smallest == {S \in changing : \A T \in changing : Cardinality(S) <= Cardinality(T)}
        IN  IF counter.outcome = "WINNER_CHANGED"
            THEN /\ counter.others \cup {counter.removed} = smallest
                 /\ counter.after # base.selected
                 /\ counter.removed = PrivateIds(input) => counter.after = generic.selected
            ELSE changing = {}

(* An evaluation whose plans and whose members have distinct ids can be stored: no  *)
(* row the builder makes of it breaks a constraint of its table                    *)
(* (graph_persistence.py against the tables of migration 23a8fff461fe).            *)
RowsAreStorable ==
    (phase = "REFUSED" /\ ledger # {}) =>
        \/ \E p, q \in base.plans : p # q /\ p.ids = q.ids
        \/ \E r \in input.candidates, a \in input.actions : r.id = a.id

(* The persisted rows let a reader reconstruct the evaluation: every identity has   *)
(* one INCLUDED record and the rest of its records are DEDUPLICATED, a component   *)
(* cites an INCLUDED record of its product, ranks are the positions of the eligible *)
(* bounded plans with the selected one first, and can_beat_selected is what the    *)
(* outcomes of the two plans allow (graph_persistence.py).                         *)
RowsTellTheEvaluation ==
    \A w \in rows :
        LET packs == {m \in w.members : m.kind = "PACK"}
            included == {m \in w.members : m.disposition = "INCLUDED"}
            planOf(ids) == CHOOSE p \in base.plans : p.ids = ids
        IN  /\ \A m \in {m \in packs : m.disposition # "EXCLUDED"} :
                  Cardinality({n \in packs \cap included : n.identity = m.identity}) = 1
            /\ \A c \in w.components : c.source # {} /\ c.source \subseteq {m.record : m \in included}
            /\ {i \in 1..Cardinality(w.plans) : \E p \in w.plans : p.rank = {i}}
                   = 1..Cardinality({p \in base.plans : p.status \in Eligible /\ p.bounds # {}})
            /\ \A p \in w.plans : p.selected <=> p.rank = {1}
            /\ \A f \in {f \in w.frontiers : f.kind = "ORDERING"}, s \in base.selected :
                  f.beats = {TRUE} => CanOutrank(planOf(f.ids), planOf(s), Corners)
            /\ \A f \in w.frontiers, s \in base.selected :
                  (f.beats = {FALSE} /\ f.ids # s /\ planOf(f.ids).status \in Eligible)
                      => ~CanOutrank(planOf(f.ids), planOf(s), Corners)

(* The rows of an evaluation fit their tables and tell what it found.              *)
RowsAreTrue == RowsAreStorable /\ RowsTellTheEvaluation
==================================================================================
