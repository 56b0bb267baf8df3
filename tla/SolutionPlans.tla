------------------------------- MODULE SolutionPlans -------------------------------
(* The second half of the Decision Graph pipeline (decision_engine/graph_v1.py):    *)
(* solution plans with their dependency closure and ordering bounds, the ranking    *)
(* and its frontiers, and the private-fact counterfactual.                          *)
EXTENDS GraphGates, RankStability

CONSTANTS
    Limit       \* counterfactual_limit

ASSUME LimitAssumption == Limit \in 1..3

-----------------------------------------------------------------------------
(* Dependency closure: _pack_materials.closure, its recursion as a walk that keeps  *)
(* the products being visited on a stack and the requirements it has looked at.    *)

ByProduct(reps, n) == {r \in reps : r.product = n}
Products(reps) == {r.product : r \in reps}
RecordAt(reps, root, n) == IF n = root.product THEN root ELSE Only(ByProduct(reps, n))

Visit(reps, st, n) ==
    IF ByProduct(reps, n) = {} THEN [st EXCEPT !.issues = @ \cup {"MISSING_REQUIRED_COMPONENT"}]
    ELSE IF Cardinality(ByProduct(reps, n)) > 1
         THEN [st EXCEPT !.issues = @ \cup {"AMBIGUOUS_REQUIRED_COMPONENT"}]
    ELSE IF n \in Range(st.stack) THEN [st EXCEPT !.issues = @ \cup {"CYCLIC_COMPONENT_DEPENDENCY"}]
    ELSE IF n \in Range(st.order) THEN st
    ELSE [st EXCEPT !.stack = Append(@, n)]

\* The next requirement of the product on top, in the order of the names, or its end.
ClosureStep(reps, root, st) ==
    LET top == Last(st.stack)
        pending == {n \in RecordAt(reps, root, top).requires : <<top, n>> \notin st.seen}
        next == CHOOSE n \in pending : \A k \in pending : n <= k
    IN  IF st.stack = <<>> THEN st
        ELSE IF pending = {} THEN [st EXCEPT !.stack = Front(@), !.order = Append(@, top)]
        ELSE Visit(reps, [st EXCEPT !.seen = @ \cup {<<top, next>>}], next)

\* Each product ends once, each requirement is looked at once.
ClosureSteps(reps) ==
    Cardinality(Products(reps)) + Cardinality(UNION {{r.product} \X r.requires : r \in reps})

closure(reps, root) ==
    LET walk[k \in 0..ClosureSteps(reps)] ==
            IF k = 0 THEN [stack |-> <<root.product>>, seen |-> {}, order |-> <<>>, issues |-> {}]
            ELSE ClosureStep(reps, root, walk[k - 1])
    IN  walk[ClosureSteps(reps)]

-----------------------------------------------------------------------------
(* Costs and facts of a plan.                                                      *)

\* The sum over the components; one missing offer leaves the total unknown.
combined_cost(in, records) ==
    LET offered == {r \in records : r.offer \in DOMAIN in.offers}
        cost(r) == in.offers[r.offer]
        horizons == {cost(r).horizon : r \in offered}
        currencies == {cost(r).currency : r \in offered}
        bounded == offered = records /\ \A r \in records : cost(r).bounds # {}
        bound(r) == Only(cost(r).bounds)
    IN  [cost |-> [bounds |-> IF bounded
                              THEN {[low |-> SumFunction([r \in records |-> bound(r).low]),
                                     base |-> SumFunction([r \in records |-> bound(r).base]),
                                     high |-> SumFunction([r \in records |-> bound(r).high])]}
                              ELSE {},
                   itemised |-> \A r \in offered : cost(r).itemised,
                   fees |-> SumFunction([r \in offered |-> cost(r).fees]),
                   horizon |-> IF horizons = {} THEN 1 ELSE Only(horizons),
                   currency |-> IF currencies = {} THEN "USD" ELSE Only(currencies),
                   payment |-> \E r \in offered : cost(r).payment],
         payments |-> Cardinality({r \in offered : cost(r).payment}),
         issues |-> (IF offered = records THEN {} ELSE {"MISSING_REQUIRED_DEPENDENCY_OFFER"})
                    \cup (IF Cardinality(records) > 1
                               /\ (Cardinality(horizons) > 1 \/ Cardinality(currencies) > 1)
                          THEN {"INCOMPARABLE_DEPENDENCY_COST"} ELSE {})]

\* A preference field of a bundle is one fact: the primary component's, or the
\* aggregate when every component states it once.
aggregate_preference_facts(in, order, records) ==
    LET raw == UNION {r.facts : r \in records}
        fields == {c.field : c \in in.preferences}
        Of(f) == Only({c \in in.preferences : c.field = f})
        stated(f, n) == {x \in raw : x.field = f /\ x.component = n}
        once(f) == \A i \in 1..Len(order) : Cardinality(stated(f, order[i])) = 1
        Number(x) == Only(x.value.v)
        each(f) == {x \in raw : x.field = f}
        kind(way) == IF way = "UNION" THEN "set" ELSE IF way \in {"ALL", "ANY"} THEN "bool" ELSE "int"
        aggregate(f, way) ==
            LET vs == {Number(x) : x \in each(f)}
            IN  CASE way \in {"MIN", "ALL"} -> {CHOOSE v \in vs : \A w \in vs : v <= w}
                  [] way \in {"MAX", "ANY"} -> {CHOOSE v \in vs : \A w \in vs : v >= w}
                  [] way = "SUM" -> {SumFunction([x \in each(f) |-> Number(x)])}
                  [] way = "UNION" -> UNION {x.value.v : x \in each(f)}
        bundle(f) ==
            LET way == Of(f).aggregation
            IN  IF way = "PRIMARY_COMPONENT" THEN stated(f, Last(order))
                ELSE IF ~once(f) \/ \E x \in each(f) : x.value.kind # kind(way) THEN each(f)
                ELSE {[field |-> f, value |-> [kind |-> kind(way), v |-> aggregate(f, way)],
                       ev |-> UNION {x.ev : x \in each(f)}, component |-> Last(order)]}
    IN  IF Len(order) = 1 THEN raw
        ELSE {x \in raw : x.field \notin fields} \cup UNION {bundle(f) : f \in fields}

LandedTotal == "offer.landed_total"

\* Every component is judged on the cost of the whole plan.
pack_material(in, reps, root) ==
    LET walked == closure(reps, root)
        order == walked.order
        records == {IF n = root.product THEN root ELSE Only(ByProduct(reps, n)) : n \in Range(order)}
        priced == combined_cost(in, records)
        raw == UNION {r.facts : r \in records}
        costEv == UNION {f.ev : f \in {f \in raw : f.field = LandedTotal}}
        total(n) == {[field |-> LandedTotal, value |-> [kind |-> "int", v |-> {b.base}],
                      ev |-> costEv, component |-> n] : b \in priced.cost.bounds}
        Priceless(facts) == {f \in facts : f.field # LandedTotal}
    IN  [source |-> root.key, action |-> "REPLACE", components |-> order,
         facts |-> Priceless(aggregate_preference_facts(in, order, records)) \cup total(root.product),
         gateFacts |-> Priceless(raw) \cup UNION {total(n) : n \in Range(order)},
         cost |-> priced.cost, payments |-> priced.payments,
         available |-> \A r \in records : r.available,
         authority |-> authority_floor(records),
         sellerGates |-> UNION {r.sellerGates : r \in records},
         resolution |-> {}, subject |-> root.product,
         issues |-> walked.issues \cup priced.issues]

current_material(a) ==
    [source |-> <<a.id>>, action |-> a.action, components |-> <<a.instance>>, facts |-> a.facts,
     gateFacts |-> a.facts, cost |-> a.cost, payments |-> 0, available |-> a.available,
     authority |-> "CURRENT", sellerGates |-> {}, resolution |-> a.resolution,
     subject |-> IF a.action = "CANCEL" THEN -a.instance ELSE a.instance,
     issues |-> {}]

materials(in, reps) ==
    {pack_material(in, reps, r) : r \in reps} \cup {current_material(a) : a \in in.actions}

-----------------------------------------------------------------------------
(* The dimensions of a plan.                                                       *)

\* An exact ratio over the common denominator of the input.
Ratio(in, n, d) == (in.scale * n) \div d

Applicable(in, m) ==
    {c \in in.preferences : /\ c.actions = {} \/ m.action \in c.actions
                            /\ c.sources \subseteq active_source_ids(in)}

\* Satisfactions run from 0 to in.unit.
normalization_value(in, c, value) ==
    CASE c.kind = "BOOLEAN_EQUALS" -> IF strict_equal(value, c.expected) THEN in.unit ELSE 0
      [] c.kind = "SET_CONTAINS_ALL" ->
             IF value.kind = "set" /\ c.expected.v \subseteq value.v THEN in.unit ELSE 0
      [] c.kind = "LOWER_IS_BETTER" ->
             LET under == {i \in 1..Len(c.points) : Only(value.v) <= c.points[i][1]}
             IN  IF value.kind # "int" \/ under = {} THEN 0
                 ELSE c.points[CHOOSE i \in under : \A j \in under : i <= j][2]

Score(c, low, high, state, ev, prior, reasons) ==
    [id |-> c.id, weight |-> c.weight, low |-> low, high |-> high, state |-> state, ev |-> ev,
     prior |-> prior, reasons |-> reasons]

\* What is not acceptable counts zero, and at most the criterion's declared upper bound.
Unproven(c, state, ev, reasons) ==
    Score(c, 0, IF c.unknown = {} THEN 0 ELSE Only(c.unknown), state, ev, FALSE,
          reasons \cup (IF c.unknown = {} THEN {"UNKNOWN_BOUND"} ELSE {}))

outcome_score(in, m, c) ==
    LET observed == {o \in in.outcomes : /\ o.subject = m.subject /\ o.criterion = c.id
                                         /\ o.sources \subseteq active_source_ids(in)}
        o == Only(observed)
        found == {assessment(in, e, c.field) : e \in o.ev}
        state == StrongestState({a.state : a \in found})
        late == IF \E a \in found : a.age = {} THEN {"EVIDENCE_TIME"} ELSE {}
    IN  IF observed = {} THEN Score(c, Only(c.prior), Only(c.prior), "UNKNOWN", {}, TRUE, {})
        ELSE IF state = "ACCEPTABLE" THEN Score(c, o.value, o.value, state, o.ev, FALSE, late)
        ELSE Unproven(c, state, o.ev, late)

score_component(in, m, c) ==
    LET found == field_state(in, m.facts, c.field)
        late == IF found.untimed THEN {"EVIDENCE_TIME"} ELSE {}
        values == {normalization_value(in, c, v) : v \in found.values}
    IN  IF c.kind = "OUTCOME_RATE"
        THEN [outcome_score(in, m, c) EXCEPT !.reasons = @ \cup late]
        ELSE IF found.state = "ACCEPTABLE" /\ values # {}
        THEN Score(c, CHOOSE v \in values : \A w \in values : v <= w,
                   CHOOSE v \in values : \A w \in values : v >= w, found.state, found.ev, FALSE, late)
        ELSE Unproven(c, found.state, found.ev, late)

aggregate_preference_bounds(in, scores) ==
    LET weight == SumFunction([s \in scores |-> s.weight])
    IN  IF scores = {} THEN {}
        ELSE {[low |-> Ratio(in, SumFunction([s \in scores |-> s.weight * s.low]), weight),
               high |-> Ratio(in, SumFunction([s \in scores |-> s.weight * s.high]), weight)]}

\* The bounds a rule contributes: its own when it matches, its missing-input
\* bounds when the evidence is not acceptable, none when it does not match.
risk_rule(in, m, r) ==
    LET found == field_state(in, m.facts, Only(r.predicate).field)
        proven == found.state = "ACCEPTABLE" /\ found.values # {}
    IN  IF r.predicate = {} THEN {r.bounds}
        ELSE IF ~proven THEN r.missing
        ELSE IF \A v \in found.values : predicate_matches(v, Only(r.predicate)) THEN {r.bounds}
        ELSE {}

\* A mutant: the risks of a plan's rules add up.
SummedRisk(parts) ==
    [low |-> SumFunction([b \in parts |-> b.low]), base |-> SumFunction([b \in parts |-> b.base]),
     high |-> SumFunction([b \in parts |-> b.high])]

Top(vs) == CHOOSE v \in vs : \A w \in vs : v >= w

\* The worst of the rules, figure by figure.
aggregate_risk_bounds(parts) ==
    [low |-> Top({b.low : b \in parts}), base |-> Top({b.base : b \in parts}),
     high |-> Top({b.high : b \in parts})]

risk_bounds(in, m) ==
    LET rules == {r \in in.rules : m.action \in r.actions}
        blind(r) == /\ r.predicate # {} /\ r.missing = {}
                    /\ LET f == field_state(in, m.facts, Only(r.predicate).field)
                       IN  f.state # "ACCEPTABLE" \/ f.values = {}
        parts == UNION {risk_rule(in, m, r) : r \in rules}
    IN  IF \E r \in rules : blind(r) THEN [bounds |-> {}, reasons |-> {"RISK"}]
        ELSE IF parts = {} /\ ~in.complete THEN [bounds |-> {}, reasons |-> {"RISK_RULE_COVERAGE"}]
        ELSE IF parts = {} THEN [bounds |-> {[low |-> 0, base |-> 0, high |-> 0]}, reasons |-> {}]
        ELSE [bounds |-> {aggregate_risk_bounds(parts)}, reasons |-> {}]

coverage_bounds(in, m, scores) ==
    LET proven(s) == s.state = "ACCEPTABLE" /\ ~s.prior
        of(s) == Only({c \in in.preferences : c.id = s.id})
        hopeful(s) == proven(s) \/ (of(s).resolution # {} /\ s.state \in {"UNKNOWN", "STALE"})
        weight == SumFunction([s \in scores |-> of(s).coverage])
        covered == SumFunction([s \in scores |-> IF proven(s) THEN of(s).coverage ELSE 0])
        possible == SumFunction([s \in scores |-> IF hopeful(s) THEN of(s).coverage ELSE 0])
    IN  IF scores = {} THEN [low |-> in.scale, high |-> in.scale]
        ELSE [low |-> Ratio(in, covered, weight), high |-> Ratio(in, possible, weight)]

\* The oldest material evidence.
material_age(in, m, scores, pairs) ==
    LET ids == (UNION {f.ev : f \in m.facts}) \cup UNION {s.ev : s \in scores}
        found == {assessment(in, p[1], p[2]) : p \in {p \in pairs : p[1] \in ids}}
        ages == UNION {a.age : a \in found}
    IN  [bounds |-> IF ages = {} THEN [low |-> 0, high |-> 0]
                    ELSE [low |-> Top({a.low : a \in ages}), high |-> Top({a.high : a \in ages})],
         reasons |-> IF \E a \in found : a.age = {} THEN {"EVIDENCE_TIME"} ELSE {}]

\* Line items that do not add up, and a fee that is missing or not due, void the cost.
valid_cost(cost, payments) ==
    IF cost.bounds = {} THEN {"TCO"}
    ELSE IF ~cost.itemised THEN {"TCO_LINE_ITEMS"}
    ELSE IF cost.payment /\ cost.fees # payments THEN {"TRANSACTION_FEE"}
    ELSE IF ~cost.payment /\ (cost.fees # 0 \/ payments # 0) THEN {"UNEXPECTED_TRANSACTION_FEE"}
    ELSE {}

\* Satisfied hard gates over applicable ones; one of one when there is none.
hard_coverage(gates) ==
    LET hard == {g \in gates : g.hard}
    IN  IF hard = {} THEN [met |-> 1, of |-> 1]
        ELSE [met |-> Cardinality({g \in hard : g.truth = "TRUE"}), of |-> Cardinality(hard)]

\* A plan is bounded when nothing is missing from any of its dimensions.
Dimensions(m, scores, preference, risk, coverage, age, gates) ==
    LET reasons == (UNION {s.reasons : s \in scores}) \cup risk.reasons \cup age.reasons
                       \cup valid_cost(m.cost, m.payments)
                       \cup (IF scores = {} THEN {"NO_APPLICABLE_PREFERENCE"} ELSE {})
    IN  [scores |-> scores, reasons |-> reasons, preference |-> preference,
         risk |-> risk.bounds, cost |-> m.cost.bounds, hard |-> hard_coverage(gates),
         coverage |-> coverage, age |-> age.bounds,
         bounds |-> IF reasons # {} THEN {}
                    ELSE {[preference |-> Only(preference), risk |-> Only(risk.bounds),
                           cost |-> Only(m.cost.bounds), coverage |-> coverage,
                           age |-> age.bounds]}]

Scored(in, m, scores, gates, pairs) ==
    Dimensions(m, scores, aggregate_preference_bounds(in, scores), risk_bounds(in, m),
               coverage_bounds(in, m, scores), material_age(in, m, scores, pairs), gates)

material_dimensions(in, m, gates, pairs) ==
    Scored(in, m, {score_component(in, m, c) : c \in Applicable(in, m)}, gates, pairs)

-----------------------------------------------------------------------------
(* Plans and their order.                                                          *)

\* The actions in the lexical order of their names.
ActionOrder == <<"BUY", "CANCEL", "CONFIGURE_EXISTING", "CONSOLIDATE", "NO_ACTION", "RENEW",
                 "REPLACE", "RESIZE", "REUSE_EXISTING">>
ActionRank(a) == CHOOSE i \in 1..Len(ActionOrder) : ActionOrder[i] = a

QuoteActions == {"BUY", "RENEW", "RESIZE", "REPLACE", "CONSOLIDATE"}
AutonomousActions == {"REUSE_EXISTING", "NO_ACTION"}
Eligible == {"ELIGIBLE", "ELIGIBLE_WITH_EXCEPTION"}
Resolvable == {"CONDITIONAL", "STALE_EVIDENCE", "INSUFFICIENT_EVIDENCE", "ADVISORY_ONLY"}

\* plan_id and stable_action_ids are both a function of the action and the components.
Plan(m, gates, status, d) ==
    LET offered == UNION {g.resolution : g \in {g \in gates : g.reasons # {}}}
        resolution == IF offered = {} THEN m.resolution ELSE offered
    IN  [source |-> m.source, action |-> m.action, components |-> m.components,
         kind |-> IF m.authority = "CURRENT" THEN "CURRENT_INSTANCE" ELSE "PACK",
         ids |-> <<ActionRank(m.action)>> \o m.components,
         exception |-> IF status = "ELIGIBLE_WITH_EXCEPTION" THEN 1 ELSE 0,
         status |-> status, gates |-> gates, issues |-> m.issues, dimensions |-> d,
         bounds |-> d.bounds, cost |-> m.cost, resolution |-> resolution,
         lifecycle |-> IF status \in Eligible
                       THEN (IF d.bounds # {} THEN "EXECUTABLE" ELSE "BLOCKED")
                       ELSE IF status \in Resolvable /\ resolution # {} THEN "RESOLUTION_PENDING"
                       ELSE "BLOCKED",
         ordering |-> FALSE, pending |-> FALSE, quote |-> FALSE, quoteReason |-> "NONE",
         autonomous |-> FALSE]

Gated(in, m, gates, pairs) ==
    Plan(m, gates, primary_status(gates), material_dimensions(in, m, gates, pairs))

build_solution_plan(in, m, pairs) == Gated(in, m, evaluate_gates(in, m, pairs), pairs)

build_solution_plans(in) ==
    LET reps == recall_and_deduplicate(in)
        pairs == EvidencePairs(in, reps)
    IN  {build_solution_plan(in, m, pairs) : m \in materials(in, reps)}

Bounded(p) == [ids |-> p.ids, exception |-> p.exception, bounds |-> p.bounds]
Resolved(p) == [Bounded(p) EXCEPT !.exception = 0]

Competitors(eligible, selected) == {Bounded(p) : p \in {p \in eligible : p.ids # selected.ids}}

\* One currency and one comparison horizon, or the ranking raises.
CostSignatures(plans) ==
    {<<p.cost.currency, p.cost.horizon>> :
        p \in {p \in plans : p.status \in Eligible /\ p.bounds # {}}}

\* Sorted by their keys: a plan stands behind those with a smaller key; plans of one
\* key, which have one id, share their places.
RankedPlans(plans) ==
    LET rankable == {p \in plans : p.status \in Eligible /\ p.bounds # {}}
        key(p) == authoritative_ordering_key(p)
        ahead(p) == {q \in rankable : LexLess(key(q), key(p))}
        level(p) == {q \in rankable : key(q) = key(p)}
    IN  [i \in 1..Cardinality(rankable) |->
            CHOOSE p \in rankable : i - Cardinality(ahead(p)) \in 1..Cardinality(level(p))]

quote_reason(p, selected, ordering, resolution, ranked) ==
    IF p.ids \in selected THEN "SELECTED_PLAN"
    ELSE IF p.ids \in ordering THEN "ORDERING_FRONTIER"
    ELSE IF p.ids \in resolution THEN "RESOLUTION_FRONTIER"
    ELSE IF \E i \in 1..Len(ranked) : i <= 3 /\ ranked[i].ids = p.ids THEN "PRELIMINARY_TOP_THREE"
    ELSE "NONE"

ResolutionFrontier(plans, selected) ==
    {p.ids : p \in {p \in plans : /\ p.lifecycle = "RESOLUTION_PENDING"
                                  /\ p.bounds # {}
                                  /\ LexLess(optimistic_envelope_key(Resolved(p)),
                                             conservative_envelope_key(selected))}}

rank_and_frontiers(plans) ==
    LET eligible == {p \in plans : p.status \in Eligible}
        ranked == RankedPlans(plans)
        verdict == IF ranked = <<>>
                   THEN [status |-> "UNDETERMINED", frontier |-> {},
                         unavailable |-> {p \in eligible : p.bounds = {}}]
                   ELSE assess_rank_stability(Bounded(ranked[1]), Competitors(eligible, ranked[1]))
        selected == IF ranked = <<>> THEN {} ELSE {ranked[1].ids}
        ordering == selected \cup {p.ids : p \in verdict.frontier}
        resolution == IF ranked = <<>> THEN {} ELSE ResolutionFrontier(plans, ranked[1])
        Annotated(p) ==
            LET reason == quote_reason(p, selected, ordering, resolution, ranked)
            IN  [p EXCEPT !.ordering = p.ids \in ordering, !.pending = p.ids \in resolution,
                          !.quote = (reason # "NONE" /\ p.action \in QuoteActions),
                          !.quoteReason = reason,
                          !.autonomous = (/\ p.lifecycle = "EXECUTABLE" /\ verdict.status = "STABLE"
                                          /\ ~p.cost.payment /\ p.action \in AutonomousActions)]
    IN  [plans |-> {Annotated(p) : p \in plans},
         ranked |-> [i \in 1..Len(ranked) |-> ranked[i].ids],
         selected |-> selected, stability |-> verdict.status, frontier |-> ordering,
         unavailable |-> {p.ids : p \in verdict.unavailable}]

-----------------------------------------------------------------------------
(* One evaluation, its reruns, and the inputs it raises on.                        *)

\* No policy for a material field, evidence from after the evaluation, a cost whose
\* bounds are reversed: the whole evaluation raises, whichever plan it concerns.
Malformed(in) ==
    \/ AliasCycle(in)
    \/ LET reps == recall_and_deduplicate(in)
           pairs == EvidencePairs(in, reps)
       IN  \/ \E p \in pairs : p[2] \notin DOMAIN in.policies
           \/ \E p \in pairs, r \in in.evidence : r.id = p[1] /\ \E a \in r.age : a.low < 0
           \/ \E m \in materials(in, reps) : \E b \in m.cost.bounds : ~(b.low <= b.base /\ b.base <= b.high)

Refusal == [plans |-> {}, ranked |-> <<>>, selected |-> {}, stability |-> "REFUSED",
            frontier |-> {}, unavailable |-> {}]

\* _rank_and_frontiers raises before it ranks plans that cannot be compared.
Comparable(plans) ==
    IF Cardinality(CostSignatures(plans)) > 1 THEN Refusal ELSE rank_and_frontiers(plans)

evaluate_decision_graph_once(in) ==
    IF Malformed(in) THEN Refusal
    ELSE Comparable(build_solution_plans(in))

Raised(e) == e.stability = "REFUSED"

Without(in, ids) == [in EXCEPT !.removed = @ \cup ids]
PrivateIds(in) == {f.id : f \in {f \in active_buyer_facts(in) : f.private}}

\* The order of sorted tuples, of two sets of one size: the one with the least id that
\* only one of them has comes first.
EarlierSet(S, T) == \E i \in S \ T : \A j \in T \ S : i < j

\* A mutant: the search stops at the first set that changes the winner, pairs first.
PairsFirst(in) ==
    LET k == Cardinality(PrivateIds(in))
    IN  [i \in 1..(IF k < Limit THEN k ELSE Limit) |-> (IF k < Limit THEN k ELSE Limit) + 1 - i]

Cardinalities(in) ==
    LET k == Cardinality(PrivateIds(in))
    IN  [i \in 1..(IF k < Limit THEN k ELSE Limit) |-> i]

\* The reruns of each size, in the order the sizes are tried.
Ablations(in) ==
    [i \in DOMAIN Cardinalities(in) |->
        [S \in kSubset(Cardinalities(in)[i], PrivateIds(in)) |->
            evaluate_decision_graph_once(Without(in, S))]]

Winners(outcome, e) ==
    [i \in DOMAIN outcome |-> {S \in DOMAIN outcome[i] : outcome[i][S].selected # e.selected}]

\* All the ablations of one size are rerun; the first size with a new winner ends it.
Counterfactual(outcome, winners) ==
    LET hits == {i \in DOMAIN outcome : winners[i] # {}}
        stop == CHOOSE i \in hits : \A j \in hits : i <= j
        tried == IF hits = {} THEN DOMAIN outcome ELSE {i \in DOMAIN outcome : i <= stop}
        raised == \E i \in tried : \E S \in DOMAIN outcome[i] : Raised(outcome[i][S])
        first == CHOOSE S \in winners[stop] : \A T \in winners[stop] \ {S} : EarlierSet(S, T)
    IN  IF raised THEN [outcome |-> "REFUSED", removed |-> {}, others |-> {}, after |-> {}]
        ELSE IF hits = {}
        THEN [outcome |-> "NO_SMALL_COUNTERFACTUAL_FOUND", removed |-> {}, others |-> {}, after |-> {}]
        ELSE [outcome |-> "WINNER_CHANGED", removed |-> first, others |-> winners[stop] \ {first},
              after |-> outcome[stop][first].selected]

Searched(outcome, e) == Counterfactual(outcome, Winners(outcome, e))

search_private_fact_counterfactuals(in, e) == Searched(Ablations(in), e)
===================================================================================
