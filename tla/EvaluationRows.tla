------------------------------ MODULE EvaluationRows ------------------------------
(* The two documents the API makes of one evaluation: the Decision Ledger           *)
(* (sira_api/graph_ledger.py) and the normalized rows (sira_api/graph_persistence.py), *)
(* with the constraints of the tables they are inserted into (migration            *)
(* 23a8fff461fe).                                                                  *)
EXTENDS SolutionPlans

PackPlans(e) == {p \in e.plans : p.kind = "PACK"}
PackPlanProducts(e) == {Last(p.components) : p \in PackPlans(e)}

\* component_results looks every recalled record's own product id up among the plans.
LedgerRaises(in, e) == \E r \in recalled(in) : r.product \notin PackPlanProducts(e)

\* candidate_by_product keeps the last record of a product, excluded ones too.
LedgerSource(in, n) ==
    LET named == {r.id : r \in {r \in in.candidates : r.product = n}}
    IN  IF named = {} THEN {} ELSE {CHOOSE i \in named : \A j \in named : i >= j}

StabilitySummary ==
    [STABLE |-> "REMAINS_FIRST", UNSTABLE |-> "CAN_BE_OUTRANKED", UNDETERMINED |-> "BOUND_UNAVAILABLE"]

build_decision_ledger(in, e, c) ==
    [plans |-> {[ids |-> p.ids, status |-> p.status, lifecycle |-> p.lifecycle,
                 rank |-> {i \in 1..Len(e.ranked) : e.ranked[i] = p.ids},
                 sources |-> [i \in 1..Len(p.components) |-> LedgerSource(in, p.components[i])]]
                    : p \in e.plans},
     results |-> UNION {{[product |-> r.product, plan |-> p.ids, status |-> p.status] :
                            p \in {p \in PackPlans(e) : Last(p.components) = r.product}} : r \in recalled(in)},
     excluded |-> {r.id : r \in in.candidates} \ {r.id : r \in recalled(in)},
     outcome |-> IF e.selected = {} THEN "NO_ELIGIBLE_SUPPORTED_ACTION" ELSE "SELECTED_SOLUTION_PLAN",
     selected |-> e.selected, summary |-> StabilitySummary[e.stability], counterfactual |-> c]

\* Two plans of one id: the builder refuses the ledger.
RowsRaise(e) == \E p, q \in e.plans : p # q /\ p.ids = q.ids

\* A candidate and a current action of one source id: the builder refuses the members.
MembersRaise(in) == \E r \in in.candidates, a \in in.actions : r.id = a.id

disposition(in, r) ==
    IF recall_exclusion(in, r) # "NONE" THEN "EXCLUDED"
    ELSE IF \E s \in recalled(in) : identity_key(in, s) = identity_key(in, r) /\ s.id < r.id
         THEN "DEDUPLICATED" ELSE "INCLUDED"

MemberKind(a) ==
    IF a.action = "NO_ACTION" THEN "NO_ACTION"
    ELSE IF a.action \in {"REUSE_EXISTING", "CONFIGURE_EXISTING"} THEN "CURRENT_STACK"
    ELSE "CONTRACT_ACTION"

candidate_members(in) ==
    {[record |-> r.id, identity |-> identity_key(in, r), disposition |-> disposition(in, r),
      kind |-> "PACK", version |-> {r.version}] : r \in in.candidates}
    \cup {[record |-> a.id, identity |-> <<a.instance>>, disposition |-> "INCLUDED",
           kind |-> MemberKind(a), version |-> {}] : a \in in.actions}

identity_merges(in) ==
    {[record |-> r.id, identity |-> identity_key(in, r)] :
        r \in {r \in in.candidates : disposition(in, r) = "DEDUPLICATED"}}

\* The record a persisted component cites: the first record of the first identity
\* that bears the product's name.
component_source(in, p, n) ==
    LET keys == {identity_key(in, r) : r \in {r \in recalled(in) : canonical(in, r.product) = n}}
        first == CHOOSE k \in keys : \A l \in keys \ {k} : LexLess(k, l)
        group == {r.id : r \in {r \in recalled(in) : identity_key(in, r) = first}}
    IN  IF p.kind = "CURRENT_INSTANCE"
        THEN {a.id : a \in {a \in in.actions : a.instance = n /\ a.action = p.action}}
        ELSE {CHOOSE i \in group : \A j \in group : i <= j}

solution_plan_records(e) ==
    {[ids |-> p.ids, rank |-> {i \in 1..Len(e.ranked) : e.ranked[i] = p.ids},
      selected |-> p.ids \in e.selected, status |-> p.status, lifecycle |-> p.lifecycle,
      action |-> p.action, quote |-> p.quote, autonomous |-> p.autonomous] : p \in e.plans}

plan_components(in, e) ==
    UNION {{[ids |-> p.ids, ordinal |-> i, component |-> p.components[i],
             source |-> component_source(in, p, p.components[i])]
               : i \in 1..Len(p.components)} : p \in e.plans}

gate_results(e) ==
    UNION {{[ids |-> p.ids, gate |-> g.id, truth |-> g.truth, reasons |-> g.reasons]
               : g \in p.gates} : p \in e.plans}

evidence_assessments(in) ==
    {[ev |-> p[1], field |-> p[2], state |-> assessment(in, p[1], p[2]).state,
      age |-> assessment(in, p[1], p[2]).age] : p \in EvidencePairs(in, recall_and_deduplicate(in))}

score_component_rows(in, e) ==
    UNION {{[ids |-> p.ids, criterion |-> s.id, weight |-> s.weight, low |-> s.low, high |-> s.high,
             coverage |-> Only({c \in in.preferences : c.id = s.id}).coverage, state |-> s.state]
               : s \in p.dimensions.scores} : p \in e.plans}

\* One row per dimension; one without a value carries a reason, its own or the first.
score_bound(p, dimension, values) ==
    [ids |-> p.ids, dimension |-> dimension, values |-> values,
     reasoned |-> values = {}]

score_bounds(e) ==
    UNION {{score_bound(p, "PREFERENCE", p.dimensions.preference),
            score_bound(p, "STACK_RISK", p.dimensions.risk),
            score_bound(p, "TCO", p.dimensions.cost),
            score_bound(p, "DECISION_MATERIAL_COVERAGE", {p.dimensions.coverage}),
            score_bound(p, "EVIDENCE_AGE", {p.dimensions.age}),
            score_bound(p, "HARD_COVERAGE", {p.dimensions.hard})} : p \in e.plans}

\* can_beat_selected: known only where the stability verdict is.
ordering_frontier(e, p) ==
    [ids |-> p.ids, kind |-> "ORDERING", member |-> p.ordering,
     beats |-> IF p.ids \in e.selected THEN {FALSE}
               ELSE IF e.stability = "UNDETERMINED" THEN {} ELSE {p.ordering}]

robustness_frontiers(e) ==
    UNION {{ordering_frontier(e, p),
            [ids |-> p.ids, kind |-> "RESOLUTION", member |-> p.pending, beats |-> {}],
            [ids |-> p.ids, kind |-> "BOUND_UNAVAILABLE", member |-> p.ids \in e.unavailable,
             beats |-> {}]} : p \in e.plans}

build_evaluation_graph_write(in, e) ==
    [members |-> candidate_members(in), merges |-> identity_merges(in),
     plans |-> solution_plan_records(e), components |-> plan_components(in, e),
     gates |-> gate_results(e), evidence |-> evidence_assessments(in),
     scores |-> score_component_rows(in, e), bounds |-> score_bounds(e),
     frontiers |-> robustness_frontiers(e), stability |-> e.stability]

-----------------------------------------------------------------------------
(* The CHECK and UNIQUE constraints of the tables.  A row that breaks one fails     *)
(* the insert, and with it the transaction that made the Decision.                 *)

Unique(S, Key(_)) == \A x, y \in S : Key(x) = Key(y) => x = y
Statuses == Range(StatusPrecedence)
Truths == {"TRUE", "FALSE", "UNKNOWN", "CONFLICT"}
EvidenceStates == {"ACCEPTABLE", "UNKNOWN", "STALE", "CONFLICT"}

evaluation_runs(w) == w.stability \in {"STABLE", "UNSTABLE", "UNDETERMINED"}

evaluation_solution_plans(w) ==
    /\ \A p \in w.plans : /\ p.action \in Actions /\ p.status \in Statuses
                          /\ p.lifecycle \in {"CANDIDATE", "RESOLUTION_PENDING", "EXECUTABLE", "BLOCKED"}
                          /\ Optional(p.rank) /\ \A i \in p.rank : i >= 1
    /\ Unique(w.plans, LAMBDA p : p.ids)

evidence_assessment_records(w) ==
    /\ \A a \in w.evidence : a.state \in EvidenceStates
    /\ Unique(w.evidence, LAMBDA a : <<a.ev, a.field>>)

candidate_set_members(w) ==
    /\ \A m \in w.members : /\ m.disposition \in {"INCLUDED", "EXCLUDED", "DEDUPLICATED"}
                            /\ m.kind \in {"PACK", "CURRENT_STACK", "CONTRACT_ACTION", "NO_ACTION"}
                            /\ \A v \in m.version : v >= 1
    /\ Unique(w.members, LAMBDA m : m.record)

decision_gate_results(w) ==
    /\ \A g \in w.gates : g.truth \in Truths /\ g.reasons \subseteq Statuses
    /\ Unique(w.gates, LAMBDA g : <<g.ids, g.gate>>)

identity_merge_records(w) == Unique(w.merges, LAMBDA m : m.record)

robustness_frontier_records(w) == Unique(w.frontiers, LAMBDA f : <<f.ids, f.kind>>)

score_bound_records(w) ==
    /\ \A b \in w.bounds : /\ Optional(b.values)
                           /\ b.values = {} <=> b.reasoned
                           /\ b.dimension = "STACK_RISK" => \A v \in b.values : risk_bounds_record(v)
    /\ Unique(w.bounds, LAMBDA b : <<b.ids, b.dimension>>)

score_component_records(in, w) ==
    /\ \A s \in w.scores : /\ {s.low, s.high} \subseteq 0..in.unit
                           /\ {s.weight, s.coverage} \subseteq 1..5
                           /\ s.state \in EvidenceStates
    /\ Unique(w.scores, LAMBDA s : <<s.ids, s.criterion>>)

solution_plan_components(w) ==
    /\ Unique(w.components, LAMBDA c : <<c.ids, c.component>>)
    /\ Unique(w.components, LAMBDA c : <<c.ids, c.ordinal>>)

Storable(in, w) ==
    /\ evaluation_runs(w) /\ evaluation_solution_plans(w) /\ evidence_assessment_records(w)
    /\ candidate_set_members(w) /\ decision_gate_results(w) /\ identity_merge_records(w)
    /\ robustness_frontier_records(w) /\ score_bound_records(w)
    /\ score_component_records(in, w) /\ solution_plan_components(w)
==================================================================================
