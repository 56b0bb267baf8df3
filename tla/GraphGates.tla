-------------------------------- MODULE GraphGates --------------------------------
(* The first half of the Decision Graph pipeline: recall and identity             *)
(* deduplication, evidence assessment (decision_engine/graph_v1_recall.py) and     *)
(* the hard gates (decision_engine/graph_v1.py).  Every operator takes the frozen  *)
(* input `in`, a record with the fields of DecisionGraphInput.                     *)
EXTENDS GraphInput

-----------------------------------------------------------------------------
(* Recall and identity.                                                            *)

\* dict(aliases), followed until a name has no alias; a cycle raises.
AliasCycle(in) ==
    \E n \in DOMAIN in.aliases :
        LET next[k \in 0..Cardinality(DOMAIN in.aliases)] ==
                IF k = 0 THEN n
                ELSE IF next[k - 1] \in DOMAIN in.aliases THEN in.aliases[next[k - 1]]
                     ELSE next[k - 1]
        IN  next[Cardinality(DOMAIN in.aliases)] \in DOMAIN in.aliases

canonical(in, n) ==
    LET name[k \in 0..Cardinality(DOMAIN in.aliases)] ==
            IF k = 0 THEN n
            ELSE IF name[k - 1] \in DOMAIN in.aliases THEN in.aliases[name[k - 1]]
                 ELSE name[k - 1]
    IN  name[Cardinality(DOMAIN in.aliases)]

identity_key(in, r) ==
    <<canonical(in, r.product), canonical(in, r.seller), canonical(in, r.edition),
      canonical(in, r.region)>>

recall_exclusion(in, r) ==
    IF r.status = "REVOKED" THEN "PACK_REVOKED"
    ELSE IF r.status = "SUPERSEDED" THEN "PACK_SUPERSEDED"
    ELSE IF in.policy = {} THEN "NONE"
    ELSE IF Only(in.policy).category \notin r.categories THEN "CATEGORY_MISMATCH"
    ELSE IF Only(in.policy).jtbd \notin r.jtbds THEN "JTBD_MISMATCH"
    ELSE IF canonical(in, r.region) \notin {canonical(in, x) : x \in Only(in.policy).regions}
         THEN "REGION_UNSUPPORTED"
    ELSE "NONE"

recalled(in) == {r \in in.candidates : recall_exclusion(in, r) = "NONE"}

authority_floor(records) ==
    LET worst == CHOOSE r \in records :
                     \A s \in records : AuthorityRank[s.authority] <= AuthorityRank[r.authority]
    IN  worst.authority

\* A mutant: the first record speaks for the group.
FirstRecordSpeaks(group, product) ==
    {[field |-> f.field, value |-> f.value, component |-> product, ev |-> f.ev] :
        f \in (CHOOSE r \in group : \A s \in group : r.id <= s.id).facts}

\* One fact per (field, value) of the group, with the evidence of every record.
merge_facts(group, product) ==
    LET facts == UNION {r.facts : r \in group}
    IN  {[field |-> f.field, value |-> f.value, component |-> product,
          ev |-> UNION {g.ev : g \in {g \in facts : g.field = f.field /\ g.value = f.value}}]
            : f \in facts}

\* The record that stands for one identity: the newest Pack binds the offer.
representative(in, key) ==
    LET group == {r \in recalled(in) : identity_key(in, r) = key}
        anchor == CHOOSE r \in group : \A s \in group :
                      s.version < r.version \/ (s.version = r.version /\ r.id <= s.id)
    IN  [key |-> key, product |-> key[1], group |-> {r.id : r \in group},
         offer |-> canonical(in, anchor.offer), version |-> anchor.version,
         authority |-> authority_floor(group),
         available |-> \A r \in group : r.available,
         facts |-> merge_facts(group, key[1]),
         sellerGates |-> UNION {r.sellerGates : r \in group},
         requires |-> UNION {r.requires : r \in group}]

recall_and_deduplicate(in) ==
    {representative(in, k) : k \in {identity_key(in, r) : r \in recalled(in)}}

-----------------------------------------------------------------------------
(* Evidence.                                                                       *)

\* The (evidence, field) pairs that are assessed.
EvidencePairs(in, reps) ==
    (UNION {f.ev \X {f.field} : f \in UNION {r.facts : r \in reps}})
        \cup (UNION {f.ev \X {f.field} : f \in UNION {a.facts : a \in in.actions}})
        \cup UNION {o.ev \X {c.field : c \in {c \in in.preferences : c.id = o.criterion}}
                        : o \in in.outcomes}

scope_matches(required, actual) == required = "*" \/ required = actual

\* evidence_age_bounds, in units of the SLA over the common denominator Scale.
evidence_age_bounds(in, age, sla) ==
    [low |-> (in.scale * age.low) \div sla, high |-> (in.scale * age.high) \div sla]

assessment(in, e, field) ==
    LET records == {r \in in.evidence : r.id = e}
        r == Only(records)
        policy == in.policies[field]
        current == r.age # {} /\ Only(r.age).high <= policy.sla
        usable == /\ r.source \in policy.sources
                  /\ scope_matches(policy.scope, r.scope)
                  /\ r.reconstructable
    IN  IF records = {} THEN [state |-> "UNKNOWN", age |-> {}]
        ELSE [age |-> {evidence_age_bounds(in, a, policy.sla) : a \in r.age},
              state |-> IF r.disputed \/ r.revoked THEN "CONFLICT"
                        ELSE IF r.age # {} /\ ~current THEN "STALE"
                        ELSE IF ~usable \/ r.age = {} THEN "UNKNOWN"
                        ELSE "ACCEPTABLE"]

\* CONFLICT first, then one acceptable source is enough, then STALE.
StrongestState(states) ==
    IF "CONFLICT" \in states THEN "CONFLICT"
    ELSE IF "ACCEPTABLE" \in states THEN "ACCEPTABLE"
    ELSE IF "STALE" \in states THEN "STALE"
    ELSE "UNKNOWN"

field_state(in, facts, field) ==
    LET matching == {f \in facts : f.field = field}
        ev == UNION {f.ev : f \in matching}
        values == {f.value : f \in matching}
        found == {assessment(in, e, field) : e \in ev}
    IN  [values |-> values, ev |-> ev,
         untimed |-> \E a \in found : a.age = {},
         state |-> IF Cardinality(values) > 1 THEN "CONFLICT"
                   ELSE StrongestState({a.state : a \in found})]

-----------------------------------------------------------------------------
(* Gates.                                                                          *)

active_buyer_facts(in) == {f \in in.facts : f.id \notin in.removed}
active_source_ids(in) == {f.id : f \in active_buyer_facts(in)}

strict_equal(a, b) == a.kind = b.kind /\ a.v = b.v

predicate_matches(value, p) ==
    LET numeric == value.kind = "int" /\ p.value.kind = "int"
        n == Only(value.v)
        m == Only(p.value.v)
    IN  CASE p.op = "eq" -> strict_equal(value, p.value)
          [] p.op = "neq" -> ~strict_equal(value, p.value)
          [] p.op = "in" -> p.value.kind = "set" /\ value.kind = "int" /\ value.v \subseteq p.value.v
          [] p.op = "contains_all" -> value.kind = "set" /\ p.value.kind = "set" /\ p.value.v \subseteq value.v
          [] p.op = "lte" -> numeric /\ n <= m
          [] p.op = "lt" -> numeric /\ n < m
          [] p.op = "gte" -> numeric /\ n >= m
          [] p.op = "gt" -> numeric /\ n > m
          [] p.op = "exists" -> TRUE

StatusPrecedence ==
    <<"UNAVAILABLE", "CONFLICTING_EVIDENCE", "STALE_EVIDENCE", "INSUFFICIENT_EVIDENCE",
      "SIRA_INELIGIBLE", "SEIL_PASS", "AUTHORITY_REQUIRED", "ADVISORY_ONLY", "CONDITIONAL",
      "ELIGIBLE_WITH_EXCEPTION", "ELIGIBLE">>

gate_applies(in, g, m) ==
    /\ g.sources \subseteq active_source_ids(in)
    /\ g.actions = {} \/ m.action \in g.actions
    /\ g.blocked = "SEIL_PASS" => g.id \in m.sellerGates

\* One mark per thing a gate looks at: its truth, and the status it argues for.
Mark(truth, status) == [truth |-> truth, status |-> status]
Judged(holds) == Mark(IF holds THEN "TRUE" ELSE "FALSE", "NONE")

\* A seller rule that cites claims needs their evidence to be current.
SellerRuleMarks(in, g, pairs) ==
    LET states == {assessment(in, p[1], p[2]).state : p \in {p \in pairs : p[1] \in g.claims}}
    IN  IF g.blocked # "SEIL_PASS" \/ g.claims = {} THEN {}
        ELSE {Mark("UNKNOWN", "INSUFFICIENT_EVIDENCE") :
                  x \in {y \in {1} : states = {} \/ "UNKNOWN" \in states}}
             \cup {Mark("UNKNOWN", "STALE_EVIDENCE") : x \in states \cap {"STALE"}}
             \cup {Mark("CONFLICT", "CONFLICTING_EVIDENCE") : x \in states \cap {"CONFLICT"}}

SellerMarks(in, p) ==
    LET values == {f.value : f \in {f \in active_buyer_facts(in) : f.field = p.field}}
    IN  IF values = {} THEN {Mark("UNKNOWN", "CONDITIONAL")}
        ELSE {Judged(predicate_matches(Only(values), p))}

component_field_states(in, m, field) ==
    IF Len(m.components) = 1 THEN {field_state(in, m.gateFacts, field)}
    ELSE {field_state(in, {f \in m.gateFacts : f.component = m.components[i]}, field)
              : i \in 1..Len(m.components)}

\* The marks of one predicate, from the state of its field in every component.
MarksFound(p, found) ==
    LET states == {s.state : s \in found}
    IN  IF "CONFLICT" \in states THEN {Mark("CONFLICT", "CONFLICTING_EVIDENCE")}
        ELSE IF "STALE" \in states THEN {Mark("UNKNOWN", "STALE_EVIDENCE")}
        ELSE IF "UNKNOWN" \in states \/ \E s \in found : s.values = {}
             THEN {Mark("UNKNOWN", "INSUFFICIENT_EVIDENCE")}
        ELSE {Judged(\A v \in s.values : predicate_matches(v, p)) : s \in found}

BuyerMarks(in, m, p) == MarksFound(p, component_field_states(in, m, p.field))

\* The result of a gate, from all its marks.
gate_result(g, marks) ==
    LET truths == {x.truth : x \in marks}
        argued == {x.status : x \in marks} \ {"NONE"}
        all == IF "FALSE" \in truths THEN "FALSE"
               ELSE IF "UNKNOWN" \in truths THEN "UNKNOWN" ELSE "TRUE"
        truth == IF "CONFLICT" \in truths THEN "CONFLICT"
                 ELSE IF g.mode = "REQUIRE_MATCH" THEN all
                 ELSE CASE all = "FALSE" -> "TRUE" [] all = "TRUE" -> "FALSE" [] OTHER -> all
    IN  [id |-> <<"rule", g.id>>, truth |-> truth, resolution |-> g.resolution, hard |-> g.blocked # "SEIL_PASS",
         reasons |-> argued \cup (IF truth = "FALSE" THEN {g.blocked} ELSE {})]

evaluate_gate(in, m, g, pairs) ==
    gate_result(g, SellerRuleMarks(in, g, pairs)
                       \cup UNION {IF g.blocked = "SEIL_PASS" THEN SellerMarks(in, p)
                                   ELSE BuyerMarks(in, m, p) : p \in g.predicates})

availability_gate(m) ==
    [id |-> <<"availability", 0>>, truth |-> IF m.available THEN "TRUE" ELSE "FALSE", resolution |-> m.resolution,
     hard |-> FALSE, reasons |-> IF m.available THEN {} ELSE {"UNAVAILABLE"}]

authority_gate(m) ==
    [id |-> <<"authority", 0>>, truth |-> "FALSE", resolution |-> {"NEW_PACK_VERSION"}, hard |-> FALSE,
     reasons |-> {"ADVISORY_ONLY"}]

\* The issue codes of a closure and of its cost, in their lexical order.
DependencyIssues ==
    <<"AMBIGUOUS_REQUIRED_COMPONENT", "CYCLIC_COMPONENT_DEPENDENCY", "INCOMPARABLE_DEPENDENCY_COST",
      "MISSING_REQUIRED_COMPONENT", "MISSING_REQUIRED_DEPENDENCY_OFFER">>

dependency_gates(m) ==
    {[id |-> <<"dependency", i>>, truth |-> "FALSE", resolution |-> {}, hard |-> TRUE,
      reasons |-> {"SIRA_INELIGIBLE"}] :
        i \in {i \in 1..Len(DependencyIssues) : DependencyIssues[i] \in m.issues}}

evaluate_gates(in, m, pairs) ==
    {availability_gate(m)} \cup dependency_gates(m)
        \cup {authority_gate(m) : x \in {m.authority} \ {"SELLER_SEALED", "CURRENT"}}
        \cup {evaluate_gate(in, m, g, pairs) : g \in {g \in in.gates : gate_applies(in, g, m)}}

primary_status(gates) ==
    LET reasons == UNION {g.reasons : g \in gates}
        ranks == {i \in 1..Len(StatusPrecedence) : StatusPrecedence[i] \in reasons}
    IN  IF reasons = {} THEN "ELIGIBLE"
        ELSE StatusPrecedence[CHOOSE i \in ranks : \A j \in ranks : i <= j]
==================================================================================
