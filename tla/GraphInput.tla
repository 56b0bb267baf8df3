-------------------------------- MODULE GraphInput --------------------------------
(* The frozen input of the Decision Graph (decision_engine/graph_v1_models.py):     *)
(* what each record constructor accepts.  A frozen input that breaks one of these  *)
(* is never evaluated.                                                             *)
(*                                                                                 *)
(* Ids and names are naturals numbered in their lexical order.  A fact value is    *)
(* [kind, v], v a set of integers: a singleton for "int" and "bool".  An optional  *)
(* field is a set of at most one element.  Collections the constructors sort and   *)
(* deduplicate are sets.                                                           *)
EXTENDS Integers, Sequences, SequencesExt

Only(S) == CHOOSE x \in S : TRUE
Optional(S) == Cardinality(S) <= 1

AuthorityRank == [SELLER_SEALED |-> 0, PLATFORM_COMPILED |-> 1, EXTERNAL_UNSEALED |-> 2]
Actions == {"BUY", "CANCEL", "CONFIGURE_EXISTING", "CONSOLIDATE", "NO_ACTION", "RENEW", "REPLACE",
            "RESIZE", "REUSE_EXISTING"}
RiskRanks == 0..3

FactValue(v) ==
    /\ v.kind \in {"int", "bool", "set"}
    /\ v.kind # "set" => Cardinality(v.v) = 1

evidence_record(e) ==
    /\ Optional(e.age)
    /\ \A a \in e.age : a.low <= a.high

raw_candidate_record(r) ==
    /\ r.version >= 1
    /\ r.authority \in DOMAIN AuthorityRank
    /\ r.status \in {"PUBLISHED", "REVOKED", "SUPERSEDED"}
    /\ \A f \in r.facts : FactValue(f.value)

\* A fee on an action that takes no payment is refused.
offer_cost(c) ==
    /\ Optional(c.bounds)
    /\ c.horizon >= 1
    /\ ~c.payment => c.fees = 0

recall_policy(p) == p.regions # {}

evidence_policy(p) == p.sla >= 1

gate_rule(g) == g.predicates # {} /\ Optional(g.resolution)

\* Satisfactions are the ratios 0..unit over unit.
preference_criterion(c, unit) ==
    /\ c.weight \in 1..5 /\ c.coverage \in 1..5
    /\ c.aggregation \in {"PRIMARY_COMPONENT", "ALL", "ANY", "MIN", "MAX", "SUM", "UNION"}
    /\ c.unknown \subseteq 0..unit /\ Optional(c.unknown)
    /\ c.prior \subseteq 0..unit /\ Optional(c.prior)
    /\ c.kind = "LOWER_IS_BETTER" => /\ c.points # <<>>
                                     /\ \A i \in DOMAIN c.points : c.points[i][2] \in 0..unit
    /\ c.kind = "SET_CONTAINS_ALL" => c.expected.kind = "set"
    /\ c.kind = "OUTCOME_RATE" => c.prior # {}

risk_bounds_record(b) == /\ {b.low, b.base, b.high} \subseteq RiskRanks
                         /\ b.low <= b.base /\ b.base <= b.high

risk_rule_record(r) ==
    /\ r.actions # {} /\ r.actions \subseteq Actions
    /\ risk_bounds_record(r.bounds)
    /\ Optional(r.missing) /\ \A b \in r.missing : risk_bounds_record(b)

current_action_record(a) == a.action \in Actions /\ offer_cost(a.cost)

\* Ids are unique within each kind of record.
UniqueIds(S) == \A x, y \in S : x.id = y.id => x = y

decision_graph_input(in) ==
    /\ \A e \in in.evidence : evidence_record(e)
    /\ \A r \in in.candidates : raw_candidate_record(r)
    /\ \A o \in DOMAIN in.offers : offer_cost(in.offers[o])
    /\ \A p \in in.policy : recall_policy(p)
    /\ \A f \in DOMAIN in.policies : evidence_policy(in.policies[f])
    /\ \A g \in in.gates : gate_rule(g)
    /\ \A c \in in.preferences : preference_criterion(c, in.unit)
    /\ \A r \in in.rules : risk_rule_record(r)
    /\ \A a \in in.actions : current_action_record(a)
    /\ UniqueIds(in.facts) /\ UniqueIds(in.candidates) /\ UniqueIds(in.evidence)
    /\ UniqueIds(in.gates) /\ UniqueIds(in.preferences) /\ UniqueIds(in.actions)
==================================================================================
