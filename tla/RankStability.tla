------------------------------ MODULE RankStability ------------------------------
(* The interval order of the Decision Graph (decision_engine/bounds.py): the       *)
(* authoritative key that ranks bounded plans, the two envelope keys, and the      *)
(* stability verdict they give.                                                    *)
(*                                                                                 *)
(* A bounded plan is [ids, exception, bounds]: `ids` its stable action ids (the    *)
(* action and the component ids, numbered in their lexical order), `exception` 1   *)
(* for ELIGIBLE_WITH_EXCEPTION and 0 for ELIGIBLE, `bounds` the singleton of its   *)
(* ordering bounds, or {} when a bound is unavailable.  Exact ratios are integers  *)
(* over one common denominator, which keeps their order.                           *)
EXTENDS Integers, Sequences, FiniteSets

Interval == {i \in [low : Int, high : Int] : i.low <= i.high}
BaseInterval == {i \in [low : Int, base : Int, high : Int] :
                     i.low <= i.base /\ i.base <= i.high}

OrderingBounds == [preference : Interval, risk : BaseInterval, cost : BaseInterval,
                   coverage : Interval, age : Interval]

BoundedPlan == [ids : Seq(Nat), exception : {0, 1},
                bounds : {{b} : b \in OrderingBounds} \cup {{}}]

require_bounds(p) == CHOOSE b \in p.bounds : TRUE

\* Tuple comparison: the first difference decides, a proper prefix comes first.
LexLess(a, b) ==
    \E i \in 1..Len(b) :
        /\ \A j \in 1..(i - 1) : j <= Len(a) /\ a[j] = b[j]
        /\ i > Len(a) \/ a[i] < b[i]

OrderingKey(p, preference, risk, cost, coverage, age) ==
    <<p.exception, -preference, risk, cost, -coverage, age>> \o p.ids

authoritative_ordering_key(p) ==
    LET b == require_bounds(p)
    IN  OrderingKey(p, b.preference.low, b.risk.base, b.cost.base, b.coverage.low, b.age.high)

conservative_envelope_key(p) ==
    LET b == require_bounds(p)
    IN  OrderingKey(p, b.preference.low, b.risk.high, b.cost.high, b.coverage.low, b.age.high)

optimistic_envelope_key(p) ==
    LET b == require_bounds(p)
    IN  OrderingKey(p, b.preference.high, b.risk.low, b.cost.low, b.coverage.high, b.age.low)

\* A mutant: the competitor's own worst case instead of its best.
PessimisticFrontier(selected, competitors) ==
    {p \in competitors : LexLess(conservative_envelope_key(p), conservative_envelope_key(selected))}

OrderingFrontier(selected, competitors) ==
    {p \in competitors : LexLess(optimistic_envelope_key(p), conservative_envelope_key(selected))}

assess_rank_stability(selected, competitors) ==
    LET unavailable == {p \in competitors \cup {selected} : p.bounds = {}}
        frontier == OrderingFrontier(selected, competitors)
    IN  IF unavailable # {}
        THEN [status |-> "UNDETERMINED", frontier |-> {}, unavailable |-> unavailable]
        ELSE [status |-> IF frontier = {} THEN "STABLE" ELSE "UNSTABLE",
              frontier |-> frontier, unavailable |-> {}]

-----------------------------------------------------------------------------
(* What the verdict is about: the keys a plan may turn out to have once every      *)
(* uncertain dimension settles inside its bounds.                                  *)

Outcomes(p) ==
    LET b == require_bounds(p)
    IN  {OrderingKey(p, v, r, c, m, a) :
            v \in b.preference.low .. b.preference.high, r \in b.risk.low .. b.risk.high,
            c \in b.cost.low .. b.cost.high, m \in b.coverage.low .. b.coverage.high,
            a \in b.age.low .. b.age.high}

\* The corners of the same box: what TLC enumerates.
Corners(p) ==
    LET b == require_bounds(p)
        Ends(i) == {i.low, i.high}
    IN  {OrderingKey(p, v, r, c, m, a) :
            v \in Ends(b.preference), r \in Ends(b.risk), c \in Ends(b.cost),
            m \in Ends(b.coverage), a \in Ends(b.age)}

CanOutrank(c, s, Keys(_)) == \E kc \in Keys(c), ks \in Keys(s) : LexLess(kc, ks)
==================================================================================
