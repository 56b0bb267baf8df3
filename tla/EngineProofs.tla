------------------------------- MODULE EngineProofs -------------------------------
(* What TLAPS proves of the decision engine, for every input: the stability         *)
(* verdict is exact for every plan and every set of competitors; the                *)
(* counterfactual search finds the smallest sets of private facts that decide; a    *)
(* dependency closure holds what its root requires and nothing else; the ranking    *)
(* is robust; an eligible plan passes every hard gate on evidence that stands;      *)
(* and the rows a reader finds in the graph fit their tables and tell the           *)
(* evaluation.                                                                      *)
EXTENDS DecisionEngine, FiniteSetTheorems, SequenceTheorems, WellFoundedInduction, TLAPS

-----------------------------------------------------------------------------
(* The stability verdict of decision_engine/bounds.py is exact, for every plan and  *)
(* every set of competitors: the frontier it returns is the set of plans that can   *)
(* outrank the selected one for some outcome of both within their bounds.           *)
(*                                                                                 *)
(* The argument: the tuple order is monotone in every component (LexMonotone), a   *)
(* plan's optimistic key bounds each of its possible keys from below and its       *)
(* conservative key from above, and both are keys it can have.                     *)

(* A set of positions that is not empty has a least one: the shortest of the       *)
(* initial segments that end in it.                                                *)
LEMMA LeastPosition ==
    ASSUME NEW n \in Nat, NEW T \in SUBSET (1..n), T # {}
    PROVE  \E k \in T : \A j \in T : k <= j
<1> DEFINE F == {1..k : k \in T}
<1> DEFINE R == StrictSubsetOrdering(1..n)
<1>1. F \subseteq FiniteSubsetsOf(1..n) /\ F # {}
  <2>1. \A k \in T : 1..k \subseteq 1..n /\ IsFiniteSet(1..k)
    BY FS_Interval
  <2> QED
    BY <2>1 DEF FiniteSubsetsOf
<1>2. IsWellFoundedOn(R, FiniteSubsetsOf(1..n))
  BY FS_StrictSubsetOrderingWellFounded
<1>3. PICK x \in F : \A y \in F : ~(<<y, x>> \in R)
  <2> HIDE DEF F, R
  <2> QED
    BY <1>1, <1>2, WFMin
<1>4. PICK k \in T : x = 1..k
  OBVIOUS
<1>5. ASSUME NEW j \in T, j < k
      PROVE  FALSE
  <2>1. 1..j \in SUBSET (1..n) /\ 1..k \in SUBSET (1..n) /\ 1..j \subseteq 1..k /\ k \notin 1..j /\ k \in 1..k
    BY <1>5
  <2>2. <<1..j, 1..k>> \in R
    BY <2>1 DEF StrictSubsetOrdering
  <2> QED
    BY <2>2, <1>3, <1>4
<1> QED
  BY <1>5

(* Comparing tuples first difference first is monotone: a tuple lowered and one     *)
(* raised, component by component, keep their order.                               *)
LEMMA LexMonotone ==
    ASSUME NEW a \in Seq(Int), NEW b \in Seq(Int), NEW a2 \in Seq(Int), NEW b2 \in Seq(Int),
           Len(a2) = Len(a), Len(b2) = Len(b),
           \A i \in 1..Len(a) : a2[i] <= a[i],
           \A i \in 1..Len(b) : b[i] <= b2[i],
           LexLess(a, b)
    PROVE  LexLess(a2, b2)
<1> DEFINE Wins(k) == k > Len(a2) \/ a2[k] < b2[k]
<1>0. Len(a) \in Nat /\ Len(b) \in Nat
  BY LenProperties
<1>a. \A j \in 1..Len(a) : a[j] \in Int /\ a2[j] \in Int
  BY ElementOfSeq
<1>b. \A j \in 1..Len(b) : b[j] \in Int /\ b2[j] \in Int
  BY ElementOfSeq
<1>1. PICK i \in 1..Len(b) : /\ \A j \in 1..(i - 1) : j <= Len(a) /\ a[j] = b[j]
                             /\ i > Len(a) \/ a[i] < b[i]
  BY DEF LexLess
<1>2. Wins(i)
  <2>1. CASE i > Len(a)
    BY <2>1
  <2>2. CASE i <= Len(a)
    <3>1. i \in 1..Len(a)
      BY <2>2, <1>0
    <3>2. a2[i] <= a[i] /\ a[i] < b[i] /\ b[i] <= b2[i]
      BY <2>2, <3>1, <1>1, <1>0
    <3> QED
      BY <3>1, <3>2, <1>a, <1>b
  <2> QED
    BY <2>1, <2>2, <1>0
<1> DEFINE T == {k \in 1..i : Wins(k)}
<1>3. PICK k \in T : \A j \in T : k <= j
  <2>1. T \in SUBSET (1..i) /\ i \in T /\ i \in Nat
    BY <1>2, <1>0
  <2> HIDE DEF T
  <2> QED
    BY <2>1, LeastPosition
<1>k. k \in 1..i /\ Wins(k)
  BY <1>3
<1> HIDE DEF Wins
<1>4. ASSUME NEW j \in 1..(k - 1)
      PROVE  j <= Len(a2) /\ a2[j] = b2[j]
  <2>1. j \in 1..(i - 1) /\ j \in 1..i /\ j < k /\ j \in 1..Len(b)
    BY <1>0, <1>k
  <2>2. ~Wins(j)
    BY <2>1, <1>3, <1>k
  <2>3. j <= Len(a) /\ a[j] = b[j] /\ j \in 1..Len(a)
    BY <2>1, <1>1, <1>0
  <2>4. a2[j] \in Int /\ b2[j] \in Int /\ a[j] \in Int /\ b[j] \in Int
    BY <2>1, <2>3, <1>a, <1>b
  <2>5. a2[j] <= a[j] /\ b[j] <= b2[j]
    BY <2>1, <2>3
  <2>6. ~(a2[j] < b2[j])
    BY <2>2 DEF Wins
  <2>7. \A w, x, y, z \in Int : w <= x /\ x = y /\ y <= z /\ ~(w < z) => w = z
    OBVIOUS
  <2>8. a2[j] = b2[j]
    BY <2>3, <2>4, <2>5, <2>6, <2>7
  <2> QED
    BY <2>3, <2>8
<1>5. k \in 1..Len(b2) /\ (k > Len(a2) \/ a2[k] < b2[k])
  BY <1>k, <1>0 DEF Wins
<1> QED
  BY <1>4, <1>5 DEF LexLess

(* Six integers followed by a sequence of them, position by position.              *)
LEMMA SixThenTail ==
    ASSUME NEW h \in Seq(Int), NEW t \in Seq(Int), Len(h) = 6
    PROVE  /\ h \o t \in Seq(Int)
           /\ Len(h \o t) = 6 + Len(t)
           /\ \A i \in 1..6 : (h \o t)[i] = h[i]
           /\ \A i \in 1..(6 + Len(t)) : i > 6 => (h \o t)[i] = t[i - 6]
<1>1. Len(t) \in Nat
  BY LenProperties
<1>2. /\ h \o t \in Seq(Int)
      /\ Len(h \o t) = Len(h) + Len(t)
      /\ \A i \in 1..(Len(h) + Len(t)) : (h \o t)[i] = IF i <= Len(h) THEN h[i] ELSE t[i - Len(h)]
  BY ConcatProperties, Zenon
<1> QED
  BY <1>1, <1>2

\* What a key holds at each position.
KeyIs(k, p, v, r, c, m, g) ==
    /\ k \in Seq(Int)
    /\ Len(k) = 6 + Len(p.ids)
    /\ k[1] = p.exception /\ k[2] = -v /\ k[3] = r /\ k[4] = c /\ k[5] = -m /\ k[6] = g
    /\ \A i \in 1..Len(k) : i > 6 => k[i] = p.ids[i - 6]

\* One key is at most another in every component.
AtMost(j, k) ==
    /\ j \in Seq(Int) /\ k \in Seq(Int) /\ Len(j) = Len(k)
    /\ \A i \in 1..Len(k) : j[i] <= k[i]

(* A key is a sequence of integers: six settled dimensions, then the action ids.    *)
LEMMA KeyShape ==
    ASSUME NEW p \in BoundedPlan, NEW v \in Int, NEW r \in Int, NEW c \in Int, NEW m \in Int, NEW g \in Int
    PROVE  KeyIs(OrderingKey(p, v, r, c, m, g), p, v, r, c, m, g)
<1> DEFINE h == <<p.exception, -v, r, c, -m, g>>
<1>1. h \in Seq(Int) /\ Len(h) = 6
  BY DEF BoundedPlan
<1>2. p.ids \in Seq(Int)
  BY DEF BoundedPlan
<1>3. h[1] = p.exception /\ h[2] = -v /\ h[3] = r /\ h[4] = c /\ h[5] = -m /\ h[6] = g
  OBVIOUS
<1>4. OrderingKey(p, v, r, c, m, g) = h \o p.ids
  BY DEF OrderingKey
<1> DEFINE k == h \o p.ids
<1> HIDE DEF h
<1>5. /\ k \in Seq(Int)
      /\ Len(k) = 6 + Len(p.ids)
      /\ \A i \in 1..6 : k[i] = h[i]
      /\ \A i \in 1..(6 + Len(p.ids)) : i > 6 => k[i] = p.ids[i - 6]
  BY <1>1, <1>2, SixThenTail
<1> HIDE DEF k
<1>6. k[1] = h[1] /\ k[2] = h[2] /\ k[3] = h[3] /\ k[4] = h[4] /\ k[5] = h[5] /\ k[6] = h[6]
  <2>1. 1 \in 1..6 /\ 2 \in 1..6 /\ 3 \in 1..6 /\ 4 \in 1..6 /\ 5 \in 1..6 /\ 6 \in 1..6
    OBVIOUS
  <2> QED
    BY <1>5, <2>1, Zenon
<1>7. k[1] = p.exception /\ k[2] = -v /\ k[3] = r /\ k[4] = c /\ k[5] = -m /\ k[6] = g
  BY <1>3, <1>6, Zenon
<1>8. KeyIs(k, p, v, r, c, m, g)
  BY <1>5, <1>7 DEF KeyIs
<1> QED
  BY <1>4, <1>8 DEF k

(* Dimension by dimension, a better outcome of one plan gives a lower key.          *)
LEMMA KeyMonotone ==
    ASSUME NEW p \in BoundedPlan,
           NEW v1 \in Int, NEW r1 \in Int, NEW c1 \in Int, NEW m1 \in Int, NEW g1 \in Int,
           NEW v2 \in Int, NEW r2 \in Int, NEW c2 \in Int, NEW m2 \in Int, NEW g2 \in Int,
           v2 <= v1, r1 <= r2, c1 <= c2, m2 <= m1, g1 <= g2
    PROVE  AtMost(OrderingKey(p, v1, r1, c1, m1, g1), OrderingKey(p, v2, r2, c2, m2, g2))
<1> DEFINE k1 == OrderingKey(p, v1, r1, c1, m1, g1)
<1> DEFINE k2 == OrderingKey(p, v2, r2, c2, m2, g2)
<1>1. KeyIs(k1, p, v1, r1, c1, m1, g1) /\ KeyIs(k2, p, v2, r2, c2, m2, g2)
  BY KeyShape, Zenon
<1> HIDE DEF k1, k2
<1>2. /\ k1 \in Seq(Int) /\ Len(k1) = 6 + Len(p.ids)
      /\ k1[1] = p.exception /\ k1[2] = -v1 /\ k1[3] = r1 /\ k1[4] = c1 /\ k1[5] = -m1 /\ k1[6] = g1
      /\ \A i \in 1..Len(k1) : i > 6 => k1[i] = p.ids[i - 6]
      /\ k2 \in Seq(Int) /\ Len(k2) = 6 + Len(p.ids)
      /\ k2[1] = p.exception /\ k2[2] = -v2 /\ k2[3] = r2 /\ k2[4] = c2 /\ k2[5] = -m2 /\ k2[6] = g2
      /\ \A i \in 1..Len(k2) : i > 6 => k2[i] = p.ids[i - 6]
  BY <1>1, Zenon DEF KeyIs
<1>3. p.exception \in Int /\ Len(k1) \in Nat
  BY <1>2, LenProperties DEF BoundedPlan
<1>4. ASSUME NEW i \in 1..Len(k1)
      PROVE  k1[i] <= k2[i]
  <2>1. CASE i <= 6
    <3>1. k1[1] <= k2[1] /\ k1[2] <= k2[2] /\ k1[3] <= k2[3] /\ k1[4] <= k2[4] /\ k1[5] <= k2[5] /\ k1[6] <= k2[6]
      BY <1>2, <1>3
    <3>2. i = 1 \/ i = 2 \/ i = 3 \/ i = 4 \/ i = 5 \/ i = 6
      BY <2>1, <1>3
    <3> QED
      BY <3>1, <3>2
  <2>2. CASE i > 6
    <3>1. k1[i] = k2[i] /\ k1[i] \in Int
      BY <2>2, <1>2, ElementOfSeq
    <3> QED
      BY <3>1
  <2> QED
    BY <2>1, <2>2, <1>3
<1>5. AtMost(k1, k2)
  BY <1>2, <1>4 DEF AtMost
<1> QED
  BY <1>5 DEF k1, k2

(* The bounds of a plan that has them are ordered intervals of integers.            *)
LEMMA BoundsShape ==
    ASSUME NEW p \in BoundedPlan, p.bounds # {}
    PROVE  LET b == require_bounds(p)
           IN  /\ b.preference.low \in Int /\ b.preference.high \in Int /\ b.preference.low <= b.preference.high
               /\ b.risk.low \in Int /\ b.risk.high \in Int /\ b.risk.low <= b.risk.high
               /\ b.cost.low \in Int /\ b.cost.high \in Int /\ b.cost.low <= b.cost.high
               /\ b.coverage.low \in Int /\ b.coverage.high \in Int /\ b.coverage.low <= b.coverage.high
               /\ b.age.low \in Int /\ b.age.high \in Int /\ b.age.low <= b.age.high
<1>1. require_bounds(p) \in OrderingBounds
  BY DEF BoundedPlan, require_bounds
<1>2. PICK b \in OrderingBounds : b = require_bounds(p)
  BY <1>1
<1>3. /\ b.preference \in Interval /\ b.risk \in BaseInterval /\ b.cost \in BaseInterval
      /\ b.coverage \in Interval /\ b.age \in Interval
  BY DEF OrderingBounds
<1>4. \A i \in Interval : i.low \in Int /\ i.high \in Int /\ i.low <= i.high
  BY DEF Interval
<1>5. \A i \in BaseInterval : i.low \in Int /\ i.high \in Int /\ i.low <= i.high
  BY DEF BaseInterval
<1> QED
  BY <1>2, <1>3, <1>4, <1>5

(* Both envelope keys are keys the plan may have, and every key it may have lies    *)
(* between them.                                                                   *)
LEMMA EnvelopeIsTight ==
    ASSUME NEW p \in BoundedPlan, p.bounds # {}
    PROVE  /\ optimistic_envelope_key(p) \in Outcomes(p)
           /\ conservative_envelope_key(p) \in Outcomes(p)
           /\ \A k \in Outcomes(p) :
                 AtMost(optimistic_envelope_key(p), k) /\ AtMost(k, conservative_envelope_key(p))
<1> DEFINE b == require_bounds(p)
<1>0. /\ b.preference.low \in Int /\ b.preference.high \in Int /\ b.preference.low <= b.preference.high
      /\ b.risk.low \in Int /\ b.risk.high \in Int /\ b.risk.low <= b.risk.high
      /\ b.cost.low \in Int /\ b.cost.high \in Int /\ b.cost.low <= b.cost.high
      /\ b.coverage.low \in Int /\ b.coverage.high \in Int /\ b.coverage.low <= b.coverage.high
      /\ b.age.low \in Int /\ b.age.high \in Int /\ b.age.low <= b.age.high
  BY BoundsShape
<1> HIDE DEF b
<1>d. /\ optimistic_envelope_key(p) =
            OrderingKey(p, b.preference.high, b.risk.low, b.cost.low, b.coverage.high, b.age.low)
      /\ conservative_envelope_key(p) =
            OrderingKey(p, b.preference.low, b.risk.high, b.cost.high, b.coverage.low, b.age.high)
  BY DEF optimistic_envelope_key, conservative_envelope_key, b
<1>o. Outcomes(p) = {OrderingKey(p, v, r, c, m, g) :
            v \in b.preference.low .. b.preference.high, r \in b.risk.low .. b.risk.high,
            c \in b.cost.low .. b.cost.high, m \in b.coverage.low .. b.coverage.high,
            g \in b.age.low .. b.age.high}
  BY DEF Outcomes, b
<1>1. optimistic_envelope_key(p) \in Outcomes(p) /\ conservative_envelope_key(p) \in Outcomes(p)
  BY <1>0, <1>d, <1>o
<1>2. ASSUME NEW k \in Outcomes(p)
      PROVE  AtMost(optimistic_envelope_key(p), k) /\ AtMost(k, conservative_envelope_key(p))
  <2>1. PICK v \in b.preference.low .. b.preference.high, r \in b.risk.low .. b.risk.high,
             c \in b.cost.low .. b.cost.high, m \in b.coverage.low .. b.coverage.high,
             g \in b.age.low .. b.age.high : k = OrderingKey(p, v, r, c, m, g)
    BY <1>o
  <2>2. /\ v \in Int /\ b.preference.low <= v /\ v <= b.preference.high
        /\ r \in Int /\ b.risk.low <= r /\ r <= b.risk.high
        /\ c \in Int /\ b.cost.low <= c /\ c <= b.cost.high
        /\ m \in Int /\ b.coverage.low <= m /\ m <= b.coverage.high
        /\ g \in Int /\ b.age.low <= g /\ g <= b.age.high
    BY <1>0, <2>1
  <2>3. AtMost(OrderingKey(p, b.preference.high, b.risk.low, b.cost.low, b.coverage.high, b.age.low),
               OrderingKey(p, v, r, c, m, g))
    BY <1>0, <2>2, KeyMonotone, Zenon
  <2>4. AtMost(OrderingKey(p, v, r, c, m, g),
               OrderingKey(p, b.preference.low, b.risk.high, b.cost.high, b.coverage.low, b.age.high))
    BY <1>0, <2>2, KeyMonotone, Zenon
  <2> QED
    BY <1>d, <2>1, <2>3, <2>4, Zenon
<1> QED
  BY <1>1, <1>2

(* THE ENVELOPE TEST IS EXACT: the optimistic key of a competitor beats the         *)
(* conservative key of the selected plan exactly when some outcome of both, each    *)
(* within its own bounds, ranks the competitor first.                              *)
THEOREM EnvelopeTestIsExact ==
    ASSUME NEW s \in BoundedPlan, NEW c \in BoundedPlan, s.bounds # {}, c.bounds # {}
    PROVE  LexLess(optimistic_envelope_key(c), conservative_envelope_key(s)) <=> CanOutrank(c, s, Outcomes)
<1>1. ASSUME LexLess(optimistic_envelope_key(c), conservative_envelope_key(s))
      PROVE  \E kc \in Outcomes(c), ks \in Outcomes(s) : LexLess(kc, ks)
  BY <1>1, EnvelopeIsTight
<1>2. ASSUME NEW kc \in Outcomes(c), NEW ks \in Outcomes(s), LexLess(kc, ks)
      PROVE  LexLess(optimistic_envelope_key(c), conservative_envelope_key(s))
  <2> DEFINE o == optimistic_envelope_key(c)
  <2> DEFINE w == conservative_envelope_key(s)
  <2>1. AtMost(o, kc) /\ AtMost(ks, w)
    BY EnvelopeIsTight
  <2> HIDE DEF o, w
  <2>2. /\ kc \in Seq(Int) /\ o \in Seq(Int) /\ Len(o) = Len(kc) /\ \A i \in 1..Len(kc) : o[i] <= kc[i]
        /\ ks \in Seq(Int) /\ w \in Seq(Int) /\ Len(w) = Len(ks) /\ \A i \in 1..Len(ks) : ks[i] <= w[i]
    BY <2>1 DEF AtMost
  <2>3. LexLess(o, w)
    BY <1>2, <2>2, LexMonotone
  <2> QED
    BY <2>3 DEF o, w
<1>3. CanOutrank(c, s, Outcomes) <=> \E kc \in Outcomes(c), ks \in Outcomes(s) : LexLess(kc, ks)
  BY DEF CanOutrank
<1> QED
  BY <1>1, <1>2, <1>3

(* THE VERDICT IS EXACT: with every bound available, assess_rank_stability returns  *)
(* as the frontier exactly the competitors that can outrank the selected plan, and  *)
(* says STABLE exactly when none can.                                              *)
THEOREM VerdictIsExact ==
    ASSUME NEW s \in BoundedPlan, NEW C \in SUBSET BoundedPlan,
           s.bounds # {}, \A c \in C : c.bounds # {}
    PROVE  LET verdict == assess_rank_stability(s, C)
               danger  == {c \in C : CanOutrank(c, s, Outcomes)}
           IN  /\ verdict.frontier = danger
               /\ verdict.status = IF danger = {} THEN "STABLE" ELSE "UNSTABLE"
<1> DEFINE danger == {c \in C : CanOutrank(c, s, Outcomes)}
<1>1. OrderingFrontier(s, C) = danger
  <2>1. \A c \in C : LexLess(optimistic_envelope_key(c), conservative_envelope_key(s))
                       <=> CanOutrank(c, s, Outcomes)
    BY EnvelopeTestIsExact
  <2> QED
    BY <2>1 DEF OrderingFrontier
<1>2. {p \in C \cup {s} : p.bounds = {}} = {}
  OBVIOUS
<1> HIDE DEF danger
<1>3. assess_rank_stability(s, C) =
        [status |-> IF danger = {} THEN "STABLE" ELSE "UNSTABLE", frontier |-> danger, unavailable |-> {}]
  BY <1>1, <1>2 DEF assess_rank_stability
<1>4. /\ assess_rank_stability(s, C).frontier = danger
      /\ assess_rank_stability(s, C).status = IF danger = {} THEN "STABLE" ELSE "UNSTABLE"
  BY <1>3
<1> QED
  BY <1>4 DEF danger

-----------------------------------------------------------------------------
(* The counterfactual search (graph_v1.py search_private_fact_counterfactuals)     *)
(* looks at the sizes from one up, at all sets of a size, and stops at the first   *)
(* size with a new winner; what it names is a smallest set that changes the        *)
(* winner, whatever the evaluation it reruns computes.                             *)

(* A set of ids that is not empty has a least one.                                 *)
LEMMA LeastId ==
    ASSUME NEW S \in SUBSET Nat, S # {}
    PROVE  \E i \in S : \A j \in S : i <= j
<1>1. PICK n \in S : TRUE
  OBVIOUS
<1> DEFINE T == {k \in 1..(n + 1) : k - 1 \in S}
<1>2. n + 1 \in T /\ T \in SUBSET (1..(n + 1)) /\ n + 1 \in Nat
  BY <1>1
<1>3. PICK k \in T : \A j \in T : k <= j
  <2> HIDE DEF T
  <2> QED BY <1>2, LeastPosition
<1>4. ASSUME NEW j \in S PROVE k - 1 <= j
  <2>1. j \in Nat /\ n \in Nat /\ k \in Nat /\ k <= n + 1
    BY <1>1, <1>3
  <2>2. CASE j <= n
    BY <1>3, <2>1, <2>2
  <2>3. CASE ~(j <= n)
    BY <2>1, <2>3
  <2> QED BY <2>2, <2>3
<1> QED BY <1>3, <1>4

(* The order in which the winners of one size are sorted.                          *)
LEMMA EarlierTotal ==
    ASSUME NEW P \in SUBSET Nat, IsFiniteSet(P), NEW k,
           NEW S \in kSubset(k, P), NEW T \in kSubset(k, P), S # T
    PROVE  EarlierSet(S, T) \/ EarlierSet(T, S)
<1>1. /\ S \in SUBSET P /\ T \in SUBSET P
      /\ IsFiniteSet(S) /\ IsFiniteSet(T) /\ Cardinality(S) = Cardinality(T)
  BY FS_Subset DEF kSubset
<1>2. S \ T # {} /\ T \ S # {}
  <2>1. S \ T = {} => S \in SUBSET T
    OBVIOUS
  <2>2. T \ S = {} => T \in SUBSET S
    OBVIOUS
  <2> QED BY <1>1, <2>1, <2>2, FS_Subset
<1>3. S \ T \in SUBSET Nat /\ T \ S \in SUBSET Nat
  BY <1>1
<1>4. PICK a \in S \ T : \A j \in S \ T : a <= j
  BY <1>2, <1>3, LeastId
<1>5. PICK b \in T \ S : \A j \in T \ S : b <= j
  BY <1>2, <1>3, LeastId
<1>6. a \in Nat /\ b \in Nat /\ a # b
  BY <1>3, <1>4, <1>5
<1>7. CASE a < b
  <2>1. \A j \in T \ S : a < j
    BY <1>3, <1>5, <1>6, <1>7
  <2> QED BY <1>4, <2>1 DEF EarlierSet
<1>8. CASE b < a
  <2>1. \A j \in S \ T : b < j
    BY <1>3, <1>4, <1>6, <1>8
  <2> QED BY <1>5, <2>1 DEF EarlierSet
<1> QED BY <1>6, <1>7, <1>8

(* Coming earlier in the enumeration of the sets is transitive.                     *)
LEMMA EarlierTransitive ==
    ASSUME NEW S \in SUBSET Nat, NEW T \in SUBSET Nat, NEW U \in SUBSET Nat,
           EarlierSet(S, T), EarlierSet(T, U)
    PROVE  EarlierSet(S, U)
<1>1. PICK a \in S \ T : \A j \in T \ S : a < j
  BY DEF EarlierSet
<1>2. PICK b \in T \ U : \A j \in U \ T : b < j
  BY DEF EarlierSet
<1>3. a \in Nat /\ b \in Nat /\ a # b
  BY <1>1, <1>2
<1>4. CASE a < b
  <2>1. a \in S \ U
    BY <1>1, <1>2, <1>3, <1>4
  <2>2. \A j \in U \ S : a < j
    BY <1>1, <1>2, <1>3, <1>4
  <2> QED BY <2>1, <2>2 DEF EarlierSet
<1>5. CASE b < a
  <2>1. b \in S \ U
    BY <1>1, <1>2, <1>3, <1>5
  <2>2. \A j \in U \ S : b < j
    BY <1>1, <1>2, <1>3, <1>5
  <2> QED BY <2>1, <2>2 DEF EarlierSet
<1> QED BY <1>3, <1>4, <1>5

(* Sets of one size have an earliest one among them: the one with the fewest       *)
(* before it.                                                                      *)
LEMMA EarliestSet ==
    ASSUME NEW P \in SUBSET Nat, IsFiniteSet(P), NEW k, NEW W \in SUBSET kSubset(k, P), W # {}
    PROVE  \E S \in W : \A T \in W \ {S} : EarlierSet(S, T)
<1> DEFINE Before(S) == {T \in W : EarlierSet(T, S)}
           F == {Before(S) : S \in W}
           R == StrictSubsetOrdering(W)
<1>1. W \in SUBSET SUBSET P /\ P \in SUBSET Nat
  BY DEF kSubset
<1>2. IsFiniteSet(W)
  BY <1>1, FS_SUBSET, FS_Subset
<1>3. F \subseteq FiniteSubsetsOf(W) /\ F # {}
  <2>1. \A S \in W : Before(S) \in SUBSET W /\ IsFiniteSet(Before(S))
    BY <1>2, FS_Subset
  <2> QED BY <2>1 DEF FiniteSubsetsOf
<1>4. IsWellFoundedOn(R, FiniteSubsetsOf(W))
  BY FS_StrictSubsetOrderingWellFounded
<1>5. PICK x \in F : \A y \in F : ~(<<y, x>> \in R)
  <2> HIDE DEF F, R
  <2> QED BY <1>3, <1>4, WFMin
<1>6. PICK S \in W : x = Before(S)
  BY <1>5
<1>7. ASSUME NEW T \in W, EarlierSet(T, S) PROVE FALSE
  <2>1. Before(T) \subseteq Before(S)
    <3> SUFFICES ASSUME NEW U \in W, EarlierSet(U, T) PROVE EarlierSet(U, S)
      OBVIOUS
    <3>1. U \in SUBSET Nat /\ T \in SUBSET Nat /\ S \in SUBSET Nat
      BY <1>1
    <3> QED BY <1>7, <3>1, EarlierTransitive
  <2>2. T \in Before(S) /\ T \notin Before(T)
    BY <1>7 DEF EarlierSet
  <2>3. Before(T) \in SUBSET W /\ Before(S) \in SUBSET W /\ Before(T) # Before(S)
    BY <2>2
  <2>4. <<Before(T), Before(S)>> \in R
    BY <2>1, <2>3 DEF StrictSubsetOrdering
  <2> QED BY <1>5, <1>6, <2>4
<1>8. ASSUME NEW T \in W \ {S} PROVE EarlierSet(S, T)
  BY <1>7, EarlierTotal
<1> QED BY <1>8

(* The sets of private facts within the limit, and those that change the winner.   *)
Removals(in) == {S \in SUBSET PrivateIds(in) : S # {} /\ Cardinality(S) <= Limit}
Changing(in, e) ==
    {S \in Removals(in) : evaluate_decision_graph_once(Without(in, S)).selected # e.selected}

(* How many sizes the search tries: up to the limit, and to the number of facts.   *)
Tries(in) == IF Cardinality(PrivateIds(in)) < Limit THEN Cardinality(PrivateIds(in)) ELSE Limit

(* The winners of size i are the sets of that size that change the winner, and     *)
(* every such set has a size that is tried.                                        *)
LEMMA WinnersBySize ==
    ASSUME NEW in, IsFiniteSet(PrivateIds(in)), NEW e
    PROVE  /\ Tries(in) \in Nat
           /\ DOMAIN Ablations(in) = 1..Tries(in)
           /\ \A i \in 1..Tries(in) :
                /\ DOMAIN Ablations(in)[i] = kSubset(i, PrivateIds(in))
                /\ \A S \in kSubset(i, PrivateIds(in)) :
                     Ablations(in)[i][S] = evaluate_decision_graph_once(Without(in, S))
                /\ Winners(Ablations(in), e)[i] = {S \in Changing(in, e) : Cardinality(S) = i}
           /\ \A S \in Changing(in, e) : Cardinality(S) \in 1..Tries(in)
<1> DEFINE P == PrivateIds(in)
           m == Tries(in)
<1>1. Cardinality(P) \in Nat /\ Limit \in Nat
  BY FS_CardinalityType, LimitAssumption
<1>2. m \in Nat /\ m <= Limit /\ m <= Cardinality(P)
      /\ (m = Limit \/ m = Cardinality(P))
  BY <1>1 DEF Tries
<1>3. Cardinalities(in) = [i \in 1..m |-> i]
  BY DEF Cardinalities, Tries
<1>4. Ablations(in) = [i \in 1..m |-> [S \in kSubset(i, P) |->
                                         evaluate_decision_graph_once(Without(in, S))]]
  <2> HIDE DEF m, P
  <2> QED BY <1>3 DEF Ablations, P
<1>5. ASSUME NEW S \in SUBSET P
      PROVE  /\ Cardinality(S) \in Nat
             /\ S # {} /\ Cardinality(S) <= Limit <=> Cardinality(S) \in 1..m
  <2>1. /\ IsFiniteSet(S) /\ Cardinality(S) <= Cardinality(P) /\ Cardinality(S) \in Nat
        /\ Cardinality(S) = 0 <=> S = {}
    BY FS_Subset, FS_CardinalityType, FS_EmptySet
  <2> HIDE DEF m, P
  <2> QED BY <1>1, <1>2, <2>1
<1>6. ASSUME NEW i \in 1..m
      PROVE  Winners(Ablations(in), e)[i] = {S \in Changing(in, e) : Cardinality(S) = i}
  <2> DEFINE Sel(S) == evaluate_decision_graph_once(Without(in, S)).selected
  <2>1. Winners(Ablations(in), e)[i] = {S \in kSubset(i, P) : Sel(S) # e.selected}
    BY <1>4 DEF Winners
  <2>2. {S \in Changing(in, e) : Cardinality(S) = i}
          = {S \in Removals(in) : Sel(S) # e.selected /\ Cardinality(S) = i}
    BY DEF Changing
  <2>3. \A S : S \in kSubset(i, P) <=> S \in Removals(in) /\ Cardinality(S) = i
    BY <1>5, <1>6 DEF kSubset, Removals
  <2> HIDE DEF Sel, m, P
  <2> QED BY <2>1, <2>2, <2>3
<1>7. \A S \in Changing(in, e) : Cardinality(S) \in 1..m
  BY <1>5 DEF Changing, Removals
<1> HIDE DEF m, P
<1> QED BY <1>2, <1>4, <1>6, <1>7 DEF m, P

(* What the search returns is one of the smallest changing sets, with all others   *)
(* of that size; it returns none only when there is no changing set.               *)
LEMMA SearchIsMinimal ==
    ASSUME NEW in, IsFiniteSet(PrivateIds(in)), PrivateIds(in) \in SUBSET Nat, NEW e, NEW c,
           c = search_private_fact_counterfactuals(in, e), c.outcome # "REFUSED"
    PROVE  IF c.outcome = "WINNER_CHANGED"
           THEN /\ c.others \cup {c.removed} =
                     {S \in Changing(in, e) :
                        \A T \in Changing(in, e) : Cardinality(S) <= Cardinality(T)}
                /\ c.after # e.selected
                /\ c.after = evaluate_decision_graph_once(Without(in, c.removed)).selected
           ELSE Changing(in, e) = {}
<1> DEFINE m == Tries(in)
           outcome == Ablations(in)
           winners == Winners(outcome, e)
           hits == {i \in DOMAIN outcome : winners[i] # {}}
           stop == CHOOSE i \in hits : \A j \in hits : i <= j
           first == CHOOSE S \in winners[stop] : \A T \in winners[stop] \ {S} : EarlierSet(S, T)
<1>1. /\ m \in Nat /\ DOMAIN outcome = 1..m
      /\ \A i \in 1..m :
           /\ winners[i] = {S \in Changing(in, e) : Cardinality(S) = i}
           /\ \A S \in kSubset(i, PrivateIds(in)) :
                outcome[i][S] = evaluate_decision_graph_once(Without(in, S))
      /\ \A S \in Changing(in, e) : Cardinality(S) \in 1..m
  BY WinnersBySize
<1>2. hits = {i \in 1..m : \E S \in Changing(in, e) : Cardinality(S) = i}
  BY <1>1
<1>3. c = Counterfactual(outcome, winners)
  BY DEF search_private_fact_counterfactuals, Searched
<1>4. /\ hits = {} => c.outcome # "WINNER_CHANGED"
      /\ hits # {} => c = [outcome |-> "WINNER_CHANGED", removed |-> first,
                           others |-> winners[stop] \ {first},
                           after |-> outcome[stop][first].selected]
  <2> DEFINE tried == IF hits = {} THEN DOMAIN outcome ELSE {i \in DOMAIN outcome : i <= stop}
             raised == \E i \in tried : \E S \in DOMAIN outcome[i] : Raised(outcome[i][S])
  <2>1. c = IF raised
            THEN [outcome |-> "REFUSED", removed |-> {}, others |-> {}, after |-> {}]
            ELSE IF hits = {}
            THEN [outcome |-> "NO_SMALL_COUNTERFACTUAL_FOUND", removed |-> {}, others |-> {},
                  after |-> {}]
            ELSE [outcome |-> "WINNER_CHANGED", removed |-> first,
                  others |-> winners[stop] \ {first}, after |-> outcome[stop][first].selected]
    <3> HIDE DEF outcome, winners
    <3> QED BY <1>3, Zenon DEF Counterfactual
  <2> HIDE DEF outcome, winners, hits, stop, first, tried, raised
  <2> QED BY <2>1
<1>5. CASE hits = {}
  BY <1>1, <1>2, <1>4, <1>5
<1>6. CASE hits # {}
  <2>1. stop \in hits /\ \A j \in hits : stop <= j
    <3>1. \E i \in hits : \A j \in hits : i <= j
      <4> HIDE DEF hits, m
      <4>1. hits \in SUBSET (1..m)
        BY <1>2
      <4> QED BY <1>1, <1>6, <4>1, LeastPosition
    <3> HIDE DEF hits
    <3> QED BY <3>1
  <2>2. stop \in 1..m /\ winners[stop] # {}
    BY <1>1, <2>1
  <2>3. winners[stop] \in SUBSET kSubset(stop, PrivateIds(in))
    <3> HIDE DEF winners, m, stop
    <3> QED BY <1>1, <2>2 DEF kSubset, Changing, Removals
  <2>4. first \in winners[stop]
    <3> HIDE DEF stop, winners
    <3>1. \E S \in winners[stop] : \A T \in winners[stop] \ {S} : EarlierSet(S, T)
      BY <2>2, <2>3, EarliestSet
    <3> QED BY <3>1
  <2>5. winners[stop] = {S \in Changing(in, e) :
                           \A T \in Changing(in, e) : Cardinality(S) <= Cardinality(T)}
    <3> HIDE DEF winners, m, stop, first
    <3>1. \A T \in Changing(in, e) : Cardinality(T) \in Nat /\ stop <= Cardinality(T)
      BY <1>1, <1>2, <2>1
    <3>2. stop \in Nat
      BY <2>2
    <3>3. first \in Changing(in, e) /\ Cardinality(first) = stop
      BY <1>1, <2>2, <2>4
    <3> QED BY <1>1, <2>2, <3>1, <3>2, <3>3
  <2>6. first \in Changing(in, e) /\
        outcome[stop][first] = evaluate_decision_graph_once(Without(in, first))
    <3> HIDE DEF winners, m, stop, first, outcome
    <3> QED BY <1>1, <2>2, <2>3, <2>4
  <2>7. outcome[stop][first].selected # e.selected
    BY <2>6 DEF Changing
  <2> HIDE DEF winners, m, stop, first, outcome, hits
  <2> QED BY <1>4, <1>6, <2>4, <2>5, <2>6, <2>7
<1> QED BY <1>5, <1>6

(* The ids of the private facts of an input.                                       *)
LEMMA PrivateIdsFinite ==
    ASSUME NEW in \in Inputs
    PROVE  IsFiniteSet(PrivateIds(in)) /\ PrivateIds(in) \in SUBSET Nat
<1> DEFINE A == {f \in active_buyer_facts(in) : f.private}
           g == [f \in A |-> f.id]
<1>1. IsFiniteSet(A) /\ \A f \in A : f.id \in Nat
  BY InputsAssumption, FS_Subset DEF active_buyer_facts, FrozenFacts
<1>2. g \in Surjection(A, PrivateIds(in))
  BY DEF Surjection, PrivateIds
<1> HIDE DEF g
<1>3. IsFiniteSet(PrivateIds(in))
  BY <1>1, <1>2, FS_Surjection
<1> QED BY <1>1, <1>3 DEF PrivateIds

(* What the call holds while and after it searches.                                *)
SearchInv ==
    /\ input \in Inputs
    /\ phase \in {"COUNTERFACTUAL", "LEDGER"} =>
          generic = evaluate_decision_graph_once(Without(input, PrivateIds(input)))
    /\ phase = "LEDGER" => /\ counter = search_private_fact_counterfactuals(input, base)
                           /\ counter.outcome # "REFUSED"

(* Every step of the engine keeps the invariant of the search.                      *)
LEMMA SearchStep == SearchInv /\ [Next]_vars => SearchInv'
<1> SUFFICES ASSUME SearchInv, [Next]_vars PROVE SearchInv'
  OBVIOUS
<1> USE DEF SearchInv
<1>1. CASE evaluate_base
  BY <1>1 DEF evaluate_base
<1>2. CASE evaluate_generic
  BY <1>2 DEF evaluate_generic
<1>3. CASE search_counterfactual
  BY <1>3 DEF search_counterfactual
<1>4. CASE write_ledger
  BY <1>4 DEF write_ledger
<1>5. CASE write_rows
  BY <1>5 DEF write_rows
<1>6. CASE UNCHANGED vars
  BY <1>6 DEF vars
<1> QED BY <1>1, <1>2, <1>3, <1>4, <1>5, <1>6 DEF Next

(* The counterfactual names a smallest set of private facts whose removal changes  *)
(* the selected plan, with all others of its size, or there is none within the     *)
(* limit: for every input, any number of facts and any limit the code admits.      *)
THEOREM CounterfactualStaysMinimal == Spec => []CounterfactualIsMinimal
<1>1. Init => SearchInv
  BY DEF Init, SearchInv
<1>2. SearchInv => CounterfactualIsMinimal
  <2> SUFFICES ASSUME SearchInv, phase = "LEDGER" PROVE CounterfactualIsMinimal
    BY DEF CounterfactualIsMinimal
  <2>1. /\ input \in Inputs /\ counter = search_private_fact_counterfactuals(input, base)
        /\ counter.outcome # "REFUSED"
        /\ generic = evaluate_decision_graph_once(Without(input, PrivateIds(input)))
    BY DEF SearchInv
  <2>2. IsFiniteSet(PrivateIds(input)) /\ PrivateIds(input) \in SUBSET Nat
    BY <2>1, PrivateIdsFinite
  <2>3. IF counter.outcome = "WINNER_CHANGED"
        THEN /\ counter.others \cup {counter.removed} =
                  {S \in Changing(input, base) :
                     \A T \in Changing(input, base) : Cardinality(S) <= Cardinality(T)}
             /\ counter.after # base.selected
             /\ counter.after =
                  evaluate_decision_graph_once(Without(input, counter.removed)).selected
        ELSE Changing(input, base) = {}
    BY <2>1, <2>2, SearchIsMinimal
  <2> QED BY <2>1, <2>3 DEF CounterfactualIsMinimal, Changing, Removals
<1> QED BY <1>1, <1>2, SearchStep, PTL DEF Spec

-----------------------------------------------------------------------------------
(* A walk of a fixed number of steps, which a recursive function describes, exists   *)
(* and stays where its steps stay: following the aliases of a name ends in a name.  *)

(* What holds at 0 and is handed on from each number to the next holds up to N.    *)
LEMMA HandedOn ==
    ASSUME NEW N \in Nat, NEW G, 0 \in G, \A k \in 1..N : k - 1 \in G => k \in G
    PROVE  0..N \subseteq G
<1> DEFINE B == {k \in 0..N : k \notin G}
<1>1. ASSUME B # {} PROVE FALSE
  <2>1. B \in SUBSET Nat
    OBVIOUS
  <2>2. PICK m \in B : \A j \in B : m <= j
    <3> HIDE DEF B
    <3> QED BY <1>1, <2>1, LeastId
  <2>3. m \in 1..N /\ m - 1 \in 0..N /\ m - 1 \notin B
    BY <2>2
  <2> QED BY <2>2, <2>3
<1> QED BY <1>1

\* A walk of N steps that starts at a and stays in S.
Walks(w, N, S, a, step) ==
    w \in [0..N -> S] /\ w[0] = a /\ \A k \in 1..N : w[k] = step[w[k - 1]]

(* A walk of N steps exists and stays where its steps lead.                        *)
LEMMA WalkExists ==
    ASSUME NEW N \in Nat, NEW S, NEW a \in S, NEW step \in [S -> S]
    PROVE  \E w : Walks(w, N, S, a, step)
<1> DEFINE Walk(n) == \E w \in [0..n -> S] : w = [k \in 0..n |-> IF k = 0 THEN a ELSE step[w[k - 1]]]
           G == {n \in 0..N : Walk(n)}
<1>1. Walk(0)
  <2> DEFINE w == [k \in 0..0 |-> a]
  <2>1. w \in [0..0 -> S] /\ w = [k \in 0..0 |-> IF k = 0 THEN a ELSE step[w[k - 1]]]
    OBVIOUS
  <2> QED BY <2>1
<1>2. ASSUME NEW n \in 1..N, Walk(n - 1) PROVE Walk(n)
  <2>1. PICK w \in [0..(n - 1) -> S] : w = [k \in 0..(n - 1) |-> IF k = 0 THEN a ELSE step[w[k - 1]]]
    BY <1>2
  <2> DEFINE v == [k \in 0..n |-> IF k = n THEN step[w[n - 1]] ELSE w[k]]
  <2>2. n - 1 \in 0..(n - 1) /\ w[n - 1] \in S /\ \A k \in 0..n : k # n => k \in 0..(n - 1)
    OBVIOUS
  <2>3. v \in [0..n -> S]
    BY <2>2
  <2>4. \A k \in 0..n : v[k] = IF k = 0 THEN a ELSE step[v[k - 1]]
    <3> SUFFICES ASSUME NEW k \in 0..n PROVE v[k] = IF k = 0 THEN a ELSE step[v[k - 1]]
      OBVIOUS
    <3>1. CASE k = n
      <4>1. v[k - 1] = w[n - 1] /\ k # 0
        BY <2>2, <3>1
      <4> QED BY <3>1, <4>1
    <3>2. CASE k # n /\ k # 0
      <4>1. k \in 0..(n - 1) /\ k - 1 \in 0..n /\ k - 1 # n
        BY <3>2
      <4>2. v[k] = w[k] /\ v[k - 1] = w[k - 1]
        BY <3>2, <4>1
      <4>3. w[k] = step[w[k - 1]]
        BY <2>1, <3>2, <4>1
      <4> QED BY <3>2, <4>2, <4>3
    <3>3. CASE k = 0
      <4>1. v[0] = w[0] /\ w[0] = a
        BY <2>1, <3>3
      <4> QED BY <3>3, <4>1
    <3> QED BY <3>1, <3>2, <3>3
  <2>5. v = [k \in 0..n |-> IF k = 0 THEN a ELSE step[v[k - 1]]]
    BY <2>3, <2>4
  <2> HIDE DEF v
  <2> QED BY <2>3, <2>5
<1>3. 0 \in G /\ \A k \in 1..N : k - 1 \in G => k \in G
  <2> HIDE DEF Walk
  <2> QED BY <1>1, <1>2
<1>4. 0..N \subseteq G
  <2> HIDE DEF G
  <2> QED BY <1>3, HandedOn
<1>5. PICK w \in [0..N -> S] : w = [k \in 0..N |-> IF k = 0 THEN a ELSE step[w[k - 1]]]
  <2>1. Walk(N)
    <3> HIDE DEF Walk
    <3> QED BY <1>4
  <2> QED BY <2>1
<1>6. w[0] = a /\ \A k \in 1..N : w[k] = step[w[k - 1]]
  BY <1>5
<1> QED BY <1>6 DEF Walks

(* Following the aliases from a name ends in a name.                               *)
LEMMA CanonicalIsName ==
    ASSUME NEW in, FrozenRecords(in), NEW n \in Nat
    PROVE  canonical(in, n) \in Nat
<1> DEFINE A == in.aliases
           N == Cardinality(DOMAIN A)
           step == [x \in Nat |-> IF x \in DOMAIN A THEN A[x] ELSE x]
           Is(w) == w = [k \in 0..N |-> IF k = 0 THEN n
                                        ELSE IF w[k - 1] \in DOMAIN A THEN A[w[k - 1]] ELSE w[k - 1]]
<1>1. N \in Nat
  BY FS_CardinalityType DEF FrozenRecords
<1>a. \A x \in DOMAIN A : A[x] \in Nat
  BY DEF FrozenRecords
<1>b. step \in [Nat -> Nat]
  BY <1>a
<1> HIDE DEF N
<1>2. \E w : Is(w)
  <2>1. PICK w : Walks(w, N, Nat, n, step)
    <3> HIDE DEF step
    <3> QED BY <1>1, <1>b, WalkExists
  <2>2. w \in [0..N -> Nat] /\ w[0] = n /\ \A k \in 1..N : w[k] = step[w[k - 1]]
    BY <2>1 DEF Walks
  <2>4. \A k \in 0..N : w[k] = IF k = 0 THEN n
                               ELSE IF w[k - 1] \in DOMAIN A THEN A[w[k - 1]] ELSE w[k - 1]
    <3> SUFFICES ASSUME NEW k \in 1..N
                 PROVE  w[k] = IF w[k - 1] \in DOMAIN A THEN A[w[k - 1]] ELSE w[k - 1]
      BY <1>1, <2>2
    <3>1. w[k - 1] \in Nat
      BY <1>1, <2>2
    <3> QED BY <2>2, <3>1
  <2>3. Is(w)
    BY <2>2, <2>4
  <2> QED BY <2>3
<1> DEFINE name == CHOOSE w : Is(w)
<1>3. Is(name)
  <2> HIDE DEF Is
  <2> QED BY <1>2
<1>4. canonical(in, n) = name[N]
  BY DEF canonical, N
<1> HIDE DEF name
<1> DEFINE G == {k \in 0..N : name[k] \in Nat}
<1>5. 0 \in G /\ \A k \in 1..N : k - 1 \in G => k \in G
  BY <1>1, <1>a, <1>3
<1>6. N \in G
  <2> HIDE DEF G
  <2>1. 0..N \subseteq G
    BY <1>1, <1>5, HandedOn
  <2> QED BY <1>1, <2>1
<1> QED BY <1>4, <1>6

-----------------------------------------------------------------------------------
(* The frozen records of an input are finitely many and well formed, and so are     *)
(* the representatives that recall and deduplication leave of them.                 *)

(* The image of a finite set is finite.                                            *)
LEMMA ImageFinite ==
    ASSUME NEW S, IsFiniteSet(S), NEW g
    PROVE  IsFiniteSet({g[x] : x \in S})
<1> DEFINE f == [x \in S |-> g[x]]
<1>1. f \in Surjection(S, {g[x] : x \in S})
  BY DEF Surjection
<1> HIDE DEF f
<1> QED BY <1>1, FS_Surjection

\* What the rest of the pipeline relies on of a representative.
RepTyped(r) ==
    /\ r.product \in Nat
    /\ IsFiniteSet(r.requires) /\ r.requires \subseteq Nat
    /\ FiniteFacts(r.facts) /\ \A f \in r.facts : f.component = r.product

(* Merging the facts of a group keeps them finite and files them under the          *)
(* component asked for.                                                             *)
LEMMA MergedFinite ==
    ASSUME NEW group, IsFiniteSet(group), \A r \in group : FiniteFacts(r.facts), NEW n
    PROVE  FiniteFacts(merge_facts(group, n)) /\ \A f \in merge_facts(group, n) : f.component = n
<1> DEFINE facts == UNION {r.facts : r \in group}
           alike(f) == {g \in facts : g.field = f.field /\ g.value = f.value}
           g == [f \in facts |-> [field |-> f.field, value |-> f.value, component |-> n,
                                  ev |-> UNION {x.ev : x \in alike(f)}]]
<1>1. IsFiniteSet(facts)
  <2> DEFINE h == [r \in group |-> r.facts]
  <2>1. IsFiniteSet({h[r] : r \in group})
    <3> HIDE DEF h
    <3> QED BY ImageFinite
  <2>2. {h[r] : r \in group} = {r.facts : r \in group}
    OBVIOUS
  <2>3. IsFiniteSet({r.facts : r \in group})
    BY <2>1, <2>2
  <2>4. \A T \in {r.facts : r \in group} : IsFiniteSet(T)
    BY DEF FiniteFacts
  <2> QED BY <2>3, <2>4, FS_UNION
<1>2. \A f \in facts : IsFiniteSet(f.ev)
  BY DEF FiniteFacts
<1>3. merge_facts(group, n) = {g[f] : f \in facts}
  BY DEF merge_facts
<1>4. IsFiniteSet(merge_facts(group, n))
  <2> HIDE DEF g, facts
  <2> QED BY <1>1, <1>3, ImageFinite
<1>5. ASSUME NEW S \in SUBSET facts PROVE IsFiniteSet(UNION {x.ev : x \in S})
  <2> DEFINE h == [x \in S |-> x.ev]
  <2>0. IsFiniteSet(S)
    <3> HIDE DEF facts
    <3> QED BY <1>1, FS_Subset
  <2>1. IsFiniteSet({h[r] : r \in S})
    <3> HIDE DEF h, facts
    <3> QED BY <2>0, ImageFinite
  <2>2. {h[x] : x \in S} = {x.ev : x \in S}
    OBVIOUS
  <2>3. IsFiniteSet({x.ev : x \in S}) /\ \A T \in {x.ev : x \in S} : IsFiniteSet(T)
    <3> HIDE DEF h, facts
    <3> QED BY <2>1, <2>2, <1>2
  <2> HIDE DEF facts
  <2> QED BY <2>3, FS_UNION
<1>6. ASSUME NEW f \in facts PROVE g[f].component = n /\ IsFiniteSet(g[f].ev)
  <2>1. alike(f) \in SUBSET facts
    OBVIOUS
  <2>2. g[f].ev = UNION {x.ev : x \in alike(f)} /\ g[f].component = n
    OBVIOUS
  <2> HIDE DEF g, alike, facts
  <2> QED BY <2>1, <2>2, <1>5
<1> HIDE DEF g, facts
<1> QED BY <1>3, <1>4, <1>6 DEF FiniteFacts

(* What FrozenRecords says of one candidate.                                        *)
LEMMA RecordsShape ==
    ASSUME NEW in, FrozenRecords(in), NEW r \in in.candidates
    PROVE  /\ r.id \in Nat /\ r.version \in Nat /\ r.product \in Nat /\ r.seller \in Nat
           /\ r.edition \in Nat /\ r.region \in Nat /\ r.offer \in Nat
           /\ IsFiniteSet(r.requires) /\ r.requires \subseteq Nat /\ FiniteFacts(r.facts)
  BY DEF FrozenRecords

(* The key a record is grouped by is a tuple of four numbers that starts with       *)
(* its product.                                                                     *)
LEMMA KeyShapes ==
    ASSUME NEW in, FrozenRecords(in), NEW r \in in.candidates
    PROVE  /\ identity_key(in, r) \in Seq(Nat) /\ Len(identity_key(in, r)) = 4
           /\ identity_key(in, r)[1] = canonical(in, r.product) /\ identity_key(in, r)[1] \in Nat
<1>1. /\ canonical(in, r.product) \in Nat /\ canonical(in, r.seller) \in Nat
      /\ canonical(in, r.edition) \in Nat /\ canonical(in, r.region) \in Nat
  BY RecordsShape, CanonicalIsName
<1> QED BY <1>1 DEF identity_key

(* The recalled records are among the candidates, hence finitely many.              *)
LEMMA RecalledFinite ==
    ASSUME NEW in, FrozenRecords(in)
    PROVE  IsFiniteSet(recalled(in)) /\ recalled(in) \subseteq in.candidates
<1>1. recalled(in) \subseteq in.candidates /\ IsFiniteSet(in.candidates)
  BY DEF recalled, FrozenRecords
<1> QED BY <1>1, FS_Subset

(* The representatives are finitely many and well formed.                           *)
LEMMA RepsShape ==
    ASSUME NEW in, FrozenRecords(in)
    PROVE  /\ IsFiniteSet(recall_and_deduplicate(in))
           /\ \A r \in recall_and_deduplicate(in) : RepTyped(r)
<1> DEFINE R == recalled(in)
           keys == {identity_key(in, r) : r \in R}
<1>1. IsFiniteSet(R) /\ R \subseteq in.candidates
  BY RecalledFinite
<1>2. IsFiniteSet(keys)
  <2> DEFINE g == [r \in R |-> identity_key(in, r)]
  <2>1. keys = {g[r] : r \in R}
    OBVIOUS
  <2> HIDE DEF g, R, keys
  <2> QED BY <1>1, <2>1, ImageFinite
<1>3. IsFiniteSet(recall_and_deduplicate(in))
  <2> DEFINE g == [k \in keys |-> representative(in, k)]
  <2>1. recall_and_deduplicate(in) = {g[k] : k \in keys}
    BY DEF recall_and_deduplicate
  <2> HIDE DEF g, keys
  <2> QED BY <1>2, <2>1, ImageFinite
<1>4. ASSUME NEW r \in R PROVE RepTyped(representative(in, identity_key(in, r)))
  <2> DEFINE key == identity_key(in, r)
             group == {s \in R : identity_key(in, s) = key}
             rep == representative(in, key)
  <2>1. group \subseteq in.candidates /\ IsFiniteSet(group)
    <3>1. group \in SUBSET R
      OBVIOUS
    <3> HIDE DEF group
    <3> QED BY <1>1, <3>1, FS_Subset
  <2>2. key[1] \in Nat
    <3> HIDE DEF key
    <3> QED BY <1>1, KeyShapes DEF key
  <2>3. /\ rep.product = key[1] /\ rep.facts = merge_facts(group, key[1])
        /\ rep.requires = UNION {s.requires : s \in group}
    BY DEF representative
  <2>4. \A s \in group : FiniteFacts(s.facts) /\ IsFiniteSet(s.requires) /\ s.requires \subseteq Nat
    <3> HIDE DEF group
    <3> QED BY <2>1, RecordsShape
  <2> HIDE DEF key, group, rep
  <2>5. FiniteFacts(rep.facts) /\ \A f \in rep.facts : f.component = rep.product
    BY <2>1, <2>3, <2>4, MergedFinite
  <2>6. IsFiniteSet(UNION {s.requires : s \in group})
    <3> DEFINE h == [s \in group |-> s.requires]
    <3>2. {h[s] : s \in group} = {s.requires : s \in group}
      OBVIOUS
    <3> HIDE DEF h
    <3>1. IsFiniteSet({h[s] : s \in group})
      BY <2>1, ImageFinite
    <3>3. \A T \in {s.requires : s \in group} : IsFiniteSet(T)
      BY <2>4
    <3> QED BY <3>1, <3>2, <3>3, FS_UNION
  <2>7. RepTyped(rep)
    BY <2>2, <2>3, <2>4, <2>5, <2>6 DEF RepTyped
  <2> QED BY <2>7 DEF rep, key
<1> QED BY <1>3, <1>4 DEF recall_and_deduplicate

-----------------------------------------------------------------------------------
(* The walk of the dependency closure (graph_v1.py _pack_materials): the            *)
(* finished order holds exactly the products that follow from the root, each        *)
(* after those it requires unless it lies on a cycle, and the issue codes say       *)
(* what was missing, ambiguous or cyclic. The invariant WalkInv says what the       *)
(* stack, the order and the requirements already looked at have in common; the      *)
(* walk ends because every step looks at a new requirement or ends a product.       *)

(* What a walk can lead to: the successors, what follows from what it leads to, and  *)
(* nothing outside a closed set.                                                   *)
LEMMA FollowsNext ==
    ASSUME NEW next, \A n \in DOMAIN next : next[n] \subseteq DOMAIN next, NEW m \in DOMAIN next
    PROVE  next[m] \subseteq Follows(next, m)
  BY DEF Follows

(* What a node of a graph requires, its ancestors require too.                      *)
LEMMA FollowsOn ==
    ASSUME NEW next, \A n \in DOMAIN next : next[n] \subseteq DOMAIN next, NEW m \in DOMAIN next,
           NEW k \in Follows(next, m)
    PROVE  next[k] \subseteq Follows(next, m)
<1>1. k \in DOMAIN next
  BY DEF Follows
<1> QED BY <1>1 DEF Follows

(* A set closed under the edges holds everything that follows from the nodes it     *)
(* starts with.                                                                     *)
LEMMA FollowsInside ==
    ASSUME NEW next, NEW m, NEW C \in SUBSET DOMAIN next, next[m] \subseteq C, \A k \in C : next[k] \subseteq C
    PROVE  Follows(next, m) \subseteq C
  BY DEF Follows

\* One element stands before another in a sequence.
Precedes(s, a, b) == \E i, j \in 1..Len(s) : i < j /\ s[i] = a /\ s[j] = b
Distinct(s) == \A i, j \in 1..Len(s) : s[i] = s[j] => i = j

(* Appending to a sequence keeps its elements in place and adds one.                *)
LEMMA AppendRange ==
    ASSUME NEW P, NEW s \in Seq(P), NEW x \in P
    PROVE  /\ Append(s, x) \in Seq(P) /\ Len(Append(s, x)) = Len(s) + 1 /\ Len(s) \in Nat
           /\ \A i \in 1..Len(s) : Append(s, x)[i] = s[i]
           /\ Append(s, x)[Len(s) + 1] = x
           /\ Range(Append(s, x)) = Range(s) \cup {x}
<1>1. /\ Append(s, x) \in Seq(P) /\ Len(Append(s, x)) = Len(s) + 1 /\ Len(s) \in Nat
      /\ \A i \in 1..Len(s) : Append(s, x)[i] = s[i]
      /\ Append(s, x)[Len(s) + 1] = x
  BY AppendProperties, LenProperties
<1>2. Range(Append(s, x)) = {Append(s, x)[i] : i \in 1..(Len(s) + 1)} /\ Range(s) = {s[i] : i \in 1..Len(s)}
  BY <1>1, RangeEquality
<1>3. \A i \in 1..(Len(s) + 1) : i \in 1..Len(s) \/ i = Len(s) + 1
  BY <1>1
<1>4. \A i \in 1..Len(s) : i \in 1..(Len(s) + 1)
  BY <1>1
<1>5. Len(s) + 1 \in 1..(Len(s) + 1)
  BY <1>1
<1> QED BY <1>1, <1>2, <1>3, <1>4, <1>5

(* A sequence without repetitions stays so when a new element is appended.          *)
LEMMA AppendDistinct ==
    ASSUME NEW P, NEW s \in Seq(P), NEW x \in P, Distinct(s), x \notin Range(s)
    PROVE  Distinct(Append(s, x))
<1>1. \A i \in 1..(Len(s) + 1) : i \in 1..Len(s) \/ i = Len(s) + 1
  BY LenProperties
<1>2. \A i \in 1..Len(s) : s[i] # x
  BY RangeEquality
<1> QED BY <1>1, <1>2, AppendRange DEF Distinct

(* Appending keeps the order of the elements and puts the new one last.             *)
LEMMA AppendPrecedes ==
    ASSUME NEW P, NEW s \in Seq(P), NEW x \in P
    PROVE  /\ \A a, b : Precedes(s, a, b) => Precedes(Append(s, x), a, b)
           /\ \A a \in Range(s) : Precedes(Append(s, x), a, x)
<1>1. \A i \in 1..Len(s) : i \in 1..Len(Append(s, x)) /\ i < Len(s) + 1
  BY AppendRange
<1>2. Len(s) + 1 \in 1..Len(Append(s, x))
  BY AppendRange
<1>3. Range(s) = {s[i] : i \in 1..Len(s)}
  BY RangeEquality
<1> QED BY <1>1, <1>2, <1>3, AppendRange DEF Precedes

(* A sequence is its front and its last element.                                    *)
LEMMA FrontRange ==
    ASSUME NEW P, NEW s \in Seq(P), s # <<>>
    PROVE  /\ Front(s) \in Seq(P) /\ Len(Front(s)) = Len(s) - 1 /\ Len(s) \in Nat /\ Len(s) >= 1
           /\ \A i \in 1..(Len(s) - 1) : Front(s)[i] = s[i]
           /\ Last(s) \in P /\ Last(s) = s[Len(s)]
           /\ Range(s) = Range(Front(s)) \cup {Last(s)}
           /\ Distinct(s) => Distinct(Front(s)) /\ Last(s) \notin Range(Front(s))
<1>1. Len(s) \in Nat /\ Len(s) >= 1
  BY EmptySeq, LenProperties
<1>2. \A i \in 1..(Len(s) - 1) : s[i] \in P
  BY <1>1, ElementOfSeq
<1>3. /\ Front(s) \in Seq(P) /\ Len(Front(s)) = Len(s) - 1
      /\ \A i \in 1..(Len(s) - 1) : Front(s)[i] = s[i]
  <2>1. /\ SubSeq(s, 1, Len(s) - 1) \in Seq(P)
        /\ Len(SubSeq(s, 1, Len(s) - 1)) = IF 1 <= Len(s) - 1 THEN Len(s) - 1 - 1 + 1 ELSE 0
        /\ \A i \in 1..(Len(s) - 1 - 1 + 1) : SubSeq(s, 1, Len(s) - 1)[i] = s[1 + i - 1]
    <3>1. 1 \in Int /\ Len(s) - 1 \in Int
      BY <1>1
    <3> QED BY <1>2, <3>1, SubSeqProperties
  <2> DEFINE f == SubSeq(s, 1, Len(s) - 1)
  <2>2. Front(s) = f
    BY DEF Front
  <2> HIDE DEF f
  <2>3. Len(f) = Len(s) - 1
    <3>1. PICK n \in Nat : n = Len(s)
      BY <1>1
    <3>2. Len(f) = IF 1 <= n - 1 THEN n - 1 - 1 + 1 ELSE 0
      BY <2>1, <3>1 DEF f
    <3>3. n >= 1
      BY <1>1, <3>1
    <3>4. (IF 1 <= n - 1 THEN n - 1 - 1 + 1 ELSE 0) = n - 1
      BY <3>3
    <3> QED BY <3>1, <3>2, <3>4
  <2>4. \A i \in 1..(Len(s) - 1) : f[i] = s[i]
    <3> SUFFICES ASSUME NEW i \in 1..(Len(s) - 1) PROVE f[i] = s[i]
      OBVIOUS
    <3>1. i \in 1..(Len(s) - 1 - 1 + 1) /\ 1 + i - 1 = i
      BY <1>1
    <3> QED BY <2>1, <3>1 DEF f
  <2>5. f \in Seq(P)
    BY <2>1 DEF f
  <2> QED BY <2>2, <2>3, <2>4, <2>5
<1>4. Last(s) = s[Len(s)] /\ Last(s) \in P
  BY <1>1, ElementOfSeq DEF Last
<1>5. Range(s) = {s[i] : i \in 1..Len(s)} /\ Range(Front(s)) = {Front(s)[i] : i \in 1..(Len(s) - 1)}
  BY <1>3, RangeEquality
<1>6. \A i \in 1..Len(s) : i \in 1..(Len(s) - 1) \/ i = Len(s)
  BY <1>1
<1>7. (\A i \in 1..(Len(s) - 1) : i \in 1..Len(s) /\ i # Len(s)) /\ Len(s) \in 1..Len(s)
  BY <1>1
<1>8. Range(s) = Range(Front(s)) \cup {Last(s)}
  BY <1>3, <1>4, <1>5, <1>6, <1>7
<1>9. Distinct(s) => Distinct(Front(s)) /\ Last(s) \notin Range(Front(s))
  BY <1>3, <1>4, <1>5, <1>7 DEF Distinct
<1> QED BY <1>1, <1>3, <1>4, <1>8, <1>9

(* A sequence without repetition is as long as its range is large.                 *)
LEMMA DistinctLength ==
    ASSUME NEW P, NEW s \in Seq(P), Distinct(s)
    PROVE  IsFiniteSet(Range(s)) /\ Cardinality(Range(s)) = Len(s)
<1>1. Len(s) \in Nat /\ s \in [1..Len(s) -> P] /\ Range(s) = {s[i] : i \in 1..Len(s)}
  BY LenProperties, RangeEquality
<1>2. s \in Bijection(1..Len(s), Range(s))
  <2>1. s \in [1..Len(s) -> Range(s)]
    BY <1>1
  <2>2. s \in Injection(1..Len(s), Range(s))
    BY <2>1 DEF Injection, IsInjective, Distinct
  <2>3. s \in Surjection(1..Len(s), Range(s))
    BY <1>1, <2>1 DEF Surjection
  <2> QED BY <2>2, <2>3 DEF Bijection
<1>3. IsFiniteSet(1..Len(s)) /\ Cardinality(1..Len(s)) = Len(s)
  BY <1>1, FS_Interval
<1> DEFINE T == Range(s)
           n == Len(s)
<1>4. ExistsBijection(1..n, T)
  BY <1>2 DEF ExistsBijection
<1>5. IsFiniteSet(1..n) /\ Cardinality(1..n) = n
  BY <1>3
<1> HIDE DEF T, n
<1>6. IsFiniteSet(T) /\ Cardinality(T) = Cardinality(1..n)
  BY <1>4, <1>5, FS_Bijection
<1>7. IsFiniteSet(T) /\ Cardinality(T) = n
  BY <1>5, <1>6
<1> QED BY <1>7 DEF T, n

\* A graph of products to walk: the products, those named by one record, what each
\* requires, and where the walk starts.
Walkable(g) ==
    /\ g.U \subseteq g.P /\ g.root \in g.P
    /\ g.req \in [g.P -> SUBSET Nat]
Links(g) == [n \in g.P |-> g.req[n] \cap g.U]
Reach(g) == {g.root} \cup Follows(Links(g), g.root)

\* The inductive invariant of the walk, in parts.
On(w) == Range(w.stack) \cup Range(w.order)
WalkTyped(g, w) == w.stack \in Seq(g.P) /\ w.order \in Seq(g.P) /\ w.seen \subseteq g.P \X Nat
WalkOnce(w) == Distinct(w.stack) /\ Distinct(w.order) /\ Range(w.stack) \cap Range(w.order) = {}
WalkRooted(g, w) ==
    IF w.stack = <<>> THEN w.order # <<>> /\ Last(w.order) = g.root ELSE w.stack[1] = g.root
WalkReached(g, w) == On(w) \subseteq Reach(g)
WalkPath(g, w) == \A a, b : Precedes(w.stack, a, b) => b \in Follows(Links(g), a)
WalkLooked(g, w) ==
    /\ \A e \in w.seen : e[1] \in On(w) /\ e[2] \in g.req[e[1]] /\ (e[2] \in g.U => e[2] \in On(w))
    /\ \A n \in Range(w.order) : \A k \in g.req[n] : <<n, k>> \in w.seen
WalkCodes(g, w) ==
    /\ "MISSING_REQUIRED_COMPONENT" \in w.issues <=> \E e \in w.seen : e[2] \notin g.P
    /\ "AMBIGUOUS_REQUIRED_COMPONENT" \in w.issues <=> \E e \in w.seen : e[2] \in g.P \ g.U
    /\ "CYCLIC_COMPONENT_DEPENDENCY" \in w.issues => \E n \in Reach(g) : n \in Follows(Links(g), n)
WalkSorted(g, w) ==
    \A e \in w.seen : e[2] \in g.U /\ e[1] \in Range(w.order) =>
        Precedes(w.order, e[2], e[1]) \/ e[1] \in Follows(Links(g), e[2])
WalkDown(g, w) ==
    "CYCLIC_COMPONENT_DEPENDENCY" \notin w.issues =>
        \A e \in w.seen : e[2] \in g.U =>
            /\ e[1] \in Range(w.order) => Precedes(w.order, e[2], e[1])
            /\ e[1] \in Range(w.stack) => e[2] \in Range(w.order) \/ Precedes(w.stack, e[1], e[2])

\* What a walk under way keeps.
WalkInv(g, w) ==
    /\ WalkTyped(g, w) /\ WalkOnce(w) /\ WalkRooted(g, w) /\ WalkReached(g, w) /\ WalkPath(g, w)
    /\ WalkLooked(g, w) /\ WalkCodes(g, w) /\ WalkSorted(g, w) /\ WalkDown(g, w)

\* The two kinds of step.
Pops(g, w, v) ==
    /\ w.stack # <<>> /\ \A k \in g.req[Last(w.stack)] : <<Last(w.stack), k>> \in w.seen
    /\ v.stack = Front(w.stack) /\ v.order = Append(w.order, Last(w.stack))
    /\ v.seen = w.seen /\ v.issues = w.issues
CodesOf(g, w, n) ==
    IF n \notin g.P THEN {"MISSING_REQUIRED_COMPONENT"}
    ELSE IF n \notin g.U THEN {"AMBIGUOUS_REQUIRED_COMPONENT"}
    ELSE IF n \in Range(w.stack) THEN {"CYCLIC_COMPONENT_DEPENDENCY"} ELSE {}
Looks(g, w, v, n) ==
    /\ w.stack # <<>> /\ n \in g.req[Last(w.stack)]
    /\ v.stack = IF n \in g.U /\ n \notin On(w) THEN Append(w.stack, n) ELSE w.stack
    /\ v.order = w.order /\ v.seen = w.seen \cup {<<Last(w.stack), n>>}
    /\ v.issues = w.issues \cup CodesOf(g, w, n)

(* The graph a walk follows stays inside the products, and only follows products    *)
(* of one record.                                                                   *)
LEMMA LinksWithin ==
    ASSUME NEW g, Walkable(g)
    PROVE  /\ DOMAIN Links(g) = g.P
           /\ \A n \in DOMAIN Links(g) : Links(g)[n] \subseteq DOMAIN Links(g)
           /\ \A n \in g.P : Links(g)[n] = g.req[n] \cap g.U
           /\ g.root \in Reach(g) /\ Reach(g) \subseteq g.P
           /\ \A n \in Reach(g) : Links(g)[n] \subseteq Reach(g)
           /\ \A n \in Follows(Links(g), g.root) : n \in g.U
<1>1. /\ DOMAIN Links(g) = g.P
      /\ \A n \in g.P : Links(g)[n] = g.req[n] \cap g.U
      /\ \A n \in DOMAIN Links(g) : Links(g)[n] \subseteq DOMAIN Links(g)
  BY DEF Links, Walkable
<1>2. g.root \in DOMAIN Links(g)
  BY <1>1 DEF Walkable
<1>3. Links(g)[g.root] \subseteq Follows(Links(g), g.root)
  BY <1>1, <1>2, FollowsNext
<1>4. \A k \in Follows(Links(g), g.root) : Links(g)[k] \subseteq Follows(Links(g), g.root)
  BY <1>1, <1>2, FollowsOn
<1>5. Follows(Links(g), g.root) \subseteq g.P
  BY <1>1 DEF Follows
<1>6. Follows(Links(g), g.root) \subseteq g.U
  <2>1. g.U \in SUBSET DOMAIN Links(g) /\ Links(g)[g.root] \subseteq g.U /\ \A k \in g.U : Links(g)[k] \subseteq g.U
    BY <1>1, <1>2 DEF Walkable
  <2> QED BY <2>1, FollowsInside
<1> QED BY <1>1, <1>2, <1>3, <1>4, <1>5, <1>6 DEF Reach

(* The end of a product's visit.                                                   *)
LEMMA PopKeeps ==
    ASSUME NEW g, Walkable(g), NEW w, NEW v, WalkInv(g, w), Pops(g, w, v)
    PROVE  WalkInv(g, v)
<1> DEFINE top == Last(w.stack)
<1>1. /\ w.stack \in Seq(g.P) /\ w.order \in Seq(g.P) /\ w.stack # <<>>
      /\ Distinct(w.stack) /\ Distinct(w.order) /\ Range(w.stack) \cap Range(w.order) = {}
  BY DEF WalkInv, WalkTyped, WalkOnce, Pops
<1> DEFINE P == g.P
           s == w.stack
           o == w.order
<1>2. /\ v.stack \in Seq(g.P) /\ Len(v.stack) = Len(w.stack) - 1 /\ Len(w.stack) \in Nat /\ Len(w.stack) >= 1
      /\ \A i \in 1..(Len(w.stack) - 1) : v.stack[i] = w.stack[i]
      /\ top \in g.P /\ top = w.stack[Len(w.stack)]
      /\ Range(w.stack) = Range(v.stack) \cup {top}
      /\ Distinct(v.stack) /\ top \notin Range(v.stack)
  <2>1. s \in Seq(P) /\ s # <<>> /\ Distinct(s)
    BY <1>1
  <2>2. v.stack = Front(s) /\ top = Last(s)
    BY DEF Pops
  <2> HIDE DEF P, s, top
  <2>3. /\ Front(s) \in Seq(P) /\ Len(Front(s)) = Len(s) - 1 /\ Len(s) \in Nat /\ Len(s) >= 1
        /\ \A i \in 1..(Len(s) - 1) : Front(s)[i] = s[i]
        /\ Last(s) \in P /\ Last(s) = s[Len(s)]
        /\ Range(s) = Range(Front(s)) \cup {Last(s)}
        /\ Distinct(s) => Distinct(Front(s)) /\ Last(s) \notin Range(Front(s))
    BY <2>1, FrontRange, Zenon
  <2>4. /\ v.stack \in Seq(P) /\ Len(v.stack) = Len(s) - 1 /\ Len(s) \in Nat /\ Len(s) >= 1
        /\ \A i \in 1..(Len(s) - 1) : v.stack[i] = s[i]
        /\ top \in P /\ top = s[Len(s)]
        /\ Range(s) = Range(v.stack) \cup {top}
        /\ Distinct(v.stack) /\ top \notin Range(v.stack)
    BY <2>1, <2>2, <2>3, Zenon
  <2> QED BY <2>4, Zenon DEF s, P
<1>3. /\ v.order \in Seq(g.P) /\ Len(v.order) = Len(w.order) + 1 /\ Len(w.order) \in Nat
      /\ v.order[Len(w.order) + 1] = top
      /\ Range(v.order) = Range(w.order) \cup {top}
  <2>1. o \in Seq(P) /\ top \in P /\ v.order = Append(o, top)
    BY <1>1, <1>2 DEF Pops
  <2> HIDE DEF P, o, top
  <2>2. /\ Append(o, top) \in Seq(P) /\ Len(Append(o, top)) = Len(o) + 1 /\ Len(o) \in Nat
        /\ \A i \in 1..Len(o) : Append(o, top)[i] = o[i]
        /\ Append(o, top)[Len(o) + 1] = top
        /\ Range(Append(o, top)) = Range(o) \cup {top}
    BY <2>1, AppendRange
  <2>3. /\ v.order \in Seq(P) /\ Len(v.order) = Len(o) + 1 /\ Len(o) \in Nat
        /\ v.order[Len(o) + 1] = top /\ Range(v.order) = Range(o) \cup {top}
    BY <2>1, <2>2, Zenon
  <2> QED BY <2>3, Zenon DEF P, o
<1>4. top \notin Range(w.order)
  BY <1>1, <1>2
<1>5. Distinct(v.order)
  BY <1>1, <1>2, <1>4, AppendDistinct DEF Pops
<1>6. On(v) = On(w)
  BY <1>2, <1>3 DEF On
<1>7. \A a, b : Precedes(v.stack, a, b) => Precedes(w.stack, a, b)
  <2>1. \A i \in 1..Len(v.stack) : i \in 1..Len(w.stack) /\ v.stack[i] = w.stack[i]
    BY <1>2
  <2> QED BY <2>1 DEF Precedes
<1>8. /\ \A a, b : Precedes(w.order, a, b) => Precedes(v.order, a, b)
      /\ \A a \in Range(w.order) : Precedes(v.order, a, top)
  BY <1>1, <1>2, AppendPrecedes DEF Pops
<1>9. \A a \in Range(v.stack) : Precedes(w.stack, a, top)
  <2>1. Range(v.stack) = {v.stack[i] : i \in 1..Len(v.stack)}
    BY <1>2, RangeEquality
  <2>2. \A i \in 1..Len(v.stack) : i \in 1..Len(w.stack) /\ v.stack[i] = w.stack[i] /\ i < Len(w.stack)
    BY <1>2
  <2>3. Len(w.stack) \in 1..Len(w.stack)
    BY <1>2
  <2> QED BY <1>2, <2>1, <2>2, <2>3 DEF Precedes
<1>10. WalkTyped(g, v)
  BY <1>2, <1>3 DEF WalkTyped, WalkInv, Pops
<1>11. WalkOnce(v)
  BY <1>1, <1>2, <1>3, <1>5 DEF WalkOnce
<1>12. WalkRooted(g, v)
  <2>0. w.stack[1] = g.root
    BY <1>1 DEF WalkInv, WalkRooted
  <2>1. CASE Len(w.stack) = 1
    <3>1. v.stack = <<>>
      BY <1>2, <2>1, EmptySeq
    <3>2. v.order # <<>> /\ Last(v.order) = top /\ top = g.root
      <4>1. v.order # <<>>
        BY <1>3, EmptySeq
      <4>2. Last(v.order) = top
        BY <1>3 DEF Last
      <4>3. top = g.root
        BY <1>2, <2>0, <2>1
      <4> QED BY <4>1, <4>2, <4>3
    <3> QED BY <3>1, <3>2 DEF WalkRooted
  <2>2. CASE Len(w.stack) > 1
    <3>1. v.stack # <<>> /\ v.stack[1] = w.stack[1]
      BY <1>2, <2>2, EmptySeq
    <3> QED BY <2>0, <3>1 DEF WalkRooted
  <2>3. Len(w.stack) = 1 \/ Len(w.stack) > 1
    <3> DEFINE n == Len(w.stack)
    <3>1. n \in Nat /\ n >= 1
      BY <1>2
    <3> HIDE DEF n
    <3>2. n = 1 \/ n > 1
      BY <3>1
    <3> QED BY <3>2 DEF n
  <2> QED BY <2>1, <2>2, <2>3, Zenon
<1>13. WalkReached(g, v)
  BY <1>6 DEF WalkReached, WalkInv
<1>14. WalkPath(g, v)
  BY <1>7 DEF WalkPath, WalkInv
<1>15. WalkLooked(g, v)
  <2>1. \A e \in v.seen : e[1] \in On(v) /\ e[2] \in g.req[e[1]] /\ (e[2] \in g.U => e[2] \in On(v))
    BY <1>6 DEF WalkLooked, WalkInv, Pops
  <2>2. \A n \in Range(v.order) : \A k \in g.req[n] : <<n, k>> \in v.seen
    BY <1>3 DEF WalkLooked, WalkInv, Pops
  <2> QED BY <2>1, <2>2 DEF WalkLooked
<1>16. WalkCodes(g, v)
  BY DEF WalkCodes, WalkInv, Pops
<1>17. WalkSorted(g, v)
  <2> SUFFICES ASSUME NEW e \in w.seen, e[2] \in g.U, e[1] \in Range(v.order)
               PROVE  Precedes(v.order, e[2], e[1]) \/ e[1] \in Follows(Links(g), e[2])
    BY DEF WalkSorted, Pops
  <2>0. e[2] \in On(w) /\ e[2] \in g.req[e[1]]
    BY DEF WalkInv, WalkLooked
  <2>1. CASE e[1] \in Range(w.order)
    BY <1>8, <2>1 DEF WalkInv, WalkSorted
  <2>2. CASE e[1] = top /\ e[2] \in Range(w.order)
    BY <1>8, <2>2
  <2>3. CASE e[1] = top /\ e[2] \in Range(v.stack)
    BY <1>9, <2>3 DEF WalkInv, WalkPath
  <2>4. CASE e[1] = top /\ e[2] = top
    <3>1. top \in Links(g)[top]
      BY <1>2, <2>0, <2>4, LinksWithin
    <3>2. top \in DOMAIN Links(g)
      BY <1>2, LinksWithin
    <3>3. Links(g)[top] \subseteq Follows(Links(g), top)
      BY <3>2, LinksWithin, FollowsNext
    <3> QED BY <2>4, <3>1, <3>3
  <2> HIDE DEF top
  <2>5. e[2] \in Range(w.order) \/ e[2] \in Range(v.stack) \/ e[2] = top
    BY <1>2, <2>0 DEF On
  <2> QED BY <1>3, <2>1, <2>2, <2>3, <2>4, <2>5
<1>18. WalkDown(g, v)
  <2> SUFFICES ASSUME "CYCLIC_COMPONENT_DEPENDENCY" \notin w.issues, NEW e \in w.seen, e[2] \in g.U
               PROVE  /\ e[1] \in Range(v.order) => Precedes(v.order, e[2], e[1])
                      /\ e[1] \in Range(v.stack) => e[2] \in Range(v.order) \/ Precedes(v.stack, e[1], e[2])
    BY DEF WalkDown, Pops
  <2>1. /\ e[1] \in Range(w.order) => Precedes(w.order, e[2], e[1])
        /\ e[1] \in Range(w.stack) => e[2] \in Range(w.order) \/ Precedes(w.stack, e[1], e[2])
    BY DEF WalkInv, WalkDown
  <2>2. ~Precedes(w.stack, top, e[2])
    <3>1. ASSUME NEW i \in 1..Len(w.stack), NEW j \in 1..Len(w.stack), i < j, w.stack[i] = top PROVE FALSE
      <4>1. i = Len(w.stack)
        BY <1>1, <1>2, <3>1 DEF Distinct
      <4> QED BY <1>2, <3>1, <4>1
    <3> HIDE DEF top
    <3> QED BY <3>1 DEF Precedes
  <2>3. ASSUME e[1] \in Range(v.stack), Precedes(w.stack, e[1], e[2])
        PROVE  e[2] = top \/ Precedes(v.stack, e[1], e[2])
    <3>1. PICK i, j \in 1..Len(w.stack) : i < j /\ w.stack[i] = e[1] /\ w.stack[j] = e[2]
      BY <2>3 DEF Precedes
    <3>2. CASE j = Len(w.stack)
      BY <1>2, <3>1, <3>2
    <3>3. CASE j # Len(w.stack)
      <4>1. i \in 1..Len(v.stack) /\ j \in 1..Len(v.stack) /\ v.stack[i] = w.stack[i] /\ v.stack[j] = w.stack[j]
        BY <1>2, <3>1, <3>3
      <4> QED BY <3>1, <4>1 DEF Precedes
    <3> QED BY <3>2, <3>3
  <2> HIDE DEF top
  <2> QED BY <1>2, <1>3, <1>8, <2>1, <2>2, <2>3
<1> QED BY <1>10, <1>11, <1>12, <1>13, <1>14, <1>15, <1>16, <1>17, <1>18 DEF WalkInv

(* What is on the stack follows, each from those under it.                          *)
LEMMA UnderTop ==
    ASSUME NEW P, NEW s \in Seq(P), s # <<>>, NEW a \in Range(s)
    PROVE  a = Last(s) \/ Precedes(s, a, Last(s))
<1>1. /\ Len(s) \in Nat /\ Len(s) >= 1 /\ Last(s) = s[Len(s)]
  BY FrontRange
<1>2. PICK i \in 1..Len(s) : s[i] = a
  BY RangeEquality
<1>3. Len(s) \in 1..Len(s)
  BY <1>1
<1>4. CASE i = Len(s)
  BY <1>1, <1>2, <1>4
<1>5. CASE i # Len(s)
  <2>1. i < Len(s)
    BY <1>1, <1>2, <1>5
  <2> QED BY <1>1, <1>2, <1>3, <2>1 DEF Precedes
<1> QED BY <1>4, <1>5

(* Appending orders nothing but the new element after the others.                   *)
LEMMA AppendPrecedesOnly ==
    ASSUME NEW P, NEW s \in Seq(P), NEW x \in P, NEW a, NEW b, Precedes(Append(s, x), a, b)
    PROVE  Precedes(s, a, b) \/ (a \in Range(s) /\ b = x)
<1>1. PICK i, j \in 1..Len(Append(s, x)) : i < j /\ Append(s, x)[i] = a /\ Append(s, x)[j] = b
  BY DEF Precedes
<1>2. Len(Append(s, x)) = Len(s) + 1 /\ Len(s) \in Nat /\ Append(s, x)[Len(s) + 1] = x
  BY AppendRange
<1>3. i \in 1..Len(s)
  BY <1>1, <1>2
<1>4. s[i] = a /\ a \in Range(s)
  BY <1>1, <1>3, AppendRange, RangeEquality
<1>5. CASE j = Len(s) + 1
  BY <1>1, <1>2, <1>4, <1>5
<1>6. CASE j # Len(s) + 1
  <2>1. j \in 1..Len(s)
    BY <1>1, <1>2, <1>6
  <2>2. s[j] = b
    BY <1>1, <2>1, AppendRange
  <2> QED BY <1>1, <1>3, <1>4, <2>1, <2>2 DEF Precedes
<1> QED BY <1>5, <1>6

(* What a look at a requirement does to the stack.                                  *)
LEMMA LookShape ==
    ASSUME NEW g, Walkable(g), NEW w, NEW v, NEW n, WalkInv(g, w), Looks(g, w, v, n)
    PROVE  LET top == Last(w.stack)
           IN  /\ w.stack \in Seq(g.P) /\ w.stack # <<>> /\ v.stack \in Seq(g.P) /\ v.stack # <<>>
               /\ v.stack[1] = w.stack[1] /\ Distinct(v.stack)
               /\ top \in g.P /\ top \in Range(w.stack) /\ top \notin Range(w.order) /\ top \in Reach(g)
               /\ n \in g.req[top] /\ n \in Nat
               /\ \A a \in Range(w.stack) : a = top \/ Precedes(w.stack, a, top)
               /\ \A a, b : Precedes(w.stack, a, b) => Precedes(v.stack, a, b)
               /\ \/ /\ n \in g.U /\ n \notin On(w) /\ Range(v.stack) = Range(w.stack) \cup {n}
                     /\ \A a, b : Precedes(v.stack, a, b) => Precedes(w.stack, a, b)
                                                             \/ (a \in Range(w.stack) /\ b = n)
                     /\ Precedes(v.stack, top, n)
                  \/ /\ n \in g.U => n \in On(w)
                     /\ v.stack = w.stack
<1> DEFINE top == Last(w.stack)
           P == g.P
           s == w.stack
<1>1. /\ s \in Seq(P) /\ s # <<>> /\ Distinct(s) /\ Range(s) \cap Range(w.order) = {}
      /\ n \in g.req[top] /\ On(w) \subseteq Reach(g)
      /\ v.stack = IF n \in g.U /\ n \notin On(w) THEN Append(s, n) ELSE s
  BY DEF WalkInv, WalkTyped, WalkOnce, WalkReached, Looks
<1>2. g.U \subseteq P /\ g.req \in [P -> SUBSET Nat]
  BY DEF Walkable
<1>3. Range(s) \subseteq On(w)
  BY DEF On
<1> HIDE DEF P, s
<1>4. Len(s) \in Nat /\ Len(s) >= 1 /\ top \in P /\ top = s[Len(s)]
  BY <1>1, FrontRange DEF s
<1>5. top \in Range(s)
  <2>1. Range(s) = {s[i] : i \in 1..Len(s)}
    BY <1>1, RangeEquality
  <2>2. Len(s) \in 1..Len(s)
    BY <1>4
  <2> QED BY <1>4, <2>1, <2>2
<1>6. top \notin Range(w.order) /\ top \in Reach(g) /\ n \in Nat
  BY <1>1, <1>2, <1>3, <1>4, <1>5
<1>7. \A a \in Range(s) : a = top \/ Precedes(s, a, top)
  BY <1>1, UnderTop DEF s
<1>8. CASE n \in g.U /\ n \notin On(w)
  <2>1. v.stack = Append(s, n) /\ n \in P
    BY <1>1, <1>2, <1>8
  <2>2. /\ Append(s, n) \in Seq(P) /\ Len(Append(s, n)) = Len(s) + 1
        /\ \A i \in 1..Len(s) : Append(s, n)[i] = s[i]
        /\ Range(Append(s, n)) = Range(s) \cup {n}
    BY <1>1, <2>1, AppendRange
  <2>3. Append(s, n) # <<>> /\ Append(s, n)[1] = s[1]
    <3>1. 1 \in 1..Len(s) /\ Len(s) + 1 # 0
      BY <1>4
    <3> QED BY <2>2, <3>1
  <2>4. Distinct(Append(s, n))
    BY <1>1, <1>3, <1>8, <2>1, AppendDistinct
  <2>5. (\A a, b : Precedes(s, a, b) => Precedes(Append(s, n), a, b)) /\ Precedes(Append(s, n), top, n)
    BY <1>1, <1>5, <2>1, AppendPrecedes
  <2>6. \A a, b : Precedes(Append(s, n), a, b) => Precedes(s, a, b) \/ (a \in Range(s) /\ b = n)
    BY <1>1, <2>1, AppendPrecedesOnly
  <2> HIDE DEF top
  <2>7. v.stack \in Seq(P) /\ v.stack # <<>> /\ v.stack[1] = s[1] /\ Distinct(v.stack)
        /\ Range(v.stack) = Range(s) \cup {n}
        /\ (\A a, b : Precedes(s, a, b) => Precedes(v.stack, a, b)) /\ Precedes(v.stack, top, n)
        /\ \A a, b : Precedes(v.stack, a, b) => Precedes(s, a, b) \/ (a \in Range(s) /\ b = n)
    <3> DEFINE t == Append(s, n)
    <3>1. v.stack = t
      BY <2>1
    <3> HIDE DEF t
    <3>2. /\ t \in Seq(P) /\ t # <<>> /\ t[1] = s[1] /\ Distinct(t)
          /\ Range(t) = Range(s) \cup {n}
      BY <2>2, <2>3, <2>4 DEF t
    <3>3. /\ \A a, b : Precedes(s, a, b) => Precedes(t, a, b)
          /\ Precedes(t, top, n)
          /\ \A a, b : Precedes(t, a, b) => Precedes(s, a, b) \/ (a \in Range(s) /\ b = n)
      BY <2>5, <2>6 DEF t
    <3> QED BY <3>1, <3>2, <3>3
  <2> QED BY <1>1, <1>4, <1>5, <1>6, <1>7, <1>8, <2>7, Zenon DEF P, s, top
<1>9. CASE ~(n \in g.U /\ n \notin On(w))
  <2>1. v.stack = s /\ (n \in g.U => n \in On(w))
    BY <1>1, <1>9
  <2> HIDE DEF top
  <2> QED BY <1>1, <1>4, <1>5, <1>6, <1>7, <2>1, Zenon DEF P, s, top
<1> QED BY <1>8, <1>9

(* A look at a requirement.                                                         *)
LEMMA LookKeeps ==
    ASSUME NEW g, Walkable(g), NEW w, NEW v, NEW n, WalkInv(g, w), Looks(g, w, v, n)
    PROVE  WalkInv(g, v)
<1> DEFINE top == Last(w.stack)
           pushed == n \in g.U /\ n \notin On(w)
<1>1. /\ w.stack \in Seq(g.P) /\ w.stack # <<>> /\ v.stack \in Seq(g.P) /\ v.stack # <<>>
      /\ v.stack[1] = w.stack[1] /\ Distinct(v.stack)
      /\ top \in g.P /\ top \in Range(w.stack) /\ top \notin Range(w.order) /\ top \in Reach(g)
      /\ n \in g.req[top] /\ n \in Nat
      /\ \A a \in Range(w.stack) : a = top \/ Precedes(w.stack, a, top)
      /\ \A a, b : Precedes(w.stack, a, b) => Precedes(v.stack, a, b)
      /\ \/ /\ n \in g.U /\ n \notin On(w) /\ Range(v.stack) = Range(w.stack) \cup {n}
            /\ \A a, b : Precedes(v.stack, a, b) => Precedes(w.stack, a, b)
                                                    \/ (a \in Range(w.stack) /\ b = n)
            /\ Precedes(v.stack, top, n)
         \/ /\ n \in g.U => n \in On(w)
            /\ v.stack = w.stack
  BY LookShape
<1>2. /\ v.order = w.order /\ v.seen = w.seen \cup {<<top, n>>}
      /\ v.issues = w.issues \cup CodesOf(g, w, n)
  BY DEF Looks
<1> HIDE DEF top
<1>3. Range(v.stack) = (IF pushed THEN Range(w.stack) \cup {n} ELSE Range(w.stack))
      /\ On(v) = (IF pushed THEN On(w) \cup {n} ELSE On(w))
  BY <1>1, <1>2, Zenon DEF On
<1>4. \A a \in Range(w.stack) : top = a \/ top \in Follows(Links(g), a)
  BY <1>1 DEF WalkInv, WalkPath
<1>5. \A a \in Range(w.stack) : a \in g.P /\ a \in Reach(g)
  <2>1. On(w) \subseteq Reach(g) /\ Reach(g) \subseteq g.P
    BY LinksWithin DEF WalkInv, WalkReached
  <2> QED BY <2>1 DEF On
<1>6. ASSUME n \in g.U, NEW a \in Range(w.stack) PROVE n \in Follows(Links(g), a)
  <2>0. /\ DOMAIN Links(g) = g.P /\ \A k \in DOMAIN Links(g) : Links(g)[k] \subseteq DOMAIN Links(g)
        /\ Links(g)[top] = g.req[top] \cap g.U
    BY <1>1, LinksWithin
  <2>1. n \in Links(g)[top]
    BY <1>1, <1>6, <2>0
  <2>2. CASE top = a
    BY <1>1, <2>0, <2>1, <2>2, FollowsNext
  <2>3. CASE top \in Follows(Links(g), a)
    <3>1. a \in DOMAIN Links(g)
      BY <1>5, <2>0
    <3> QED BY <2>0, <2>1, <2>3, <3>1, FollowsOn
  <2> QED BY <1>4, <2>2, <2>3
<1>7. WalkTyped(g, v)
  <2>1. w.order \in Seq(g.P) /\ w.seen \subseteq g.P \X Nat
    BY DEF WalkInv, WalkTyped
  <2> QED BY <1>1, <1>2, <2>1 DEF WalkTyped
<1>8. WalkOnce(v)
  <2>1. Distinct(w.order) /\ Range(w.stack) \cap Range(w.order) = {}
    BY DEF WalkInv, WalkOnce
  <2>2. Range(v.stack) \cap Range(w.order) = {}
    BY <1>3, <2>1 DEF On
  <2> QED BY <1>1, <1>2, <2>1, <2>2 DEF WalkOnce
<1>9. WalkRooted(g, v)
  BY <1>1 DEF WalkRooted, WalkInv
<1>10. WalkReached(g, v)
  <2>1. pushed => n \in Reach(g)
    <3> SUFFICES ASSUME n \in g.U PROVE n \in Reach(g)
      OBVIOUS
    <3>1. /\ Links(g)[top] = g.req[top] \cap g.U /\ Links(g)[top] \subseteq Reach(g)
      BY <1>1, LinksWithin
    <3> QED BY <1>1, <3>1
  <2>2. On(w) \subseteq Reach(g)
    BY DEF WalkInv, WalkReached
  <2> QED BY <1>3, <2>1, <2>2 DEF WalkReached
<1>11. WalkPath(g, v)
  <2> SUFFICES ASSUME NEW a, NEW b, Precedes(v.stack, a, b) PROVE b \in Follows(Links(g), a)
    BY DEF WalkPath
  <2>1. CASE Precedes(w.stack, a, b)
    BY <2>1 DEF WalkInv, WalkPath
  <2>2. CASE pushed /\ a \in Range(w.stack) /\ b = n
    BY <1>6, <2>2
  <2> QED BY <1>1, <2>1, <2>2
<1>12. WalkLooked(g, v)
  <2>1. /\ \A e \in w.seen : e[1] \in On(w) /\ e[2] \in g.req[e[1]] /\ (e[2] \in g.U => e[2] \in On(w))
        /\ \A m \in Range(w.order) : \A k \in g.req[m] : <<m, k>> \in w.seen
    BY DEF WalkInv, WalkLooked
  <2>2. top \in On(v) /\ n \in g.req[top] /\ (n \in g.U => n \in On(v))
    BY <1>1, <1>3 DEF On
  <2> QED BY <1>2, <1>3, <2>1, <2>2 DEF WalkLooked
<1>13. WalkCodes(g, v)
  <2>0. g.U \subseteq g.P
    BY DEF Walkable
  <2>1. /\ "MISSING_REQUIRED_COMPONENT" \in CodesOf(g, w, n) <=> n \notin g.P
        /\ "AMBIGUOUS_REQUIRED_COMPONENT" \in CodesOf(g, w, n) <=> n \in g.P \ g.U
        /\ "CYCLIC_COMPONENT_DEPENDENCY" \in CodesOf(g, w, n) <=> n \in g.U /\ n \in Range(w.stack)
    BY <2>0 DEF CodesOf
  <2>2. ASSUME n \in g.U, n \in Range(w.stack)
        PROVE \E m \in Reach(g) : m \in Follows(Links(g), m)
    BY <1>5, <1>6, <2>2
  <2>3. /\ "MISSING_REQUIRED_COMPONENT" \in w.issues <=> \E e \in w.seen : e[2] \notin g.P
        /\ "AMBIGUOUS_REQUIRED_COMPONENT" \in w.issues <=> \E e \in w.seen : e[2] \in g.P \ g.U
        /\ "CYCLIC_COMPONENT_DEPENDENCY" \in w.issues => \E m \in Reach(g) : m \in Follows(Links(g), m)
    BY DEF WalkInv, WalkCodes
  <2>4. \A e \in v.seen : e \in w.seen \/ e[2] = n
    BY <1>2
  <2>5. w.seen \subseteq v.seen /\ \E e \in v.seen : e[2] = n
    <3>1. <<top, n>> \in v.seen /\ <<top, n>>[2] = n
      BY <1>2
    <3> QED BY <1>2, <3>1
  <2>6. "MISSING_REQUIRED_COMPONENT" \in v.issues <=> \E e \in v.seen : e[2] \notin g.P
    BY <1>2, <2>1, <2>3, <2>4, <2>5
  <2>7. "AMBIGUOUS_REQUIRED_COMPONENT" \in v.issues <=> \E e \in v.seen : e[2] \in g.P \ g.U
    BY <1>2, <2>1, <2>3, <2>4, <2>5
  <2>8. "CYCLIC_COMPONENT_DEPENDENCY" \in v.issues => \E m \in Reach(g) : m \in Follows(Links(g), m)
    BY <1>2, <2>1, <2>2, <2>3
  <2> QED BY <2>6, <2>7, <2>8 DEF WalkCodes
<1>14. WalkSorted(g, v)
  <2>1. \A e \in w.seen : e[2] \in g.U /\ e[1] \in Range(w.order) =>
            Precedes(w.order, e[2], e[1]) \/ e[1] \in Follows(Links(g), e[2])
    BY DEF WalkInv, WalkSorted
  <2> QED BY <1>1, <1>2, <2>1 DEF WalkSorted
<1>15. WalkDown(g, v)
  <2> SUFFICES ASSUME "CYCLIC_COMPONENT_DEPENDENCY" \notin v.issues, NEW e \in v.seen, e[2] \in g.U
               PROVE  /\ e[1] \in Range(w.order) => Precedes(w.order, e[2], e[1])
                      /\ e[1] \in Range(v.stack) => e[2] \in Range(w.order) \/ Precedes(v.stack, e[1], e[2])
    BY <1>2 DEF WalkDown
  <2>1. "CYCLIC_COMPONENT_DEPENDENCY" \notin w.issues /\ "CYCLIC_COMPONENT_DEPENDENCY" \notin CodesOf(g, w, n)
    BY <1>2
  <2>2. CASE e \in w.seen
    <3>1. /\ e[1] \in Range(w.order) => Precedes(w.order, e[2], e[1])
          /\ e[1] \in Range(w.stack) => e[2] \in Range(w.order) \/ Precedes(w.stack, e[1], e[2])
      BY <2>1, <2>2 DEF WalkInv, WalkDown
    <3>2. e[1] \in On(w)
      BY <2>2 DEF WalkInv, WalkLooked
    <3>3. e[1] \in Range(v.stack) => e[1] \in Range(w.stack)
      BY <1>3, <3>2
    <3> QED BY <1>1, <3>1, <3>3
  <2>3. CASE e = <<top, n>>
    <3>1. e[1] = top /\ e[2] = n
      BY <2>3
    <3>2. n \notin Range(w.stack)
      <4>1. g.U \subseteq g.P
        BY DEF Walkable
      <4> QED BY <2>1, <3>1, <4>1 DEF CodesOf
    <3>3. n \in Range(w.order) \/ pushed
      BY <3>1, <3>2 DEF On
    <3> QED BY <1>1, <3>1, <3>3
  <2> QED BY <1>2, <2>2, <2>3
<1> QED BY <1>7, <1>8, <1>9, <1>10, <1>11, <1>12, <1>13, <1>14, <1>15 DEF WalkInv

\* The requirements there are to look at, and how far a walk has come.
Edges(g) == {e \in g.P \X Nat : e[2] \in g.req[e[1]]}
Progress(w) == Cardinality(w.seen) + Len(w.order)

(* The walk starts, at the root alone, with its invariant.                          *)
LEMMA WalkStart ==
    ASSUME NEW g, Walkable(g), NEW w,
           w.stack = <<g.root>>, w.seen = {}, w.order = <<>>, w.issues = {}
    PROVE  WalkInv(g, w)
<1>1. g.root \in g.P /\ g.root \in Reach(g)
  BY LinksWithin DEF Walkable
<1>2. /\ w.stack \in Seq(g.P) /\ Len(w.stack) = 1 /\ w.stack[1] = g.root /\ w.stack # <<>>
      /\ w.order \in Seq(g.P) /\ Len(w.order) = 0
  BY <1>1
<1>3. Range(w.stack) = {g.root} /\ Range(w.order) = {}
  <2> DEFINE s == w.stack
             o == w.order
  <2>0. s \in Seq(g.P) /\ o \in Seq(g.P) /\ Len(s) = 1 /\ Len(o) = 0 /\ s[1] = g.root
    BY <1>2
  <2> HIDE DEF s, o
  <2>1. Range(s) = {s[i] : i \in 1..Len(s)} /\ Range(o) = {o[i] : i \in 1..Len(o)}
    BY <2>0, RangeEquality
  <2>2. Range(s) = {g.root} /\ Range(o) = {}
    BY <2>0, <2>1
  <2> QED BY <2>2 DEF s, o
<1>4. WalkTyped(g, w) /\ WalkOnce(w) /\ WalkRooted(g, w) /\ WalkReached(g, w)
  BY <1>1, <1>2, <1>3 DEF WalkTyped, WalkOnce, WalkRooted, WalkReached, Distinct, On
<1>5. WalkPath(g, w) /\ WalkLooked(g, w) /\ WalkCodes(g, w) /\ WalkSorted(g, w) /\ WalkDown(g, w)
  BY <1>2, <1>3 DEF WalkPath, WalkLooked, WalkCodes, WalkSorted, WalkDown, Precedes
<1> QED BY <1>4, <1>5 DEF WalkInv

(* How far a walk can come.                                                         *)
LEMMA WalkBound ==
    ASSUME NEW g, Walkable(g), IsFiniteSet(g.P), IsFiniteSet(Edges(g)), NEW w, WalkInv(g, w)
    PROVE  /\ IsFiniteSet(w.seen) /\ Progress(w) \in Nat
           /\ Cardinality(g.P) + Cardinality(Edges(g)) \in Nat
           /\ w.stack # <<>> => Progress(w) < Cardinality(g.P) + Cardinality(Edges(g))
<1>1. w.seen \subseteq Edges(g)
  BY DEF WalkInv, WalkLooked, WalkTyped, Edges
<1>2. IsFiniteSet(w.seen) /\ Cardinality(w.seen) \in Nat /\ Cardinality(Edges(g)) \in Nat
      /\ Cardinality(w.seen) <= Cardinality(Edges(g))
  BY <1>1, FS_Subset, FS_CardinalityType
<1>3. /\ Cardinality(Range(w.order)) = Len(w.order) /\ Range(w.order) \subseteq g.P
      /\ Len(w.order) \in Nat /\ Cardinality(g.P) \in Nat
  <2>1. w.order \in Seq(g.P) /\ Distinct(w.order)
    BY DEF WalkInv, WalkTyped, WalkOnce
  <2>2. Cardinality(Range(w.order)) = Len(w.order)
    BY <2>1, DistinctLength
  <2> QED BY <2>1, <2>2, FS_CardinalityType, LenProperties, RangeEquality
<1>4. ASSUME w.stack # <<>> PROVE Len(w.order) < Cardinality(g.P)
  <2>1. w.stack \in Seq(g.P) /\ Range(w.stack) \cap Range(w.order) = {}
    BY DEF WalkInv, WalkTyped, WalkOnce
  <2>2. Last(w.stack) \in g.P /\ Last(w.stack) \in Range(w.stack)
    BY <1>4, <2>1, FrontRange
  <2>3. Range(w.order) # g.P
    BY <2>1, <2>2
  <2> DEFINE R == Range(w.order)
             P == g.P
  <2> HIDE DEF R, P
  <2>4. IsFiniteSet(P) /\ R \in SUBSET P /\ R # P
    BY <1>3, <2>3 DEF R, P
  <2>5. Cardinality(R) < Cardinality(P)
    BY <2>4, FS_Subset, FS_CardinalityType
  <2> QED BY <1>3, <2>5 DEF R, P
<1> DEFINE s == Cardinality(w.seen)
           o == Len(w.order)
           p == Cardinality(g.P)
           q == Cardinality(Edges(g))
<1>5. s \in Nat /\ o \in Nat /\ p \in Nat /\ q \in Nat /\ s <= q /\ (w.stack # <<>> => o < p)
  BY <1>2, <1>3, <1>4
<1> HIDE DEF s, o, p, q
<1>6. s + o \in Nat /\ p + q \in Nat /\ (w.stack # <<>> => s + o < p + q)
  BY <1>5
<1> QED BY <1>2, <1>6 DEF Progress, s, o, p, q

(* Each step brings the walk one further.                                           *)
LEMMA WalkGrows ==
    ASSUME NEW g, Walkable(g), IsFiniteSet(g.P), IsFiniteSet(Edges(g)), NEW w, NEW v, WalkInv(g, w),
           Pops(g, w, v) \/ \E n : Looks(g, w, v, n) /\ <<Last(w.stack), n>> \notin w.seen
    PROVE  Progress(v) = Progress(w) + 1
<1>1. /\ IsFiniteSet(w.seen) /\ Cardinality(w.seen) \in Nat
  BY WalkBound, FS_CardinalityType
<1>2. w.order \in Seq(g.P) /\ w.stack \in Seq(g.P)
  BY DEF WalkInv, WalkTyped
<1>3. Len(w.order) \in Nat
  BY <1>2, LenProperties
<1> DEFINE s == Cardinality(w.seen)
           o == Len(w.order)
<1>4. CASE Pops(g, w, v)
  <2>1. w.stack # <<>> /\ v.order = Append(w.order, Last(w.stack)) /\ v.seen = w.seen
    BY <1>4 DEF Pops
  <2>2. Last(w.stack) \in g.P
    BY <1>2, <2>1, FrontRange
  <2>3. Len(v.order) = Len(w.order) + 1
    BY <1>2, <2>1, <2>2, AppendRange
  <2>4. Len(v.order) = o + 1 /\ Cardinality(v.seen) = s /\ s \in Nat /\ o \in Nat
    BY <1>1, <1>3, <2>1, <2>3
  <2> HIDE DEF s, o
  <2>5. s + (o + 1) = (s + o) + 1
    BY <2>4
  <2> QED BY <2>4, <2>5 DEF Progress, s, o
<1>5. CASE \E n : Looks(g, w, v, n) /\ <<Last(w.stack), n>> \notin w.seen
  <2>1. PICK n : Looks(g, w, v, n) /\ <<Last(w.stack), n>> \notin w.seen
    BY <1>5
  <2>2. v.order = w.order /\ v.seen = w.seen \cup {<<Last(w.stack), n>>}
    BY <2>1 DEF Looks
  <2> DEFINE e == <<Last(w.stack), n>>
             T == w.seen
  <2>3. v.seen = T \cup {e} /\ e \notin T /\ IsFiniteSet(T) /\ v.order = w.order
    BY <1>1, <2>1, <2>2
  <2> HIDE DEF e, T
  <2>4. Cardinality(T \cup {e}) = Cardinality(T) + 1
    BY <2>3, FS_AddElement
  <2>5. Cardinality(v.seen) = s + 1 /\ Len(v.order) = o /\ s \in Nat /\ o \in Nat
    BY <1>1, <1>3, <2>3, <2>4 DEF T
  <2> HIDE DEF s, o
  <2>6. (s + 1) + o = (s + o) + 1
    BY <2>5
  <2> QED BY <2>5, <2>6 DEF Progress, s, o
<1> QED BY <1>4, <1>5

(* What is true at the end of a walk.                                               *)
LEMMA WalkEnd ==
    ASSUME NEW g, Walkable(g), NEW w, WalkInv(g, w), w.stack = <<>>
    PROVE  LET next == Links(g)
               required == UNION {g.req[n] : n \in Reach(g)}
               order == w.order
           IN  /\ Range(order) = Reach(g) /\ Len(order) = Cardinality(Reach(g))
               /\ order \in Seq(g.P) /\ order # <<>> /\ Last(order) = g.root
               /\ \A i, j \in 1..Len(order) :
                     order[j] \in next[order[i]] => j < i \/ order[i] \in Follows(next, order[j])
               /\ "CYCLIC_COMPONENT_DEPENDENCY" \in w.issues <=> \E n \in Reach(g) : n \in Follows(next, n)
               /\ "MISSING_REQUIRED_COMPONENT" \in w.issues <=> \E n \in required : n \notin g.P
               /\ "AMBIGUOUS_REQUIRED_COMPONENT" \in w.issues <=> \E n \in required : n \in g.P \ g.U
<1> DEFINE next == Links(g)
           required == UNION {g.req[n] : n \in Reach(g)}
           order == w.order
           L == Len(w.order)
<1>1. /\ order \in Seq(g.P) /\ Distinct(order) /\ order # <<>> /\ Last(order) = g.root
      /\ Range(order) \subseteq Reach(g)
  BY DEF WalkInv, WalkTyped, WalkOnce, WalkRooted, WalkReached, On
<1>2. Range(w.stack) = {}
  <2>1. w.stack \in Seq(g.P) /\ Len(w.stack) = 0
    BY DEF WalkInv, WalkTyped
  <2>2. Range(w.stack) = {w.stack[i] : i \in 1..0}
    BY <2>1, RangeEquality
  <2> QED BY <2>2
<1>3. Range(order) = On(w)
  BY <1>2 DEF On
<1>4. /\ L \in Nat /\ L >= 1 /\ Range(order) = {order[i] : i \in 1..L}
      /\ order[L] = g.root /\ L \in 1..L
  <2>1. L \in Nat /\ L >= 1 /\ Last(order) = order[L]
    BY <1>1, FrontRange
  <2>2. L \in 1..L
    BY <2>1
  <2> QED BY <1>1, <2>1, <2>2, RangeEquality
<1>5. g.root \in Range(order)
  BY <1>4
<1>6. /\ next = [n \in g.P |-> g.req[n] \cap g.U] /\ g.U \subseteq g.P /\ Reach(g) \subseteq g.P
      /\ Reach(g) = {g.root} \cup Follows(next, g.root)
  BY LinksWithin DEF Links, Walkable, Reach
<1>7. /\ \A e \in w.seen : e[1] \in Range(order) /\ e[2] \in g.req[e[1]] /\ (e[2] \in g.U => e[2] \in Range(order))
      /\ \A n \in Range(order) : \A k \in g.req[n] : <<n, k>> \in w.seen
  BY <1>3 DEF WalkInv, WalkLooked
<1>8. \A n \in Range(order) : next[n] \subseteq Range(order)
  <2> SUFFICES ASSUME NEW n \in Range(order), NEW k \in next[n] PROVE k \in Range(order)
    OBVIOUS
  <2> DEFINE e == <<n, k>>
  <2>1. n \in g.P
    BY <1>1, <1>6
  <2>2. k \in g.req[n] /\ k \in g.U
    BY <1>6, <2>1
  <2>3. e \in w.seen /\ e[2] = k
    BY <1>7, <2>2
  <2> HIDE DEF e
  <2> QED BY <1>7, <2>2, <2>3
<1>9. Range(order) = Reach(g)
  <2>1. Range(order) \in SUBSET DOMAIN next
    BY <1>1, <1>6
  <2>2. Follows(next, g.root) \subseteq Range(order)
    <3> HIDE DEF next, order
    <3> QED BY <1>5, <1>8, <2>1, FollowsInside
  <2> QED BY <1>1, <1>5, <1>6, <2>2
<1>10. L = Cardinality(Reach(g))
  BY <1>1, <1>9, DistinctLength
<1>11. ASSUME NEW i \in 1..L, NEW j \in 1..L, Precedes(order, order[j], order[i]) PROVE j < i
  BY <1>1, <1>11 DEF Precedes, Distinct
<1>12. ASSUME NEW i \in 1..L, NEW j \in 1..L, order[j] \in next[order[i]]
       PROVE  <<order[i], order[j]>> \in w.seen /\ order[j] \in g.U
  BY <1>1, <1>4, <1>6, <1>7, <1>12
<1>13. ASSUME NEW i \in 1..L, NEW j \in 1..L, order[j] \in next[order[i]]
       PROVE  j < i \/ order[i] \in Follows(next, order[j])
  <2> DEFINE e == <<order[i], order[j]>>
  <2>1. e \in w.seen /\ e[1] = order[i] /\ e[2] = order[j] /\ e[2] \in g.U /\ e[1] \in Range(order)
    BY <1>4, <1>12, <1>13
  <2>2. Precedes(order, e[2], e[1]) \/ e[1] \in Follows(next, e[2])
    BY <2>1 DEF WalkInv, WalkSorted
  <2>3. Precedes(order, order[j], order[i]) \/ order[i] \in Follows(next, order[j])
    BY <2>1, <2>2
  <2> QED BY <1>11, <2>3
<1>14. ASSUME "CYCLIC_COMPONENT_DEPENDENCY" \notin w.issues, NEW n \in Reach(g), n \in Follows(next, n)
       PROVE  FALSE
  <2>1. PICK i \in 1..L : order[i] = n
    BY <1>4, <1>9
  <2> DEFINE C == {order[j] : j \in 1..(i - 1)}
  <2>2. \A j \in 1..(i - 1) : j \in 1..L /\ j < i
    BY <1>4
  <2>3. ASSUME NEW k \in 1..L, k <= i PROVE next[order[k]] \subseteq C
    <3> SUFFICES ASSUME NEW x \in next[order[k]] PROVE x \in C
      OBVIOUS
    <3>1. order[k] \in Range(order)
      BY <1>4
    <3>2. x \in Range(order)
      BY <1>8, <3>1
    <3>3. PICK j \in 1..L : order[j] = x
      BY <1>4, <3>2
    <3> DEFINE e == <<order[k], order[j]>>
    <3>4. e \in w.seen /\ e[1] = order[k] /\ e[2] = order[j] /\ e[2] \in g.U /\ e[1] \in Range(order)
      BY <1>12, <3>1, <3>3
    <3>5. Precedes(order, e[2], e[1])
      BY <1>14, <3>4 DEF WalkInv, WalkDown
    <3>6. j < k
      BY <1>11, <3>4, <3>5
    <3>7. j \in 1..(i - 1)
      BY <2>3, <3>6
    <3> QED BY <3>3, <3>7
  <2>4. next[n] \subseteq C
    <3>1. i \in 1..L /\ i <= i
      BY <1>4, <2>1
    <3> HIDE DEF C, next
    <3> QED BY <2>1, <2>3, <3>1
  <2>5. \A k \in C : next[k] \subseteq C
    <3> SUFFICES ASSUME NEW j \in 1..(i - 1) PROVE next[order[j]] \subseteq C
      OBVIOUS
    <3>1. j \in 1..L /\ j <= i
      BY <2>2
    <3> QED BY <2>3, <3>1
  <2>6. C \in SUBSET DOMAIN next
    BY <1>4, <1>1, <1>6, <2>2
  <2>7. n \notin C
    BY <1>1, <2>1, <2>2 DEF Distinct
  <2>8. Follows(next, n) \subseteq C
    <3> HIDE DEF C, next
    <3> QED BY <2>4, <2>5, <2>6, FollowsInside
  <2> QED BY <1>14, <2>7, <2>8
<1>15. "CYCLIC_COMPONENT_DEPENDENCY" \in w.issues <=> \E n \in Reach(g) : n \in Follows(next, n)
  <2>1. "CYCLIC_COMPONENT_DEPENDENCY" \in w.issues => \E n \in Reach(g) : n \in Follows(next, n)
    BY DEF WalkInv, WalkCodes
  <2> QED BY <1>14, <2>1
<1>16. \A n \in required : \E e \in w.seen : e[2] = n
  <2> SUFFICES ASSUME NEW m \in Reach(g), NEW n \in g.req[m] PROVE \E e \in w.seen : e[2] = n
    OBVIOUS
  <2>1. <<m, n>> \in w.seen /\ <<m, n>>[2] = n
    BY <1>7, <1>9
  <2> QED BY <2>1
<1>17. \A e \in w.seen : e[2] \in required
  BY <1>7, <1>9
<1>18. /\ "MISSING_REQUIRED_COMPONENT" \in w.issues <=> \E e \in w.seen : e[2] \notin g.P
       /\ "AMBIGUOUS_REQUIRED_COMPONENT" \in w.issues <=> \E e \in w.seen : e[2] \in g.P \ g.U
  BY DEF WalkInv, WalkCodes
<1> HIDE DEF required, next
<1>19. /\ "MISSING_REQUIRED_COMPONENT" \in w.issues <=> \E n \in required : n \notin g.P
       /\ "AMBIGUOUS_REQUIRED_COMPONENT" \in w.issues <=> \E n \in required : n \in g.P \ g.U
  BY <1>16, <1>17, <1>18
<1> QED BY <1>1, <1>9, <1>10, <1>13, <1>15, <1>19 DEF required, next

\* The graph a Pack plan's closure walks, and the states of the walk.
GraphOf(reps, root) ==
    [P |-> Products(reps), U |-> {k \in Products(reps) : Cardinality(ByProduct(reps, k)) = 1},
     req |-> RequiredBy(reps, root), root |-> root.product]
IssueCodes == {"MISSING_REQUIRED_COMPONENT", "AMBIGUOUS_REQUIRED_COMPONENT", "CYCLIC_COMPONENT_DEPENDENCY"}
WalkStates(g) ==
    {w \in [stack : Seq(g.P), seen : SUBSET (g.P \X Nat), order : Seq(g.P), issues : SUBSET IssueCodes] :
        WalkInv(g, w)}

(* The representatives and a root form a graph that the walk can follow: its        *)
(* nodes are the products, those with one record can be resolved, and the bound     *)
(* on the steps covers every node and requirement.                                  *)
LEMMA GraphShape ==
    ASSUME NEW reps, IsFiniteSet(reps), \A r \in reps : RepTyped(r), NEW root \in reps
    PROVE  LET g == GraphOf(reps, root)
           IN  /\ Walkable(g) /\ IsFiniteSet(g.P) /\ IsFiniteSet(Edges(g)) /\ g.P \subseteq Nat
               /\ g.root = root.product /\ g.P = Products(reps)
               /\ Links(g) = Resolvables(reps, root)
               /\ \A n : n \in g.P <=> ByProduct(reps, n) # {}
               /\ \A n : n \in g.U <=> Cardinality(ByProduct(reps, n)) = 1
               /\ \A n : n \in g.P \ g.U <=> Cardinality(ByProduct(reps, n)) > 1
               /\ \A n \in Reach(g) : RecordAt(reps, root, n) \in reps
               /\ \A n \in Reach(g) : /\ RecordAt(reps, root, n).requires = g.req[n]
                                      /\ RecordAt(reps, root, n).product = n
               /\ ClosureSteps(reps) \in Nat
               /\ Cardinality(g.P) + Cardinality(Edges(g)) <= ClosureSteps(reps)
<1> DEFINE g == GraphOf(reps, root)
           P == Products(reps)
           B(n) == ByProduct(reps, n)
           req == RequiredBy(reps, root)
           E == UNION {{r.product} \X r.requires : r \in reps}
<1>1. g.P = P /\ g.req = req /\ g.root = root.product /\ g.U = {k \in P : Cardinality(B(k)) = 1}
  BY DEF GraphOf
<1>2. \A n : n \in P <=> B(n) # {}
  BY DEF Products, ByProduct
<1>3. \A n : IsFiniteSet(B(n)) /\ Cardinality(B(n)) \in Nat /\ (Cardinality(B(n)) = 0 <=> B(n) = {})
  <2> SUFFICES ASSUME NEW n
               PROVE  IsFiniteSet(B(n)) /\ Cardinality(B(n)) \in Nat /\ (Cardinality(B(n)) = 0 <=> B(n) = {})
    OBVIOUS
  <2>1. B(n) \in SUBSET reps
    BY DEF ByProduct
  <2> HIDE DEF B
  <2>2. IsFiniteSet(B(n))
    BY <2>1, FS_Subset
  <2> QED BY <2>2, FS_CardinalityType, FS_EmptySet
<1>4. P \subseteq Nat /\ root.product \in P
  BY DEF Products, RepTyped
<1>5. IsFiniteSet(P)
  <2> DEFINE f == [r \in reps |-> r.product]
  <2>1. P = {f[r] : r \in reps}
    BY DEF Products
  <2> HIDE DEF f, P
  <2> QED BY <2>1, ImageFinite
<1>6. /\ DOMAIN req = P
      /\ \A n \in P : req[n] = UNION {r.requires : r \in IF n = root.product THEN {root} ELSE B(n)}
  BY DEF RequiredBy
<1>7. req \in [P -> SUBSET Nat]
  <2>1. \A n \in P : req[n] \subseteq Nat
    <3> SUFFICES ASSUME NEW n \in P, NEW k \in req[n] PROVE k \in Nat
      OBVIOUS
    <3>1. PICK r \in (IF n = root.product THEN {root} ELSE B(n)) : k \in r.requires
      BY <1>6
    <3>2. r \in reps
      BY <3>1 DEF ByProduct
    <3> QED BY <3>1, <3>2 DEF RepTyped
  <2> QED BY <1>6, <2>1 DEF RequiredBy
<1>8. /\ \A n : n \in g.U <=> Cardinality(B(n)) = 1
      /\ \A n : n \in P /\ n \notin g.U <=> Cardinality(B(n)) > 1
  <2> SUFFICES ASSUME NEW n
               PROVE  /\ n \in g.U <=> Cardinality(B(n)) = 1
                      /\ n \in P /\ n \notin g.U <=> Cardinality(B(n)) > 1
    OBVIOUS
  <2>1. n \in g.U <=> n \in P /\ Cardinality(B(n)) = 1
    BY <1>1
  <2>2. n \in P <=> Cardinality(B(n)) # 0
    BY <1>2, <1>3
  <2> DEFINE c == Cardinality(B(n))
  <2>3. c \in Nat
    BY <1>3
  <2> HIDE DEF c
  <2>4. n \in g.U <=> c = 1
    BY <2>1, <2>2 DEF c
  <2>5. n \in P /\ n \notin g.U <=> c > 1
    BY <2>1, <2>2, <2>3 DEF c
  <2> QED BY <2>4, <2>5 DEF c
<1>9. Walkable(g)
  BY <1>1, <1>4, <1>7 DEF Walkable
<1>10. Edges(g) \subseteq E
  <2> SUFFICES ASSUME NEW e \in Edges(g) PROVE e \in E
    OBVIOUS
  <2>1. e \in P \X Nat /\ e[2] \in req[e[1]]
    BY <1>1 DEF Edges
  <2>2. PICK r \in (IF e[1] = root.product THEN {root} ELSE B(e[1])) : e[2] \in r.requires
    BY <1>6, <2>1
  <2>3. r \in reps /\ r.product = e[1]
    BY <2>2 DEF ByProduct
  <2>4. e = <<e[1], e[2]>>
    BY <2>1
  <2>5. e \in {r.product} \X r.requires
    BY <2>2, <2>3, <2>4
  <2> QED BY <2>3, <2>5
<1>11. IsFiniteSet(E)
  <2> DEFINE f == [r \in reps |-> {r.product} \X r.requires]
             F == {{r.product} \X r.requires : r \in reps}
  <2>1. F = {f[r] : r \in reps}
    OBVIOUS
  <2>2. IsFiniteSet(F)
    <3> HIDE DEF f, F
    <3> QED BY <2>1, ImageFinite
  <2>3. \A r \in reps : IsFiniteSet({r.product} \X r.requires)
    BY FS_Singleton, FS_Product DEF RepTyped
  <2>4. \A T \in F : IsFiniteSet(T)
    BY <2>3
  <2> QED BY <2>2, <2>4, FS_UNION
<1>12. /\ IsFiniteSet(Edges(g)) /\ ClosureSteps(reps) \in Nat
       /\ Cardinality(P) + Cardinality(Edges(g)) <= ClosureSteps(reps)
  <2> DEFINE D == Edges(g)
  <2>0. D \in SUBSET E
    BY <1>10
  <2> HIDE DEF D, E, P
  <2>1. IsFiniteSet(D) /\ Cardinality(D) <= Cardinality(E) /\ Cardinality(D) \in Nat
        /\ Cardinality(E) \in Nat /\ Cardinality(P) \in Nat
    BY <1>5, <1>11, <2>0, FS_Subset, FS_CardinalityType
  <2>2. ClosureSteps(reps) = Cardinality(P) + Cardinality(E)
    BY DEF ClosureSteps, P, E
  <2> QED BY <2>1, <2>2 DEF D
<1>13. Links(g) = Resolvables(reps, root)
  <2>1. \A n \in P : req[n] \cap g.U = {k \in req[n] : Cardinality(B(k)) = 1}
    BY <1>8
  <2>2. Links(g) = [n \in P |-> req[n] \cap g.U]
    BY <1>1 DEF Links
  <2>3. Resolvables(reps, root) = [n \in P |-> {k \in req[n] : Cardinality(B(k)) = 1}]
    BY DEF Resolvables
  <2> HIDE DEF P, req, B, g
  <2> QED BY <2>1, <2>2, <2>3
<1>14. \A n \in Reach(g) : /\ RecordAt(reps, root, n) \in reps
                           /\ RecordAt(reps, root, n).requires = g.req[n]
                           /\ RecordAt(reps, root, n).product = n
  <2> SUFFICES ASSUME NEW n \in Reach(g) PROVE /\ RecordAt(reps, root, n) \in reps
                                               /\ RecordAt(reps, root, n).requires = req[n]
                                               /\ RecordAt(reps, root, n).product = n
    BY <1>1
  <2>0. n \in P
    <3>1. Reach(g) \subseteq g.P
      BY <1>9, LinksWithin
    <3> QED BY <1>1, <3>1
  <2>1. CASE n = root.product
    <3> DEFINE R == IF n = root.product THEN {root} ELSE B(n)
    <3>0. req[n] = UNION {r.requires : r \in R} /\ R = {root}
      BY <1>6, <2>0, <2>1, Zenon
    <3>1. req[n] = root.requires
      <4> HIDE DEF R, req
      <4>1. {r.requires : r \in R} = {root.requires}
        BY <3>0
      <4> QED BY <3>0, <4>1
    <3>2. RecordAt(reps, root, n) = root
      BY <2>1 DEF RecordAt
    <3> HIDE DEF req
    <3> QED BY <2>1, <3>1, <3>2
  <2>2. CASE n # root.product
    <3>1. n \in g.U
      <4>1. \A k \in Follows(Links(g), g.root) : k \in g.U
        BY <1>9, LinksWithin
      <4> QED BY <1>1, <2>2, <4>1 DEF Reach
    <3>2. Cardinality(B(n)) = 1 /\ IsFiniteSet(B(n))
      BY <1>3, <1>8, <3>1
    <3>3. PICK x : B(n) = {x}
      <4> DEFINE b == B(n)
      <4> HIDE DEF b
      <4>1. IsFiniteSet(b) /\ Cardinality(b) = 1
        BY <3>2 DEF b
      <4>2. \E x : b = {x}
        BY <4>1, FS_Singleton
      <4> QED BY <4>2 DEF b
    <3>4. Only(B(n)) = x /\ x \in reps /\ x.product = n
      BY <3>3 DEF Only, ByProduct
    <3>5. req[n] = x.requires
      BY <1>6, <2>0, <2>2, <3>3
    <3> QED BY <2>2, <3>4, <3>5 DEF RecordAt
  <2> QED BY <2>1, <2>2
<1> HIDE DEF g, P, B, req
<1> QED BY <1>1, <1>2, <1>4, <1>5, <1>8, <1>9, <1>12, <1>13, <1>14 DEF g, P, B

\* What one step does, from the definition of the walk.
(* A step of the model is a step of the walk: it leaves a finished state alone,     *)
(* and otherwise pops the top of the stack or looks at one more requirement.        *)
LEMMA StepShape ==
    ASSUME NEW reps, IsFiniteSet(reps), \A r \in reps : RepTyped(r), NEW root \in reps,
           NEW w \in WalkStates(GraphOf(reps, root))
    PROVE  LET g == GraphOf(reps, root)
               v == ClosureStep(reps, root, w)
           IN  /\ v \in WalkStates(g)
               /\ w.stack = <<>> => v = w
               /\ w.stack # <<>> => Pops(g, w, v) \/ \E n : Looks(g, w, v, n) /\ <<Last(w.stack), n>> \notin w.seen
<1> DEFINE g == GraphOf(reps, root)
           v == ClosureStep(reps, root, w)
           top == Last(w.stack)
           pending == {n \in RecordAt(reps, root, top).requires : <<top, n>> \notin w.seen}
           next == CHOOSE n \in pending : \A k \in pending : n <= k
           W == [stack : Seq(g.P), seen : SUBSET (g.P \X Nat), order : Seq(g.P), issues : SUBSET IssueCodes]
<1>0. /\ Walkable(g)
      /\ \A n : n \in g.P <=> ByProduct(reps, n) # {}
      /\ \A n : n \in g.U <=> Cardinality(ByProduct(reps, n)) = 1
      /\ \A n : n \in g.P \ g.U <=> Cardinality(ByProduct(reps, n)) > 1
      /\ \A n \in Reach(g) : RecordAt(reps, root, n).requires = g.req[n]
  <2> HIDE DEF g, v, top, pending, next, W
  <2> QED BY GraphShape DEF g
<1>1. /\ w \in W /\ WalkInv(g, w)
      /\ w.stack \in Seq(g.P) /\ w.seen \in SUBSET (g.P \X Nat) /\ w.order \in Seq(g.P)
      /\ w.issues \in SUBSET IssueCodes
  BY DEF WalkStates
<1>2. v = IF w.stack = <<>> THEN w
          ELSE IF pending = {} THEN [w EXCEPT !.stack = Front(@), !.order = Append(@, top)]
          ELSE Visit(reps, [w EXCEPT !.seen = @ \cup {<<top, next>>}], next)
  BY DEF ClosureStep
<1> HIDE DEF g, v, next, W
<1>3. CASE w.stack = <<>>
  BY <1>1, <1>2, <1>3 DEF WalkStates, W, g, v
<1>4. CASE w.stack # <<>>
  <2>1. top \in g.P /\ top \in Reach(g)
    <3>1. top \in g.P /\ Range(w.stack) = Range(Front(w.stack)) \cup {top}
      BY <1>1, <1>4, FrontRange
    <3>2. Range(w.stack) \subseteq Reach(g)
      BY <1>1 DEF WalkInv, WalkReached, On
    <3> QED BY <3>1, <3>2
  <2>2. /\ RecordAt(reps, root, top).requires = g.req[top]
        /\ pending = {n \in g.req[top] : <<top, n>> \notin w.seen} /\ g.req[top] \subseteq Nat
    BY <1>0, <2>1 DEF Walkable
  <2> HIDE DEF top
  <2>3. CASE pending = {}
    <3>1. v = [w EXCEPT !.stack = Front(@), !.order = Append(@, top)]
      BY <1>2, <1>4, <2>3
    <3>2. Front(w.stack) \in Seq(g.P) /\ Append(w.order, top) \in Seq(g.P)
      BY <1>1, <1>4, <2>1, FrontRange, AppendRange
    <3>3. /\ v \in W /\ v.stack = Front(w.stack) /\ v.order = Append(w.order, top)
          /\ v.seen = w.seen /\ v.issues = w.issues
      BY <1>1, <3>1, <3>2 DEF W
    <3>4. Pops(g, w, v)
      BY <1>4, <2>2, <2>3, <3>3 DEF Pops, top
    <3>5. WalkInv(g, v)
      BY <1>0, <1>1, <3>4, PopKeeps
    <3> QED BY <1>4, <3>3, <3>4, <3>5 DEF WalkStates, W, g, v
  <2>4. CASE pending # {}
    <3>1. next \in pending
      <4>1. pending \in SUBSET Nat
        BY <2>2
      <4> HIDE DEF pending
      <4>2. \E n \in pending : \A k \in pending : n <= k
        BY <2>4, <4>1, LeastId
      <4> QED BY <4>2 DEF next
    <3>2. next \in g.req[top] /\ <<top, next>> \notin w.seen /\ next \in Nat
      BY <2>2, <3>1
    <3> DEFINE x == [w EXCEPT !.seen = @ \cup {<<top, next>>}]
    <3>3. /\ x \in W /\ x.stack = w.stack /\ x.order = w.order /\ x.issues = w.issues
          /\ x.seen = w.seen \cup {<<top, next>>}
      BY <1>1, <2>1, <3>2 DEF W
    <3>4. v = Visit(reps, x, next)
      BY <1>2, <1>4, <2>4
    <3> HIDE DEF x, pending
    <3>5. /\ v \in W /\ v.order = x.order /\ v.seen = x.seen
          /\ v.stack = (IF next \in g.U /\ next \notin Range(x.stack) /\ next \notin Range(x.order)
                        THEN Append(x.stack, next) ELSE x.stack)
          /\ v.issues = x.issues \cup CodesOf(g, x, next)
      <4>0. g.U \subseteq g.P
        BY <1>0 DEF Walkable
      <4>1. CASE next \notin g.P
        <5>1. v = [x EXCEPT !.issues = @ \cup {"MISSING_REQUIRED_COMPONENT"}]
          BY <1>0, <3>4, <4>1 DEF Visit
        <5>2. CodesOf(g, x, next) = {"MISSING_REQUIRED_COMPONENT"} /\ next \notin g.U
          BY <4>0, <4>1 DEF CodesOf
        <5> QED BY <3>3, <5>1, <5>2 DEF W, IssueCodes
      <4>2. CASE next \in g.P /\ next \notin g.U
        <5>1. v = [x EXCEPT !.issues = @ \cup {"AMBIGUOUS_REQUIRED_COMPONENT"}]
          BY <1>0, <3>4, <4>2 DEF Visit
        <5>2. CodesOf(g, x, next) = {"AMBIGUOUS_REQUIRED_COMPONENT"}
          BY <4>2 DEF CodesOf
        <5> QED BY <3>3, <4>2, <5>1, <5>2 DEF W, IssueCodes
      <4>3. CASE next \in g.U
        <5>0. next \in g.P /\ ByProduct(reps, next) # {} /\ ~(Cardinality(ByProduct(reps, next)) > 1)
          BY <1>0, <4>0, <4>3
        <5>1. CASE next \in Range(x.stack)
          <6>1. v = [x EXCEPT !.issues = @ \cup {"CYCLIC_COMPONENT_DEPENDENCY"}]
            BY <3>4, <5>0, <5>1 DEF Visit
          <6>2. CodesOf(g, x, next) = {"CYCLIC_COMPONENT_DEPENDENCY"}
            BY <4>3, <5>0, <5>1 DEF CodesOf
          <6> QED BY <3>3, <5>1, <6>1, <6>2 DEF W, IssueCodes
        <5>2. CASE next \notin Range(x.stack)
          <6>1. CodesOf(g, x, next) = {}
            BY <4>3, <5>0, <5>2 DEF CodesOf
          <6>2. CASE next \in Range(x.order)
            <7>1. v = x
              BY <3>4, <5>0, <5>2, <6>2 DEF Visit
            <7> QED BY <3>3, <6>1, <6>2, <7>1
          <6>3. CASE next \notin Range(x.order)
            <7>1. v = [x EXCEPT !.stack = Append(@, next)]
              BY <3>4, <5>0, <5>2, <6>3 DEF Visit
            <7>2. Append(x.stack, next) \in Seq(g.P)
              BY <1>1, <3>3, <5>0, AppendRange
            <7> QED BY <3>3, <4>3, <5>2, <6>1, <6>3, <7>1, <7>2 DEF W
          <6> QED BY <6>2, <6>3
        <5> QED BY <5>1, <5>2
      <4> QED BY <4>1, <4>2, <4>3
    <3>6. Looks(g, w, v, next)
      <4>1. CodesOf(g, x, next) = CodesOf(g, w, next)
        BY <3>3 DEF CodesOf
      <4> QED BY <1>4, <3>2, <3>3, <3>5, <4>1 DEF Looks, On, top
    <3>7. WalkInv(g, v)
      BY <1>0, <1>1, <3>6, LookKeeps
    <3> QED BY <1>4, <3>2, <3>5, <3>6, <3>7 DEF WalkStates, W, g, v, top
  <2> QED BY <2>3, <2>4
<1> QED BY <1>3, <1>4

(* The closure is a walk to its end.                                                *)
LEMMA ClosureEnds ==
    ASSUME NEW reps, IsFiniteSet(reps), \A r \in reps : RepTyped(r), NEW root \in reps
    PROVE  closure(reps, root) \in WalkStates(GraphOf(reps, root)) /\ closure(reps, root).stack = <<>>
<1> DEFINE g == GraphOf(reps, root)
           N == ClosureSteps(reps)
           S == WalkStates(g)
           a == [stack |-> <<root.product>>, seen |-> {}, order |-> <<>>, issues |-> {}]
           step == [w \in S |-> ClosureStep(reps, root, w)]
           Is(w) == w = [k \in 0..N |-> IF k = 0 THEN a ELSE ClosureStep(reps, root, w[k - 1])]
           name == CHOOSE w : Is(w)
           max == Cardinality(g.P) + Cardinality(Edges(g))
<1>1. /\ N \in Nat /\ Walkable(g) /\ IsFiniteSet(g.P) /\ IsFiniteSet(Edges(g)) /\ g.root = root.product
      /\ max <= N
  BY GraphShape
<1>2. a \in S
  <2>1. g.root \in g.P
    BY <1>1 DEF Walkable
  <2>2. a \in [stack : Seq(g.P), seen : SUBSET (g.P \X Nat), order : Seq(g.P), issues : SUBSET IssueCodes]
    <3>1. <<root.product>> \in Seq(g.P) /\ <<>> \in Seq(g.P)
      <4> DEFINE P == g.P
                 r == root.product
      <4>1. r \in P
        BY <1>1, <2>1
      <4> HIDE DEF P, r
      <4>2. <<r>> \in Seq(P) /\ <<>> \in Seq(P)
        BY <4>1
      <4> QED BY <4>2, Zenon DEF P, r
    <3> HIDE DEF g
    <3> QED BY <3>1
  <2>3. a.stack = <<g.root>> /\ a.seen = {} /\ a.order = <<>> /\ a.issues = {}
    BY <1>1
  <2> HIDE DEF a, g
  <2>4. WalkInv(g, a)
    BY <1>1, <2>3, WalkStart
  <2> QED BY <2>2, <2>4 DEF WalkStates
<1>3. \A w \in S : /\ ClosureStep(reps, root, w) \in S
                   /\ w.stack = <<>> => ClosureStep(reps, root, w) = w
                   /\ w.stack # <<>> =>
                        \/ Pops(g, w, ClosureStep(reps, root, w))
                        \/ \E n : Looks(g, w, ClosureStep(reps, root, w), n) /\ <<Last(w.stack), n>> \notin w.seen
  BY StepShape
<1>4. \A w \in S : /\ w.stack = <<>> => ClosureStep(reps, root, w) = w
                   /\ w.stack # <<>> => Progress(ClosureStep(reps, root, w)) = Progress(w) + 1
                   /\ Progress(w) \in Nat /\ (w.stack # <<>> => Progress(w) < max) /\ max \in Nat
  <2> SUFFICES ASSUME NEW w \in S
               PROVE  /\ w.stack # <<>> => Progress(ClosureStep(reps, root, w)) = Progress(w) + 1
                      /\ Progress(w) \in Nat /\ (w.stack # <<>> => Progress(w) < max) /\ max \in Nat
    BY <1>3
  <2>1. WalkInv(g, w)
    BY DEF WalkStates
  <2> HIDE DEF g, S, a
  <2>2. w.stack # <<>> => Progress(ClosureStep(reps, root, w)) = Progress(w) + 1
    BY <1>1, <1>3, <2>1, WalkGrows
  <2> QED BY <1>1, <2>1, <2>2, WalkBound
<1>5. step \in [S -> S] /\ \A w \in S : step[w] = ClosureStep(reps, root, w)
  BY <1>3
<1> HIDE DEF N, S, g, a, step, max
<1>6. \E w : Is(w)
  <2>1. PICK w : Walks(w, N, S, a, step)
    BY <1>1, <1>2, <1>5, WalkExists
  <2>2. w \in [0..N -> S] /\ w[0] = a /\ \A k \in 1..N : w[k] = step[w[k - 1]]
    BY <2>1 DEF Walks
  <2>3. \A k \in 0..N : w[k] = IF k = 0 THEN a ELSE ClosureStep(reps, root, w[k - 1])
    <3> SUFFICES ASSUME NEW k \in 1..N PROVE w[k] = ClosureStep(reps, root, w[k - 1])
      BY <1>1, <2>2
    <3>1. w[k - 1] \in S
      BY <1>1, <2>2
    <3> QED BY <1>5, <2>2, <3>1
  <2>4. Is(w)
    BY <2>2, <2>3
  <2> QED BY <2>4
<1>7. Is(name)
  <2> HIDE DEF Is
  <2> QED BY <1>6
<1>8. closure(reps, root) = name[N]
  BY DEF closure, N, a
<1>9. name[0] = a /\ \A k \in 1..N : name[k] = ClosureStep(reps, root, name[k - 1])
  <2> HIDE DEF name
  <2>1. \A k \in 0..N : name[k] = IF k = 0 THEN a ELSE ClosureStep(reps, root, name[k - 1])
    BY <1>7
  <2>2. 0 \in 0..N /\ \A k \in 1..N : k \in 0..N /\ k # 0
    BY <1>1
  <2> QED BY <2>1, <2>2
<1> HIDE DEF name, Is
<1> DEFINE Good(k) == name[k] \in S /\ (name[k].stack = <<>> \/ Progress(name[k]) >= k)
           G == {k \in 0..N : Good(k)}
<1>10. 0 \in G
  <2>1. name[0] \in S /\ Progress(name[0]) \in Nat
    BY <1>2, <1>4, <1>9
  <2> QED BY <1>1, <2>1
<1>11. ASSUME NEW k \in 1..N, k - 1 \in G PROVE k \in G
  <2> DEFINE w == name[k - 1]
             v == name[k]
  <2>1. w \in S /\ (w.stack = <<>> \/ Progress(w) >= k - 1) /\ v = ClosureStep(reps, root, w) /\ k \in 0..N
    BY <1>9, <1>11
  <2> HIDE DEF w, v
  <2>2. v \in S /\ (w.stack = <<>> => v = w) /\ (w.stack # <<>> => Progress(v) = Progress(w) + 1)
        /\ Progress(w) \in Nat
    BY <1>3, <1>4, <2>1
  <2>3. v.stack = <<>> \/ Progress(v) >= k
    <3>1. CASE w.stack = <<>>
      BY <2>2, <3>1
    <3>2. CASE w.stack # <<>>
      <4> DEFINE p == Progress(w)
                 q == Progress(v)
      <4>1. p \in Nat /\ q = p + 1 /\ p >= k - 1
        BY <2>1, <2>2, <3>2
      <4> HIDE DEF p, q
      <4>2. q >= k
        BY <4>1
      <4> QED BY <4>2 DEF q
    <3> QED BY <3>1, <3>2
  <2> QED BY <2>1, <2>2, <2>3 DEF v
<1>12. N \in G
  <2>1. \A k \in 1..N : k - 1 \in G => k \in G
    BY <1>11
  <2> HIDE DEF G
  <2>2. 0..N \subseteq G
    BY <1>1, <1>10, <2>1, HandedOn
  <2> QED BY <1>1, <2>2
<1> DEFINE w == name[N]
<1>13. w \in S /\ (w.stack = <<>> \/ Progress(w) >= N)
  BY <1>12
<1> HIDE DEF w
<1>14. w.stack = <<>>
  <2> DEFINE p == Progress(w)
  <2>1. p \in Nat /\ max \in Nat /\ (w.stack # <<>> => p < max) /\ max <= N /\ (w.stack = <<>> \/ p >= N)
    BY <1>1, <1>4, <1>13
  <2> HIDE DEF p
  <2> QED BY <1>1, <2>1
<1> QED BY <1>8, <1>13, <1>14 DEF w, S, g

(* What the rest of the pipeline relies on of a closure.                            *)
LEMMA ClosureShape ==
    ASSUME NEW reps, IsFiniteSet(reps), \A r \in reps : RepTyped(r), NEW root \in reps
    PROVE  LET walked == closure(reps, root)
           IN  /\ ClosureOf(reps, root, walked)
               /\ walked.order \in Seq(Nat) /\ walked.order # <<>>
               /\ Last(walked.order) = root.product
               /\ \A n \in Range(walked.order) :
                     /\ RecordAt(reps, root, n) \in reps
                     /\ RecordAt(reps, root, n).product = n
                     /\ RecordAt(reps, root, n).requires = RequiredBy(reps, root)[n]
<1> DEFINE g == GraphOf(reps, root)
           w == closure(reps, root)
           order == w.order
           req == RequiredBy(reps, root)
           next == Resolvables(reps, root)
           required == UNION {req[n] : n \in Reach(g)}
<1>0. w \in WalkStates(g) /\ w.stack = <<>>
  BY ClosureEnds
<1> HIDE DEF w
<1>1. WalkInv(g, w)
  BY <1>0 DEF WalkStates
<1>2. /\ Walkable(g) /\ g.P \subseteq Nat /\ g.root = root.product /\ Links(g) = next /\ g.req = req
      /\ \A n : n \in g.P <=> ByProduct(reps, n) # {}
      /\ \A n : n \in g.P \ g.U <=> Cardinality(ByProduct(reps, n)) > 1
      /\ \A n \in Reach(g) : /\ RecordAt(reps, root, n) \in reps
                             /\ RecordAt(reps, root, n).product = n
                             /\ RecordAt(reps, root, n).requires = g.req[n]
  <2>1. g.req = req
    BY DEF GraphOf
  <2> HIDE DEF g, req, next
  <2> QED BY <2>1, GraphShape DEF g, next
<1> HIDE DEF g
<1>3. /\ Range(order) = Reach(g) /\ Len(order) = Cardinality(Reach(g))
      /\ order \in Seq(g.P) /\ order # <<>> /\ Last(order) = g.root
      /\ \A i, j \in 1..Len(order) :
            order[j] \in Links(g)[order[i]] => j < i \/ order[i] \in Follows(Links(g), order[j])
      /\ "CYCLIC_COMPONENT_DEPENDENCY" \in w.issues <=> \E n \in Reach(g) : n \in Follows(Links(g), n)
      /\ "MISSING_REQUIRED_COMPONENT" \in w.issues <=> \E n \in UNION {g.req[m] : m \in Reach(g)} : n \notin g.P
      /\ "AMBIGUOUS_REQUIRED_COMPONENT" \in w.issues
            <=> \E n \in UNION {g.req[m] : m \in Reach(g)} : n \in g.P \ g.U
  BY <1>0, <1>1, <1>2, WalkEnd
<1>4. Reach(g) = {root.product} \cup Follows(next, root.product)
  BY <1>2 DEF Reach
<1> HIDE DEF req, next, required
<1>5. /\ "MISSING_REQUIRED_COMPONENT" \in w.issues <=> \E n \in required : ByProduct(reps, n) = {}
      /\ "AMBIGUOUS_REQUIRED_COMPONENT" \in w.issues
             <=> \E n \in required : Cardinality(ByProduct(reps, n)) > 1
  <2>1. required = UNION {g.req[m] : m \in Reach(g)}
    BY <1>2 DEF required
  <2> QED BY <1>2, <1>3, <2>1
<1>6. ClosureOf(reps, root, w)
  <2>1. \A i, j \in 1..Len(order) :
            order[j] \in next[order[i]] => j < i \/ order[i] \in Follows(next, order[j])
    BY <1>2, <1>3
  <2>2. "CYCLIC_COMPONENT_DEPENDENCY" \in w.issues <=> \E n \in Reach(g) : n \in Follows(next, n)
    BY <1>2, <1>3
  <2> DEFINE inside == {root.product} \cup Follows(next, root.product)
  <2>3. inside = Reach(g) /\ required = UNION {req[n] : n \in inside}
    BY <1>4 DEF required
  <2> HIDE DEF inside
  <2>4. /\ Range(order) = inside /\ Len(order) = Cardinality(inside)
        /\ "CYCLIC_COMPONENT_DEPENDENCY" \in w.issues <=> \E n \in inside : n \in Follows(next, n)
    BY <1>3, <2>2, <2>3
  <2> QED BY <1>5, <2>1, <2>3, <2>4, Zenon DEF ClosureOf, inside, next, req
<1>7. order \in Seq(Nat)
  <2>1. Seq(g.P) \subseteq Seq(Nat)
    BY <1>2
  <2> QED BY <1>3, <2>1
<1> QED BY <1>2, <1>3, <1>6, <1>7 DEF w, req

-----------------------------------------------------------------------------------
(* The ordering of the plans: the key a plan is ranked by is a strict order, the    *)
(* first of the ranked plans leads, and the verdict about it is the one of the      *)
(* frontier.                                                                        *)

(* The order of the keys is a strict one.                                           *)
LEMMA LexIrreflexive ==
    ASSUME NEW a \in Seq(Int)
    PROVE  ~LexLess(a, a)
<1> SUFFICES ASSUME NEW i \in 1..Len(a), i > Len(a) \/ a[i] < a[i] PROVE FALSE
  BY DEF LexLess
<1>1. Len(a) \in Nat /\ a[i] \in Int
  BY LenProperties, ElementOfSeq
<1> QED BY <1>1

(* Comparing tuples first difference first is transitive.                           *)
LEMMA LexTransitive ==
    ASSUME NEW a \in Seq(Int), NEW b \in Seq(Int), NEW c \in Seq(Int), LexLess(a, b), LexLess(b, c)
    PROVE  LexLess(a, c)
<1>0. /\ Len(a) \in Nat /\ Len(b) \in Nat /\ Len(c) \in Nat
      /\ \A j \in 1..Len(a) : a[j] \in Int
      /\ \A j \in 1..Len(b) : b[j] \in Int
      /\ \A j \in 1..Len(c) : c[j] \in Int
  BY LenProperties, ElementOfSeq
<1> DEFINE l == Len(a)
           m == Len(b)
           n == Len(c)
<1>1. PICK i \in 1..m : /\ \A j \in 1..(i - 1) : j <= l /\ a[j] = b[j]
                        /\ i > l \/ a[i] < b[i]
  BY DEF LexLess
<1>2. PICK k \in 1..n : /\ \A j \in 1..(k - 1) : j <= m /\ b[j] = c[j]
                        /\ k > m \/ b[k] < c[k]
  BY DEF LexLess
<1>3. l \in Nat /\ m \in Nat /\ n \in Nat /\ i \in 1..m /\ k \in 1..n
  BY <1>0
<1> HIDE DEF l, m, n
<1>4. CASE i <= k
  <2>1. i \in 1..n
    BY <1>3, <1>4
  <2>2. \A j \in 1..(i - 1) : j <= l /\ a[j] = c[j]
    <3> SUFFICES ASSUME NEW j \in 1..(i - 1) PROVE j <= l /\ a[j] = c[j]
      OBVIOUS
    <3>1. j \in 1..(k - 1)
      BY <1>3, <1>4
    <3> QED BY <1>1, <1>2, <3>1
  <2>3. i > l \/ a[i] < c[i]
    <3> SUFFICES ASSUME ~(i > l) PROVE a[i] < c[i]
      OBVIOUS
    <3>1. i \in 1..l /\ a[i] < b[i] /\ a[i] \in Int /\ b[i] \in Int /\ c[i] \in Int
      BY <1>0, <1>1, <1>3, <2>1 DEF l, m, n
    <3>2. b[i] = c[i] \/ b[i] < c[i]
      <4>1. CASE i < k
        <5>1. i \in 1..(k - 1)
          BY <1>3, <4>1
        <5> QED BY <1>2, <5>1
      <4>2. CASE i = k
        BY <1>2, <1>3, <4>2
      <4> QED BY <1>3, <1>4, <4>1, <4>2
    <3> QED BY <3>1, <3>2
  <2> QED BY <2>1, <2>2, <2>3 DEF LexLess, l, n
<1>5. CASE k < i
  <2>1. \A j \in 1..(k - 1) : j <= l /\ a[j] = c[j]
    <3> SUFFICES ASSUME NEW j \in 1..(k - 1) PROVE j <= l /\ a[j] = c[j]
      OBVIOUS
    <3>1. j \in 1..(i - 1)
      BY <1>3, <1>5
    <3> QED BY <1>1, <1>2, <3>1
  <2>2. k \in 1..(i - 1) /\ ~(k > m)
    BY <1>3, <1>5
  <2>3. k <= l /\ a[k] = b[k] /\ b[k] < c[k]
    BY <1>1, <1>2, <2>2
  <2> QED BY <2>1, <2>3 DEF LexLess, l, n
<1> QED BY <1>3, <1>4, <1>5

(* The keys of a plan are the same, whichever of its records gives them.            *)
Alike(a, p) == a.ids = p.ids /\ a.exception = p.exception /\ a.bounds = p.bounds /\ a.status = p.status

(* Plans that agree on what the ordering reads have the same keys.                  *)
LEMMA KeysAlike ==
    ASSUME NEW a, NEW p, a.ids = p.ids, a.exception = p.exception, a.bounds = p.bounds
    PROVE  /\ authoritative_ordering_key(a) = authoritative_ordering_key(p)
           /\ Corners(a) = Corners(p)
<1>1. /\ require_bounds(a) = require_bounds(p)
      /\ \A v, r, c, m, g : OrderingKey(a, v, r, c, m, g) = OrderingKey(p, v, r, c, m, g)
  BY DEF require_bounds, OrderingKey
<1>2. authoritative_ordering_key(a) = authoritative_ordering_key(p)
  BY <1>1 DEF authoritative_ordering_key
<1> DEFINE b == require_bounds(p)
           Ends(i) == {i.low, i.high}
<1>3. Corners(a) = {OrderingKey(a, v, r, c, m, g) :
                       v \in Ends(b.preference), r \in Ends(b.risk), c \in Ends(b.cost),
                       m \in Ends(b.coverage), g \in Ends(b.age)}
  BY <1>1 DEF Corners
<1>4. Corners(p) = {OrderingKey(p, v, r, c, m, g) :
                       v \in Ends(b.preference), r \in Ends(b.risk), c \in Ends(b.cost),
                       m \in Ends(b.coverage), g \in Ends(b.age)}
  BY DEF Corners
<1> HIDE DEF b
<1>5. Corners(a) = Corners(p)
  BY <1>1, <1>3, <1>4
<1> QED BY <1>2, <1>5

(* The corners of two plans decide as all their outcomes do.                        *)
LEMMA CornersSuffice ==
    ASSUME NEW s \in BoundedPlan, NEW c \in BoundedPlan, s.bounds # {}, c.bounds # {}
    PROVE  CanOutrank(c, s, Corners) <=> CanOutrank(c, s, Outcomes)
<1>1. ASSUME NEW p \in BoundedPlan, p.bounds # {}
      PROVE  /\ optimistic_envelope_key(p) \in Corners(p) /\ conservative_envelope_key(p) \in Corners(p)
             /\ Corners(p) \subseteq Outcomes(p)
  <2> DEFINE b == require_bounds(p)
             Ends(i) == {i.low, i.high}
  <2>1. /\ b.preference.low \in Int /\ b.preference.high \in Int /\ b.preference.low <= b.preference.high
        /\ b.risk.low \in Int /\ b.risk.high \in Int /\ b.risk.low <= b.risk.high
        /\ b.cost.low \in Int /\ b.cost.high \in Int /\ b.cost.low <= b.cost.high
        /\ b.coverage.low \in Int /\ b.coverage.high \in Int /\ b.coverage.low <= b.coverage.high
        /\ b.age.low \in Int /\ b.age.high \in Int /\ b.age.low <= b.age.high
    BY <1>1, BoundsShape
  <2>2. Corners(p) = {OrderingKey(p, v, r, k, m, g) :
                         v \in Ends(b.preference), r \in Ends(b.risk), k \in Ends(b.cost),
                         m \in Ends(b.coverage), g \in Ends(b.age)}
    BY DEF Corners
  <2>3. Outcomes(p) = {OrderingKey(p, v, r, k, m, g) :
                         v \in b.preference.low .. b.preference.high, r \in b.risk.low .. b.risk.high,
                         k \in b.cost.low .. b.cost.high, m \in b.coverage.low .. b.coverage.high,
                         g \in b.age.low .. b.age.high}
    BY DEF Outcomes
  <2>4. /\ optimistic_envelope_key(p) =
              OrderingKey(p, b.preference.high, b.risk.low, b.cost.low, b.coverage.high, b.age.low)
        /\ conservative_envelope_key(p) =
              OrderingKey(p, b.preference.low, b.risk.high, b.cost.high, b.coverage.low, b.age.high)
    BY DEF optimistic_envelope_key, conservative_envelope_key
  <2> HIDE DEF b
  <2>5. /\ Ends(b.preference) \subseteq b.preference.low .. b.preference.high
        /\ Ends(b.risk) \subseteq b.risk.low .. b.risk.high
        /\ Ends(b.cost) \subseteq b.cost.low .. b.cost.high
        /\ Ends(b.coverage) \subseteq b.coverage.low .. b.coverage.high
        /\ Ends(b.age) \subseteq b.age.low .. b.age.high
    BY <2>1
  <2>6. Corners(p) \subseteq Outcomes(p)
    BY <2>2, <2>3, <2>5
  <2>7. optimistic_envelope_key(p) \in Corners(p) /\ conservative_envelope_key(p) \in Corners(p)
    BY <2>2, <2>4
  <2> QED BY <2>6, <2>7
<1>2. CanOutrank(c, s, Corners) => CanOutrank(c, s, Outcomes)
  BY <1>1 DEF CanOutrank
<1>3. CanOutrank(c, s, Outcomes) => CanOutrank(c, s, Corners)
  <2> SUFFICES ASSUME CanOutrank(c, s, Outcomes) PROVE CanOutrank(c, s, Corners)
    OBVIOUS
  <2>1. LexLess(optimistic_envelope_key(c), conservative_envelope_key(s))
    BY EnvelopeTestIsExact
  <2> QED BY <1>1, <2>1 DEF CanOutrank
<1> QED BY <1>2, <1>3

\* The plans that are ranked: rank_and_frontiers orders the eligible ones whose preference bounds are known.
Rankable(Q) == {p \in Q : p.status \in Eligible /\ p.bounds # {}}

(* The key of a plan whose bounds are known is a tuple of integers.                 *)
LEMMA KeyOfPlan ==
    ASSUME NEW p, Bounded(p) \in BoundedPlan, p.bounds # {}
    PROVE  authoritative_ordering_key(p) \in Seq(Int)
<1> DEFINE b == require_bounds(Bounded(p))
           q == Bounded(p)
<1>1. q.ids = p.ids /\ q.exception = p.exception /\ q.bounds = p.bounds
  BY DEF Bounded
<1>2. b \in OrderingBounds
  <2> HIDE DEF q
  <2>1. require_bounds(q) \in OrderingBounds
    BY <1>1 DEF BoundedPlan, require_bounds, q
  <2> QED BY <2>1 DEF q
<1> HIDE DEF b
<1>3. b.preference \in Interval /\ b.risk \in BaseInterval /\ b.cost \in BaseInterval
      /\ b.coverage \in Interval /\ b.age \in Interval
  BY <1>2 DEF OrderingBounds
<1>4. b.preference.low \in Int /\ b.risk.base \in Int /\ b.cost.base \in Int /\ b.coverage.low \in Int /\ b.age.high \in Int
  BY <1>3 DEF Interval, BaseInterval
<1>5. authoritative_ordering_key(q) = authoritative_ordering_key(p)
  <2> HIDE DEF q
  <2> QED BY <1>1, KeysAlike
<1>6. authoritative_ordering_key(q)
        = OrderingKey(q, b.preference.low, b.risk.base, b.cost.base, b.coverage.low, b.age.high)
  BY DEF authoritative_ordering_key, b
<1> DEFINE k == OrderingKey(q, b.preference.low, b.risk.base, b.cost.base, b.coverage.low, b.age.high)
<1>7. KeyIs(k, q, b.preference.low, b.risk.base, b.cost.base, b.coverage.low, b.age.high)
  <2> HIDE DEF q
  <2> QED BY <1>4, KeyShape DEF q
<1> HIDE DEF k, q
<1> QED BY <1>5, <1>6, <1>7 DEF KeyIs, k

(* Finitely many plans have one that no other is ahead of.                          *)
LEMMA LeaderExists ==
    ASSUME NEW R, IsFiniteSet(R), R # {}, NEW key, \A p \in R : key[p] \in Seq(Int)
    PROVE  \E p \in R : \A q \in R : ~LexLess(key[q], key[p])
<1> DEFINE Before(p) == {q \in R : LexLess(key[q], key[p])}
           F == {Before(p) : p \in R}
           O == StrictSubsetOrdering(R)
<1>1. F \subseteq FiniteSubsetsOf(R) /\ F # {}
  <2>1. \A p \in R : Before(p) \in SUBSET R /\ IsFiniteSet(Before(p))
    BY FS_Subset
  <2> QED BY <2>1 DEF FiniteSubsetsOf
<1>2. IsWellFoundedOn(O, FiniteSubsetsOf(R))
  BY FS_StrictSubsetOrderingWellFounded
<1>3. PICK x \in F : \A y \in F : ~(<<y, x>> \in O)
  <2> HIDE DEF F, O
  <2> QED BY <1>1, <1>2, WFMin
<1>4. PICK p \in R : x = Before(p)
  BY <1>3
<1>5. ASSUME NEW q \in R, LexLess(key[q], key[p]) PROVE FALSE
  <2>1. Before(q) \subseteq Before(p)
    <3> SUFFICES ASSUME NEW r \in R, LexLess(key[r], key[q]) PROVE LexLess(key[r], key[p])
      OBVIOUS
    <3> QED BY <1>5, LexTransitive
  <2>2. q \in Before(p) /\ q \notin Before(q)
    BY <1>5, LexIrreflexive
  <2>3. Before(q) \in SUBSET R /\ Before(p) \in SUBSET R /\ Before(q) # Before(p)
    BY <2>2
  <2>4. <<Before(q), Before(p)>> \in O
    BY <2>1, <2>3 DEF StrictSubsetOrdering
  <2> QED BY <1>3, <1>4, <2>4
<1> QED BY <1>5

(* The first of the ranked plans leads the authoritative order.                     *)
LEMMA FirstLeads ==
    ASSUME NEW Q, IsFiniteSet(Q), \A p \in Q : Bounded(p) \in BoundedPlan
    PROVE  LET R == Rankable(Q)
               ranked == RankedPlans(Q)
           IN  /\ ranked = <<>> <=> R = {}
               /\ R # {} => /\ ranked[1] \in R
                            /\ \A q \in R : ~LexLess(authoritative_ordering_key(q),
                                                     authoritative_ordering_key(ranked[1]))
<1> DEFINE R == Rankable(Q)
           ranked == RankedPlans(Q)
           ahead(p) == {q \in R : LexLess(authoritative_ordering_key(q), authoritative_ordering_key(p))}
           level(p) == {q \in R : authoritative_ordering_key(q) = authoritative_ordering_key(p)}
           At(i, p) == i - Cardinality(ahead(p)) \in 1..Cardinality(level(p))
           n == Cardinality(R)
<1>1. IsFiniteSet(R) /\ R \subseteq Q
  <2>1. R \in SUBSET Q
    BY DEF Rankable
  <2> HIDE DEF R
  <2> QED BY <2>1, FS_Subset
<1>2. n \in Nat /\ (n = 0 <=> R = {})
  <2> HIDE DEF R
  <2> QED BY <1>1, FS_CardinalityType, FS_EmptySet
<1>3. ranked = [i \in 1..n |-> CHOOSE p \in R : At(i, p)]
  BY DEF RankedPlans, Rankable
<1>4. \A p \in R : authoritative_ordering_key(p) \in Seq(Int)
  BY KeyOfPlan DEF Rankable
<1>5. \A p : /\ IsFiniteSet(ahead(p)) /\ Cardinality(ahead(p)) \in Nat /\ (Cardinality(ahead(p)) = 0 <=> ahead(p) = {})
             /\ IsFiniteSet(level(p)) /\ Cardinality(level(p)) \in Nat /\ (Cardinality(level(p)) = 0 <=> level(p) = {})
  <2> SUFFICES ASSUME NEW p
               PROVE  /\ IsFiniteSet(ahead(p)) /\ Cardinality(ahead(p)) \in Nat
                      /\ (Cardinality(ahead(p)) = 0 <=> ahead(p) = {})
                      /\ IsFiniteSet(level(p)) /\ Cardinality(level(p)) \in Nat
                      /\ (Cardinality(level(p)) = 0 <=> level(p) = {})
    OBVIOUS
  <2>1. ahead(p) \in SUBSET R /\ level(p) \in SUBSET R
    OBVIOUS
  <2> HIDE DEF ahead, level, R
  <2>2. IsFiniteSet(ahead(p)) /\ IsFiniteSet(level(p))
    BY <1>1, <2>1, FS_Subset
  <2> QED BY <2>2, FS_CardinalityType, FS_EmptySet
<1> HIDE DEF R
<1>6. ranked = <<>> <=> R = {}
  <2>0. DOMAIN ranked = 1..n
    BY <1>3
  <2> HIDE DEF ranked
  <2>1. R = {} => ranked = <<>>
    <3> SUFFICES ASSUME R = {} PROVE ranked = <<>>
      OBVIOUS
    <3>1. n = 0
      BY <1>2
    <3>2. ranked = [i \in 1..0 |-> CHOOSE p \in R : At(i, p)]
      BY <1>3, <3>1
    <3> HIDE DEF At
    <3> QED BY <3>2
  <2>2. ranked = <<>> => R = {}
    <3> SUFFICES ASSUME ranked = <<>> PROVE n = 0
      BY <1>2
    <3>1. 1..n = {}
      BY <2>0
    <3> HIDE DEF n
    <3> QED BY <1>2, <3>1
  <2> QED BY <2>1, <2>2
<1>7. ASSUME R # {} PROVE ranked[1] \in R /\ ahead(ranked[1]) = {}
  <2>1. 1 \in 1..n
    <3> HIDE DEF n
    <3> QED BY <1>2, <1>7
  <2>2. ranked[1] = CHOOSE p \in R : At(1, p)
    <3> HIDE DEF At
    <3> QED BY <1>3, <2>1
  <2>3. \E p \in R : At(1, p)
    <3> DEFINE key == [p \in R |-> authoritative_ordering_key(p)]
    <3>1. \A p \in R : key[p] \in Seq(Int) /\ key[p] = authoritative_ordering_key(p)
      BY <1>4
    <3> HIDE DEF key
    <3>2. PICK p \in R : \A q \in R : ~LexLess(key[q], key[p])
      BY <1>1, <1>7, <3>1, LeaderExists
    <3>3. ahead(p) = {} /\ p \in level(p)
      BY <3>1, <3>2
    <3> DEFINE a == Cardinality(ahead(p))
               l == Cardinality(level(p))
    <3>4. a = 0 /\ l \in Nat /\ l # 0
      <4> HIDE DEF ahead, level
      <4> QED BY <1>5, <3>3
    <3> HIDE DEF a, l
    <3>5. 1 - a \in 1..l
      BY <3>4
    <3> QED BY <3>5 DEF a, l
  <2> DEFINE s == ranked[1]
  <2>4. s \in R /\ At(1, s)
    <3> HIDE DEF At, ranked
    <3> QED BY <2>2, <2>3
  <2> HIDE DEF s
  <2>5. ahead(s) = {}
    <3> DEFINE a == Cardinality(ahead(s))
               l == Cardinality(level(s))
    <3>1. a \in Nat /\ l \in Nat /\ 1 - a \in 1..l /\ (a = 0 <=> ahead(s) = {})
      <4> HIDE DEF ahead, level
      <4> QED BY <1>5, <2>4
    <3> HIDE DEF a, l
    <3>2. a = 0
      BY <3>1
    <3> QED BY <3>1, <3>2
  <2> QED BY <2>4, <2>5 DEF s
<1> HIDE DEF ranked
<1> QED BY <1>6, <1>7 DEF R, ranked

\* What the annotations of a ranking keep.
PlanLike(p) == {"ids", "exception", "bounds", "status"} \subseteq DOMAIN p

(* A plan that build_solution_plans makes has the fields the ranking annotates      *)
(* still at their defaults.                                                         *)
LEMMA PlanIsLike ==
    ASSUME NEW m, NEW gates, NEW status, NEW d
    PROVE  PlanLike(Plan(m, gates, status, d))
  BY DEF PlanLike, Plan

(* Annotating a plan changes nothing the ordering reads.                            *)
LEMMA AnnotationKeeps ==
    ASSUME NEW p, PlanLike(p), NEW a, NEW b, NEW c, NEW d, NEW e
    PROVE  Alike([p EXCEPT !.ordering = a, !.pending = b, !.quote = c, !.quoteReason = d, !.autonomous = e], p)
  BY DEF PlanLike, Alike

(* rank_and_frontiers returns the plans it was given, annotated; the first of       *)
(* the ranked ones is the selected one, and the frontier is the one of its          *)
(* verdict.                                                                         *)
LEMMA RankingParts ==
    ASSUME NEW Q, \A p \in Q : PlanLike(p)
    PROVE  LET e == rank_and_frontiers(Q)
               ranked == RankedPlans(Q)
               s == ranked[1]
               C == Competitors({p \in Q : p.status \in Eligible}, s)
               verdict == assess_rank_stability(Bounded(s), C)
           IN  /\ \A a \in e.plans : \E p \in Q : Alike(a, p)
               /\ \A p \in Q : \E a \in e.plans : Alike(a, p)
               /\ ranked = <<>> => e.selected = {} /\ e.stability = "UNDETERMINED" /\ e.frontier = {}
               /\ ranked # <<>> => /\ e.selected = {s.ids} /\ e.stability = verdict.status
                                   /\ e.frontier = {s.ids} \cup {c.ids : c \in verdict.frontier}
<1> DEFINE ranked == RankedPlans(Q)
           s == ranked[1]
           eligible == {p \in Q : p.status \in Eligible}
           C == Competitors(eligible, s)
           v1 == assess_rank_stability(Bounded(s), C)
           verdict == IF ranked = <<>>
                      THEN [status |-> "UNDETERMINED", frontier |-> {},
                            unavailable |-> {p \in eligible : p.bounds = {}}]
                      ELSE v1
           selected == IF ranked = <<>> THEN {} ELSE {s.ids}
           ordering == selected \cup {p.ids : p \in verdict.frontier}
           resolution == IF ranked = <<>> THEN {} ELSE ResolutionFrontier(Q, s)
           reason(p) == quote_reason(p, selected, ordering, resolution, ranked)
           Ann(p) == [p EXCEPT !.ordering = p.ids \in ordering, !.pending = p.ids \in resolution,
                          !.quote = (reason(p) # "NONE" /\ p.action \in QuoteActions),
                          !.quoteReason = reason(p),
                          !.autonomous = (/\ p.lifecycle = "EXECUTABLE" /\ verdict.status = "STABLE"
                                          /\ ~p.cost.payment /\ p.action \in AutonomousActions)]
           e == rank_and_frontiers(Q)
<1>1. /\ e.plans = {Ann(p) : p \in Q} /\ e.selected = selected /\ e.stability = verdict.status
      /\ e.frontier = ordering
  BY DEF rank_and_frontiers
<1>2. \A p \in Q : Alike(Ann(p), p)
  <2> HIDE DEF reason, ordering, resolution, verdict
  <2> QED BY AnnotationKeeps
<1> HIDE DEF e, Ann
<1>3. (\A a \in e.plans : \E p \in Q : Alike(a, p)) /\ (\A p \in Q : \E a \in e.plans : Alike(a, p))
  BY <1>1, <1>2
<1>4. ranked = <<>> => e.selected = {} /\ e.stability = "UNDETERMINED" /\ e.frontier = {}
  <2> HIDE DEF ranked
  <2> QED BY <1>1
<1>5. ranked # <<>> => /\ e.selected = {s.ids} /\ e.stability = v1.status
                       /\ e.frontier = {s.ids} \cup {c.ids : c \in v1.frontier}
  <2> HIDE DEF ranked, s, v1
  <2> QED BY <1>1
<1> HIDE DEF ranked, v1
<1> QED BY <1>3, <1>4, <1>5 DEF e, v1, ranked

\* What RankIsRobust says of an evaluation.
Robust(e) ==
    LET eligible == {p \in e.plans : p.status \in Eligible}
        selected == {p \in eligible : p.ids \in e.selected /\ p.bounds # {}}
        rivals == {p \in eligible : p.ids \notin e.selected}
    IN  /\ e.selected = {} <=> \A p \in eligible : p.bounds = {}
        /\ \A p \in eligible, s \in selected :
              p.bounds # {} => ~LexLess(authoritative_ordering_key(p), authoritative_ordering_key(s))
        /\ e.stability # "UNDETERMINED" =>
              /\ \A p \in rivals : p.bounds # {}
              /\ \A p \in rivals, s \in selected :
                    p.ids \in e.frontier <=> CanOutrank(p, s, Corners)
              /\ e.stability = "STABLE" <=> e.frontier = e.selected

(* The verdict of a ranking, with every bound there or without one.                 *)
LEMMA VerdictCases ==
    ASSUME NEW s \in BoundedPlan, NEW C \in SUBSET BoundedPlan, s.bounds # {}
    PROVE  LET verdict == assess_rank_stability(s, C)
           IN  /\ verdict.frontier \subseteq C
               /\ verdict.status # "UNDETERMINED" =>
                     /\ \A c \in C : c.bounds # {}
                     /\ verdict.frontier = {c \in C : CanOutrank(c, s, Corners)}
                     /\ verdict.status = "STABLE" <=> verdict.frontier = {}
<1> DEFINE verdict == assess_rank_stability(s, C)
           unavailable == {p \in C \cup {s} : p.bounds = {}}
<1>1. verdict.frontier \subseteq C
  BY DEF assess_rank_stability, OrderingFrontier
<1>2. ASSUME verdict.status # "UNDETERMINED" PROVE \A c \in C : c.bounds # {}
  <2>1. unavailable = {}
    BY <1>2 DEF assess_rank_stability
  <2> QED BY <2>1
<1>3. ASSUME verdict.status # "UNDETERMINED"
      PROVE  /\ verdict.frontier = {c \in C : CanOutrank(c, s, Corners)}
             /\ verdict.status = "STABLE" <=> verdict.frontier = {}
  <2> DEFINE danger == {c \in C : CanOutrank(c, s, Outcomes)}
  <2>1. verdict.frontier = danger /\ verdict.status = IF danger = {} THEN "STABLE" ELSE "UNSTABLE"
    BY <1>2, <1>3, VerdictIsExact
  <2>2. danger = {c \in C : CanOutrank(c, s, Corners)}
    <3>1. \A c \in C : CanOutrank(c, s, Corners) <=> CanOutrank(c, s, Outcomes)
      BY <1>2, <1>3, CornersSuffice
    <3> QED BY <3>1
  <2> HIDE DEF danger, verdict
  <2> QED BY <2>1, <2>2
<1> HIDE DEF verdict
<1> QED BY <1>1, <1>2, <1>3 DEF verdict

(* What RankIsRobust asks holds of every ranking whose rows do not raise.           *)
LEMMA RankingIsRobust ==
    ASSUME NEW Q, IsFiniteSet(Q), \A p \in Q : Bounded(p) \in BoundedPlan /\ PlanLike(p),
           NEW e, e = rank_and_frontiers(Q), ~RowsRaise(e)
    PROVE  Robust(e)
<1> DEFINE ranked == RankedPlans(Q)
           s == ranked[1]
           eligible == {p \in Q : p.status \in Eligible}
           C == Competitors(eligible, s)
           verdict == assess_rank_stability(Bounded(s), C)
           R == Rankable(Q)
           key(p) == authoritative_ordering_key(p)
<1>1. /\ \A a \in e.plans : \E p \in Q : Alike(a, p)
      /\ \A p \in Q : \E a \in e.plans : Alike(a, p)
      /\ ranked = <<>> => e.selected = {} /\ e.stability = "UNDETERMINED" /\ e.frontier = {}
      /\ ranked # <<>> => /\ e.selected = {s.ids} /\ e.stability = verdict.status
                          /\ e.frontier = {s.ids} \cup {c.ids : c \in verdict.frontier}
  <2> HIDE DEF ranked, verdict, C, eligible
  <2> QED BY RankingParts DEF ranked, verdict, C, eligible
<1>2. /\ ranked = <<>> <=> R = {}
      /\ R # {} => s \in R /\ \A q \in R : ~LexLess(key(q), key(s))
  <2> HIDE DEF ranked, R
  <2> QED BY FirstLeads DEF ranked, R
<1>3. ASSUME NEW a \in e.plans, NEW b \in e.plans, a.ids = b.ids PROVE a = b
  BY <1>3 DEF RowsRaise
<1>4. ASSUME NEW p \in Q, NEW q \in Q, p.ids = q.ids PROVE Alike(p, q)
  <2>1. PICK a \in e.plans : Alike(a, p)
    BY <1>1
  <2>2. PICK b \in e.plans : Alike(b, q)
    BY <1>1
  <2>3. a = b
    BY <1>3, <1>4, <2>1, <2>2 DEF Alike
  <2> QED BY <2>1, <2>2, <2>3 DEF Alike
<1>5. ASSUME NEW a \in e.plans, NEW p \in Q, a.ids = p.ids
      PROVE  Alike(a, p) /\ key(a) = key(p) /\ Corners(a) = Corners(p)
  <2>1. PICK q \in Q : Alike(a, q)
    BY <1>1
  <2>2. Alike(q, p)
    BY <1>4, <1>5, <2>1 DEF Alike
  <2>3. Alike(a, p)
    BY <2>1, <2>2 DEF Alike
  <2> QED BY <2>3, KeysAlike DEF Alike
<1>6. \A p \in Q : /\ Bounded(p) \in BoundedPlan /\ Bounded(p).ids = p.ids /\ Bounded(p).bounds = p.bounds
                   /\ Bounded(p).exception = p.exception /\ Corners(Bounded(p)) = Corners(p)
  <2> SUFFICES ASSUME NEW p \in Q PROVE /\ Bounded(p).ids = p.ids /\ Bounded(p).bounds = p.bounds
                                        /\ Bounded(p).exception = p.exception /\ Corners(Bounded(p)) = Corners(p)
    OBVIOUS
  <2>1. Bounded(p).ids = p.ids /\ Bounded(p).bounds = p.bounds /\ Bounded(p).exception = p.exception
    BY DEF Bounded
  <2> QED BY <2>1, KeysAlike
<1> HIDE DEF key, ranked
<1>7. CASE R = {}
  <2>1. e.selected = {} /\ e.stability = "UNDETERMINED"
    BY <1>1, <1>2, <1>7
  <2>2. \A p \in {p \in e.plans : p.status \in Eligible} : p.bounds = {}
    BY <1>1, <1>7 DEF Alike, Rankable
  <2> QED BY <2>1, <2>2 DEF Robust
<1>8. CASE R # {}
  <2>1. /\ s \in R /\ \A q \in R : ~LexLess(key(q), key(s))
        /\ e.selected = {s.ids} /\ e.stability = verdict.status
        /\ e.frontier = {s.ids} \cup {c.ids : c \in verdict.frontier}
    BY <1>1, <1>2, <1>8
  <2>2. s \in Q /\ s.status \in Eligible /\ s.bounds # {} /\ Bounded(s) \in BoundedPlan
    BY <2>1 DEF Rankable
  <2>3. C = {Bounded(p) : p \in {p \in eligible : p.ids # s.ids}} /\ C \in SUBSET BoundedPlan
    BY DEF Competitors
  <2>4. /\ verdict.frontier \subseteq C
        /\ verdict.status # "UNDETERMINED" =>
              /\ \A c \in C : c.bounds # {}
              /\ verdict.frontier = {c \in C : CanOutrank(c, Bounded(s), Corners)}
              /\ verdict.status = "STABLE" <=> verdict.frontier = {}
    <3> DEFINE t == Bounded(s)
    <3>1. t \in BoundedPlan /\ t.bounds # {} /\ C \in SUBSET BoundedPlan
      BY <1>6, <2>2, <2>3
    <3> HIDE DEF t, C, s
    <3> QED BY <3>1, VerdictCases DEF t
  <2> HIDE DEF s, verdict, C
  <2> DEFINE good == {p \in e.plans : p.status \in Eligible}
             chosen == {p \in good : p.ids \in e.selected /\ p.bounds # {}}
             rivals == {p \in good : p.ids \notin e.selected}
  <2>5. e.selected = {} <=> \A p \in good : p.bounds = {}
    <3>1. PICK a \in e.plans : Alike(a, s)
      BY <1>1, <2>2
    <3> QED BY <2>1, <2>2, <3>1 DEF Alike
  <2>6. \A p \in good, x \in chosen : p.bounds # {} => ~LexLess(key(p), key(x))
    <3> SUFFICES ASSUME NEW p \in good, NEW x \in chosen, p.bounds # {} PROVE ~LexLess(key(p), key(x))
      OBVIOUS
    <3>1. key(x) = key(s)
      BY <1>5, <2>1, <2>2
    <3>2. PICK q \in Q : Alike(p, q)
      BY <1>1
    <3>3. key(p) = key(q) /\ q \in R
      BY <1>5, <3>2 DEF Alike, Rankable
    <3> QED BY <2>1, <3>1, <3>3
  <2>7. ASSUME NEW p \in rivals
        PROVE  \E q \in Q : Alike(p, q) /\ Bounded(q) \in C /\ Corners(p) = Corners(Bounded(q))
    <3>1. PICK q \in Q : Alike(p, q)
      BY <1>1
    <3>2. q \in eligible /\ q.ids # s.ids
      BY <2>1, <2>7, <3>1 DEF Alike
    <3>3. Bounded(q) \in C
      BY <2>3, <3>2
    <3>4. Corners(p) = Corners(Bounded(q))
      BY <1>5, <1>6, <3>1 DEF Alike
    <3> QED BY <3>1, <3>3, <3>4
  <2>8. ASSUME e.stability # "UNDETERMINED", NEW p \in rivals PROVE p.bounds # {}
    <3>1. PICK q \in Q : Alike(p, q) /\ Bounded(q) \in C
      BY <2>7
    <3>2. Bounded(q).bounds # {} /\ Bounded(q).bounds = q.bounds
      BY <1>6, <2>1, <2>4, <2>8, <3>1
    <3> QED BY <3>1, <3>2 DEF Alike
  <2>9. ASSUME e.stability # "UNDETERMINED", NEW p \in rivals, NEW x \in chosen
        PROVE  p.ids \in e.frontier <=> CanOutrank(p, x, Corners)
    <3>1. PICK q \in Q : Alike(p, q) /\ Bounded(q) \in C /\ Corners(p) = Corners(Bounded(q))
      BY <2>7
    <3>2. Corners(x) = Corners(Bounded(s))
      <4>1. x.ids = s.ids
        BY <2>1
      <4> QED BY <1>5, <1>6, <2>2, <4>1
    <3>3. p.ids \in e.frontier <=> Bounded(q) \in verdict.frontier
      <4>1. p.ids # s.ids /\ p.ids = Bounded(q).ids
        BY <1>6, <2>1, <3>1 DEF Alike
      <4>2. ASSUME NEW c \in verdict.frontier, c.ids = p.ids PROVE c = Bounded(q)
        <5>1. PICK r \in Q : c = Bounded(r)
          BY <2>3, <2>4
        <5>2. r.ids = q.ids
          BY <1>6, <3>1, <4>2, <5>1 DEF Alike
        <5>3. Alike(r, q)
          BY <1>4, <5>2
        <5> QED BY <5>1, <5>3 DEF Alike, Bounded
      <4> QED BY <2>1, <4>1, <4>2
    <3>4. Bounded(q) \in verdict.frontier <=> CanOutrank(Bounded(q), Bounded(s), Corners)
      BY <2>1, <2>4, <2>9, <3>1
    <3>5. CanOutrank(Bounded(q), Bounded(s), Corners) <=> CanOutrank(p, x, Corners)
      BY <3>1, <3>2 DEF CanOutrank
    <3> QED BY <3>3, <3>4, <3>5
  <2>10. ASSUME e.stability # "UNDETERMINED" PROVE e.stability = "STABLE" <=> e.frontier = e.selected
    <3>1. \A c \in C : c.ids # s.ids
      BY <1>6, <2>3
    <3>2. verdict.frontier = {} <=> e.frontier = e.selected
      BY <2>1, <2>4, <3>1
    <3> QED BY <2>1, <2>4, <2>10, <3>2
  <2> QED BY <2>5, <2>6, <2>8, <2>9, <2>10 DEF Robust, key
<1> QED BY <1>7, <1>8

-----------------------------------------------------------------------------------
(* Sums over finite sets, which the bounds of the plans are made of: they are       *)
(* integers, and monotone.                                                          *)

\* The recursion a sum over a function's domain is.
SumsTo(f, g) ==
    g = [s \in SUBSET (DOMAIN f) |-> IF s = {} THEN 0
                                     ELSE LET x == (CHOOSE y \in s : TRUE) IN f[x] + g[s \ {x}]]

(* A sum is the value at the whole domain of a function that adds one element at    *)
(* a time.                                                                          *)
LEMMA SumIs ==
    ASSUME NEW f
    PROVE  SumFunction(f) = (CHOOSE g : SumsTo(f, g))[DOMAIN f]
  BY DEF SumFunction, SumFunctionOnSet, FoldFunctionOnSet, MapThenFoldSet, SumsTo

\* The same up to a size.
Small(D, k) == {s \in SUBSET D : Cardinality(s) <= k}
SumsUpTo(f, k, g) ==
    /\ g \in [Small(DOMAIN f, k) -> Int]
    /\ \A s \in Small(DOMAIN f, k) :
          g[s] = IF s = {} THEN 0 ELSE f[CHOOSE y \in s : TRUE] + g[s \ {CHOOSE y \in s : TRUE}]

(* The element a sum takes out of a set leaves a smaller set.                       *)
LEMMA OneLess ==
    ASSUME NEW D, IsFiniteSet(D), NEW k \in Nat, NEW s \in Small(D, k), s # {}
    PROVE  LET x == CHOOSE y \in s : TRUE
           IN  /\ x \in s /\ x \in D /\ s \ {x} \in SUBSET D /\ k # 0
               /\ s \ {x} \in Small(D, k - 1)
<1> DEFINE x == CHOOSE y \in s : TRUE
           t == s \ {x}
<1>1. x \in s /\ s \in SUBSET D /\ Cardinality(s) <= k
  BY DEF Small
<1> HIDE DEF x
<1>2. IsFiniteSet(s) /\ Cardinality(s) \in Nat /\ Cardinality(s) # 0
  BY <1>1, FS_Subset, FS_CardinalityType, FS_EmptySet
<1>3. Cardinality(t) = Cardinality(s) - 1
  BY <1>1, <1>2, FS_RemoveElement
<1> DEFINE c == Cardinality(s)
           d == Cardinality(t)
<1>4. c \in Nat /\ c # 0 /\ c <= k /\ d = c - 1
  BY <1>1, <1>2, <1>3
<1> HIDE DEF c, d, t
<1>5. k # 0 /\ d <= k - 1
  BY <1>4
<1> QED BY <1>1, <1>5 DEF Small, d, t, x

(* There is a function that adds up every subset of a finite domain.                *)
LEMMA SumsExist ==
    ASSUME NEW f, IsFiniteSet(DOMAIN f), \A x \in DOMAIN f : f[x] \in Int
    PROVE  \E g : SumsTo(f, g)
<1> DEFINE D == DOMAIN f
           N == Cardinality(D)
           Some(k) == \E g : SumsUpTo(f, k, g)
           G == {k \in 0..N : Some(k)}
<1>0. N \in Nat
  BY FS_CardinalityType
<1>1. Some(0)
  <2> DEFINE g == [s \in Small(D, 0) |-> 0]
  <2>1. \A s \in Small(D, 0) : s = {}
    BY OneLess
  <2>2. SumsUpTo(f, 0, g)
    BY <2>1 DEF SumsUpTo
  <2> HIDE DEF g
  <2> QED BY <2>2
<1>2. ASSUME NEW k \in 1..N, Some(k - 1) PROVE Some(k)
  <2>0. k \in Nat /\ k - 1 \in Nat
    BY <1>0
  <2>1. PICK h : SumsUpTo(f, k - 1, h)
    BY <1>2
  <2>2. /\ h \in [Small(D, k - 1) -> Int]
        /\ \A s \in Small(D, k - 1) :
              h[s] = IF s = {} THEN 0 ELSE f[CHOOSE y \in s : TRUE] + h[s \ {CHOOSE y \in s : TRUE}]
    BY <2>1 DEF SumsUpTo
  <2> DEFINE V(s) == IF s = {} THEN 0 ELSE f[CHOOSE y \in s : TRUE] + h[s \ {CHOOSE y \in s : TRUE}]
             g == [s \in Small(D, k) |-> V(s)]
  <2>3. Small(D, k - 1) \subseteq Small(D, k)
    <3> SUFFICES ASSUME NEW s \in Small(D, k - 1) PROVE Cardinality(s) <= k
      BY DEF Small
    <3>1. s \in SUBSET D /\ Cardinality(s) <= k - 1
      BY DEF Small
    <3>2. Cardinality(s) \in Nat
      BY <3>1, FS_Subset, FS_CardinalityType
    <3> DEFINE c == Cardinality(s)
    <3>3. c \in Nat /\ c <= k - 1
      BY <3>1, <3>2
    <3> HIDE DEF c
    <3>4. c <= k
      BY <2>0, <3>3
    <3> QED BY <3>4 DEF c
  <2>4. \A s \in Small(D, k) : s # {} =>
            /\ (CHOOSE y \in s : TRUE) \in D
            /\ s \ {CHOOSE y \in s : TRUE} \in Small(D, k - 1)
    BY <2>0, OneLess
  <2>5. \A s \in Small(D, k) : V(s) \in Int
    <3> SUFFICES ASSUME NEW s \in Small(D, k), s # {} PROVE V(s) \in Int
      OBVIOUS
    <3> DEFINE x == CHOOSE y \in s : TRUE
    <3>1. x \in D /\ s \ {x} \in Small(D, k - 1)
      BY <2>4
    <3>2. V(s) = f[x] + h[s \ {x}]
      OBVIOUS
    <3> HIDE DEF x, V
    <3>3. f[x] \in Int /\ h[s \ {x}] \in Int
      BY <2>2, <3>1
    <3> QED BY <3>2, <3>3
  <2>6. \A s \in Small(D, k - 1) : V(s) = h[s]
    BY <2>2
  <2> HIDE DEF V
  <2>7. g \in [Small(D, k) -> Int] /\ \A s \in Small(D, k - 1) : g[s] = h[s]
    BY <2>3, <2>5, <2>6
  <2>8. \A s \in Small(D, k) : g[s] = V(s)
    OBVIOUS
  <2> HIDE DEF g
  <2>9. \A s \in Small(D, k) : s # {} => g[s \ {CHOOSE y \in s : TRUE}] = h[s \ {CHOOSE y \in s : TRUE}]
    BY <2>4, <2>7
  <2>10. \A s \in Small(D, k) :
             g[s] = IF s = {} THEN 0 ELSE f[CHOOSE y \in s : TRUE] + g[s \ {CHOOSE y \in s : TRUE}]
    BY <2>8, <2>9 DEF V
  <2>11. SumsUpTo(f, k, g)
    BY <2>7, <2>10, Zenon DEF SumsUpTo
  <2> QED BY <2>11
<1>3. N \in G
  <2>1. 0 \in G /\ \A k \in 1..N : k - 1 \in G => k \in G
    <3> HIDE DEF Some, N
    <3> QED BY <1>0, <1>1, <1>2
  <2> HIDE DEF G, N
  <2>2. 0..N \subseteq G
    BY <1>0, <2>1, HandedOn
  <2> QED BY <1>0, <2>2
<1>4. PICK g : SumsUpTo(f, N, g)
  BY <1>3
<1>5. Small(D, N) = SUBSET D
  BY FS_Subset DEF Small
<1>6. /\ g \in [SUBSET D -> Int]
      /\ \A s \in SUBSET D :
            g[s] = IF s = {} THEN 0 ELSE f[CHOOSE y \in s : TRUE] + g[s \ {CHOOSE y \in s : TRUE}]
  <2> HIDE DEF N
  <2> QED BY <1>4, <1>5 DEF SumsUpTo
<1> DEFINE rhs == [s \in SUBSET D |-> IF s = {} THEN 0
                                      ELSE f[CHOOSE y \in s : TRUE] + g[s \ {CHOOSE y \in s : TRUE}]]
<1>7. g = rhs
  BY <1>6
<1> HIDE DEF rhs
<1>8. SumsTo(f, g)
  BY <1>7, Zenon DEF SumsTo, rhs
<1> QED BY <1>8

\* The sums of two functions of one domain, part by part.
(* Sums are monotone: of two functions of one finite domain, the one below has      *)
(* the smaller sum.                                                                 *)
LEMMA SumsOrdered ==
    ASSUME NEW D, IsFiniteSet(D), NEW f, NEW g, DOMAIN f = D, DOMAIN g = D,
           \A x \in D : f[x] \in Int /\ g[x] \in Int /\ f[x] <= g[x]
    PROVE  /\ SumFunction(f) \in Int /\ SumFunction(g) \in Int
           /\ SumFunction(f) <= SumFunction(g)
<1> DEFINE F == CHOOSE h : SumsTo(f, h)
           H == CHOOSE h : SumsTo(g, h)
           B == {s \in SUBSET D : ~(F[s] \in Int /\ H[s] \in Int /\ F[s] <= H[s])}
           O == StrictSubsetOrdering(D)
<1>1. SumsTo(f, F) /\ SumsTo(g, H)
  <2>1. (\E h : SumsTo(f, h)) /\ (\E h : SumsTo(g, h))
    BY SumsExist
  <2> QED BY <2>1, Zenon
<1>2. SumFunction(f) = F[D] /\ SumFunction(g) = H[D]
  BY SumIs
<1> HIDE DEF F, H
<1>3. ASSUME NEW s \in SUBSET D
      PROVE  /\ F[s] = IF s = {} THEN 0 ELSE f[CHOOSE y \in s : TRUE] + F[s \ {CHOOSE y \in s : TRUE}]
             /\ H[s] = IF s = {} THEN 0 ELSE g[CHOOSE y \in s : TRUE] + H[s \ {CHOOSE y \in s : TRUE}]
  BY <1>1 DEF SumsTo
<1>4. ASSUME B # {} PROVE FALSE
  <2>1. B \subseteq FiniteSubsetsOf(D)
    BY FS_Subset DEF FiniteSubsetsOf
  <2>2. IsWellFoundedOn(O, FiniteSubsetsOf(D))
    BY FS_StrictSubsetOrderingWellFounded
  <2>3. PICK s \in B : \A t \in B : ~(<<t, s>> \in O)
    <3> HIDE DEF B, O
    <3> QED BY <1>4, <2>1, <2>2, WFMin
  <2>4. s \in SUBSET D
    BY <2>3
  <2>5. CASE s = {}
    BY <1>3, <2>3, <2>4, <2>5
  <2>6. CASE s # {}
    <3> DEFINE x == CHOOSE y \in s : TRUE
               t == s \ {x}
    <3>1. x \in s /\ x \in D /\ t \in SUBSET D /\ t # s
      BY <2>4, <2>6
    <3>2. <<t, s>> \in O
      BY <2>4, <3>1 DEF StrictSubsetOrdering
    <3>3. F[s] = f[x] + F[t] /\ H[s] = g[x] + H[t]
      BY <1>3, <2>4, <2>6
    <3> HIDE DEF x, t
    <3>4. F[t] \in Int /\ H[t] \in Int /\ F[t] <= H[t]
      BY <2>3, <3>1, <3>2
    <3>5. f[x] \in Int /\ g[x] \in Int /\ f[x] <= g[x]
      BY <3>1
    <3>6. F[s] \in Int /\ H[s] \in Int /\ F[s] <= H[s]
      BY <3>3, <3>4, <3>5
    <3> QED BY <2>3, <3>6
  <2> QED BY <2>5, <2>6
<1>5. F[D] \in Int /\ H[D] \in Int /\ F[D] <= H[D]
  BY <1>4
<1> QED BY <1>2, <1>5

(* The sum of finitely many integers is an integer.                                 *)
LEMMA SumTyped ==
    ASSUME NEW f, IsFiniteSet(DOMAIN f), \A x \in DOMAIN f : f[x] \in Int
    PROVE  SumFunction(f) \in Int
<1> DEFINE D == DOMAIN f
<1>1. \A x \in D : f[x] \in Int /\ f[x] <= f[x]
  OBVIOUS
<1> HIDE DEF D
<1> QED BY <1>1, SumsOrdered DEF D

(* A sum of positive parts, if there is one, is positive.                           *)
LEMMA SumPositive ==
    ASSUME NEW f, IsFiniteSet(DOMAIN f), DOMAIN f # {}, \A x \in DOMAIN f : f[x] \in Nat \ {0}
    PROVE  SumFunction(f) \in Nat \ {0}
<1> DEFINE D == DOMAIN f
           F == CHOOSE h : SumsTo(f, h)
           B == {s \in SUBSET D : ~(F[s] \in Nat /\ (s # {} => F[s] # 0))}
           O == StrictSubsetOrdering(D)
<1>0. \A x \in D : f[x] \in Int /\ f[x] \in Nat /\ f[x] # 0
  OBVIOUS
<1>1. SumsTo(f, F)
  <2>1. \E h : SumsTo(f, h)
    BY <1>0, SumsExist
  <2> QED BY <2>1, Zenon
<1>2. SumFunction(f) = F[D]
  BY SumIs
<1> HIDE DEF F
<1>3. ASSUME NEW s \in SUBSET D
      PROVE  F[s] = IF s = {} THEN 0 ELSE f[CHOOSE y \in s : TRUE] + F[s \ {CHOOSE y \in s : TRUE}]
  BY <1>1 DEF SumsTo
<1>4. ASSUME B # {} PROVE FALSE
  <2>1. B \subseteq FiniteSubsetsOf(D)
    BY FS_Subset DEF FiniteSubsetsOf
  <2>2. IsWellFoundedOn(O, FiniteSubsetsOf(D))
    BY FS_StrictSubsetOrderingWellFounded
  <2>3. PICK s \in B : \A t \in B : ~(<<t, s>> \in O)
    <3> HIDE DEF B, O
    <3> QED BY <1>4, <2>1, <2>2, WFMin
  <2>4. s \in SUBSET D
    BY <2>3
  <2>5. CASE s = {}
    BY <1>3, <2>3, <2>4, <2>5
  <2>6. CASE s # {}
    <3> DEFINE x == CHOOSE y \in s : TRUE
               t == s \ {x}
    <3>1. x \in s /\ x \in D /\ t \in SUBSET D /\ t # s
      BY <2>4, <2>6
    <3>2. <<t, s>> \in O
      BY <2>4, <3>1 DEF StrictSubsetOrdering
    <3>3. F[s] = f[x] + F[t]
      BY <1>3, <2>4, <2>6
    <3> HIDE DEF x, t
    <3>4. F[t] \in Nat
      BY <2>3, <3>1, <3>2
    <3>5. f[x] \in Nat /\ f[x] # 0
      BY <1>0, <3>1
    <3>6. F[s] \in Nat /\ F[s] # 0
      BY <3>3, <3>4, <3>5
    <3> QED BY <2>3, <3>6
  <2> QED BY <2>5, <2>6
<1>5. F[D] \in Nat /\ F[D] # 0
  BY <1>4
<1> QED BY <1>2, <1>5

(* Division by a positive number keeps the order.                                   *)
LEMMA DivOrdered ==
    ASSUME NEW a \in Int, NEW b \in Int, NEW d \in Nat \ {0}, a <= b
    PROVE  a \div d \in Int /\ b \div d \in Int /\ a \div d <= b \div d
  OBVIOUS

(* Multiplying by a natural number is monotone.                                     *)
LEMMA TimesOrdered ==
    ASSUME NEW a \in Int, NEW b \in Int, NEW s \in Nat, a <= b
    PROVE  s * a \in Int /\ s * b \in Int /\ s * a <= s * b
  OBVIOUS

(* A finite set of integers that is not empty has a greatest one.                   *)
LEMMA GreatestExists ==
    ASSUME NEW S, IsFiniteSet(S), S # {}, S \subseteq Int
    PROVE  \E v \in S : \A w \in S : v >= w
<1> DEFINE Above(x) == {w \in S : w > x}
           F == {Above(x) : x \in S}
           O == StrictSubsetOrdering(S)
<1>1. F \subseteq FiniteSubsetsOf(S) /\ F # {}
  <2>1. \A x \in S : Above(x) \in SUBSET S /\ IsFiniteSet(Above(x))
    BY FS_Subset
  <2> QED BY <2>1 DEF FiniteSubsetsOf
<1>2. IsWellFoundedOn(O, FiniteSubsetsOf(S))
  BY FS_StrictSubsetOrderingWellFounded
<1>3. PICK x \in F : \A y \in F : ~(<<y, x>> \in O)
  <2> HIDE DEF F, O
  <2> QED BY <1>1, <1>2, WFMin
<1>4. PICK v \in S : x = Above(v)
  BY <1>3
<1>5. ASSUME NEW w \in S, ~(v >= w) PROVE FALSE
  <2>0. v \in Int /\ w \in Int /\ w > v /\ ~(w > w)
    BY <1>5
  <2>a. \A y \in S : y > w => y > v
    <3> SUFFICES ASSUME NEW y \in S, y > w PROVE y > v
      OBVIOUS
    <3>1. y \in Int
      OBVIOUS
    <3> QED BY <2>0, <3>1
  <2>b. \A x1 \in S, y \in S : y \in Above(x1) <=> y > x1
    OBVIOUS
  <2>c. \A x1 \in S : Above(x1) \in SUBSET S
    OBVIOUS
  <2>1. Above(w) \in SUBSET S /\ Above(v) \in SUBSET S /\ Above(w) \subseteq Above(v)
        /\ w \in Above(v) /\ w \notin Above(w)
    <3> HIDE DEF Above
    <3> QED BY <2>0, <2>a, <2>b, <2>c, Zenon
  <2>2. <<Above(w), Above(v)>> \in O
    BY <2>1 DEF StrictSubsetOrdering
  <2> QED BY <1>3, <1>4, <2>2
<1> QED BY <1>5

(* The greatest element of a finite set of integers that is not empty is in it      *)
(* and bounds it.                                                                   *)
LEMMA TopIs ==
    ASSUME NEW S, IsFiniteSet(S), S # {}, S \subseteq Int
    PROVE  Top(S) \in S /\ \A w \in S : Top(S) >= w
<1>1. \E v \in S : \A w \in S : v >= w
  BY GreatestExists
<1> QED BY <1>1 DEF Top

-----------------------------------------------------------------------------------
(* The plans of an input are finitely many, with bounds that are intervals: what    *)
(* the ordering and the stability verdict rely on.                                  *)

(* A finite union of finite sets is finite.                                         *)
LEMMA UnionFinite ==
    ASSUME NEW S, IsFiniteSet(S), NEW g, \A x \in S : IsFiniteSet(g[x])
    PROVE  IsFiniteSet(UNION {g[x] : x \in S})
<1>1. IsFiniteSet({g[x] : x \in S})
  BY ImageFinite
<1>2. \A T \in {g[x] : x \in S} : IsFiniteSet(T)
  OBVIOUS
<1> QED BY <1>1, <1>2, FS_UNION

(* The facts of finitely many records name finitely many pairs.                     *)
LEMMA FactPairsFinite ==
    ASSUME NEW S, IsFiniteSet(S), \A r \in S : FiniteFacts(r.facts)
    PROVE  IsFiniteSet(UNION {f.ev \X {f.field} : f \in UNION {r.facts : r \in S}})
<1> DEFINE facts == UNION {r.facts : r \in S}
           h == [r \in S |-> r.facts]
           g == [f \in facts |-> f.ev \X {f.field}]
<1>1. IsFiniteSet(facts)
  <2>1. \A r \in S : IsFiniteSet(h[r])
    BY DEF FiniteFacts
  <2>2. facts = UNION {h[r] : r \in S}
    OBVIOUS
  <2> HIDE DEF h, facts
  <2> QED BY <2>1, <2>2, UnionFinite
<1>2. \A f \in facts : IsFiniteSet(g[f])
  <2> SUFFICES ASSUME NEW f \in facts PROVE IsFiniteSet(f.ev \X {f.field})
    OBVIOUS
  <2>1. IsFiniteSet(f.ev)
    BY DEF FiniteFacts
  <2> QED BY <2>1, FS_Singleton, FS_Product
<1>3. UNION {f.ev \X {f.field} : f \in facts} = UNION {g[f] : f \in facts}
  OBVIOUS
<1> HIDE DEF g, facts
<1>5. IsFiniteSet(UNION {g[f] : f \in facts})
  BY <1>1, <1>2, UnionFinite
<1>4. IsFiniteSet(UNION {f.ev \X {f.field} : f \in facts})
  BY <1>3, <1>5, Zenon
<1> QED BY <1>4 DEF facts

(* Finitely many pairs of evidence and field are assessed.                          *)
LEMMA PairsFinite ==
    ASSUME NEW in, FrozenRecords(in), FrozenRules(in)
    PROVE  IsFiniteSet(EvidencePairs(in, recall_and_deduplicate(in)))
<1> DEFINE reps == recall_and_deduplicate(in)
           named(o) == {c \in in.preferences : c.id = o.criterion}
           own(o) == UNION {o.ev \X {c.field} : c \in named(o)}
           g == [o \in in.outcomes |-> own(o)]
           A == UNION {f.ev \X {f.field} : f \in UNION {r.facts : r \in reps}}
           B == UNION {f.ev \X {f.field} : f \in UNION {a.facts : a \in in.actions}}
           C == UNION {o.ev \X {c.field : c \in named(o)} : o \in in.outcomes}
<1>1. IsFiniteSet(A)
  <2>1. IsFiniteSet(reps) /\ \A r \in reps : FiniteFacts(r.facts)
    BY RepsShape DEF RepTyped
  <2> HIDE DEF reps
  <2> QED BY <2>1, FactPairsFinite
<1>2. IsFiniteSet(B)
  <2>1. IsFiniteSet(in.actions) /\ \A a \in in.actions : FiniteFacts(a.facts)
    BY DEF FrozenRecords
  <2> QED BY <2>1, FactPairsFinite
<1>3. ASSUME NEW o \in in.outcomes PROVE IsFiniteSet(o.ev \X {c.field : c \in named(o)})
  <2> DEFINE h == [c \in named(o) |-> c.field]
  <2>1. IsFiniteSet(named(o)) /\ IsFiniteSet(o.ev)
    <3>1. IsFiniteSet(in.preferences) /\ named(o) \in SUBSET in.preferences /\ IsFiniteSet(o.ev)
      BY DEF FrozenRules
    <3> HIDE DEF named
    <3> QED BY <3>1, FS_Subset
  <2>2. {h[c] : c \in named(o)} = {c.field : c \in named(o)}
    OBVIOUS
  <2> HIDE DEF h, named
  <2>4. IsFiniteSet({h[c] : c \in named(o)})
    BY <2>1, ImageFinite
  <2>3. IsFiniteSet({c.field : c \in named(o)})
    BY <2>2, <2>4, Zenon
  <2> QED BY <2>1, <2>3, FS_Product
<1>4. IsFiniteSet(C)
  <2> DEFINE k == [o \in in.outcomes |-> o.ev \X {c.field : c \in named(o)}]
  <2>1. C = UNION {k[o] : o \in in.outcomes} /\ \A o \in in.outcomes : k[o] = o.ev \X {c.field : c \in named(o)}
    OBVIOUS
  <2>2. IsFiniteSet(in.outcomes)
    BY DEF FrozenRules
  <2> HIDE DEF k, named, C
  <2> QED BY <1>3, <2>1, <2>2, UnionFinite
<1>5. EvidencePairs(in, reps) = A \cup B \cup C
  BY DEF EvidencePairs
<1> HIDE DEF A, B, C, reps
<1>6. IsFiniteSet(A \cup B \cup C)
  BY <1>1, <1>2, <1>4, FS_Union
<1> QED BY <1>5, <1>6 DEF reps

(* Materials.                                                                       *)

\* What the plans rely on of their material.
MaterialTyped(m) ==
    m.components \in Seq(Nat) /\ m.components # <<>> /\ m.action \in Actions /\ m.cost.bounds \subseteq CostBounds

(* The cost of a set of records is a sum of their offers', figure by figure.        *)
LEMMA CostTyped ==
    ASSUME NEW in, FrozenRecords(in), NEW records, IsFiniteSet(records)
    PROVE  combined_cost(in, records).cost.bounds \subseteq CostBounds
<1> DEFINE offered == {r \in records : r.offer \in DOMAIN in.offers}
           cost(r) == in.offers[r.offer]
           bounded == offered = records /\ \A r \in records : cost(r).bounds # {}
           bound(r) == Only(cost(r).bounds)
           low == [r \in records |-> bound(r).low]
           middle == [r \in records |-> bound(r).base]
           high == [r \in records |-> bound(r).high]
           total == [low |-> SumFunction(low), base |-> SumFunction(middle), high |-> SumFunction(high)]
<1>1. combined_cost(in, records).cost.bounds = IF bounded THEN {total} ELSE {}
  BY DEF combined_cost
<1>2. ASSUME bounded PROVE total \in CostBounds
  <2>1. \A r \in records : bound(r) \in CostBounds
    <3> SUFFICES ASSUME NEW r \in records PROVE bound(r) \in CostBounds
      OBVIOUS
    <3>1. r \in offered /\ cost(r).bounds # {}
      BY <1>2
    <3>2. cost(r).bounds \subseteq CostBounds
      BY <3>1 DEF FrozenRecords
    <3>3. bound(r) \in cost(r).bounds
      BY <3>1 DEF Only
    <3> QED BY <3>2, <3>3
  <2>2. \A r \in records : low[r] \in Int /\ middle[r] \in Int /\ high[r] \in Int
    BY <2>1 DEF CostBounds
  <2>3. DOMAIN low = records /\ DOMAIN middle = records /\ DOMAIN high = records
    OBVIOUS
  <2> HIDE DEF low, middle, high
  <2>4. SumFunction(low) \in Int /\ SumFunction(middle) \in Int /\ SumFunction(high) \in Int
    BY <2>2, <2>3, SumTyped
  <2> QED BY <2>4 DEF CostBounds
<1> HIDE DEF bounded, total
<1> QED BY <1>1, <1>2

(* A material is what the plans rely on.                                            *)
LEMMA MaterialsShape ==
    ASSUME NEW in, FrozenRecords(in), decision_graph_input(in)
    PROVE  /\ IsFiniteSet(materials(in, recall_and_deduplicate(in)))
           /\ \A m \in materials(in, recall_and_deduplicate(in)) : MaterialTyped(m)
<1> DEFINE reps == recall_and_deduplicate(in)
<1>1. IsFiniteSet(reps) /\ \A r \in reps : RepTyped(r)
  BY RepsShape
<1> HIDE DEF reps
<1>2. IsFiniteSet(materials(in, reps))
  <2> DEFINE g == [r \in reps |-> pack_material(in, reps, r)]
             h == [a \in in.actions |-> current_material(a)]
  <2>1. materials(in, reps) = {g[r] : r \in reps} \cup {h[a] : a \in in.actions}
    BY DEF materials
  <2>2. IsFiniteSet(in.actions)
    BY DEF FrozenRecords
  <2> HIDE DEF g, h
  <2>3. IsFiniteSet({g[r] : r \in reps}) /\ IsFiniteSet({h[a] : a \in in.actions})
    BY <1>1, <2>2, ImageFinite
  <2> QED BY <2>1, <2>3, FS_Union
<1>3. ASSUME NEW r \in reps PROVE MaterialTyped(pack_material(in, reps, r))
  <2> DEFINE m == pack_material(in, reps, r)
             order == closure(reps, r).order
             records == {IF n = r.product THEN r ELSE Only(ByProduct(reps, n)) : n \in Range(order)}
  <2>1. order \in Seq(Nat) /\ order # <<>>
    BY <1>1, ClosureShape
  <2>2. m.components = order /\ m.action = "REPLACE" /\ m.cost = combined_cost(in, records).cost
    BY DEF pack_material
  <2>3. IsFiniteSet(records)
    <3> HIDE DEF order
    <3>1. IsFiniteSet(Range(order))
      <4>1. Range(order) = {order[i] : i \in 1..Len(order)} /\ IsFiniteSet(1..Len(order))
        BY <2>1, FS_Interval DEF Range
      <4> QED BY <4>1, ImageFinite
    <3> DEFINE D == Range(order)
               g == [n \in D |-> IF n = r.product THEN r ELSE Only(ByProduct(reps, n))]
    <3>2. records = {g[n] : n \in D}
      OBVIOUS
    <3> HIDE DEF g, D, records
    <3> QED BY <3>1, <3>2, ImageFinite DEF D
  <2> HIDE DEF m, records, order
  <2>4. m.cost.bounds \subseteq CostBounds
    BY <2>2, <2>3, CostTyped
  <2>5. MaterialTyped(m)
    BY <2>1, <2>2, <2>4 DEF MaterialTyped, Actions
  <2> QED BY <2>5 DEF m
<1>4. ASSUME NEW a \in in.actions PROVE MaterialTyped(current_material(a))
  <2>1. a.instance \in Nat /\ a.cost.bounds \subseteq CostBounds /\ a.action \in Actions
    BY DEF FrozenRecords, decision_graph_input, current_action_record
  <2> QED BY <2>1 DEF current_material, MaterialTyped
<1> QED BY <1>2, <1>3, <1>4 DEF materials, reps

\* What a plan relies on of a score.
ScoreTyped(in, s) ==
    /\ s.low \in 0..in.unit /\ s.high \in 0..in.unit /\ s.low <= s.high
    /\ s.weight \in 1..5 /\ s.state \in EvidenceStates
    /\ \E c \in in.preferences : c.id = s.id

(* The state of a field is one of the evidence states.                              *)
LEMMA FieldStates ==
    ASSUME NEW in, NEW facts, NEW field
    PROVE  field_state(in, facts, field).state \in EvidenceStates
  BY DEF field_state, StrongestState, EvidenceStates

(* What decision_graph_input and FrozenRules say of one soft criterion.             *)
LEMMA CriterionShape ==
    ASSUME NEW in, FrozenRules(in), decision_graph_input(in), NEW c \in in.preferences
    PROVE  /\ in.unit \in Nat /\ c.weight \in 1..5 /\ c.coverage \in 1..5
           /\ c.unknown \subseteq 0..in.unit /\ c.prior \subseteq 0..in.unit
           /\ c.kind \in {"BOOLEAN_EQUALS", "SET_CONTAINS_ALL", "LOWER_IS_BETTER", "OUTCOME_RATE"}
           /\ c.points \in Seq(Int \X Int)
           /\ c.kind = "LOWER_IS_BETTER" => \A i \in DOMAIN c.points : c.points[i][2] \in 0..in.unit
           /\ c.kind = "OUTCOME_RATE" => c.prior # {}
  BY DEF FrozenRules, decision_graph_input, preference_criterion

(* A satisfaction is a rate.                                                        *)
LEMMA Satisfaction ==
    ASSUME NEW in, FrozenRules(in), decision_graph_input(in), NEW c \in in.preferences,
           c.kind # "OUTCOME_RATE", NEW value
    PROVE  normalization_value(in, c, value) \in 0..in.unit
<1>1. /\ in.unit \in Nat /\ c.points \in Seq(Int \X Int)
      /\ c.kind \in {"BOOLEAN_EQUALS", "SET_CONTAINS_ALL", "LOWER_IS_BETTER"}
      /\ c.kind = "LOWER_IS_BETTER" => \A i \in DOMAIN c.points : c.points[i][2] \in 0..in.unit
  BY CriterionShape
<1>2. CASE c.kind = "BOOLEAN_EQUALS"
  <2>1. normalization_value(in, c, value) = IF strict_equal(value, c.expected) THEN in.unit ELSE 0
    BY <1>2 DEF normalization_value
  <2> QED BY <1>1, <2>1
<1>3. CASE c.kind = "SET_CONTAINS_ALL"
  <2>1. normalization_value(in, c, value)
          = IF value.kind = "set" /\ c.expected.v \subseteq value.v THEN in.unit ELSE 0
    BY <1>3 DEF normalization_value
  <2> QED BY <1>1, <2>1
<1>4. CASE c.kind = "LOWER_IS_BETTER"
  <2> DEFINE under == {i \in 1..Len(c.points) : Only(value.v) <= c.points[i][1]}
             k == CHOOSE i \in under : \A j \in under : i <= j
  <2>1. normalization_value(in, c, value) = IF value.kind # "int" \/ under = {} THEN 0 ELSE c.points[k][2]
    BY <1>4 DEF normalization_value
  <2>2. ASSUME under # {} PROVE k \in DOMAIN c.points
    <3>1. Len(c.points) \in Nat /\ DOMAIN c.points = 1..Len(c.points)
      BY <1>1, LenProperties
    <3>2. under \in SUBSET (1..Len(c.points))
      OBVIOUS
    <3> HIDE DEF under
    <3>3. \E i \in under : \A j \in under : i <= j
      BY <2>2, <3>1, <3>2, LeastPosition
    <3>4. k \in under
      BY <3>3
    <3> QED BY <3>1, <3>2, <3>4
  <2> HIDE DEF k, under
  <2> QED BY <1>1, <1>4, <2>1, <2>2
<1> QED BY <1>1, <1>2, <1>3, <1>4

(* The score of a criterion that no evidence settles lies within the unit.          *)
LEMMA UnprovenTyped ==
    ASSUME NEW in, FrozenRules(in), decision_graph_input(in), NEW c \in in.preferences,
           NEW state \in EvidenceStates, NEW ev, NEW reasons
    PROVE  ScoreTyped(in, Unproven(c, state, ev, reasons))
<1> DEFINE high == IF c.unknown = {} THEN 0 ELSE Only(c.unknown)
<1>1. in.unit \in Nat /\ c.weight \in 1..5 /\ c.unknown \subseteq 0..in.unit
  BY CriterionShape
<1>2. high \in 0..in.unit
  BY <1>1 DEF Only
<1>3. 0 \in 0..in.unit /\ 0 <= high
  BY <1>1, <1>2
<1> HIDE DEF high
<1>4. \A r : ScoreTyped(in, Score(c, 0, high, state, ev, FALSE, r))
  BY <1>1, <1>2, <1>3 DEF ScoreTyped, Score
<1> QED BY <1>4 DEF Unproven, high

(* The score of an outcome criterion.                                               *)
LEMMA OutcomeTyped ==
    ASSUME NEW in, FrozenRules(in), decision_graph_input(in), NEW c \in in.preferences,
           c.kind = "OUTCOME_RATE", NEW m
    PROVE  ScoreTyped(in, outcome_score(in, m, c)) /\ "reasons" \in DOMAIN outcome_score(in, m, c)
<1> DEFINE observed == {o \in in.outcomes : /\ o.subject = m.subject /\ o.criterion = c.id
                                            /\ o.sources \subseteq active_source_ids(in)}
           o == Only(observed)
           found == {assessment(in, e, c.field) : e \in o.ev}
           state == StrongestState({a.state : a \in found})
           late == IF \E a \in found : a.age = {} THEN {"EVIDENCE_TIME"} ELSE {}
           p == Only(c.prior)
<1>1. in.unit \in Nat /\ c.weight \in 1..5 /\ c.prior \subseteq 0..in.unit /\ c.prior # {}
  BY CriterionShape
<1>2. p \in 0..in.unit
  BY <1>1 DEF Only
<1>3. observed # {} => o.value \in 0..in.unit
  BY DEF FrozenRules, Only
<1>4. state \in EvidenceStates /\ "UNKNOWN" \in EvidenceStates
  BY DEF StrongestState, EvidenceStates
<1>5. outcome_score(in, m, c)
        = IF observed = {} THEN Score(c, p, p, "UNKNOWN", {}, TRUE, {})
          ELSE IF state = "ACCEPTABLE" THEN Score(c, o.value, o.value, state, o.ev, FALSE, late)
          ELSE Unproven(c, state, o.ev, late)
  BY DEF outcome_score
<1> HIDE DEF state, late, found, o, observed, p
<1>6. \A v \in 0..in.unit : \A s \in EvidenceStates : \A ev, prior, r :
          ScoreTyped(in, Score(c, v, v, s, ev, prior, r)) /\ "reasons" \in DOMAIN Score(c, v, v, s, ev, prior, r)
  BY <1>1 DEF ScoreTyped, Score
<1>7. ScoreTyped(in, Unproven(c, state, o.ev, late)) /\ "reasons" \in DOMAIN Unproven(c, state, o.ev, late)
  <2>1. "reasons" \in DOMAIN Unproven(c, state, o.ev, late)
    BY DEF Unproven, Score
  <2> QED BY <1>4, <2>1, UnprovenTyped
<1> QED BY <1>2, <1>3, <1>4, <1>5, <1>6, <1>7

(* Every score is typed.                                                            *)
LEMMA ScoresTyped ==
    ASSUME NEW in, FrozenRules(in), decision_graph_input(in), NEW c \in in.preferences, NEW m
    PROVE  ScoreTyped(in, score_component(in, m, c))
<1> DEFINE found == field_state(in, m.facts, c.field)
           late == IF found.untimed THEN {"EVIDENCE_TIME"} ELSE {}
           values == {normalization_value(in, c, v) : v \in found.values}
           low == CHOOSE v \in values : \A w \in values : v <= w
           high == CHOOSE v \in values : \A w \in values : v >= w
           out == outcome_score(in, m, c)
<1>1. score_component(in, m, c)
        = IF c.kind = "OUTCOME_RATE" THEN [out EXCEPT !.reasons = @ \cup late]
          ELSE IF found.state = "ACCEPTABLE" /\ values # {}
          THEN Score(c, low, high, found.state, found.ev, FALSE, late)
          ELSE Unproven(c, found.state, found.ev, late)
  BY DEF score_component
<1>2. found.state \in EvidenceStates
  BY FieldStates
<1>3. in.unit \in Nat /\ c.weight \in 1..5
  BY CriterionShape
<1>4. c.kind # "OUTCOME_RATE" => values \subseteq 0..in.unit
  BY Satisfaction
<1>5. ASSUME c.kind # "OUTCOME_RATE", values # {}
      PROVE  low \in 0..in.unit /\ high \in 0..in.unit /\ low <= high
  <2>1. values \in SUBSET Nat /\ values \subseteq Int /\ IsFiniteSet(values)
    <3>1. values \subseteq 0..in.unit
      BY <1>4, <1>5
    <3> HIDE DEF values
    <3>2. IsFiniteSet(0..in.unit)
      BY <1>3, FS_Interval
    <3>3. IsFiniteSet(values)
      BY <3>1, <3>2, FS_Subset
    <3>4. 0..in.unit \subseteq Nat /\ Nat \subseteq Int
      BY <1>3
    <3> QED BY <3>1, <3>3, <3>4
  <2> HIDE DEF values
  <2>2. \E v \in values : \A w \in values : v <= w
    BY <1>5, <2>1, LeastId
  <2>3. \E v \in values : \A w \in values : v >= w
    <3>1. values # {} /\ IsFiniteSet(values) /\ values \subseteq Int
      BY <1>5, <2>1
    <3> QED BY <3>1, GreatestExists
  <2>4. low \in values /\ \A w \in values : low <= w
    BY <2>2
  <2>5. high \in values
    BY <2>3
  <2> HIDE DEF low, high
  <2> QED BY <1>4, <1>5, <2>4, <2>5
<1>6. ASSUME c.kind # "OUTCOME_RATE", values # {}, NEW s \in EvidenceStates
      PROVE  \A ev, r : ScoreTyped(in, Score(c, low, high, s, ev, FALSE, r))
  <2> HIDE DEF values, low, high
  <2> QED BY <1>3, <1>5, <1>6 DEF ScoreTyped, Score
<1>7. ASSUME c.kind = "OUTCOME_RATE" PROVE ScoreTyped(in, [out EXCEPT !.reasons = @ \cup late])
  <2>1. ScoreTyped(in, out) /\ "reasons" \in DOMAIN out
    BY <1>7, OutcomeTyped
  <2> DEFINE s == [out EXCEPT !.reasons = @ \cup late]
  <2>2. s.low = out.low /\ s.high = out.high /\ s.weight = out.weight /\ s.state = out.state /\ s.id = out.id
    <3> HIDE DEF out, late
    <3>1. /\ "low" # "reasons" /\ "high" # "reasons" /\ "weight" # "reasons" /\ "state" # "reasons"
          /\ "id" # "reasons"
      OBVIOUS
    <3> QED BY <2>1, <3>1
  <2> HIDE DEF s, out
  <2>3. ScoreTyped(in, s)
    BY <2>1, <2>2 DEF ScoreTyped
  <2> QED BY <2>3 DEF s
<1> DEFINE sc == score_component(in, m, c)
<1>8. ScoreTyped(in, Unproven(c, found.state, found.ev, late))
  <2> HIDE DEF found, late
  <2> QED BY <1>2, UnprovenTyped
<1> HIDE DEF found, values, low, high, out, late, sc
<1>9. CASE c.kind = "OUTCOME_RATE"
  BY <1>1, <1>7, <1>9 DEF sc
<1>10. CASE c.kind # "OUTCOME_RATE" /\ found.state = "ACCEPTABLE" /\ values # {}
  <2>1. ScoreTyped(in, Score(c, low, high, found.state, found.ev, FALSE, late))
    BY <1>2, <1>6, <1>10
  <2> QED BY <1>1, <1>10, <2>1 DEF sc
<1>11. CASE c.kind # "OUTCOME_RATE" /\ ~(found.state = "ACCEPTABLE" /\ values # {})
  <2>1. sc = Unproven(c, found.state, found.ev, late)
    BY <1>1, <1>11 DEF sc
  <2> QED BY <1>8, <2>1 DEF sc
<1> QED BY <1>9, <1>10, <1>11

(* A ratio of two ordered sums is an interval.                                      *)
LEMMA RatiosOrdered ==
    ASSUME NEW in, in.scale \in Nat, NEW low \in Int, NEW high \in Int, low <= high, NEW d \in Nat \ {0}
    PROVE  [low |-> Ratio(in, low, d), high |-> Ratio(in, high, d)] \in Interval
<1> DEFINE a == in.scale * low
           b == in.scale * high
<1>1. a \in Int /\ b \in Int /\ a <= b
  BY TimesOrdered
<1> HIDE DEF a, b
<1>2. a \div d \in Int /\ b \div d \in Int /\ a \div d <= b \div d
  BY <1>1, DivOrdered
<1>3. Ratio(in, low, d) = a \div d /\ Ratio(in, high, d) = b \div d
  BY DEF Ratio, a, b
<1> QED BY <1>2, <1>3 DEF Interval

(* The preference bounds of scores within the unit are an interval, one at most.    *)
LEMMA PreferenceTyped ==
    ASSUME NEW in, FrozenRules(in), NEW scores, IsFiniteSet(scores), \A s \in scores : ScoreTyped(in, s)
    PROVE  /\ aggregate_preference_bounds(in, scores) \subseteq Interval
           /\ scores # {} => aggregate_preference_bounds(in, scores) # {}
           /\ Cardinality(aggregate_preference_bounds(in, scores)) <= 1
<1> DEFINE w == [s \in scores |-> s.weight]
           l == [s \in scores |-> s.weight * s.low]
           h == [s \in scores |-> s.weight * s.high]
           b == [low |-> Ratio(in, SumFunction(l), SumFunction(w)),
                 high |-> Ratio(in, SumFunction(h), SumFunction(w))]
<1>1. aggregate_preference_bounds(in, scores) = IF scores = {} THEN {} ELSE {b}
  BY DEF aggregate_preference_bounds
<1>2. in.unit \in Nat /\ in.scale \in Nat
  BY DEF FrozenRules
<1>3. DOMAIN w = scores /\ DOMAIN l = scores /\ DOMAIN h = scores
  OBVIOUS
<1>4. \A s \in scores : w[s] \in Nat \ {0}
  BY DEF ScoreTyped
<1>5. \A s \in scores : l[s] \in Int /\ h[s] \in Int /\ l[s] <= h[s]
  <2> SUFFICES ASSUME NEW s \in scores
               PROVE  s.weight * s.low \in Int /\ s.weight * s.high \in Int /\ s.weight * s.low <= s.weight * s.high
    OBVIOUS
  <2>1. s.weight \in Nat /\ s.low \in Int /\ s.high \in Int /\ s.low <= s.high
    BY <1>2 DEF ScoreTyped
  <2> QED BY <2>1, TimesOrdered
<1> HIDE DEF w, l, h
<1>6. SumFunction(l) \in Int /\ SumFunction(h) \in Int /\ SumFunction(l) <= SumFunction(h)
  BY <1>3, <1>5, SumsOrdered
<1>7. scores # {} => SumFunction(w) \in Nat \ {0}
  BY <1>3, <1>4, SumPositive
<1>8. scores # {} => b \in Interval
  BY <1>2, <1>6, <1>7, RatiosOrdered
<1>9. Cardinality({b}) = 1 /\ Cardinality({}) = 0
  BY FS_Singleton, FS_EmptySet
<1> HIDE DEF b
<1> QED BY <1>1, <1>8, <1>9

(* The coverage bounds are an interval.                                             *)
LEMMA CoverageTyped ==
    ASSUME NEW in, FrozenRules(in), decision_graph_input(in), NEW m,
           NEW scores, IsFiniteSet(scores), \A s \in scores : ScoreTyped(in, s)
    PROVE  coverage_bounds(in, m, scores) \in Interval
<1> DEFINE proven(s) == s.state = "ACCEPTABLE" /\ ~s.prior
           of(s) == Only({c \in in.preferences : c.id = s.id})
           hopeful(s) == proven(s) \/ (of(s).resolution # {} /\ s.state \in {"UNKNOWN", "STALE"})
           w == [s \in scores |-> of(s).coverage]
           l == [s \in scores |-> IF proven(s) THEN of(s).coverage ELSE 0]
           h == [s \in scores |-> IF hopeful(s) THEN of(s).coverage ELSE 0]
           b == [low |-> Ratio(in, SumFunction(l), SumFunction(w)),
                 high |-> Ratio(in, SumFunction(h), SumFunction(w))]
<1>1. coverage_bounds(in, m, scores) = IF scores = {} THEN [low |-> in.scale, high |-> in.scale] ELSE b
  BY DEF coverage_bounds
<1>2. in.scale \in Nat
  BY DEF FrozenRules
<1>3. DOMAIN w = scores /\ DOMAIN l = scores /\ DOMAIN h = scores
  OBVIOUS
<1>4. \A s \in scores : of(s).coverage \in 1..5
  <2> SUFFICES ASSUME NEW s \in scores PROVE of(s).coverage \in 1..5
    OBVIOUS
  <2>1. PICK c \in in.preferences : c.id = s.id
    BY DEF ScoreTyped
  <2>2. of(s) \in in.preferences
    BY <2>1 DEF Only
  <2> QED BY <2>2, CriterionShape
<1>5. \A s \in scores : w[s] \in Nat \ {0}
  BY <1>4
<1>6. \A s \in scores : l[s] \in Int /\ h[s] \in Int /\ l[s] <= h[s]
  <2> SUFFICES ASSUME NEW s \in scores PROVE l[s] \in Int /\ h[s] \in Int /\ l[s] <= h[s]
    OBVIOUS
  <2> DEFINE k == of(s).coverage
  <2>1. k \in 1..5
    BY <1>4
  <2>2. l[s] = IF proven(s) THEN k ELSE 0
    OBVIOUS
  <2>3. h[s] = IF hopeful(s) THEN k ELSE 0
    OBVIOUS
  <2>4. proven(s) => hopeful(s)
    OBVIOUS
  <2> HIDE DEF k, proven, hopeful, l, h
  <2> QED BY <2>1, <2>2, <2>3, <2>4
<1> HIDE DEF w, l, h
<1>7. SumFunction(l) \in Int /\ SumFunction(h) \in Int /\ SumFunction(l) <= SumFunction(h)
  BY <1>3, <1>6, SumsOrdered
<1>8. scores # {} => SumFunction(w) \in Nat \ {0}
  BY <1>3, <1>5, SumPositive
<1>9. scores # {} => b \in Interval
  BY <1>2, <1>7, <1>8, RatiosOrdered
<1>10. [low |-> in.scale, high |-> in.scale] \in Interval
  BY <1>2 DEF Interval
<1> HIDE DEF b
<1> QED BY <1>1, <1>9, <1>10

(* The worst of some figures is one of them, and grows with them.                    *)
LEMMA WorstOf ==
    ASSUME NEW L, NEW H, IsFiniteSet(L), IsFiniteSet(H), L # {}, L \subseteq Int, H \subseteq Int,
           \A l \in L : \E h \in H : l <= h
    PROVE  Top(L) \in L /\ Top(H) \in H /\ Top(L) <= Top(H)
<1>1. Top(L) \in L
  BY TopIs
<1>2. PICK h \in H : Top(L) <= h
  BY <1>1
<1>3. Top(H) \in H /\ Top(H) >= h
  BY <1>2, TopIs
<1> DEFINE x == Top(L)
           y == Top(H)
<1>4. x \in Int /\ y \in Int /\ h \in Int /\ x <= h /\ y >= h
  BY <1>1, <1>2, <1>3
<1> HIDE DEF x, y
<1>5. x <= y
  BY <1>4
<1> QED BY <1>1, <1>3, <1>5 DEF x, y

(* The risk of a plan is the worst of its rules' bounds, or a reason.               *)
LEMMA RiskTyped ==
    ASSUME NEW in, decision_graph_input(in), NEW m
    PROVE  LET risk == risk_bounds(in, m)
           IN  /\ risk.bounds = {} => risk.reasons # {}
               /\ \A b \in risk.bounds : b \in BaseInterval /\ risk_bounds_record(b)
               /\ Cardinality(risk.bounds) <= 1
<1> DEFINE rules == {r \in in.rules : m.action \in r.actions}
           blind(r) == /\ r.predicate # {} /\ r.missing = {}
                       /\ LET f == field_state(in, m.facts, Only(r.predicate).field)
                          IN  f.state # "ACCEPTABLE" \/ f.values = {}
           parts == UNION {risk_rule(in, m, r) : r \in rules}
           risk == risk_bounds(in, m)
           zero == [low |-> 0, base |-> 0, high |-> 0]
           worst == aggregate_risk_bounds(parts)
<1>1. risk = IF \E r \in rules : blind(r) THEN [bounds |-> {}, reasons |-> {"RISK"}]
             ELSE IF parts = {} /\ ~in.complete THEN [bounds |-> {}, reasons |-> {"RISK_RULE_COVERAGE"}]
             ELSE IF parts = {} THEN [bounds |-> {zero}, reasons |-> {}]
             ELSE [bounds |-> {worst}, reasons |-> {}]
  BY DEF risk_bounds
<1>2. zero \in BaseInterval /\ risk_bounds_record(zero)
  BY DEF BaseInterval, risk_bounds_record, RiskRanks
<1>3. \A b \in parts : risk_bounds_record(b)
  <2> SUFFICES ASSUME NEW r \in in.rules, NEW b \in risk_rule(in, m, r) PROVE risk_bounds_record(b)
    OBVIOUS
  <2>1. risk_bounds_record(r.bounds) /\ \A x \in r.missing : risk_bounds_record(x)
    BY DEF decision_graph_input, risk_rule_record
  <2>2. risk_rule(in, m, r) \subseteq {r.bounds} \cup r.missing
    BY DEF risk_rule
  <2> QED BY <2>1, <2>2
<1>4. ASSUME parts # {} PROVE worst \in BaseInterval /\ risk_bounds_record(worst)
  <2> DEFINE low == [b \in parts |-> b.low]
             mid == [b \in parts |-> b.base]
             high == [b \in parts |-> b.high]
             L == {low[b] : b \in parts}
             B == {mid[b] : b \in parts}
             H == {high[b] : b \in parts}
  <2>1. \A b \in parts : /\ low[b] \in 0..3 /\ mid[b] \in 0..3 /\ high[b] \in 0..3
                         /\ low[b] <= mid[b] /\ mid[b] <= high[b]
    <3> HIDE DEF parts
    <3> QED BY <1>3 DEF risk_bounds_record, RiskRanks
  <2>2. worst = [low |-> Top(L), base |-> Top(B), high |-> Top(H)]
    <3>1. L = {b.low : b \in parts} /\ B = {b.base : b \in parts} /\ H = {b.high : b \in parts}
      OBVIOUS
    <3> HIDE DEF L, B, H, parts
    <3> QED BY <3>1, Zenon DEF aggregate_risk_bounds
  <2> HIDE DEF low, mid, high, parts
  <2>3. L \subseteq 0..3 /\ B \subseteq 0..3 /\ H \subseteq 0..3
    BY <2>1
  <2>4. IsFiniteSet(L) /\ IsFiniteSet(B) /\ IsFiniteSet(H)
    <3>2. \A i, k \in Int : IsFiniteSet(i..k)
      BY FS_Interval
    <3>3. 0 \in Int /\ 3 \in Int
      OBVIOUS
    <3>1. IsFiniteSet(0..3)
      BY <3>2, <3>3, Zenon
    <3> HIDE DEF L, B, H
    <3> QED BY <2>3, <3>1, FS_Subset
  <2>8. /\ L # {} /\ B # {} /\ L \subseteq Int /\ B \subseteq Int /\ H \subseteq Int
        /\ \A l \in L : \E b \in B : l <= b
        /\ \A b \in B : \E h \in H : b <= h
    <3>1. L # {} /\ B # {}
      BY <1>4
    <3>2. \A l \in L : \E b \in B : l <= b
      BY <2>1
    <3>3. \A b \in B : \E h \in H : b <= h
      BY <2>1
    <3> HIDE DEF L, B, H
    <3>4. 0..3 \subseteq Int
      OBVIOUS
    <3> QED BY <2>3, <3>1, <3>2, <3>3, <3>4
  <2> HIDE DEF L, B, H
  <2>5. Top(L) \in L /\ Top(B) \in B /\ Top(L) <= Top(B)
    BY <2>4, <2>8, WorstOf
  <2>6. Top(H) \in H /\ Top(B) <= Top(H)
    BY <2>4, <2>8, WorstOf
  <2>7. Top(L) \in 0..3 /\ Top(B) \in 0..3 /\ Top(H) \in 0..3
    BY <2>3, <2>5, <2>6
  <2> HIDE DEF worst
  <2> QED BY <2>2, <2>5, <2>6, <2>7 DEF BaseInterval, risk_bounds_record, RiskRanks
<1>5. Cardinality({zero}) = 1 /\ Cardinality({worst}) = 1 /\ Cardinality({}) = 0
  BY FS_Singleton, FS_EmptySet
<1> HIDE DEF zero, worst, parts, rules, blind, risk
<1>6. \/ risk.bounds = {} /\ risk.reasons # {}
      \/ risk.bounds = {zero}
      \/ risk.bounds = {worst} /\ parts # {}
  BY <1>1
<1>7. CASE risk.bounds = {} /\ risk.reasons # {}
  BY <1>5, <1>7 DEF risk
<1>8. CASE risk.bounds = {zero}
  BY <1>2, <1>5, <1>8 DEF risk
<1>9. CASE risk.bounds = {worst} /\ parts # {}
  BY <1>4, <1>5, <1>9 DEF risk
<1> QED BY <1>6, <1>7, <1>8, <1>9

(* The age of a piece of evidence against the policy of a field.                    *)
LEMMA AgesTyped ==
    ASSUME NEW in, FrozenRules(in), decision_graph_input(in), NEW e, NEW field \in DOMAIN in.policies
    PROVE  LET found == assessment(in, e, field)
           IN  /\ found.state \in EvidenceStates
               /\ IsFiniteSet(found.age)
               /\ \A a \in found.age : a.low \in Int /\ a.high \in Int /\ a.low <= a.high
<1> DEFINE records == {r \in in.evidence : r.id = e}
           r == Only(records)
           sla == in.policies[field].sla
           ages == {evidence_age_bounds(in, a, sla) : a \in r.age}
           found == assessment(in, e, field)
<1>1. found.state \in EvidenceStates
  BY DEF assessment, EvidenceStates
<1>2. found.age = IF records = {} THEN {} ELSE ages
  BY DEF assessment
<1>3. sla \in Nat \ {0} /\ in.scale \in Nat
  <2>1. sla \in Int /\ sla >= 1 /\ in.scale \in Nat
    BY DEF FrozenRules, decision_graph_input, evidence_policy
  <2> QED BY <2>1
<1>4. ASSUME records # {} PROVE r \in in.evidence
  BY <1>4 DEF Only
<1> HIDE DEF r, found
<1>5. ASSUME records # {} PROVE IsFiniteSet(ages)
  <2>1. IsFiniteSet(r.age)
    BY <1>4, <1>5 DEF FrozenRules
  <2> DEFINE g == [a \in r.age |-> evidence_age_bounds(in, a, sla)]
  <2>2. ages = {g[a] : a \in r.age}
    OBVIOUS
  <2> HIDE DEF g, ages
  <2> QED BY <2>1, <2>2, ImageFinite
<1>6. ASSUME records # {}, NEW a \in r.age
      PROVE  LET x == evidence_age_bounds(in, a, sla) IN x.low \in Int /\ x.high \in Int /\ x.low <= x.high
  <2>1. a.low \in Int /\ a.high \in Int /\ a.low <= a.high
    BY <1>4, <1>6 DEF FrozenRules, decision_graph_input, evidence_record
  <2> DEFINE l == in.scale * a.low
             h == in.scale * a.high
  <2>2. l \in Int /\ h \in Int /\ l <= h
    BY <1>3, <2>1, TimesOrdered
  <2> HIDE DEF l, h, sla
  <2>3. l \div sla \in Int /\ h \div sla \in Int /\ l \div sla <= h \div sla
    BY <1>3, <2>2, DivOrdered
  <2> QED BY <2>3 DEF evidence_age_bounds, l, h
<1>7. IsFiniteSet({})
  BY FS_EmptySet
<1>8. \A a \in found.age : a.low \in Int /\ a.high \in Int /\ a.low <= a.high
  <2> SUFFICES ASSUME records # {}, NEW a \in r.age
               PROVE  LET x == evidence_age_bounds(in, a, sla) IN x.low \in Int /\ x.high \in Int /\ x.low <= x.high
    BY <1>2
  <2> QED BY <1>6
<1>9. IsFiniteSet(found.age)
  BY <1>2, <1>5, <1>7
<1> QED BY <1>1, <1>8, <1>9 DEF found

(* What an evaluation that does not raise knows of its input.                       *)
LEMMA WellFormed ==
    ASSUME NEW in, ~Malformed(in)
    PROVE  /\ \A p \in EvidencePairs(in, recall_and_deduplicate(in)) : p[2] \in DOMAIN in.policies
           /\ \A m \in materials(in, recall_and_deduplicate(in)) :
                 \A b \in m.cost.bounds : b.low <= b.base /\ b.base <= b.high
  BY DEF Malformed

(* The age of a plan is the age of its oldest evidence.                             *)
LEMMA AgeTyped ==
    ASSUME NEW in, FrozenRules(in), decision_graph_input(in), NEW m, NEW scores,
           NEW pairs, IsFiniteSet(pairs), \A p \in pairs : p[2] \in DOMAIN in.policies
    PROVE  material_age(in, m, scores, pairs).bounds \in Interval
<1> DEFINE ids == (UNION {f.ev : f \in m.facts}) \cup UNION {s.ev : s \in scores}
           P == {p \in pairs : p[1] \in ids}
           found == {assessment(in, p[1], p[2]) : p \in P}
           ages == UNION {a.age : a \in found}
           L == {a.low : a \in ages}
           H == {a.high : a \in ages}
<1>1. material_age(in, m, scores, pairs).bounds
        = IF ages = {} THEN [low |-> 0, high |-> 0] ELSE [low |-> Top(L), high |-> Top(H)]
  BY DEF material_age
<1>2. IsFiniteSet(found)
  <2> HIDE DEF ids
  <2>1. P \in SUBSET pairs
    OBVIOUS
  <2> HIDE DEF P
  <2>2. IsFiniteSet(P)
    BY <2>1, FS_Subset
  <2> DEFINE g == [p \in P |-> assessment(in, p[1], p[2])]
  <2>3. found = {g[p] : p \in P}
    OBVIOUS
  <2> HIDE DEF g, found
  <2> QED BY <2>2, <2>3, ImageFinite
<1>3. \A a \in found : IsFiniteSet(a.age) /\ \A x \in a.age : x.low \in Int /\ x.high \in Int /\ x.low <= x.high
  <2> SUFFICES ASSUME NEW p \in pairs
               PROVE  LET a == assessment(in, p[1], p[2])
                      IN  /\ IsFiniteSet(a.age)
                          /\ \A x \in a.age : x.low \in Int /\ x.high \in Int /\ x.low <= x.high
    OBVIOUS
  <2> QED BY AgesTyped
<1> HIDE DEF found, P, ids
<1>4. IsFiniteSet(ages)
  <2> DEFINE g == [a \in found |-> a.age]
  <2>1. \A a \in found : IsFiniteSet(g[a])
    BY <1>3
  <2>2. ages = UNION {g[a] : a \in found}
    OBVIOUS
  <2> HIDE DEF g, ages
  <2> QED BY <1>2, <2>1, <2>2, UnionFinite
<1>5. \A x \in ages : x.low \in Int /\ x.high \in Int /\ x.low <= x.high
  BY <1>3
<1> HIDE DEF ages
<1>6. IsFiniteSet(L) /\ IsFiniteSet(H)
  <2> DEFINE g == [a \in ages |-> a.low]
             h == [a \in ages |-> a.high]
  <2>1. L = {g[a] : a \in ages} /\ H = {h[a] : a \in ages}
    OBVIOUS
  <2> HIDE DEF g, h, L, H
  <2> QED BY <1>4, <2>1, ImageFinite
<1>7. /\ L \subseteq Int /\ H \subseteq Int /\ \A l \in L : \E h \in H : l <= h
      /\ ages # {} => L # {}
  BY <1>5
<1> HIDE DEF L, H
<1>8. ASSUME ages # {} PROVE [low |-> Top(L), high |-> Top(H)] \in Interval
  <2>1. Top(L) \in L /\ Top(H) \in H /\ Top(L) <= Top(H)
    BY <1>6, <1>7, <1>8, WorstOf
  <2> QED BY <1>7, <2>1 DEF Interval
<1>9. [low |-> 0, high |-> 0] \in Interval
  BY DEF Interval
<1> QED BY <1>1, <1>8, <1>9

(* Bounds that are there are ordered, and without a reason they are all there.      *)
LEMMA DimensionsTyped ==
    ASSUME NEW m, NEW scores, NEW preference \in SUBSET Interval, NEW risk, NEW coverage \in Interval, NEW age,
           NEW gates,
           scores # {} => preference # {},
           risk.bounds = {} => risk.reasons # {}, risk.bounds \subseteq BaseInterval,
           m.cost.bounds \subseteq BaseInterval, age.bounds \in Interval
    PROVE  Dimensions(m, scores, preference, risk, coverage, age, gates).bounds
               \in {{b} : b \in OrderingBounds} \cup {{}}
<1> DEFINE reasons == (UNION {s.reasons : s \in scores}) \cup risk.reasons \cup age.reasons
                          \cup valid_cost(m.cost, m.payments)
                          \cup (IF scores = {} THEN {"NO_APPLICABLE_PREFERENCE"} ELSE {})
           b == [preference |-> Only(preference), risk |-> Only(risk.bounds),
                 cost |-> Only(m.cost.bounds), coverage |-> coverage, age |-> age.bounds]
<1>1. Dimensions(m, scores, preference, risk, coverage, age, gates).bounds = IF reasons # {} THEN {} ELSE {b}
  BY DEF Dimensions
<1>2. ASSUME reasons = {} PROVE b \in OrderingBounds
  <2>1. scores # {}
    BY <1>2
  <2>2. risk.reasons = {} /\ valid_cost(m.cost, m.payments) = {}
    BY <1>2
  <2>3. m.cost.bounds # {}
    BY <2>2 DEF valid_cost
  <2>4. Only(preference) \in Interval /\ Only(risk.bounds) \in BaseInterval /\ Only(m.cost.bounds) \in BaseInterval
    BY <2>1, <2>2, <2>3 DEF Only
  <2> QED BY <2>4 DEF OrderingBounds
<1> HIDE DEF reasons, b
<1> QED BY <1>1, <1>2

(* An action has its place in the order of names.                                   *)
LEMMA RankOfAction ==
    ASSUME NEW a \in Actions
    PROVE  ActionRank(a) \in Nat
<1>1. \E i \in 1..Len(ActionOrder) : ActionOrder[i] = a
  BY DEF Actions, ActionOrder
<1>2. Len(ActionOrder) \in Nat
  BY DEF ActionOrder
<1> QED BY <1>1, <1>2 DEF ActionRank

(* The identity of a plan is a tuple of numbers.                                    *)
LEMMA IdsOf ==
    ASSUME NEW a \in Actions, NEW components \in Seq(Nat)
    PROVE  <<ActionRank(a)>> \o components \in Seq(Nat)
<1> DEFINE r == ActionRank(a)
<1>1. r \in Nat
  BY RankOfAction
<1> HIDE DEF r
<1>2. <<r>> \o components \in Seq(Nat)
  BY <1>1
<1> QED BY <1>2 DEF r

\* The scores of the criteria that apply to a material.
ScoresOf(in, m) == {score_component(in, m, c) : c \in Applicable(in, m)}

(* The scores of a material are finitely many and within the unit.                  *)
LEMMA ScoresOfTyped ==
    ASSUME NEW in, FrozenRules(in), decision_graph_input(in), NEW m
    PROVE  IsFiniteSet(ScoresOf(in, m)) /\ \A s \in ScoresOf(in, m) : ScoreTyped(in, s)
<1> DEFINE A == Applicable(in, m)
           g == [c \in A |-> score_component(in, m, c)]
<1>1. A \subseteq in.preferences /\ IsFiniteSet(in.preferences)
  BY DEF Applicable, FrozenRules
<1>2. \A s \in ScoresOf(in, m) : ScoreTyped(in, s)
  BY <1>1, ScoresTyped DEF ScoresOf
<1>3. ScoresOf(in, m) = {g[c] : c \in A}
  BY DEF ScoresOf
<1> HIDE DEF g, A
<1>4. IsFiniteSet(A)
  BY <1>1, FS_Subset
<1>5. IsFiniteSet({g[c] : c \in A})
  BY <1>4, ImageFinite
<1> QED BY <1>2, <1>3, <1>5

(* The plans of an evaluation that does not raise are what the ranking takes.       *)
LEMMA PlansTyped ==
    ASSUME NEW in, FrozenRecords(in), FrozenRules(in), decision_graph_input(in), ~Malformed(in)
    PROVE  /\ IsFiniteSet(build_solution_plans(in))
           /\ \A p \in build_solution_plans(in) : Bounded(p) \in BoundedPlan /\ PlanLike(p)
<1> DEFINE reps == recall_and_deduplicate(in)
           pairs == EvidencePairs(in, reps)
           M == materials(in, reps)
<1>1. IsFiniteSet(M) /\ \A m \in M : MaterialTyped(m)
  BY MaterialsShape
<1>2. IsFiniteSet(pairs)
  BY PairsFinite
<1>3. /\ \A p \in pairs : p[2] \in DOMAIN in.policies
      /\ \A m \in M : \A b \in m.cost.bounds : b.low <= b.base /\ b.base <= b.high
  BY WellFormed
<1>4. build_solution_plans(in) = {build_solution_plan(in, m, pairs) : m \in M}
  BY DEF build_solution_plans
<1> HIDE DEF reps, pairs, M
<1>5. IsFiniteSet(build_solution_plans(in))
  <2> DEFINE g == [m \in M |-> build_solution_plan(in, m, pairs)]
  <2>1. build_solution_plans(in) = {g[m] : m \in M}
    BY <1>4
  <2> HIDE DEF g
  <2>2. IsFiniteSet({g[m] : m \in M})
    BY <1>1, ImageFinite
  <2> QED BY <2>1, <2>2
<1>6. ASSUME NEW m \in M
      PROVE  Bounded(build_solution_plan(in, m, pairs)) \in BoundedPlan /\ PlanLike(build_solution_plan(in, m, pairs))
  <2> DEFINE gates == evaluate_gates(in, m, pairs)
             status == primary_status(gates)
             scores == ScoresOf(in, m)
             d == material_dimensions(in, m, gates, pairs)
             p == Plan(m, gates, status, d)
             preference == aggregate_preference_bounds(in, scores)
             risk == risk_bounds(in, m)
             coverage == coverage_bounds(in, m, scores)
             age == material_age(in, m, scores, pairs)
  <2>1. build_solution_plan(in, m, pairs) = p
    BY DEF build_solution_plan, Gated
  <2>2. d = Dimensions(m, scores, preference, risk, coverage, age, gates)
    BY DEF material_dimensions, Scored, ScoresOf
  <2>3. IsFiniteSet(scores) /\ \A s \in scores : ScoreTyped(in, s)
    BY ScoresOfTyped
  <2>4. PlanLike(p)
    BY PlanIsLike
  <2>5. /\ p.ids = <<ActionRank(m.action)>> \o m.components
        /\ p.exception = IF status = "ELIGIBLE_WITH_EXCEPTION" THEN 1 ELSE 0
        /\ p.bounds = d.bounds
    BY DEF Plan
  <2> HIDE DEF gates, status, scores, d, p
  <2>6. preference \in SUBSET Interval /\ (scores # {} => preference # {})
    BY <2>3, PreferenceTyped
  <2>7. coverage \in Interval
    BY <2>3, CoverageTyped
  <2>8. age.bounds \in Interval
    BY <1>2, <1>3, AgeTyped
  <2>9. (risk.bounds = {} => risk.reasons # {}) /\ risk.bounds \subseteq BaseInterval
    BY RiskTyped
  <2>10. m.cost.bounds \subseteq BaseInterval
    BY <1>1, <1>3 DEF MaterialTyped, CostBounds, BaseInterval
  <2> HIDE DEF preference, coverage, age, risk
  <2>11. d.bounds \in {{b} : b \in OrderingBounds} \cup {{}}
    BY <2>2, <2>6, <2>7, <2>8, <2>9, <2>10, DimensionsTyped
  <2>12. p.ids \in Seq(Nat)
    BY <1>1, <2>5, IdsOf DEF MaterialTyped
  <2>13. p.exception \in {0, 1}
    BY <2>5
  <2>14. Bounded(p) \in BoundedPlan
    BY <2>5, <2>11, <2>12, <2>13 DEF Bounded, BoundedPlan
  <2> QED BY <2>1, <2>4, <2>14
<1> QED BY <1>4, <1>5, <1>6

-----------------------------------------------------------------------------------
(* The invariant of the engine, and the first of the properties that follow from    *)
(* it: the ranking is robust and the closure exact.                                 *)

\* The phases of one evaluation.
Phases == {"BASE", "GENERIC", "COUNTERFACTUAL", "LEDGER", "ROWS", "DONE", "REFUSED"}

\* What the call holds of its evaluation, from the step that made it on.
EngineInv ==
    /\ input \in Inputs /\ phase \in Phases
    /\ phase = "BASE" => decision_graph_input(input)
    /\ phase \in {"GENERIC", "COUNTERFACTUAL", "LEDGER", "ROWS", "DONE"} \/ ledger # {} =>
          decision_graph_input(input) /\ base = evaluate_decision_graph_once(input) /\ ~Raised(base)
    /\ phase \in {"BASE", "GENERIC", "COUNTERFACTUAL", "LEDGER"} => ledger = {}
    /\ phase = "REFUSED" /\ ledger # {} =>
          MembersRaise(input) \/ RowsRaise(base) \/ ~Storable(input, build_evaluation_graph_write(input, base))
    /\ phase # "DONE" => rows = {}
    /\ phase = "DONE" => ~RowsRaise(base) /\ rows = {build_evaluation_graph_write(input, base)}

(* The invariant of the engine holds initially.                                     *)
LEMMA EngineStart == Init => EngineInv
  BY DEF Init, EngineInv, Phases

(* Every step of the engine keeps its invariant.                                    *)
LEMMA EngineStep == EngineInv /\ [Next]_vars => EngineInv'
<1> SUFFICES ASSUME EngineInv, [Next]_vars PROVE EngineInv'
  OBVIOUS
<1> USE DEF EngineInv, Phases
<1>1. CASE evaluate_base
  BY <1>1 DEF evaluate_base
<1>2. CASE evaluate_generic
  BY <1>2 DEF evaluate_generic
<1>3. CASE search_counterfactual
  BY <1>3 DEF search_counterfactual
<1>4. CASE write_ledger
  BY <1>4 DEF write_ledger
<1>5. CASE write_rows
  BY <1>5 DEF write_rows
<1>6. CASE UNCHANGED vars
  BY <1>6 DEF vars
<1> QED BY <1>1, <1>2, <1>3, <1>4, <1>5, <1>6 DEF Next

(* An evaluation that does not raise ranks the plans of a well-formed input.         *)
LEMMA Evaluated ==
    ASSUME NEW in, NEW e, e = evaluate_decision_graph_once(in), ~Raised(e)
    PROVE  ~Malformed(in) /\ e = rank_and_frontiers(build_solution_plans(in))
<1> DEFINE Q == build_solution_plans(in)
<1>1. Raised(Refusal)
  BY DEF Raised, Refusal
<1>2. ~Malformed(in) /\ e = Comparable(Q)
  BY <1>1 DEF evaluate_decision_graph_once
<1> HIDE DEF Q
<1>3. e = rank_and_frontiers(Q)
  BY <1>1, <1>2 DEF Comparable
<1> QED BY <1>2, <1>3 DEF Q

(* The verdict on the ranking is right whatever the uncertain figures turn out to   *)
(* be, of every evaluation that is persisted, for every input.                      *)
THEOREM RankStaysRobust == Spec => []RankIsRobust
<1>1. EngineInv => RankIsRobust
  <2> SUFFICES ASSUME EngineInv, phase = "DONE" PROVE Robust(base)
    BY DEF RankIsRobust, Robust
  <2> DEFINE Q == build_solution_plans(input)
  <2>1. /\ FrozenRecords(input) /\ FrozenRules(input) /\ decision_graph_input(input)
        /\ base = evaluate_decision_graph_once(input) /\ ~Raised(base) /\ ~RowsRaise(base)
    BY InputsAssumption DEF EngineInv
  <2>2. ~Malformed(input) /\ base = rank_and_frontiers(Q)
    BY <2>1, Evaluated
  <2>3. IsFiniteSet(Q) /\ \A p \in Q : Bounded(p) \in BoundedPlan /\ PlanLike(p)
    BY <2>1, <2>2, PlansTyped
  <2> HIDE DEF Q
  <2> QED BY <2>1, <2>2, <2>3, RankingIsRobust
<1> QED BY <1>1, EngineStart, EngineStep, PTL DEF Spec

(* The component list of every Pack plan is its dependency closure, for every input. *)
LEMMA ClosureHolds == EngineInv => ClosureIsExact
<1> SUFFICES ASSUME EngineInv, NEW root \in recall_and_deduplicate(input)
             PROVE  ClosureOf(recall_and_deduplicate(input), root, closure(recall_and_deduplicate(input), root))
  BY DEF ClosureIsExact
<1> DEFINE reps == recall_and_deduplicate(input)
<1>1. FrozenRecords(input)
  BY InputsAssumption DEF EngineInv
<1>2. IsFiniteSet(reps) /\ (\A r \in reps : RepTyped(r)) /\ root \in reps
  BY <1>1, RepsShape
<1> HIDE DEF reps
<1>3. ClosureOf(reps, root, closure(reps, root))
  BY <1>2, ClosureShape
<1> QED BY <1>3 DEF reps

-----------------------------------------------------------------------------------
(* Gates: a plan is eligible only when every hard gate of the input passes on       *)
(* evidence that stands, for what the merged facts of each component say.           *)

\* The statuses a gate can argue for, and those of a mark.
Blocking == {"UNAVAILABLE", "CONFLICTING_EVIDENCE", "STALE_EVIDENCE", "INSUFFICIENT_EVIDENCE",
             "SIRA_INELIGIBLE", "SEIL_PASS", "ADVISORY_ONLY", "CONDITIONAL"}
Argued == {"CONFLICTING_EVIDENCE", "STALE_EVIDENCE", "INSUFFICIENT_EVIDENCE", "CONDITIONAL", "NONE"}
MarkTyped(x) ==
    /\ x.truth \in Truths /\ x.status \in Argued
    /\ x.status = "NONE" => x.truth \in {"TRUE", "FALSE"}

(* A predicate on known values is true or false and marks nothing blocking.         *)
LEMMA JudgedTyped ==
    ASSUME NEW holds
    PROVE  MarkTyped(Judged(holds)) /\ Judged(holds).status = "NONE" /\ (Judged(holds).truth = "TRUE" <=> holds)
  BY DEF MarkTyped, Judged, Mark, Truths, Argued

(* The marks a blocking seller rule leaves are never those of a pass.               *)
LEMMA RuleMarks ==
    ASSUME NEW in, NEW g, NEW pairs, NEW x \in SellerRuleMarks(in, g, pairs)
    PROVE  MarkTyped(x) /\ x.status # "NONE" /\ g.blocked = "SEIL_PASS"
<1> DEFINE states == {assessment(in, p[1], p[2]).state : p \in {p \in pairs : p[1] \in g.claims}}
<1>1. g.blocked = "SEIL_PASS"
  BY DEF SellerRuleMarks
<1>2. x \in {Mark("UNKNOWN", "INSUFFICIENT_EVIDENCE"), Mark("UNKNOWN", "STALE_EVIDENCE"),
             Mark("CONFLICT", "CONFLICTING_EVIDENCE")}
  <2>1. x \in {Mark("UNKNOWN", "INSUFFICIENT_EVIDENCE") :
                  z \in {y \in {1} : states = {} \/ "UNKNOWN" \in states}}
             \cup {Mark("UNKNOWN", "STALE_EVIDENCE") : z \in states \cap {"STALE"}}
             \cup {Mark("CONFLICT", "CONFLICTING_EVIDENCE") : z \in states \cap {"CONFLICT"}}
    BY DEF SellerRuleMarks
  <2> HIDE DEF states
  <2> QED BY <2>1
<1> QED BY <1>1, <1>2 DEF MarkTyped, Mark, Truths, Argued

(* A seller requirement passes only on the buyer facts that its predicate           *)
(* matches.                                                                         *)
LEMMA SellerMarked ==
    ASSUME NEW in, NEW q, NEW x \in SellerMarks(in, q)
    PROVE  LET values == {f.value : f \in {f \in active_buyer_facts(in) : f.field = q.field}}
           IN  /\ MarkTyped(x)
               /\ x.status = "NONE" => values # {} /\ x = Judged(predicate_matches(Only(values), q))
<1> DEFINE values == {f.value : f \in {f \in active_buyer_facts(in) : f.field = q.field}}
<1>1. SellerMarks(in, q) = IF values = {} THEN {Mark("UNKNOWN", "CONDITIONAL")}
                           ELSE {Judged(predicate_matches(Only(values), q))}
  BY DEF SellerMarks
<1> HIDE DEF values
<1>2. CASE values = {}
  <2>1. x = Mark("UNKNOWN", "CONDITIONAL")
    BY <1>1, <1>2
  <2>2. MarkTyped(x) /\ x.status # "NONE"
    BY <2>1 DEF MarkTyped, Mark, Truths, Argued
  <2> QED BY <2>2 DEF values
<1>3. CASE values # {}
  <2>1. x = Judged(predicate_matches(Only(values), q))
    BY <1>1, <1>3
  <2>2. MarkTyped(x)
    BY <2>1, JudgedTyped
  <2> QED BY <1>3, <2>1, <2>2 DEF values
<1> QED BY <1>2, <1>3

\* What a field looks like where a gate can judge it.
Clear(s) == s.state = "ACCEPTABLE" /\ s.values # {}
AllMatch(s, q) == \A v \in s.values : predicate_matches(v, q)

(* A buyer gate is judged on the values it found only when every one of them is     *)
(* clear.                                                                           *)
LEMMA BuyerMarked ==
    ASSUME NEW q, NEW found, \A s \in found : s.state \in EvidenceStates
    PROVE  /\ \A x \in MarksFound(q, found) : MarkTyped(x)
           /\ (\A x \in MarksFound(q, found) : x.status = "NONE") =>
                 /\ \A s \in found : Clear(s)
                 /\ MarksFound(q, found) = {Judged(AllMatch(s, q)) : s \in found}
<1> DEFINE states == {s.state : s \in found}
           judged == {Judged(AllMatch(s, q)) : s \in found}
           c == Mark("CONFLICT", "CONFLICTING_EVIDENCE")
           t == Mark("UNKNOWN", "STALE_EVIDENCE")
           u == Mark("UNKNOWN", "INSUFFICIENT_EVIDENCE")
           marks == MarksFound(q, found)
<1>1. marks = IF "CONFLICT" \in states THEN {c}
              ELSE IF "STALE" \in states THEN {t}
              ELSE IF "UNKNOWN" \in states \/ \E s \in found : s.values = {} THEN {u}
              ELSE judged
  BY DEF MarksFound, AllMatch
<1>2. /\ MarkTyped(c) /\ c.status # "NONE" /\ MarkTyped(t) /\ t.status # "NONE"
      /\ MarkTyped(u) /\ u.status # "NONE"
  BY DEF MarkTyped, Mark, Truths, Argued
<1>3. \A x \in judged : MarkTyped(x)
  BY JudgedTyped
<1>4. ASSUME "CONFLICT" \notin states, "STALE" \notin states, "UNKNOWN" \notin states, ~\E s \in found : s.values = {}
      PROVE  \A s \in found : Clear(s)
  BY <1>4 DEF EvidenceStates, Clear
<1> HIDE DEF states, judged, c, t, u, marks
<1>5. \A x \in marks : MarkTyped(x)
  BY <1>1, <1>2, <1>3
<1>6. ASSUME \A x \in marks : x.status = "NONE"
      PROVE  (\A s \in found : Clear(s)) /\ marks = judged
  BY <1>1, <1>2, <1>4, <1>6
<1> QED BY <1>5, <1>6 DEF marks, judged

(* What it means that a gate has nothing against a plan.                            *)
LEMMA GateSilent ==
    ASSUME NEW g, NEW marks, \A x \in marks : MarkTyped(x), gate_result(g, marks).reasons = {}
    PROVE  /\ \A x \in marks : x.status = "NONE"
           /\ IF g.mode = "REQUIRE_MATCH" THEN \A x \in marks : x.truth = "TRUE"
              ELSE \E x \in marks : x.truth = "FALSE"
<1> DEFINE truths == {x.truth : x \in marks}
           argued == {x.status : x \in marks} \ {"NONE"}
           all == IF "FALSE" \in truths THEN "FALSE"
                  ELSE IF "UNKNOWN" \in truths THEN "UNKNOWN" ELSE "TRUE"
           truth == IF "CONFLICT" \in truths THEN "CONFLICT"
                    ELSE IF g.mode = "REQUIRE_MATCH" THEN all
                    ELSE CASE all = "FALSE" -> "TRUE" [] all = "TRUE" -> "FALSE" [] OTHER -> all
<1>1. argued = {} /\ truth # "FALSE"
  BY DEF gate_result
<1>2. \A x \in marks : x.status = "NONE"
  <2> HIDE DEF truth
  <2> QED BY <1>1
<1>3. \A x \in marks : x.truth \in {"TRUE", "FALSE"}
  <2> HIDE DEF truth, argued
  <2> QED BY <1>2 DEF MarkTyped
<1>4. truths \subseteq {"TRUE", "FALSE"}
  <2> HIDE DEF truth, argued
  <2> QED BY <1>3
<1>5. ASSUME g.mode = "REQUIRE_MATCH" PROVE "FALSE" \notin truths
  <2> HIDE DEF truths, argued
  <2> QED BY <1>1, <1>4, <1>5
<1>6. ASSUME g.mode # "REQUIRE_MATCH" PROVE "FALSE" \in truths
  <2> HIDE DEF truths, argued
  <2> QED BY <1>1, <1>4, <1>6
<1> HIDE DEF argued, truth, all
<1> QED BY <1>2, <1>3, <1>5, <1>6

(* Every mark of a gate is typed.                                                   *)
LEMMA GateMarks ==
    ASSUME NEW in, NEW m, NEW q
    PROVE  \A s \in component_field_states(in, m, q.field) : s.state \in EvidenceStates
  BY FieldStates DEF component_field_states

\* What the conditions of a gate leave for gate_result.
Marks(in, m, g, pairs) ==
    SellerRuleMarks(in, g, pairs)
        \cup UNION {IF g.blocked = "SEIL_PASS" THEN SellerMarks(in, p) ELSE BuyerMarks(in, m, p) : p \in g.predicates}

(* A gate result is made of the marks of its conditions, each of a known truth.     *)
LEMMA MarksTyped ==
    ASSUME NEW in, NEW m, NEW g, NEW pairs
    PROVE  /\ evaluate_gate(in, m, g, pairs) = gate_result(g, Marks(in, m, g, pairs))
           /\ \A x \in Marks(in, m, g, pairs) : MarkTyped(x)
<1>1. evaluate_gate(in, m, g, pairs) = gate_result(g, Marks(in, m, g, pairs))
  BY DEF evaluate_gate, Marks
<1>2. \A x \in SellerRuleMarks(in, g, pairs) : MarkTyped(x)
  BY RuleMarks
<1>3. \A q \in g.predicates : \A x \in SellerMarks(in, q) : MarkTyped(x)
  BY SellerMarked
<1>4. \A q \in g.predicates : \A x \in BuyerMarks(in, m, q) : MarkTyped(x)
  <2> SUFFICES ASSUME NEW q \in g.predicates PROVE \A x \in BuyerMarks(in, m, q) : MarkTyped(x)
    OBVIOUS
  <2> DEFINE found == component_field_states(in, m, q.field)
  <2>1. \A s \in found : s.state \in EvidenceStates
    BY GateMarks
  <2> HIDE DEF found
  <2>2. \A x \in MarksFound(q, found) : MarkTyped(x)
    BY <2>1, BuyerMarked
  <2> QED BY <2>2 DEF BuyerMarks, found
<1>5. \A x \in Marks(in, m, g, pairs) : MarkTyped(x)
  BY <1>2, <1>3, <1>4 DEF Marks
<1> QED BY <1>1, <1>5

(* A gate argues for statuses that block, and for nothing else.                     *)
LEMMA GateReasons ==
    ASSUME NEW in, FrozenRules(in), NEW m, NEW pairs, NEW x \in evaluate_gates(in, m, pairs)
    PROVE  x.reasons \subseteq Blocking /\ x.truth \in Truths
<1>1. CASE x = availability_gate(m)
  BY <1>1 DEF availability_gate, Blocking, Truths
<1>2. CASE x \in dependency_gates(m)
  BY <1>2 DEF dependency_gates, Blocking, Truths
<1>3. CASE x = authority_gate(m)
  BY <1>3 DEF authority_gate, Blocking, Truths
<1>4. ASSUME NEW g \in in.gates, x = evaluate_gate(in, m, g, pairs)
      PROVE  x.reasons \subseteq Blocking /\ x.truth \in Truths
  <2> DEFINE marks == Marks(in, m, g, pairs)
             truths == {y.truth : y \in marks}
             argued == {y.status : y \in marks} \ {"NONE"}
             all == IF "FALSE" \in truths THEN "FALSE"
                    ELSE IF "UNKNOWN" \in truths THEN "UNKNOWN" ELSE "TRUE"
             truth == IF "CONFLICT" \in truths THEN "CONFLICT"
                      ELSE IF g.mode = "REQUIRE_MATCH" THEN all
                      ELSE CASE all = "FALSE" -> "TRUE" [] all = "TRUE" -> "FALSE" [] OTHER -> all
  <2>1. x = gate_result(g, marks) /\ \A y \in marks : MarkTyped(y)
    BY <1>4, MarksTyped
  <2>2. g.blocked \in Blocking
    BY DEF FrozenRules, Blocking
  <2> HIDE DEF marks
  <2>3. argued \subseteq Blocking
    BY <2>1 DEF MarkTyped, Argued, Blocking
  <2>4. x.reasons = argued \cup (IF truth = "FALSE" THEN {g.blocked} ELSE {}) /\ x.truth = truth
    BY <2>1 DEF gate_result
  <2> HIDE DEF argued
  <2>5. truth \in Truths
    <3> HIDE DEF truths
    <3> QED BY DEF Truths
  <2> HIDE DEF truth
  <2> QED BY <2>2, <2>3, <2>4, <2>5
<1>5. \/ x = availability_gate(m) \/ x \in dependency_gates(m) \/ x = authority_gate(m)
      \/ \E g \in in.gates : x = evaluate_gate(in, m, g, pairs)
  BY DEF evaluate_gates
<1> QED BY <1>1, <1>2, <1>3, <1>4, <1>5

(* A plan with the status ELIGIBLE is one nothing speaks against.                    *)
LEMMA EligibleHasNoReason ==
    ASSUME NEW gates, \A x \in gates : x.reasons \subseteq Blocking, primary_status(gates) = "ELIGIBLE"
    PROVE  \A x \in gates : x.reasons = {}
<1> DEFINE reasons == UNION {g.reasons : g \in gates}
           ranks == {i \in 1..Len(StatusPrecedence) : StatusPrecedence[i] \in reasons}
           k == CHOOSE i \in ranks : \A j \in ranks : i <= j
<1>1. primary_status(gates) = IF reasons = {} THEN "ELIGIBLE" ELSE StatusPrecedence[k]
  BY DEF primary_status
<1>2. reasons \subseteq Blocking
  OBVIOUS
<1>3. Len(StatusPrecedence) \in Nat
  BY DEF StatusPrecedence
<1>4. \A b \in Blocking : \E i \in 1..Len(StatusPrecedence) : StatusPrecedence[i] = b
  <2>1. Len(StatusPrecedence) = 11
    BY DEF StatusPrecedence
  <2>2. /\ StatusPrecedence[1] = "UNAVAILABLE" /\ StatusPrecedence[2] = "CONFLICTING_EVIDENCE"
        /\ StatusPrecedence[3] = "STALE_EVIDENCE" /\ StatusPrecedence[4] = "INSUFFICIENT_EVIDENCE"
        /\ StatusPrecedence[5] = "SIRA_INELIGIBLE" /\ StatusPrecedence[6] = "SEIL_PASS"
        /\ StatusPrecedence[8] = "ADVISORY_ONLY" /\ StatusPrecedence[9] = "CONDITIONAL"
    BY DEF StatusPrecedence
  <2> QED BY <2>1, <2>2 DEF Blocking
<1> HIDE DEF reasons
<1>5. ASSUME reasons # {} PROVE StatusPrecedence[k] \in Blocking
  <2>1. ranks # {} /\ ranks \in SUBSET (1..Len(StatusPrecedence))
    BY <1>2, <1>4, <1>5
  <2>2. \A i \in ranks : StatusPrecedence[i] \in Blocking
    BY <1>2
  <2> HIDE DEF ranks
  <2>3. \E i \in ranks : \A j \in ranks : i <= j
    BY <1>3, <2>1, LeastPosition
  <2>4. k \in ranks
    BY <2>3
  <2> QED BY <2>2, <2>4
<1>6. "ELIGIBLE" \notin Blocking
  BY DEF Blocking
<1> HIDE DEF k, ranks
<1>7. reasons = {}
  BY <1>1, <1>5, <1>6
<1> QED BY <1>7 DEF reasons

\* A plan of the evaluation and the plan it was built as.
Kept(a, p) ==
    /\ a.source = p.source /\ a.action = p.action /\ a.components = p.components /\ a.kind = p.kind
    /\ a.ids = p.ids /\ a.exception = p.exception /\ a.status = p.status /\ a.gates = p.gates
    /\ a.dimensions = p.dimensions /\ a.bounds = p.bounds /\ a.cost = p.cost /\ a.lifecycle = p.lifecycle

\* A plan has the fields its dataclass declares.
PlanWhole(p) ==
    {"source", "action", "components", "kind", "ids", "exception", "status", "gates", "dimensions", "bounds",
     "cost", "lifecycle", "ordering"} \subseteq DOMAIN p

(* A plan starts with the defaults of its dataclass.                                *)
LEMMA PlanIsWhole ==
    ASSUME NEW m, NEW gates, NEW status, NEW d
    PROVE  PlanWhole(Plan(m, gates, status, d))
  BY DEF PlanWhole, Plan

(* The plans of an evaluation are the plans that were built.                        *)
LEMMA PlansKept ==
    ASSUME NEW Q, \A p \in Q : PlanWhole(p), NEW e, e = rank_and_frontiers(Q)
    PROVE  \A a \in e.plans : \E p \in Q : Kept(a, p) /\ a.ordering = (a.ids \in e.frontier)
<1> DEFINE ranked == RankedPlans(Q)
           s == ranked[1]
           eligible == {p \in Q : p.status \in Eligible}
           C == Competitors(eligible, s)
           verdict == IF ranked = <<>>
                      THEN [status |-> "UNDETERMINED", frontier |-> {},
                            unavailable |-> {p \in eligible : p.bounds = {}}]
                      ELSE assess_rank_stability(Bounded(s), C)
           selected == IF ranked = <<>> THEN {} ELSE {s.ids}
           ordering == selected \cup {p.ids : p \in verdict.frontier}
           resolution == IF ranked = <<>> THEN {} ELSE ResolutionFrontier(Q, s)
           reason(p) == quote_reason(p, selected, ordering, resolution, ranked)
           Ann(p) == [p EXCEPT !.ordering = p.ids \in ordering, !.pending = p.ids \in resolution,
                          !.quote = (reason(p) # "NONE" /\ p.action \in QuoteActions),
                          !.quoteReason = reason(p),
                          !.autonomous = (/\ p.lifecycle = "EXECUTABLE" /\ verdict.status = "STABLE"
                                          /\ ~p.cost.payment /\ p.action \in AutonomousActions)]
<1>1. e.plans = {Ann(p) : p \in Q} /\ e.frontier = ordering
  BY DEF rank_and_frontiers
<1>2. \A p \in Q : Kept(Ann(p), p) /\ Ann(p).ordering = (p.ids \in ordering)
  <2> SUFFICES ASSUME NEW p \in Q PROVE Kept(Ann(p), p) /\ Ann(p).ordering = (p.ids \in ordering)
    OBVIOUS
  <2> DEFINE a1 == p.ids \in ordering
             a2 == p.ids \in resolution
             a3 == reason(p) # "NONE" /\ p.action \in QuoteActions
             a4 == reason(p)
             a5 == /\ p.lifecycle = "EXECUTABLE" /\ verdict.status = "STABLE"
                   /\ ~p.cost.payment /\ p.action \in AutonomousActions
             x == [p EXCEPT !.ordering = a1, !.pending = a2, !.quote = a3, !.quoteReason = a4, !.autonomous = a5]
  <2>1. Ann(p) = x
    BY Zenon
  <2> HIDE DEF a1, a2, a3, a4, a5, Ann
  <2>0. PlanWhole(p)
    OBVIOUS
  <2>2. Kept(x, p) /\ x.ordering = a1
    <3> HIDE DEF verdict, ordering, resolution, reason, selected, C, eligible, s, ranked
    <3> QED BY <2>0 DEF PlanWhole, Kept
  <2> HIDE DEF x
  <2>3. Kept(Ann(p), p) /\ Ann(p).ordering = a1
    BY <2>1, <2>2
  <2> QED BY <2>3 DEF a1
<1> HIDE DEF Ann, ordering
<1>3. \A p \in Q : Ann(p).ids = p.ids
  BY <1>2 DEF Kept
<1> QED BY <1>1, <1>2, <1>3

\* The material a plan of the evaluation was built of, and its gates.
PairsOf(in) == EvidencePairs(in, recall_and_deduplicate(in))
BuiltOf(in, m, p) ==
    /\ p.source = m.source /\ p.action = m.action /\ p.components = m.components /\ p.cost = m.cost
    /\ p.kind = (IF m.authority = "CURRENT" THEN "CURRENT_INSTANCE" ELSE "PACK")
    /\ p.gates = evaluate_gates(in, m, PairsOf(in)) /\ p.status = primary_status(p.gates)
    /\ p.dimensions = material_dimensions(in, m, p.gates, PairsOf(in))
    /\ p.ids = <<ActionRank(m.action)>> \o m.components
    /\ p.lifecycle \in {"RESOLUTION_PENDING", "EXECUTABLE", "BLOCKED"}

(* Every plan of an evaluation was built from one of the materials, and its         *)
(* ordering flag says whether it is on the frontier.                                *)
LEMMA PlansBuilt ==
    ASSUME NEW in, NEW e, e = rank_and_frontiers(build_solution_plans(in))
    PROVE  \A a \in e.plans : /\ a.ordering = (a.ids \in e.frontier)
                              /\ \E m \in materials(in, recall_and_deduplicate(in)) : BuiltOf(in, m, a)
<1> DEFINE Q == build_solution_plans(in)
           M == materials(in, recall_and_deduplicate(in))
           pairs == PairsOf(in)
<1>1. Q = {build_solution_plan(in, m, pairs) : m \in M}
  BY DEF build_solution_plans, PairsOf
<1>2. \A m \in M : PlanWhole(build_solution_plan(in, m, pairs))
  BY PlanIsWhole DEF build_solution_plan, Gated
<1> HIDE DEF M, pairs, Q
<1>3. \A p \in Q : PlanWhole(p)
  BY <1>1, <1>2
<1>4. \A a \in e.plans : \E p \in Q : Kept(a, p) /\ a.ordering = (a.ids \in e.frontier)
  BY <1>3, PlansKept DEF Q
<1>5. ASSUME NEW m \in M, NEW a, Kept(a, build_solution_plan(in, m, pairs)) PROVE BuiltOf(in, m, a)
  <2> DEFINE gates == evaluate_gates(in, m, pairs)
             status == primary_status(gates)
             d == material_dimensions(in, m, gates, pairs)
             p == Plan(m, gates, status, d)
  <2>1. Kept(a, p)
    BY <1>5 DEF build_solution_plan, Gated
  <2> HIDE DEF gates, status, d
  <2>2. /\ p.source = m.source /\ p.action = m.action /\ p.components = m.components /\ p.cost = m.cost
        /\ p.kind = (IF m.authority = "CURRENT" THEN "CURRENT_INSTANCE" ELSE "PACK")
        /\ p.gates = gates /\ p.status = status /\ p.dimensions = d
        /\ p.ids = <<ActionRank(m.action)>> \o m.components
        /\ p.lifecycle \in {"RESOLUTION_PENDING", "EXECUTABLE", "BLOCKED"}
    BY DEF Plan
  <2> HIDE DEF p
  <2>3. /\ a.source = m.source /\ a.action = m.action /\ a.components = m.components /\ a.cost = m.cost
        /\ a.kind = (IF m.authority = "CURRENT" THEN "CURRENT_INSTANCE" ELSE "PACK")
        /\ a.gates = gates /\ a.status = status /\ a.dimensions = d
        /\ a.ids = <<ActionRank(m.action)>> \o m.components
        /\ a.lifecycle \in {"RESOLUTION_PENDING", "EXECUTABLE", "BLOCKED"}
    BY <2>1, <2>2 DEF Kept
  <2> QED BY <2>3 DEF BuiltOf, gates, status, d, pairs
<1> QED BY <1>1, <1>4, <1>5 DEF M

(* Identities and the records behind them.                                          *)

\* The recalled records of one identity.
Group(in, key) == {r \in recalled(in) : identity_key(in, r) = key}

(* A representative speaks for all the records of its identity.                     *)
LEMMA RepOf ==
    ASSUME NEW in, NEW rep \in recall_and_deduplicate(in)
    PROVE  LET group == Group(in, rep.key)
           IN  /\ group # {} /\ rep.product = rep.key[1]
               /\ rep = representative(in, rep.key)
               /\ rep.facts = merge_facts(group, rep.product)
               /\ rep.requires = UNION {r.requires : r \in group}
               /\ rep.sellerGates = UNION {r.sellerGates : r \in group}
               /\ rep.available = (\A r \in group : r.available)
               /\ rep.authority = authority_floor(group)
               /\ rep.group = {r.id : r \in group}
<1>1. PICK r \in recalled(in) : rep = representative(in, identity_key(in, r))
  BY DEF recall_and_deduplicate
<1> DEFINE key == identity_key(in, r)
           group == Group(in, key)
<1>2. r \in group
  BY DEF Group
<1> HIDE DEF key
<1>3. /\ rep.key = key /\ rep.product = key[1]
      /\ rep.facts = merge_facts(group, key[1])
      /\ rep.requires = UNION {s.requires : s \in group}
      /\ rep.sellerGates = UNION {s.sellerGates : s \in group}
      /\ rep.available = (\A s \in group : s.available)
      /\ rep.authority = authority_floor(group)
      /\ rep.group = {s.id : s \in group}
  BY <1>1 DEF representative, Group, key
<1> QED BY <1>1, <1>2, <1>3 DEF key

(* Every recalled record is represented: its representative has its key and its     *)
(* product.                                                                         *)
LEMMA RecordHasRep ==
    ASSUME NEW in, NEW r \in recalled(in)
    PROVE  LET rep == representative(in, identity_key(in, r))
           IN  /\ rep \in recall_and_deduplicate(in) /\ rep.key = identity_key(in, r)
               /\ rep.product = canonical(in, r.product) /\ r \in Group(in, rep.key)
<1> DEFINE key == identity_key(in, r)
           rep == representative(in, key)
<1>1. rep \in recall_and_deduplicate(in)
  BY DEF recall_and_deduplicate
<1>2. rep.key = key /\ rep.product = key[1]
  BY DEF representative
<1>3. key[1] = canonical(in, r.product)
  BY DEF identity_key
<1> HIDE DEF rep
<1>4. r \in Group(in, key)
  BY DEF Group
<1> HIDE DEF key
<1> QED BY <1>1, <1>2, <1>3, <1>4 DEF rep, key

(* The authority of a set of records is the weakest of theirs.                      *)
LEMMA FloorIsWeakest ==
    ASSUME NEW records, IsFiniteSet(records), records # {},
           \A r \in records : r.authority \in DOMAIN AuthorityRank
    PROVE  /\ authority_floor(records) \in DOMAIN AuthorityRank
           /\ authority_floor(records) = "SELLER_SEALED" => \A r \in records : r.authority = "SELLER_SEALED"
<1> DEFINE rank == [r \in records |-> AuthorityRank[r.authority]]
           S == {rank[r] : r \in records}
           worst == CHOOSE r \in records : \A s \in records : AuthorityRank[s.authority] <= AuthorityRank[r.authority]
<1>1. \A r \in records : /\ rank[r] \in Int /\ rank[r] >= 0 /\ rank[r] = AuthorityRank[r.authority]
                         /\ rank[r] = 0 <=> r.authority = "SELLER_SEALED"
  BY DEF AuthorityRank
<1>2. authority_floor(records) = worst.authority
  BY DEF authority_floor
<1>3. \E r \in records : \A s \in records : AuthorityRank[s.authority] <= AuthorityRank[r.authority]
  <2> HIDE DEF rank
  <2>1. IsFiniteSet(S)
    BY ImageFinite
  <2>2. S # {} /\ S \subseteq Int
    BY <1>1
  <2> HIDE DEF S
  <2>3. PICK v \in S : \A w \in S : v >= w
    BY <2>1, <2>2, GreatestExists
  <2>4. PICK r \in records : v = rank[r]
    BY <2>3 DEF S
  <2>5. \A s \in records : rank[s] <= rank[r]
    <3> SUFFICES ASSUME NEW s \in records PROVE rank[s] <= rank[r]
      OBVIOUS
    <3>1. rank[s] \in S
      BY DEF S
    <3>2. rank[r] >= rank[s] /\ rank[r] \in Int /\ rank[s] \in Int
      BY <1>1, <2>3, <2>4, <3>1
    <3> QED BY <3>2
  <2> QED BY <1>1, <2>5
<1>4. worst \in records /\ \A s \in records : AuthorityRank[s.authority] <= AuthorityRank[worst.authority]
  BY <1>3
<1> HIDE DEF worst
<1>5. ASSUME worst.authority = "SELLER_SEALED", NEW s \in records PROVE s.authority = "SELLER_SEALED"
  <2>1. rank[worst] = 0 /\ rank[s] <= rank[worst] /\ rank[s] \in Int /\ rank[s] >= 0
    BY <1>1, <1>4, <1>5
  <2>2. rank[s] = 0
    <3> HIDE DEF rank
    <3> QED BY <2>1
  <2> QED BY <1>1, <2>2
<1> QED BY <1>2, <1>4, <1>5

(* What can be reached in a dependency graph is unambiguous.                        *)
LEMMA ReachedOnce ==
    ASSUME NEW reps, NEW root \in reps
    PROVE  LET next == Resolvables(reps, root)
           IN  /\ DOMAIN next = Products(reps) /\ root.product \in DOMAIN next
               /\ \A n \in DOMAIN next : next[n] \subseteq DOMAIN next
               /\ \A n \in Follows(next, root.product) : Cardinality(ByProduct(reps, n)) = 1
<1> DEFINE next == Resolvables(reps, root)
           C == {k \in Products(reps) : Cardinality(ByProduct(reps, k)) = 1}
<1>1. DOMAIN next = Products(reps) /\ root.product \in DOMAIN next
  BY DEF Resolvables, Products
<1>2. \A n \in DOMAIN next : next[n] \subseteq C
  <2> SUFFICES ASSUME NEW n \in Products(reps), NEW k \in RequiredBy(reps, root)[n],
                      Cardinality(ByProduct(reps, k)) = 1
               PROVE  k \in Products(reps)
    BY <1>1 DEF Resolvables
  <2>1. ByProduct(reps, k) # {}
    BY FS_EmptySet
  <2> QED BY <2>1 DEF ByProduct, Products
<1> HIDE DEF next
<1>3. C \in SUBSET DOMAIN next
  BY <1>1
<1>4. Follows(next, root.product) \subseteq C
  <2> HIDE DEF C
  <2> QED BY <1>1, <1>2, <1>3, FollowsInside
<1> QED BY <1>1, <1>2, <1>3, <1>4 DEF next

(* The components of a plan without a dependency issue, and their records.          *)
LEMMA ComponentRecords ==
    ASSUME NEW in, FrozenRecords(in), NEW root \in recall_and_deduplicate(in),
           "MISSING_REQUIRED_COMPONENT" \notin closure(recall_and_deduplicate(in), root).issues,
           "AMBIGUOUS_REQUIRED_COMPONENT" \notin closure(recall_and_deduplicate(in), root).issues,
           NEW n \in Range(closure(recall_and_deduplicate(in), root).order)
    PROVE  LET reps == recall_and_deduplicate(in)
               rep == RecordAt(reps, root, n)
           IN  /\ rep \in reps /\ rep.product = n /\ n \in Nat
               /\ rep.requires \subseteq Range(closure(reps, root).order)
               /\ Group(in, rep.key) = {r \in recalled(in) : IF n = root.product THEN identity_key(in, r) = root.key
                                                             ELSE canonical(in, r.product) = n}
<1> DEFINE reps == recall_and_deduplicate(in)
           rep == RecordAt(reps, root, n)
           walked == closure(reps, root)
           next == Resolvables(reps, root)
           req == RequiredBy(reps, root)
           inside == {root.product} \cup Follows(next, root.product)
           names == Range(walked.order)
           required == UNION {req[k] : k \in inside}
<1>1. IsFiniteSet(reps) /\ (\A r \in reps : RepTyped(r)) /\ root \in reps
  BY RepsShape
<1>a. n \in names /\ "MISSING_REQUIRED_COMPONENT" \notin walked.issues /\ "AMBIGUOUS_REQUIRED_COMPONENT" \notin walked.issues
  OBVIOUS
<1>b. ASSUME NEW r \in recalled(in)
      PROVE  /\ representative(in, identity_key(in, r)) \in reps
             /\ representative(in, identity_key(in, r)).key = identity_key(in, r)
             /\ representative(in, identity_key(in, r)).product = canonical(in, r.product)
  BY RecordHasRep
<1>c. \A x \in reps : x = representative(in, x.key) /\ x.product = x.key[1]
  BY RepOf
<1> HIDE DEF reps
<1>2. /\ ClosureOf(reps, root, walked) /\ walked.order \in Seq(Nat)
      /\ \A k \in names : /\ RecordAt(reps, root, k) \in reps /\ RecordAt(reps, root, k).product = k
                          /\ RecordAt(reps, root, k).requires = req[k]
  <2> HIDE DEF req
  <2> QED BY <1>1, ClosureShape DEF req
<1> HIDE DEF walked
<1>3. /\ names = inside
      /\ \A k \in required : ByProduct(reps, k) # {} /\ ~(Cardinality(ByProduct(reps, k)) > 1)
  BY <1>2, <1>a DEF ClosureOf
<1>4. /\ DOMAIN next = Products(reps) /\ root.product \in DOMAIN next
      /\ \A k \in DOMAIN next : next[k] \subseteq DOMAIN next
      /\ \A k \in Follows(next, root.product) : Cardinality(ByProduct(reps, k)) = 1
  <2> HIDE DEF next
  <2> QED BY <1>1, ReachedOnce DEF next
<1>5. \A k : IsFiniteSet(ByProduct(reps, k)) /\ ByProduct(reps, k) \subseteq reps
  <2>1. \A k : ByProduct(reps, k) \in SUBSET reps
    BY DEF ByProduct
  <2> QED BY <1>1, <2>1, FS_Subset
<1>6. \A k : ByProduct(reps, k) # {} /\ ~(Cardinality(ByProduct(reps, k)) > 1) => Cardinality(ByProduct(reps, k)) = 1
  <2> SUFFICES ASSUME NEW k, ByProduct(reps, k) # {}, ~(Cardinality(ByProduct(reps, k)) > 1)
               PROVE  Cardinality(ByProduct(reps, k)) = 1
    OBVIOUS
  <2> DEFINE c == Cardinality(ByProduct(reps, k))
  <2>1. c \in Nat /\ c # 0
    BY <1>5, FS_CardinalityType, FS_EmptySet
  <2>2. ~(c > 1)
    OBVIOUS
  <2> HIDE DEF c
  <2>3. c = 1
    BY <2>1, <2>2
  <2> QED BY <2>3 DEF c
<1>7. req[n] \subseteq names
  <2> SUFFICES ASSUME NEW k \in req[n] PROVE k \in inside
    BY <1>3
  <2>1. n \in inside /\ n \in DOMAIN next
    <3>1. n \in inside
      BY <1>a, <1>3
    <3> QED BY <3>1, <1>4 DEF Follows
  <2>2. k \in required
    BY <2>1
  <2>3. Cardinality(ByProduct(reps, k)) = 1
    <3> HIDE DEF required
    <3> QED BY <1>3, <1>6, <2>2
  <2>4. k \in next[n]
    BY <1>4, <2>1, <2>3 DEF Resolvables
  <2> HIDE DEF next
  <2>5. CASE n = root.product
    BY <1>4, <2>4, <2>5, FollowsNext
  <2>6. CASE n \in Follows(next, root.product)
    BY <1>4, <2>4, <2>6, FollowsOn
  <2> QED BY <2>1, <2>5, <2>6
<1>8. rep \in reps /\ rep.product = n /\ rep.requires = req[n] /\ n \in Nat
  <2> HIDE DEF req, rep
  <2>1. rep \in reps /\ rep.product = n /\ rep.requires = req[n]
    BY <1>2, <1>a DEF rep
  <2> QED BY <1>1, <2>1 DEF RepTyped
<1>9. Group(in, rep.key) = {r \in recalled(in) : IF n = root.product THEN identity_key(in, r) = root.key
                                                 ELSE canonical(in, r.product) = n}
  <2>1. CASE n = root.product
    BY <2>1 DEF RecordAt, Group
  <2>2. CASE n # root.product
    <3>1. Cardinality(ByProduct(reps, n)) = 1
      <4> HIDE DEF next
      <4> QED BY <1>a, <1>3, <1>4, <2>2
    <3>2. PICK x : ByProduct(reps, n) = {x}
      BY <1>5, <3>1, FS_Singleton
    <3> HIDE DEF rep
    <3>3. \A y \in reps : y.product = n => y = rep
      BY <1>8, <3>2 DEF ByProduct
    <3>4. ASSUME NEW r \in recalled(in) PROVE identity_key(in, r) = rep.key <=> canonical(in, r.product) = n
      BY <1>8, <1>b, <1>c, <3>3
    <3> QED BY <2>2, <3>4 DEF Group
  <2> QED BY <2>1, <2>2
<1> HIDE DEF rep, names, req
<1> QED BY <1>7, <1>8, <1>9 DEF rep, names, walked, reps

\* The values and the evidence of a set of facts.
Values(S) == {f.value : f \in S}
Evidence(S) == UNION {f.ev : f \in S}

(* Merging the facts of an identity loses no value and no evidence.                 *)
LEMMA MergeKeeps ==
    ASSUME NEW group, NEW n, NEW field
    PROVE  LET M == {f \in merge_facts(group, n) : f.field = field}
           IN  Values(M) = Values(Said(group, field)) /\ Evidence(M) = Evidence(Said(group, field))
<1> DEFINE facts == UNION {r.facts : r \in group}
           alike(f) == {g \in facts : g.field = f.field /\ g.value = f.value}
           merged(f) == [field |-> f.field, value |-> f.value, component |-> n, ev |-> UNION {g.ev : g \in alike(f)}]
           M == {f \in merge_facts(group, n) : f.field = field}
           S == Said(group, field)
<1>1. merge_facts(group, n) = {merged(f) : f \in facts}
  BY DEF merge_facts
<1>2. S = {f \in facts : f.field = field}
  BY DEF Said
<1>3. \A f : merged(f).field = f.field /\ merged(f).value = f.value /\ merged(f).ev = UNION {g.ev : g \in alike(f)}
  OBVIOUS
<1> HIDE DEF merged
<1>4. M = {merged(f) : f \in S}
  <2> HIDE DEF alike, facts, S
  <2> QED BY <1>1, <1>2, <1>3
<1>5. \A f \in S : f \in alike(f) /\ alike(f) \subseteq S
  BY <1>2
<1> HIDE DEF M, S, alike, facts
<1>6. Values(M) = Values(S)
  BY <1>3, <1>4 DEF Values
<1>7. Evidence(M) \subseteq Evidence(S)
  BY <1>3, <1>4, <1>5 DEF Evidence
<1>8. Evidence(S) \subseteq Evidence(M)
  <2> SUFFICES ASSUME NEW f \in S, NEW e \in f.ev PROVE e \in Evidence(M)
    BY DEF Evidence
  <2>1. merged(f) \in M /\ e \in merged(f).ev
    BY <1>3, <1>4, <1>5
  <2> QED BY <2>1 DEF Evidence
<1> QED BY <1>6, <1>7, <1>8 DEF M, S

\* What the raw records behind a material say of a field of one of its components.
GroupAt(in, root, n) == Group(in, RecordAt(recall_and_deduplicate(in), root, n).key)
Stands(in, root, names, bounds, n, field) ==
    IF field # LandedTotal THEN Said(GroupAt(in, root, n), field)
    ELSE {[value |-> [kind |-> "int", v |-> {b.base}],
           ev |-> Evidence(Said(UNION {GroupAt(in, root, k) : k \in names}, field))] : b \in bounds}

(* The gates see of a component what its raw records say.                           *)
LEMMA GateFactsStand ==
    ASSUME NEW in, FrozenRecords(in), NEW root \in recall_and_deduplicate(in),
           NEW order, order = closure(recall_and_deduplicate(in), root).order,
           NEW n \in Range(order), NEW field
    PROVE  LET m == pack_material(in, recall_and_deduplicate(in), root)
               M == {f \in {f \in m.gateFacts : f.component = n} : f.field = field}
               S == Stands(in, root, Range(order), m.cost.bounds, n, field)
           IN  Values(M) = Values(S) /\ Evidence(M) = Evidence(S)
<1> DEFINE reps == recall_and_deduplicate(in)
           names == Range(order)
           at(k) == RecordAt(reps, root, k)
           records == {IF k = root.product THEN root ELSE Only(ByProduct(reps, k)) : k \in names}
           priced == combined_cost(in, records)
           raw == UNION {r.facts : r \in records}
           costEv == UNION {f.ev : f \in {f \in raw : f.field = LandedTotal}}
           total(k) == {[field |-> LandedTotal, value |-> [kind |-> "int", v |-> {b.base}],
                         ev |-> costEv, component |-> k] : b \in priced.cost.bounds}
           m == pack_material(in, reps, root)
           M == {f \in {f \in m.gateFacts : f.component = n} : f.field = field}
           S == Stands(in, root, names, m.cost.bounds, n, field)
<1>1. /\ m.gateFacts = {f \in raw : f.field # LandedTotal} \cup UNION {total(k) : k \in names}
      /\ m.cost = priced.cost
  BY DEF pack_material
<1>2. records = {at(k) : k \in names}
  BY DEF RecordAt
<1>3. \A k \in names : at(k) \in reps /\ at(k).product = k
  <2>1. IsFiniteSet(reps) /\ \A r \in reps : RepTyped(r)
    BY RepsShape
  <2> HIDE DEF reps
  <2> QED BY <2>1, ClosureShape DEF reps
<1>4. ASSUME NEW k \in names
      PROVE  /\ \A f \in at(k).facts : f.component = k
             /\ at(k).facts = merge_facts(GroupAt(in, root, k), k)
  <2>1. at(k) \in reps /\ at(k).product = k
    BY <1>3
  <2>2. at(k).facts = merge_facts(GroupAt(in, root, k), k)
    <3> HIDE DEF at
    <3>1. at(k).facts = merge_facts(Group(in, at(k).key), at(k).product)
      BY <2>1, RepOf
    <3> QED BY <2>1, <3>1 DEF GroupAt, at
  <2>3. RepTyped(at(k))
    <3> HIDE DEF at
    <3> QED BY <2>1, RepsShape
  <2> HIDE DEF at
  <2> QED BY <2>1, <2>2, <2>3 DEF RepTyped
<1>5. raw = UNION {at(k).facts : k \in names}
  BY <1>2
<1> HIDE DEF records, raw, at, reps, m, priced
<1>6. CASE field # LandedTotal
  <2>1. M = {f \in at(n).facts : f.field = field}
    <3>1. \A f \in M : f \in at(n).facts /\ f.field = field
      <4> SUFFICES ASSUME NEW f \in M PROVE f \in at(n).facts
        OBVIOUS
      <4>1. f.component = n /\ f.field = field /\ f.field # LandedTotal
        BY <1>6
      <4>2. f \in raw
        BY <1>1, <4>1
      <4>3. PICK k \in names : f \in at(k).facts
        BY <1>5, <4>2
      <4> QED BY <1>4, <4>1, <4>3
    <3>2. \A f \in at(n).facts : f.field = field => f \in M
      BY <1>1, <1>4, <1>5, <1>6
    <3> HIDE DEF M
    <3> QED BY <3>1, <3>2
  <2>2. S = Said(GroupAt(in, root, n), field)
    BY <1>6 DEF Stands
  <2> HIDE DEF M, S
  <2>3. M = {f \in merge_facts(GroupAt(in, root, n), n) : f.field = field}
    BY <1>4, <2>1
  <2> QED BY <2>2, <2>3, MergeKeeps DEF M, S, m, reps
<1>7. CASE field = LandedTotal
  <2> DEFINE bounds == priced.cost.bounds
             E == Evidence(Said(UNION {GroupAt(in, root, k) : k \in names}, field))
  <2>1. M = total(n)
    <3>1. \A f \in total(n) : f.component = n /\ f.field = field
      BY <1>7
    <3>2. \A k : \A f \in total(k) : f.component = k
      OBVIOUS
    <3> HIDE DEF total
    <3> QED BY <1>1, <1>7, <3>1, <3>2
  <2>2. S = {[value |-> [kind |-> "int", v |-> {b.base}], ev |-> E] : b \in bounds}
    BY <1>1, <1>7 DEF Stands
  <2>3. costEv = E
    <3> DEFINE Mk(k) == {f \in merge_facts(GroupAt(in, root, k), k) : f.field = field}
               Sk(k) == Said(GroupAt(in, root, k), field)
    <3>1. \A k \in names : Evidence(Mk(k)) = Evidence(Sk(k))
      BY MergeKeeps
    <3>2. costEv = UNION {Evidence(Mk(k)) : k \in names}
      <4>1. \A k \in names : at(k).facts = merge_facts(GroupAt(in, root, k), k)
        BY <1>4
      <4>2. raw = UNION {merge_facts(GroupAt(in, root, k), k) : k \in names}
        BY <1>5, <4>1
      <4> QED BY <1>7, <4>2 DEF Evidence
    <3>3. E = UNION {Evidence(Sk(k)) : k \in names}
      BY DEF Evidence, Said
    <3> HIDE DEF Mk, Sk, E, costEv
    <3> QED BY <3>1, <3>2, <3>3
  <2> HIDE DEF costEv, E, bounds
  <2>4. total(n) = {[field |-> LandedTotal, value |-> [kind |-> "int", v |-> {b.base}],
                     ev |-> E, component |-> n] : b \in bounds}
    BY <2>3 DEF bounds
  <2> DEFINE value(b) == [kind |-> "int", v |-> {b.base}]
             gated(b) == [field |-> LandedTotal, value |-> value(b), ev |-> E, component |-> n]
             stood(b) == [value |-> value(b), ev |-> E]
  <2>a. \A b : gated(b).value = stood(b).value /\ gated(b).ev = stood(b).ev
    <3> HIDE DEF value
    <3> QED OBVIOUS
  <2>b. M = {gated(b) : b \in bounds} /\ S = {stood(b) : b \in bounds}
    BY <2>1, <2>2, <2>4
  <2> HIDE DEF total, M, S, gated, stood, value
  <2>c. Values(M) = {gated(b).value : b \in bounds} /\ Values(S) = {stood(b).value : b \in bounds}
    BY <2>b DEF Values
  <2>d. Evidence(M) = UNION {gated(b).ev : b \in bounds} /\ Evidence(S) = UNION {stood(b).ev : b \in bounds}
    BY <2>b DEF Evidence
  <2>5. Values(M) = Values(S)
    BY <2>a, <2>c
  <2>6. Evidence(M) = Evidence(S)
    BY <2>a, <2>d
  <2> QED BY <2>5, <2>6 DEF M, S, m, reps
<1> QED BY <1>6, <1>7

(* What a Pack plan none of whose gates objects stands on: no component is missing   *)
(* or ambiguous, and every record behind it is available and sealed by its seller.  *)
LEMMA SilentPack ==
    ASSUME NEW in, FrozenRecords(in), decision_graph_input(in), NEW root \in recall_and_deduplicate(in),
           NEW m, m = pack_material(in, recall_and_deduplicate(in), root),
           NEW pairs, \A x \in evaluate_gates(in, m, pairs) : x.reasons = {}
    PROVE  LET walked == closure(recall_and_deduplicate(in), root)
           IN  /\ m.components = walked.order /\ m.source = root.key /\ m.action = "REPLACE"
               /\ "MISSING_REQUIRED_COMPONENT" \notin walked.issues
               /\ "AMBIGUOUS_REQUIRED_COMPONENT" \notin walked.issues
               /\ \A n \in Range(walked.order) : \A r \in GroupAt(in, root, n) :
                     r.available /\ r.authority = "SELLER_SEALED" /\ r.sellerGates \subseteq m.sellerGates
<1> DEFINE reps == recall_and_deduplicate(in)
           walked == closure(reps, root)
           names == Range(walked.order)
           at(n) == RecordAt(reps, root, n)
           records == {IF n = root.product THEN root ELSE Only(ByProduct(reps, n)) : n \in names}
           gates == evaluate_gates(in, m, pairs)
<1>0. \A x \in gates : x.reasons = {}
  OBVIOUS
<1>1. m.available
  <2>1. availability_gate(m) \in gates
    BY DEF evaluate_gates
  <2>2. availability_gate(m).reasons = {}
    BY <2>1
  <2>3. availability_gate(m).reasons = IF m.available THEN {} ELSE {"UNAVAILABLE"}
    BY DEF availability_gate
  <2> HIDE DEF gates
  <2> QED BY <2>2, <2>3
<1>2. m.authority \in {"SELLER_SEALED", "CURRENT"}
  <2> SUFFICES ASSUME m.authority \notin {"SELLER_SEALED", "CURRENT"} PROVE FALSE
    OBVIOUS
  <2>1. authority_gate(m) \in gates
    BY DEF evaluate_gates
  <2>2. authority_gate(m).reasons = {"ADVISORY_ONLY"}
    BY DEF authority_gate
  <2> HIDE DEF gates
  <2> QED BY <1>0, <2>1, <2>2
<1>3. \A i \in 1..Len(DependencyIssues) : DependencyIssues[i] \notin m.issues
  <2> SUFFICES ASSUME NEW i \in 1..Len(DependencyIssues), DependencyIssues[i] \in m.issues PROVE FALSE
    OBVIOUS
  <2> DEFINE x == [id |-> <<"dependency", i>>, truth |-> "FALSE", resolution |-> {}, hard |-> TRUE,
                   reasons |-> {"SIRA_INELIGIBLE"}]
  <2>1. x \in dependency_gates(m)
    BY DEF dependency_gates
  <2>2. x \in gates /\ x.reasons # {}
    BY <2>1 DEF evaluate_gates
  <2> HIDE DEF x, gates
  <2> QED BY <1>0, <2>2
<1>4. "MISSING_REQUIRED_COMPONENT" \notin m.issues /\ "AMBIGUOUS_REQUIRED_COMPONENT" \notin m.issues
  <2>1. Len(DependencyIssues) = 5 /\ DependencyIssues[1] = "AMBIGUOUS_REQUIRED_COMPONENT"
        /\ DependencyIssues[4] = "MISSING_REQUIRED_COMPONENT"
    BY DEF DependencyIssues
  <2> QED BY <1>3, <2>1
<1>5. /\ m.components = walked.order /\ m.source = root.key /\ m.action = "REPLACE"
      /\ m.available = (\A r \in records : r.available)
      /\ m.authority = authority_floor(records)
      /\ m.sellerGates = UNION {r.sellerGates : r \in records}
      /\ walked.issues \subseteq m.issues
  BY DEF pack_material
<1>6. records = {at(n) : n \in names}
  BY DEF RecordAt
<1>7. IsFiniteSet(reps) /\ (\A r \in reps : RepTyped(r)) /\ root \in reps
  BY RepsShape
<1>8. /\ \A n \in names : at(n) \in reps /\ at(n).product = n
      /\ names # {}
  <2> HIDE DEF reps
  <2>1. \A n \in names : at(n) \in reps /\ at(n).product = n
    BY <1>7, ClosureShape
  <2>2. walked.order \in Seq(Nat) /\ walked.order # <<>>
    BY <1>7, ClosureShape
  <2> DEFINE s == walked.order
  <2> HIDE DEF walked
  <2>3. 1 \in DOMAIN s
    BY <2>2
  <2> QED BY <2>1, <2>3 DEF Range
<1>9. ASSUME NEW n \in names
      PROVE  LET group == GroupAt(in, root, n)
             IN  /\ IsFiniteSet(group) /\ group # {} /\ \A r \in group : r.authority \in DOMAIN AuthorityRank
                 /\ at(n).available = (\A r \in group : r.available)
                 /\ at(n).authority = authority_floor(group)
                 /\ at(n).sellerGates = UNION {r.sellerGates : r \in group}
  <2> DEFINE group == GroupAt(in, root, n)
  <2>1. at(n) \in reps
    BY <1>8
  <2>2. /\ group # {} /\ at(n).available = (\A r \in group : r.available)
        /\ at(n).authority = authority_floor(group)
        /\ at(n).sellerGates = UNION {r.sellerGates : r \in group}
    <3> DEFINE rep == at(n)
    <3>1. rep \in reps
      BY <2>1
    <3> HIDE DEF rep
    <3>2. /\ Group(in, rep.key) # {} /\ rep.available = (\A r \in Group(in, rep.key) : r.available)
          /\ rep.authority = authority_floor(Group(in, rep.key))
          /\ rep.sellerGates = UNION {r.sellerGates : r \in Group(in, rep.key)}
      BY <3>1, RepOf
    <3> QED BY <3>2 DEF rep, GroupAt
  <2>3. group \subseteq recalled(in) /\ IsFiniteSet(recalled(in)) /\ recalled(in) \subseteq in.candidates
    BY RecalledFinite DEF GroupAt, Group
  <2>4. \A r \in in.candidates : r.authority \in DOMAIN AuthorityRank
    BY DEF decision_graph_input, raw_candidate_record
  <2> HIDE DEF group, at
  <2>5. IsFiniteSet(group)
    BY <2>3, FS_Subset
  <2> QED BY <2>2, <2>3, <2>4, <2>5 DEF group
<1> HIDE DEF reps, walked, names, at, records, gates
<1>10. IsFiniteSet(records) /\ records # {}
  <2>1. records \subseteq reps /\ records # {}
    BY <1>6, <1>8
  <2> QED BY <1>7, <2>1, FS_Subset
<1>11. \A n \in names : at(n).authority \in DOMAIN AuthorityRank
  BY <1>9, FloorIsWeakest
<1>12. \A r \in records : r.authority \in DOMAIN AuthorityRank
  BY <1>6, <1>11
<1>13. /\ m.authority \in DOMAIN AuthorityRank
       /\ m.authority = "SELLER_SEALED" => \A r \in records : r.authority = "SELLER_SEALED"
  BY <1>5, <1>10, <1>12, FloorIsWeakest
<1>14. m.authority = "SELLER_SEALED"
  BY <1>2, <1>13 DEF AuthorityRank
<1>15. ASSUME NEW n \in names, NEW r \in GroupAt(in, root, n)
       PROVE  r.available /\ r.authority = "SELLER_SEALED" /\ r.sellerGates \subseteq m.sellerGates
  <2>1. at(n) \in records
    BY <1>6
  <2>2. at(n).available /\ at(n).authority = "SELLER_SEALED" /\ at(n).sellerGates \subseteq m.sellerGates
    BY <1>1, <1>5, <1>13, <1>14, <2>1
  <2>3. r.available
    BY <1>9, <2>2
  <2>4. r.sellerGates \subseteq m.sellerGates
    <3>1. at(n).sellerGates = UNION {x.sellerGates : x \in GroupAt(in, root, n)}
      BY <1>9
    <3>2. r.sellerGates \subseteq at(n).sellerGates
      BY <3>1
    <3> QED BY <2>2, <3>2
  <2>5. r.authority = "SELLER_SEALED"
    BY <1>9, <2>2, FloorIsWeakest
  <2> QED BY <2>3, <2>4, <2>5
<1> QED BY <1>4, <1>5, <1>15 DEF walked, names, reps

\* The raw records behind component n of a plan of these components and source.
Sources(in, components, source, n) ==
    {r \in recalled(in) : IF n = Last(components) THEN identity_key(in, r) = source
                          ELSE canonical(in, r.product) = n}

(* The records behind the components of a plan whose closure is whole, and what     *)
(* they require of it.                                                             *)
LEMMA PlanRecords ==
    ASSUME NEW in, FrozenRecords(in), NEW root \in recall_and_deduplicate(in),
           NEW order, order = closure(recall_and_deduplicate(in), root).order,
           "MISSING_REQUIRED_COMPONENT" \notin closure(recall_and_deduplicate(in), root).issues,
           "AMBIGUOUS_REQUIRED_COMPONENT" \notin closure(recall_and_deduplicate(in), root).issues
    PROVE  /\ \A n \in Range(order) : /\ GroupAt(in, root, n) = Sources(in, order, root.key, n)
                                      /\ \A r \in GroupAt(in, root, n) : r.requires \subseteq Range(order)
                                      /\ IsFiniteSet(GroupAt(in, root, n))
           /\ order \in Seq(Nat) /\ order # <<>>
<1> DEFINE reps == recall_and_deduplicate(in)
<1>1. /\ Last(order) = root.product /\ order \in Seq(Nat) /\ order # <<>>
  <2>1. IsFiniteSet(reps) /\ (\A r \in reps : RepTyped(r)) /\ root \in reps
    BY RepsShape
  <2> HIDE DEF reps
  <2> QED BY <2>1, ClosureShape DEF reps
<1>2. ASSUME NEW n \in Range(order)
      PROVE  /\ GroupAt(in, root, n) = Sources(in, order, root.key, n)
             /\ \A r \in GroupAt(in, root, n) : r.requires \subseteq Range(order)
             /\ IsFiniteSet(GroupAt(in, root, n))
  <2> DEFINE rep == RecordAt(reps, root, n)
  <2>1. /\ rep \in reps /\ rep.requires \subseteq Range(order)
        /\ Group(in, rep.key) = {r \in recalled(in) : IF n = root.product THEN identity_key(in, r) = root.key
                                                      ELSE canonical(in, r.product) = n}
    BY ComponentRecords
  <2>2. GroupAt(in, root, n) = Group(in, rep.key)
    BY DEF GroupAt
  <2> HIDE DEF rep
  <2>3. rep.requires = UNION {r.requires : r \in Group(in, rep.key)}
    BY <2>1, RepOf
  <2>4. \A r \in Group(in, rep.key) : r.requires \subseteq Range(order)
    BY <2>1, <2>3
  <2>5. GroupAt(in, root, n) = Sources(in, order, root.key, n)
    BY <1>1, <2>1, <2>2 DEF Sources
  <2>6. Group(in, rep.key) \subseteq recalled(in) /\ IsFiniteSet(recalled(in))
    BY RecalledFinite DEF Group
  <2>7. IsFiniteSet(Group(in, rep.key))
    BY <2>6, FS_Subset
  <2> QED BY <2>2, <2>4, <2>5, <2>7
<1> QED BY <1>1, <1>2

(* What the gates see of a component is a finite set of values.                     *)
LEMMA StandsFinite ==
    ASSUME NEW in, FrozenRecords(in), NEW root, NEW names, NEW bounds, IsFiniteSet(bounds), NEW n,
           IsFiniteSet(GroupAt(in, root, n)), NEW field
    PROVE  IsFiniteSet(Values(Stands(in, root, names, bounds, n, field)))
<1> DEFINE S == Stands(in, root, names, bounds, n, field)
           group == GroupAt(in, root, n)
           facts == UNION {r.facts : r \in group}
<1>1. CASE field # LandedTotal
  <2>1. S = {f \in facts : f.field = field}
    BY <1>1 DEF Stands, Said
  <2>2. \A r \in group : IsFiniteSet(r.facts)
    <3>1. group \subseteq in.candidates
      BY RecalledFinite DEF GroupAt, Group
    <3> QED BY <3>1 DEF FrozenRecords, FiniteFacts
  <2>3. IsFiniteSet(facts)
    <3> DEFINE g == [r \in group |-> r.facts]
    <3>1. facts = UNION {g[r] : r \in group} /\ \A r \in group : IsFiniteSet(g[r])
      BY <2>2
    <3> HIDE DEF g, facts, group
    <3>2. IsFiniteSet(group)
      BY DEF group
    <3> QED BY <3>1, <3>2, UnionFinite
  <2> HIDE DEF facts, S
  <2>4. IsFiniteSet(S)
    <3>1. S \subseteq facts
      BY <2>1
    <3> QED BY <2>3, <3>1, FS_Subset
  <2> DEFINE v == [f \in S |-> f.value]
  <2>5. {v[f] : f \in S} = Values(S)
    BY DEF Values
  <2> HIDE DEF v
  <2>6. IsFiniteSet({v[f] : f \in S})
    BY <2>4, ImageFinite
  <2>7. IsFiniteSet(Values(S))
    BY <2>5, <2>6, Zenon
  <2> QED BY <2>7 DEF S
<1>2. CASE field = LandedTotal
  <2> DEFINE value(b) == [kind |-> "int", v |-> {b.base}]
             ev == Evidence(Said(UNION {GroupAt(in, root, k) : k \in names}, field))
             made(b) == [value |-> value(b), ev |-> ev]
             v == [b \in bounds |-> value(b)]
  <2>1. S = {made(b) : b \in bounds} /\ \A b : made(b).value = value(b)
    BY <1>2 DEF Stands
  <2>2. \A b \in bounds : v[b] = value(b)
    OBVIOUS
  <2> HIDE DEF value, made, ev, S
  <2>3. Values(S) = {value(b) : b \in bounds}
    BY <2>1 DEF Values
  <2>4. {v[b] : b \in bounds} = {value(b) : b \in bounds}
    OBVIOUS
  <2> HIDE DEF v
  <2>5. IsFiniteSet({v[b] : b \in bounds})
    BY ImageFinite
  <2>6. IsFiniteSet(Values(S))
    BY <2>3, <2>4, <2>5, Zenon
  <2> QED BY <2>6 DEF S
<1> QED BY <1>1, <1>2

(* A field the gates can judge is proven by the records behind it.                  *)
LEMMA ClearIsProven ==
    ASSUME UniqueIds(input.evidence), NEW F, NEW S, NEW field,
           Values({f \in F : f.field = field}) = Values(S),
           Evidence({f \in F : f.field = field}) = Evidence(S),
           IsFiniteSet(Values(S)), Clear(field_state(input, F, field))
    PROVE  Proven(S, field) /\ field_state(input, F, field).values = Values(S)
<1> DEFINE s == field_state(input, F, field)
           matching == {f \in F : f.field = field}
           found == {assessment(input, e, field) : e \in Evidence(S)}
           states == {a.state : a \in found}
<1>1. /\ s.values = Values(matching)
      /\ s.state = IF Cardinality(Values(matching)) > 1 THEN "CONFLICT"
                   ELSE StrongestState({a.state : a \in {assessment(input, e, field) : e \in Evidence(matching)}})
  BY DEF field_state, Values, Evidence
<1>2. /\ s.values = Values(S)
      /\ s.state = IF Cardinality(Values(S)) > 1 THEN "CONFLICT" ELSE StrongestState(states)
  BY <1>1
<1>3. s.state = "ACCEPTABLE" /\ s.values # {}
  BY DEF Clear
<1> HIDE DEF s, matching
<1>4. Cardinality(Values(S)) = 1
  <2> DEFINE c == Cardinality(Values(S))
  <2>1. c \in Nat /\ c # 0
    BY <1>2, <1>3, FS_CardinalityType, FS_EmptySet
  <2>2. ~(c > 1)
    BY <1>2, <1>3
  <2> HIDE DEF c
  <2>3. c = 1
    BY <2>1, <2>2
  <2> QED BY <2>3 DEF c
<1>5. "CONFLICT" \notin states /\ "ACCEPTABLE" \in states
  <2>1. StrongestState(states) = "ACCEPTABLE"
    BY <1>2, <1>3
  <2> HIDE DEF states
  <2> QED BY <2>1 DEF StrongestState
<1>6. \E e \in Evidence(S) : Acceptable(e, field)
  BY <1>5 DEF Acceptable
<1>7. \A e \in Evidence(S) : ~Contested(e)
  <2> SUFFICES ASSUME NEW e \in Evidence(S), NEW r \in input.evidence, r.id = e, r.disputed \/ r.revoked
               PROVE  FALSE
    BY DEF Contested
  <2> DEFINE records == {x \in input.evidence : x.id = e}
  <2>1. records = {r}
    BY DEF UniqueIds
  <2>2. Only(records) = r
    BY <2>1 DEF Only
  <2>3. assessment(input, e, field).state = "CONFLICT"
    <3>1. assessment(input, e, field).state =
            IF records = {} THEN "UNKNOWN"
            ELSE IF Only(records).disputed \/ Only(records).revoked THEN "CONFLICT"
            ELSE assessment(input, e, field).state
      BY DEF assessment
    <3> HIDE DEF records
    <3> QED BY <2>1, <2>2, <3>1
  <2> QED BY <1>5, <2>3
<1>8. Proven(S, field)
  BY <1>4, <1>6, <1>7 DEF Proven, Values, Evidence
<1> QED BY <1>2, <1>8 DEF s

\* The state of a field in every component of a material.
StatesByComponent(in, m, field) ==
    {field_state(in, {f \in m.gateFacts : f.component = n}, field) : n \in Range(m.components)}

(* The gates look at every component of a Pack plan, and at its components only.     *)
LEMMA ComponentStates ==
    ASSUME NEW in, FrozenRecords(in), NEW root \in recall_and_deduplicate(in),
           NEW m, m = pack_material(in, recall_and_deduplicate(in), root), NEW field
    PROVE  /\ component_field_states(in, m, field) = StatesByComponent(in, m, field)
           /\ IsFiniteSet(m.cost.bounds)
<1> DEFINE reps == recall_and_deduplicate(in)
           order == closure(reps, root).order
           names == Range(order)
           at(k) == RecordAt(reps, root, k)
           records == {IF n = root.product THEN root ELSE Only(ByProduct(reps, n)) : n \in names}
           priced == combined_cost(in, records)
           raw == UNION {r.facts : r \in records}
           costEv == UNION {f.ev : f \in {f \in raw : f.field = LandedTotal}}
           total(k) == {[field |-> LandedTotal, value |-> [kind |-> "int", v |-> {b.base}],
                         ev |-> costEv, component |-> k] : b \in priced.cost.bounds}
<1>1. /\ m.gateFacts = {f \in raw : f.field # LandedTotal} \cup UNION {total(k) : k \in names}
      /\ m.components = order /\ m.cost = priced.cost
  BY DEF pack_material
<1>2. IsFiniteSet(priced.cost.bounds)
  <2>1. \E b : priced.cost.bounds \subseteq {b}
    BY DEF combined_cost
  <2> HIDE DEF priced
  <2>2. PICK b : priced.cost.bounds \subseteq {b}
    BY <2>1
  <2>3. IsFiniteSet({b})
    BY FS_Singleton
  <2> QED BY <2>2, <2>3, FS_Subset
<1>3. order \in Seq(Nat) /\ \A k \in names : at(k) \in reps /\ at(k).product = k
  <2>1. IsFiniteSet(reps) /\ \A r \in reps : RepTyped(r)
    BY RepsShape
  <2> HIDE DEF reps
  <2> QED BY <2>1, ClosureShape DEF reps
<1>4. \A k \in names : \A f \in at(k).facts : f.component = k
  <2> SUFFICES ASSUME NEW k \in names PROVE \A f \in at(k).facts : f.component = k
    OBVIOUS
  <2>1. RepTyped(at(k))
    <3> DEFINE rep == at(k)
    <3>1. rep \in reps
      BY <1>3
    <3> HIDE DEF rep
    <3> QED BY <3>1, RepsShape DEF rep
  <2> QED BY <1>3, <2>1 DEF RepTyped
<1>5. raw = UNION {at(k).facts : k \in names}
  BY DEF RecordAt
<1>6. \A f \in m.gateFacts : f.component \in names
  <2> HIDE DEF raw, records, priced, at
  <2>1. \A k : \A f \in total(k) : f.component = k
    OBVIOUS
  <2> HIDE DEF total
  <2> QED BY <1>1, <1>4, <1>5, <2>1
<1> DEFINE state(n) == field_state(in, {f \in m.gateFacts : f.component = n}, field)
<1>7. component_field_states(in, m, field) = {state(n) : n \in names}
  <2> HIDE DEF reps, records, priced, raw, total, at
  <2>1. CASE Len(order) = 1
    <3>1. names = {order[1]}
      <4> HIDE DEF order
      <4> QED BY <1>3, <2>1 DEF Range, names
    <3>2. {f \in m.gateFacts : f.component = order[1]} = m.gateFacts
      BY <1>6, <3>1
    <3>3. component_field_states(in, m, field) = {field_state(in, m.gateFacts, field)}
      BY <1>1, <2>1 DEF component_field_states
    <3>4. state(order[1]) = field_state(in, m.gateFacts, field)
      BY <3>2
    <3> HIDE DEF state, order, names
    <3> QED BY <3>1, <3>3, <3>4
  <2>2. CASE Len(order) # 1
    <3>1. component_field_states(in, m, field) = {state(order[i]) : i \in 1..Len(order)}
      BY <1>1, <2>2 DEF component_field_states
    <3>2. names = {order[i] : i \in 1..Len(order)}
      <4> HIDE DEF order
      <4> QED BY <1>3 DEF Range, names
    <3> HIDE DEF state, order, names
    <3> QED BY <3>1, <3>2
  <2> QED BY <2>1, <2>2
<1>8. StatesByComponent(in, m, field) = {state(n) : n \in names}
  BY <1>1 DEF StatesByComponent
<1>9. IsFiniteSet(m.cost.bounds)
  BY <1>1, <1>2
<1> HIDE DEF state, names
<1> QED BY <1>7, <1>8, <1>9

(* A buyer gate in force that does not object holds of every component.              *)
LEMMA BuyerGateHolds ==
    ASSUME FrozenRecords(input), decision_graph_input(input), NEW root \in recall_and_deduplicate(input),
           NEW m, m = pack_material(input, recall_and_deduplicate(input), root),
           NEW pairs, \A x \in evaluate_gates(input, m, pairs) : x.reasons = {},
           NEW g \in input.gates, g.blocked # "SEIL_PASS",
           g.sources \subseteq active_source_ids(input), g.actions = {} \/ m.action \in g.actions,
           NEW p, p.source = m.source, p.components = m.components, p.cost = m.cost
    PROVE  BuyerRuleHolds(p, g)
<1> DEFINE reps == recall_and_deduplicate(input)
           walked == closure(reps, root)
           names == Range(m.components)
           stood(n, f) == Stands(input, root, names, m.cost.bounds, n, f)
           seen(n) == {f \in m.gateFacts : f.component = n}
           state(n, f) == field_state(input, seen(n), f)
           found(q) == {state(n, q.field) : n \in names}
           marks == Marks(input, m, g, pairs)
           on(n, q) == \A f \in Stated(p, n, q.field) : predicate_matches(f.value, q)
<1>1. /\ m.components = walked.order /\ m.source = root.key
      /\ "MISSING_REQUIRED_COMPONENT" \notin walked.issues
      /\ "AMBIGUOUS_REQUIRED_COMPONENT" \notin walked.issues
  BY SilentPack
<1>2. \A n \in names : /\ GroupAt(input, root, n) = Sources(input, m.components, root.key, n)
                       /\ IsFiniteSet(GroupAt(input, root, n))
  <2> HIDE DEF names, walked, reps
  <2> QED BY <1>1, PlanRecords DEF names, walked, reps
<1>3. \A n \in names : RecordsOf(p, n) = GroupAt(input, root, n)
  <2> HIDE DEF names, walked
  <2> QED BY <1>1, <1>2 DEF RecordsOf, Sources
<1>4. \A n \in names : \A f : Stated(p, n, f) = stood(n, f)
  <2> SUFFICES ASSUME NEW n \in names, NEW f PROVE Stated(p, n, f) = stood(n, f)
    OBVIOUS
  <2> DEFINE R == UNION {RecordsOf(p, k) : k \in names}
             G == UNION {GroupAt(input, root, k) : k \in names}
  <2>1. R = G
    BY <1>3
  <2>2. Stated(p, n, f) = IF f # LandedTotal THEN Said(RecordsOf(p, n), f)
                          ELSE {[value |-> [kind |-> "int", v |-> {b.base}], ev |-> Evidence(Said(R, f))] : b \in m.cost.bounds}
    BY DEF Stated, Evidence
  <2>3. stood(n, f) = IF f # LandedTotal THEN Said(GroupAt(input, root, n), f)
                      ELSE {[value |-> [kind |-> "int", v |-> {b.base}], ev |-> Evidence(Said(G, f))] : b \in m.cost.bounds}
    BY DEF Stands
  <2>4. RecordsOf(p, n) = GroupAt(input, root, n)
    BY <1>3
  <2> HIDE DEF R, G, stood, names
  <2> QED BY <2>1, <2>2, <2>3, <2>4
<1>5. \A q : component_field_states(input, m, q.field) = found(q)
  <2> SUFFICES ASSUME NEW q PROVE component_field_states(input, m, q.field) = found(q)
    OBVIOUS
  <2> DEFINE field == q.field
  <2>1. component_field_states(input, m, field) = StatesByComponent(input, m, field)
    <3> HIDE DEF field
    <3> QED BY ComponentStates
  <2>2. StatesByComponent(input, m, field) = found(q)
    BY Zenon DEF StatesByComponent
  <2> QED BY <2>1, <2>2
<1>6. IsFiniteSet(m.cost.bounds)
  BY ComponentStates
<1>7. gate_result(g, marks).reasons = {} /\ \A x \in marks : MarkTyped(x)
  <2>1. evaluate_gate(input, m, g, pairs) = gate_result(g, marks) /\ \A x \in marks : MarkTyped(x)
    BY MarksTyped
  <2>2. gate_applies(input, g, m)
    BY DEF gate_applies
  <2>3. evaluate_gate(input, m, g, pairs) \in evaluate_gates(input, m, pairs)
    BY <2>2 DEF evaluate_gates
  <2> HIDE DEF marks
  <2> QED BY <2>1, <2>3
<1>8. /\ marks = UNION {BuyerMarks(input, m, q) : q \in g.predicates}
      /\ \A q : BuyerMarks(input, m, q) = MarksFound(q, found(q))
  <2>1. SellerRuleMarks(input, g, pairs) = {}
    BY DEF SellerRuleMarks
  <2>2. marks = UNION {BuyerMarks(input, m, q) : q \in g.predicates}
    BY <2>1 DEF Marks
  <2> QED BY <1>5, <2>2 DEF BuyerMarks
<1> HIDE DEF marks
<1>9. /\ \A x \in marks : x.status = "NONE"
      /\ IF g.mode = "REQUIRE_MATCH" THEN \A x \in marks : x.truth = "TRUE"
         ELSE \E x \in marks : x.truth = "FALSE"
  BY <1>7, GateSilent
<1>10. ASSUME NEW q \in g.predicates
       PROVE  /\ \A n \in names : Clear(state(n, q.field))
              /\ BuyerMarks(input, m, q) = {Judged(AllMatch(s, q)) : s \in found(q)}
  <2> DEFINE F == found(q)
  <2>1. \A s \in F : s.state \in EvidenceStates
    <3> SUFFICES ASSUME NEW n \in names PROVE state(n, q.field).state \in EvidenceStates
      OBVIOUS
    <3> QED BY FieldStates
  <2>2. \A n \in names : state(n, q.field) \in F
    OBVIOUS
  <2> HIDE DEF state, F, names
  <2>3. BuyerMarks(input, m, q) = MarksFound(q, F)
    BY <1>8 DEF F
  <2>4. \A x \in MarksFound(q, F) : x.status = "NONE"
    BY <1>8, <1>9, <2>3
  <2>5. (\A s \in F : Clear(s)) /\ MarksFound(q, F) = {Judged(AllMatch(s, q)) : s \in F}
    BY <2>1, <2>4, BuyerMarked
  <2> QED BY <2>2, <2>3, <2>5 DEF F
<1>11. ASSUME NEW n \in names, NEW q \in g.predicates
       PROVE  /\ Proven(Stated(p, n, q.field), q.field)
              /\ AllMatch(state(n, q.field), q) <=> on(n, q)
  <2> DEFINE S == stood(n, q.field)
             M == {f \in seen(n) : f.field = q.field}
  <2>1. Values(M) = Values(S) /\ Evidence(M) = Evidence(S)
    <3> DEFINE order == walked.order
    <3>1. order = m.components /\ n \in Range(order)
      BY <1>1
    <3> QED BY <3>1, GateFactsStand
  <2>2. IsFiniteSet(Values(S))
    <3> HIDE DEF names
    <3> QED BY <1>2, <1>6, StandsFinite
  <2>3. UniqueIds(input.evidence)
    BY DEF decision_graph_input
  <2>4. Clear(state(n, q.field))
    BY <1>10
  <2>5. Proven(S, q.field) /\ state(n, q.field).values = Values(S)
    <3> HIDE DEF S, seen
    <3> QED BY <2>1, <2>2, <2>3, <2>4, ClearIsProven
  <2>6. Stated(p, n, q.field) = S
    BY <1>4
  <2> HIDE DEF S, state
  <2>7. AllMatch(state(n, q.field), q) <=> on(n, q)
    BY <2>5, <2>6 DEF AllMatch, Values
  <2> QED BY <2>5, <2>6, <2>7
<1>12. \A n \in names, q \in g.predicates : Proven(Stated(p, n, q.field), q.field)
  BY <1>11
<1>13. ASSUME g.mode = "REQUIRE_MATCH", NEW n \in names, NEW q \in g.predicates PROVE on(n, q)
  <2> DEFINE s == state(n, q.field)
  <2>1. s \in found(q)
    OBVIOUS
  <2> HIDE DEF s, found, on
  <2>2. Judged(AllMatch(s, q)) \in marks
    BY <1>8, <1>10, <2>1
  <2>3. Judged(AllMatch(s, q)).truth = "TRUE"
    BY <1>9, <1>13, <2>2
  <2>4. AllMatch(s, q)
    BY <2>3, JudgedTyped
  <2> QED BY <1>11, <2>4 DEF s
<1>14. ASSUME g.mode # "REQUIRE_MATCH" PROVE \E n \in names, q \in g.predicates : ~on(n, q)
  <2>1. PICK x \in marks : x.truth = "FALSE"
    BY <1>9, <1>14
  <2>2. PICK q \in g.predicates : x \in BuyerMarks(input, m, q)
    BY <1>8
  <2>3. PICK s \in found(q) : x = Judged(AllMatch(s, q))
    BY <1>10, <2>2
  <2>4. PICK n \in names : s = state(n, q.field)
    BY <2>3
  <2> HIDE DEF on, state, found
  <2>5. ~AllMatch(s, q)
    BY <2>1, <2>3, JudgedTyped
  <2>6. ~on(n, q)
    BY <1>11, <2>4, <2>5
  <2> QED BY <2>6
<1>15. names = Range(p.components)
  OBVIOUS
<1> HIDE DEF names
<1> QED BY <1>12, <1>13, <1>14, <1>15 DEF BuyerRuleHolds

(* A seller gate that applies and does not object is known not to exclude the buyer. *)
LEMMA SellerGateHolds ==
    ASSUME FrozenFacts(input), NEW m,
           NEW pairs, \A x \in evaluate_gates(input, m, pairs) : x.reasons = {},
           NEW g \in input.gates, g.blocked = "SEIL_PASS",
           g.sources \subseteq active_source_ids(input), g.actions = {} \/ m.action \in g.actions,
           g.id \in m.sellerGates
    PROVE  SellerRuleHolds(g)
<1> DEFINE known(q) == {f \in active_buyer_facts(input) : f.field = q.field}
           values(q) == {f.value : f \in known(q)}
           on(q) == \A f \in known(q) : predicate_matches(f.value, q)
           marks == Marks(input, m, g, pairs)
<1>1. gate_result(g, marks).reasons = {} /\ \A x \in marks : MarkTyped(x)
  <2>1. evaluate_gate(input, m, g, pairs) = gate_result(g, marks) /\ \A x \in marks : MarkTyped(x)
    BY MarksTyped
  <2>2. gate_applies(input, g, m)
    BY DEF gate_applies
  <2>3. evaluate_gate(input, m, g, pairs) \in evaluate_gates(input, m, pairs)
    BY <2>2 DEF evaluate_gates
  <2> HIDE DEF marks
  <2> QED BY <2>1, <2>3
<1>2. marks = SellerRuleMarks(input, g, pairs) \cup UNION {SellerMarks(input, q) : q \in g.predicates}
  BY DEF Marks
<1> HIDE DEF marks
<1>3. /\ \A x \in marks : x.status = "NONE"
      /\ IF g.mode = "REQUIRE_MATCH" THEN \A x \in marks : x.truth = "TRUE"
         ELSE \E x \in marks : x.truth = "FALSE"
  BY <1>1, GateSilent
<1>4. \A x \in marks : \E q \in g.predicates : x \in SellerMarks(input, q)
  <2> SUFFICES ASSUME NEW x \in marks PROVE x \notin SellerRuleMarks(input, g, pairs)
    BY <1>2
  <2>1. x.status = "NONE"
    BY <1>3
  <2> QED BY <2>1, RuleMarks
<1>5. ASSUME NEW q \in g.predicates
      PROVE  /\ values(q) # {} /\ SellerMarks(input, q) = {Judged(predicate_matches(Only(values(q)), q))}
  <2> DEFINE V == values(q)
             c == Mark("UNKNOWN", "CONDITIONAL")
  <2>1. SellerMarks(input, q) = IF V = {} THEN {c} ELSE {Judged(predicate_matches(Only(V), q))}
    BY DEF SellerMarks
  <2>2. c.status # "NONE"
    BY DEF Mark
  <2>3. SellerMarks(input, q) \subseteq marks
    BY <1>2
  <2> HIDE DEF V, c
  <2>4. V # {}
    BY <1>3, <2>1, <2>2, <2>3
  <2> QED BY <2>1, <2>4 DEF V
<1>6. ASSUME NEW q \in g.predicates
      PROVE  known(q) # {} /\ (predicate_matches(Only(values(q)), q) <=> on(q))
  <2>1. known(q) # {}
    BY <1>5
  <2>2. \A f, h \in known(q) : f.value = h.value
    BY DEF FrozenFacts, active_buyer_facts
  <2> HIDE DEF known
  <2>3. Only(values(q)) \in values(q)
    BY <2>1 DEF Only
  <2>4. PICK h \in known(q) : Only(values(q)) = h.value
    BY <2>3
  <2>5. \A f \in known(q) : f.value = Only(values(q))
    BY <2>2, <2>4
  <2> DEFINE v == Only(values(q))
  <2> HIDE DEF v
  <2>6. predicate_matches(v, q) <=> \A f \in known(q) : predicate_matches(f.value, q)
    <3>1. \A f \in known(q) : f.value = v
      BY <2>5 DEF v
    <3> QED BY <2>1, <3>1
  <2> QED BY <2>1, <2>6 DEF v
<1> HIDE DEF known, values
<1>7. ASSUME g.mode = "REQUIRE_MATCH", NEW q \in g.predicates PROVE on(q)
  <2> HIDE DEF on
  <2> DEFINE holds == predicate_matches(Only(values(q)), q)
  <2>1. Judged(holds) \in marks
    BY <1>2, <1>5
  <2>2. Judged(holds).truth = "TRUE"
    BY <1>3, <1>7, <2>1
  <2> HIDE DEF holds
  <2>3. holds
    BY <2>2, JudgedTyped
  <2> QED BY <1>6, <2>3 DEF holds
<1>8. ASSUME g.mode # "REQUIRE_MATCH" PROVE \E q \in g.predicates : ~on(q)
  <2> HIDE DEF on
  <2>1. PICK x \in marks : x.truth = "FALSE"
    BY <1>3, <1>8
  <2>2. PICK q \in g.predicates : x \in SellerMarks(input, q)
    BY <1>4
  <2> DEFINE holds == predicate_matches(Only(values(q)), q)
  <2>3. x = Judged(holds)
    BY <1>5, <2>2
  <2> HIDE DEF holds
  <2>4. ~holds
    BY <2>1, <2>3, JudgedTyped
  <2> QED BY <1>6, <2>4 DEF holds
<1> QED BY <1>6, <1>7, <1>8 DEF SellerRuleHolds, known

(* A Pack plan with the status ELIGIBLE is a recalled record's material that none of *)
(* its gates objects to.                                                            *)
LEMMA EligiblePack ==
    ASSUME NEW in, FrozenRules(in), NEW e, e = rank_and_frontiers(build_solution_plans(in)),
           NEW p \in PackPlans(e), p.status = "ELIGIBLE"
    PROVE  \E root \in recall_and_deduplicate(in) :
              LET m == pack_material(in, recall_and_deduplicate(in), root)
              IN  /\ p.source = m.source /\ p.components = m.components /\ p.cost = m.cost
                  /\ p.action = m.action
                  /\ \A x \in evaluate_gates(in, m, PairsOf(in)) : x.reasons = {}
<1> DEFINE reps == recall_and_deduplicate(in)
<1>1. PICK m \in materials(in, reps) : BuiltOf(in, m, p)
  BY PlansBuilt DEF PackPlans
<1>2. m.authority # "CURRENT"
  BY <1>1 DEF BuiltOf, PackPlans
<1>3. PICK root \in reps : m = pack_material(in, reps, root)
  <2>1. \A a \in in.actions : current_material(a).authority = "CURRENT"
    BY DEF current_material
  <2> HIDE DEF reps
  <2> QED BY <1>2, <2>1 DEF materials
<1>4. \A x \in evaluate_gates(in, m, PairsOf(in)) : x.reasons = {}
  <2> DEFINE gates == evaluate_gates(in, m, PairsOf(in))
  <2>1. \A x \in gates : x.reasons \subseteq Blocking
    BY GateReasons
  <2>2. primary_status(gates) = "ELIGIBLE"
    BY <1>1 DEF BuiltOf
  <2> HIDE DEF gates
  <2>3. \A x \in gates : x.reasons = {}
    BY <2>1, <2>2, EligibleHasNoReason
  <2> QED BY <2>3 DEF gates
<1> QED BY <1>1, <1>3, <1>4 DEF BuiltOf

(* Every Pack plan called ELIGIBLE is one a reader of the raw records would call so. *)
LEMMA EligibleStaysSound == EngineInv => EligibleIsSound
<1> SUFFICES ASSUME EngineInv, phase = "GENERIC", NEW p \in PackPlans(base), p.status = "ELIGIBLE"
             PROVE  LET names == Range(p.components)
                        records == UNION {RecordsOf(p, n) : n \in names}
                        inForce == {g \in input.gates : /\ g.sources \subseteq active_source_ids(input)
                                                        /\ g.actions = {} \/ p.action \in g.actions}
                    IN  /\ \A r \in records : r.available /\ r.authority = "SELLER_SEALED" /\ r.requires \subseteq names
                        /\ \A g \in inForce :
                              IF g.blocked # "SEIL_PASS" THEN BuyerRuleHolds(p, g)
                              ELSE (\E r \in records : g.id \in r.sellerGates) => SellerRuleHolds(g)
  BY DEF EligibleIsSound
<1> DEFINE reps == recall_and_deduplicate(input)
           pairs == PairsOf(input)
           names == Range(p.components)
           records == UNION {RecordsOf(p, n) : n \in names}
<1>1. /\ FrozenFacts(input) /\ FrozenRecords(input) /\ FrozenRules(input) /\ decision_graph_input(input)
      /\ base = evaluate_decision_graph_once(input) /\ ~Raised(base)
  BY InputsAssumption DEF EngineInv
<1>2. base = rank_and_frontiers(build_solution_plans(input))
  BY <1>1, Evaluated
<1>3. PICK root \in reps :
         LET m == pack_material(input, reps, root)
         IN  /\ p.source = m.source /\ p.components = m.components /\ p.cost = m.cost
             /\ p.action = m.action
             /\ \A x \in evaluate_gates(input, m, pairs) : x.reasons = {}
  BY <1>1, <1>2, EligiblePack
<1> DEFINE m == pack_material(input, reps, root)
           walked == closure(reps, root)
<1>4. /\ p.source = m.source /\ p.components = m.components /\ p.cost = m.cost /\ p.action = m.action
      /\ \A x \in evaluate_gates(input, m, pairs) : x.reasons = {}
  BY <1>3
<1> HIDE DEF pairs
<1>5. /\ m.components = walked.order /\ m.source = root.key
      /\ "MISSING_REQUIRED_COMPONENT" \notin walked.issues
      /\ "AMBIGUOUS_REQUIRED_COMPONENT" \notin walked.issues
      /\ \A n \in Range(walked.order) : \A r \in GroupAt(input, root, n) :
            r.available /\ r.authority = "SELLER_SEALED" /\ r.sellerGates \subseteq m.sellerGates
  BY <1>1, <1>4, SilentPack
<1>6. \A n \in names : /\ GroupAt(input, root, n) = Sources(input, p.components, p.source, n)
                       /\ \A r \in GroupAt(input, root, n) : r.requires \subseteq names
  <2> DEFINE order == walked.order
  <2>1. order = p.components /\ p.source = root.key
    BY <1>4, <1>5
  <2>2. \A n \in Range(order) : /\ GroupAt(input, root, n) = Sources(input, order, root.key, n)
                                /\ \A r \in GroupAt(input, root, n) : r.requires \subseteq Range(order)
    BY <1>1, <1>5, PlanRecords
  <2> HIDE DEF order
  <2> QED BY <2>1, <2>2
<1>7. \A n \in names : RecordsOf(p, n) = GroupAt(input, root, n)
  <2> HIDE DEF names, reps
  <2> QED BY <1>6 DEF RecordsOf, Sources
<1>8. \A r \in records : /\ r.available /\ r.authority = "SELLER_SEALED" /\ r.requires \subseteq names
                         /\ r.sellerGates \subseteq m.sellerGates
  <2> SUFFICES ASSUME NEW n \in names, NEW r \in RecordsOf(p, n)
               PROVE  /\ r.available /\ r.authority = "SELLER_SEALED" /\ r.requires \subseteq names
                      /\ r.sellerGates \subseteq m.sellerGates
    OBVIOUS
  <2>1. names = Range(walked.order)
    BY <1>4, <1>5
  <2> HIDE DEF names, m, walked, records
  <2> QED BY <1>5, <1>6, <1>7, <2>1
<1>9. ASSUME NEW g \in input.gates, g.sources \subseteq active_source_ids(input),
             g.actions = {} \/ p.action \in g.actions
      PROVE  IF g.blocked # "SEIL_PASS" THEN BuyerRuleHolds(p, g)
             ELSE (\E r \in records : g.id \in r.sellerGates) => SellerRuleHolds(g)
  <2>1. CASE g.blocked # "SEIL_PASS"
    <3>1. BuyerRuleHolds(p, g)
      BY <1>1, <1>4, <1>9, <2>1, BuyerGateHolds
    <3> QED BY <2>1, <3>1
  <2>2. CASE g.blocked = "SEIL_PASS" /\ \E r \in records : g.id \in r.sellerGates
    <3>1. g.id \in m.sellerGates
      <4> HIDE DEF records, m
      <4> QED BY <1>8, <2>2
    <3>2. SellerRuleHolds(g)
      <4> HIDE DEF records, m
      <4> QED BY <1>1, <1>4, <1>9, <2>2, <3>1, SellerGateHolds
    <3> QED BY <2>2, <3>2
  <2> QED BY <2>1, <2>2
<1> HIDE DEF records, names
<1> QED BY <1>8, <1>9 DEF records, names

(* What the engine says of plans and their components holds of the raw records, for  *)
(* every input: a Pack plan called ELIGIBLE is complete, available, sealed and       *)
(* allowed by every gate in force, and its components are its dependency closure.   *)
THEOREM PlansStaySound == Spec => []PlansAreSound
<1>1. EngineInv => PlansAreSound
  BY EligibleStaysSound, ClosureHolds DEF PlansAreSound
<1> QED BY <1>1, EngineStart, EngineStep, PTL DEF Spec

-----------------------------------------------------------------------------------
(* The ranks: the ranked plans are the eligible ones with bounds, each at a         *)
(* place of its own, and the ranks the plans carry tell the places.                 *)

(* Two different keys are in order, one way or the other.                           *)
LEMMA LexTotal ==
    ASSUME NEW a \in Seq(Int), NEW b \in Seq(Int), a # b
    PROVE  LexLess(a, b) \/ LexLess(b, a)
<1> DEFINE n == Len(a)
           l == Len(b)
           D == {i \in 1..n : i > l \/ a[i] # b[i]}
<1>1. n \in Nat /\ l \in Nat /\ (\A i \in 1..n : a[i] \in Int) /\ (\A i \in 1..l : b[i] \in Int)
  BY LenProperties, ElementOfSeq
<1>2. CASE D # {}
  <2>1. PICK k \in D : \A j \in D : k <= j
    <3>1. D \in SUBSET (1..n)
      OBVIOUS
    <3> HIDE DEF D, n, l
    <3> QED BY <1>1, <1>2, <3>1, LeastPosition
  <2>2. k \in 1..n /\ k \in Nat /\ (k > l \/ a[k] # b[k])
    OBVIOUS
  <2>3. \A j \in 1..(k - 1) : j \in 1..n /\ j <= l /\ a[j] = b[j]
    <3> SUFFICES ASSUME NEW j \in 1..(k - 1) PROVE j \in 1..n /\ j <= l /\ a[j] = b[j]
      OBVIOUS
    <3>1. j \in 1..n /\ j < k
      BY <1>1, <2>2
    <3>2. j \notin D
      BY <2>1, <3>1
    <3> QED BY <1>1, <3>1, <3>2
  <2> HIDE DEF D
  <2>4. CASE k > l \/ b[k] < a[k]
    <3>1. \A j \in 1..(k - 1) : j <= l /\ b[j] = a[j]
      BY <2>3
    <3> QED BY <2>2, <2>4, <3>1 DEF LexLess
  <2>5. CASE ~(k > l) /\ a[k] < b[k]
    <3>1. k \in 1..l
      BY <1>1, <2>2, <2>5
    <3>2. \A j \in 1..(k - 1) : j <= n /\ a[j] = b[j]
      BY <2>3
    <3> QED BY <2>5, <3>1, <3>2 DEF LexLess
  <2>6. k <= l => k \in 1..l
    BY <1>1, <2>2
  <2>7. ~(k > l) => a[k] \in Int /\ b[k] \in Int
    BY <1>1, <2>2, <2>6
  <2> QED BY <1>1, <2>2, <2>4, <2>5, <2>7
<1>3. CASE D = {}
  <2>1. n <= l /\ \A i \in 1..n : a[i] = b[i]
    <3>1. \A i \in 1..n : ~(i > l) /\ a[i] = b[i]
      BY <1>3
    <3>2. n = 0 \/ n \in 1..n
      BY <1>1
    <3> HIDE DEF D
    <3> QED BY <1>1, <3>1, <3>2
  <2>2. n # l
    <3> SUFFICES ASSUME n = l PROVE FALSE
      OBVIOUS
    <3>1. a = b
      BY <2>1, SeqEqual
    <3> QED BY <3>1
  <2>3. n + 1 \in 1..l
    <3> HIDE DEF n, l, D
    <3> QED BY <1>1, <2>1, <2>2
  <2>4. \A j \in 1..((n + 1) - 1) : j <= n /\ a[j] = b[j]
    <3>1. (n + 1) - 1 = n
      BY <1>1
    <3> QED BY <1>1, <2>1, <3>1
  <2> QED BY <1>1, <2>3, <2>4 DEF LexLess
<1> QED BY <1>2, <1>3

(* The key of a plan tells its id.                                                  *)
LEMMA KeysTell ==
    ASSUME NEW p, NEW q, Bounded(p) \in BoundedPlan, Bounded(q) \in BoundedPlan, p.bounds # {}, q.bounds # {},
           authoritative_ordering_key(p) = authoritative_ordering_key(q)
    PROVE  p.ids = q.ids
<1>1. ASSUME NEW x, Bounded(x) \in BoundedPlan, x.bounds # {}
      PROVE  LET k == authoritative_ordering_key(x)
             IN  /\ k \in Seq(Int) /\ x.ids \in Seq(Nat) /\ Len(k) = 6 + Len(x.ids) /\ Len(x.ids) \in Nat
                 /\ \A i \in 1..Len(x.ids) : x.ids[i] = k[i + 6]
  <2> DEFINE y == Bounded(x)
             b == require_bounds(y)
             k == authoritative_ordering_key(x)
  <2>1. y.ids = x.ids /\ y.bounds = x.bounds /\ y.exception = x.exception
    BY DEF Bounded
  <2>2. require_bounds(y) = require_bounds(x)
    BY <2>1 DEF require_bounds
  <2>3. k = OrderingKey(y, b.preference.low, b.risk.base, b.cost.base, b.coverage.low, b.age.high)
    BY <2>1, <2>2 DEF authoritative_ordering_key, OrderingKey
  <2>4. b \in OrderingBounds
    <3>1. y.bounds # {} /\ y.bounds \in {{o} : o \in OrderingBounds} \cup {{}}
      BY <1>1, <2>1 DEF BoundedPlan
    <3> HIDE DEF y
    <3> QED BY <3>1 DEF require_bounds
  <2>5. /\ b.preference.low \in Int /\ b.risk.base \in Int /\ b.cost.base \in Int /\ b.coverage.low \in Int
        /\ b.age.high \in Int
    <3> HIDE DEF b
    <3> QED BY <2>4 DEF OrderingBounds, Interval, BaseInterval
  <2>6. y \in BoundedPlan
    BY <1>1
  <2> HIDE DEF y, b, k
  <2>7. KeyIs(k, y, b.preference.low, b.risk.base, b.cost.base, b.coverage.low, b.age.high)
    BY <2>3, <2>5, <2>6, KeyShape
  <2>8. y.ids \in Seq(Nat) /\ Len(y.ids) \in Nat
    BY <2>6, LenProperties DEF BoundedPlan
  <2>9. \A i \in 1..Len(y.ids) : y.ids[i] = k[i + 6]
    <3> SUFFICES ASSUME NEW i \in 1..Len(y.ids) PROVE y.ids[i] = k[i + 6]
      OBVIOUS
    <3> DEFINE len == Len(y.ids)
               all == Len(k)
    <3>0. len \in Nat /\ all = 6 + len /\ i \in 1..len
      BY <2>7, <2>8 DEF KeyIs
    <3> HIDE DEF len, all
    <3>1. i + 6 \in 1..all /\ i + 6 > 6 /\ (i + 6) - 6 = i
      BY <3>0
    <3> USE DEF all
    <3> QED BY <2>7, <3>1 DEF KeyIs
  <2> QED BY <2>1, <2>7, <2>8, <2>9 DEF KeyIs, k
<1> DEFINE k == authoritative_ordering_key(p)
<1>2. /\ p.ids \in Seq(Nat) /\ q.ids \in Seq(Nat) /\ Len(p.ids) \in Nat /\ Len(q.ids) \in Nat
      /\ Len(k) = 6 + Len(p.ids) /\ Len(k) = 6 + Len(q.ids)
      /\ \A i \in 1..Len(p.ids) : p.ids[i] = k[i + 6]
      /\ \A i \in 1..Len(q.ids) : q.ids[i] = k[i + 6]
  BY <1>1
<1> HIDE DEF k
<1>3. Len(p.ids) = Len(q.ids)
  BY <1>2
<1>4. \A i \in 1..Len(p.ids) : p.ids[i] = q.ids[i]
  BY <1>2, <1>3
<1> QED BY <1>2, <1>3, <1>4, SeqEqual

(* A function without repetitions from a finite set into as many places fills them.  *)
LEMMA PlacesFilled ==
    ASSUME NEW R, IsFiniteSet(R), NEW pos \in [R -> 0..(Cardinality(R) - 1)],
           \A p, q \in R : pos[p] = pos[q] => p = q
    PROVE  \A k \in 0..(Cardinality(R) - 1) : \E p \in R : pos[p] = k
<1> DEFINE n == Cardinality(R)
           places == 0..(n - 1)
<1>1. n \in Nat
  BY FS_CardinalityType
<1> SUFFICES ASSUME NEW k \in places, \A p \in R : pos[p] # k PROVE FALSE
  OBVIOUS
<1>2. IsFiniteSet(places) /\ Cardinality(places) = n
  <2>1. 0 \in Int /\ n - 1 \in Int
    BY <1>1
  <2>2. /\ IsFiniteSet(places)
        /\ Cardinality(places) = IF 0 > n - 1 THEN 0 ELSE (n - 1) - 0 + 1
    <3> HIDE DEF n
    <3> QED BY <2>1, FS_Interval
  <2> HIDE DEF n
  <2>3. k \in 0..(n - 1)
    OBVIOUS
  <2> HIDE DEF places
  <2>4. (IF 0 > n - 1 THEN 0 ELSE (n - 1) - 0 + 1) = n
    BY <1>1, <2>3
  <2> QED BY <2>2, <2>4
<1> DEFINE others == places \ {k}
<1>3. pos \in [R -> others]
  OBVIOUS
<1> HIDE DEF n, places
<1>4. IsFiniteSet(others) /\ Cardinality(others) = n - 1
  BY <1>2, FS_RemoveElement
<1> HIDE DEF others
<1>5. Cardinality(others) < Cardinality(R)
  BY <1>1, <1>4 DEF n
<1>6. \E x, y \in R : x # y /\ pos[x] = pos[y]
  BY <1>3, <1>4, <1>5, FS_PigeonHole
<1> QED BY <1>6

(* The ranking lists every rankable plan once when the plans have distinct ids.      *)
LEMMA RanksExact ==
    ASSUME NEW Q, IsFiniteSet(Q), \A p \in Q : Bounded(p) \in BoundedPlan,
           \A p, q \in Q : p.ids = q.ids => p = q
    PROVE  LET R == Rankable(Q)
               ranked == RankedPlans(Q)
           IN  /\ IsFiniteSet(R) /\ Cardinality(R) \in Nat /\ Len(ranked) = Cardinality(R)
               /\ \A i \in 1..Len(ranked) : ranked[i] \in R
               /\ \A i, j \in 1..Len(ranked) : ranked[i] = ranked[j] => i = j
               /\ \A p \in R : \E i \in 1..Len(ranked) : ranked[i] = p
<1> DEFINE R == Rankable(Q)
           ranked == RankedPlans(Q)
           key(p) == authoritative_ordering_key(p)
           ahead(p) == {q \in R : LexLess(key(q), key(p))}
           level(p) == {q \in R : key(q) = key(p)}
           At(i, p) == i - Cardinality(ahead(p)) \in 1..Cardinality(level(p))
           n == Cardinality(R)
           pos == [p \in R |-> Cardinality(ahead(p))]
<1>1. IsFiniteSet(R) /\ R \subseteq Q
  <2>1. R \in SUBSET Q
    BY DEF Rankable
  <2> HIDE DEF R
  <2> QED BY <2>1, FS_Subset
<1>2. n \in Nat
  <2> HIDE DEF R
  <2> QED BY <1>1, FS_CardinalityType
<1>3. ranked = [i \in 1..n |-> CHOOSE p \in R : At(i, p)]
  BY DEF RankedPlans, Rankable
<1>4. \A p \in R : key(p) \in Seq(Int)
  BY KeyOfPlan DEF Rankable
<1>5. \A p, q \in R : key(p) = key(q) => p = q
  <2> SUFFICES ASSUME NEW p \in R, NEW q \in R, key(p) = key(q) PROVE p = q
    OBVIOUS
  <2>1. /\ p \in Q /\ q \in Q /\ Bounded(p) \in BoundedPlan /\ Bounded(q) \in BoundedPlan
        /\ p.bounds # {} /\ q.bounds # {}
    BY DEF Rankable
  <2>2. p.ids = q.ids
    BY <2>1, KeysTell
  <2> QED BY <2>1, <2>2
<1> HIDE DEF R, key, ranked
<1>6. ASSUME NEW p \in R
      PROVE  /\ level(p) = {p} /\ Cardinality(level(p)) = 1
             /\ ahead(p) \in SUBSET R /\ IsFiniteSet(ahead(p)) /\ p \notin ahead(p)
             /\ pos[p] = Cardinality(ahead(p)) /\ pos[p] \in 0..(n - 1)
  <2>1. level(p) = {p}
    BY <1>5
  <2>2. ahead(p) \in SUBSET R
    OBVIOUS
  <2>3. p \notin ahead(p)
    BY <1>4, LexIrreflexive
  <2>4. pos[p] = Cardinality(ahead(p))
    OBVIOUS
  <2> HIDE DEF ahead, level, pos
  <2>5. IsFiniteSet(ahead(p))
    BY <1>1, <2>2, FS_Subset
  <2>6. Cardinality(level(p)) = 1
    BY <2>1, FS_Singleton
  <2> DEFINE c == Cardinality(ahead(p))
  <2>7. c \in Nat /\ c <= n /\ c # n
    BY <1>1, <2>2, <2>3, <2>5, FS_Subset, FS_CardinalityType
  <2> HIDE DEF c, n
  <2>8. c \in 0..(n - 1)
    BY <1>2, <2>7
  <2> QED BY <2>1, <2>2, <2>3, <2>4, <2>5, <2>6, <2>8 DEF c
<1>7. ASSUME NEW p \in R, NEW q \in R, LexLess(key(p), key(q)) PROVE pos[p] < pos[q]
  <2>1. ahead(p) \subseteq ahead(q)
    <3> SUFFICES ASSUME NEW r \in ahead(p) PROVE r \in ahead(q)
      OBVIOUS
    <3>1. r \in R /\ LexLess(key(r), key(p))
      OBVIOUS
    <3>2. LexLess(key(r), key(q))
      BY <1>4, <1>7, <3>1, LexTransitive
    <3> QED BY <3>1, <3>2
  <2>2. p \in ahead(q)
    BY <1>7
  <2> HIDE DEF ahead, level, pos
  <2> DEFINE A == ahead(p)
             B == ahead(q)
  <2>3. A \in SUBSET B /\ A # B /\ IsFiniteSet(B) /\ IsFiniteSet(A)
    BY <1>6, <2>1, <2>2
  <2>4. pos[p] = Cardinality(A) /\ pos[q] = Cardinality(B)
    BY <1>6
  <2> HIDE DEF A, B
  <2>5. Cardinality(A) <= Cardinality(B) /\ Cardinality(A) # Cardinality(B)
    BY <2>3, FS_Subset
  <2>6. Cardinality(A) \in Nat /\ Cardinality(B) \in Nat
    BY <2>3, FS_CardinalityType
  <2> QED BY <2>4, <2>5, <2>6
<1>8. \A p, q \in R : pos[p] = pos[q] => p = q
  <2> SUFFICES ASSUME NEW p \in R, NEW q \in R, p # q PROVE pos[p] # pos[q]
    OBVIOUS
  <2>1. key(p) # key(q)
    BY <1>5
  <2>2. LexLess(key(p), key(q)) \/ LexLess(key(q), key(p))
    <3> DEFINE a == key(p)
               b == key(q)
    <3>1. a \in Seq(Int) /\ b \in Seq(Int) /\ a # b
      BY <1>4, <2>1
    <3> HIDE DEF a, b
    <3>2. LexLess(a, b) \/ LexLess(b, a)
      BY <3>1, LexTotal
    <3> QED BY <3>2 DEF a, b
  <2>3. pos[p] \in Int /\ pos[q] \in Int
    <3>1. \A x \in 0..(n - 1) : x \in Int
      OBVIOUS
    <3> HIDE DEF pos
    <3> QED BY <1>6, <3>1
  <2>4. pos[p] < pos[q] \/ pos[q] < pos[p]
    <3> HIDE DEF pos
    <3> QED BY <1>7, <2>2
  <2> HIDE DEF pos
  <2> QED BY <2>3, <2>4
<1>9. \A k \in 0..(n - 1) : \E p \in R : pos[p] = k
  <2>1. pos \in [R -> 0..(n - 1)]
    <3>1. pos = [p \in R |-> pos[p]]
      OBVIOUS
    <3> HIDE DEF pos, n
    <3> QED BY <1>6, <3>1
  <2> HIDE DEF pos
  <2> QED BY <1>1, <1>8, <2>1, PlacesFilled
<1>10. ASSUME NEW p \in R, NEW i \in 1..n PROVE At(i, p) <=> pos[p] = i - 1
  <2> DEFINE c == Cardinality(ahead(p))
             l == Cardinality(level(p))
  <2>1. pos[p] = c /\ c \in 0..(n - 1) /\ l = 1
    <3> HIDE DEF ahead, level, pos
    <3> QED BY <1>6
  <2> HIDE DEF c, l, pos
  <2>2. i - c \in 1..l <=> c = i - 1
    <3> HIDE DEF n
    <3> QED BY <1>2, <2>1
  <2> QED BY <2>1, <2>2 DEF c, l
<1> HIDE DEF At, pos
<1>11. ASSUME NEW i \in 1..n PROVE ranked[i] \in R /\ pos[ranked[i]] = i - 1
  <2>1. i - 1 \in 0..(n - 1)
    <3> HIDE DEF n
    <3> QED BY <1>2
  <2>2. \E p \in R : At(i, p)
    BY <1>9, <1>10, <2>1
  <2>3. ranked[i] = CHOOSE p \in R : At(i, p)
    BY <1>3
  <2> DEFINE x == ranked[i]
  <2>4. x \in R /\ At(i, x)
    BY <2>2, <2>3
  <2> HIDE DEF x
  <2>5. pos[x] = i - 1
    BY <1>10, <2>4
  <2> QED BY <2>4, <2>5 DEF x
<1>12. Len(ranked) = n
  <2> HIDE DEF n
  <2>1. \E N \in Nat : ranked = [i \in 1..N |-> ranked[i]] /\ N = n
    BY <1>2, <1>3
  <2>2. DOMAIN ranked = 1..n
    BY <1>3
  <2>3. ranked \in Seq(R)
    <3> HIDE DEF ranked
    <3> QED BY <1>2, <1>11, <2>2, <2>1
  <2> QED BY <1>2, <2>2, <2>3, LenProperties
<1>13. ASSUME NEW p \in R PROVE \E i \in 1..n : ranked[i] = p
  <2> DEFINE i == pos[p] + 1
  <2>1. pos[p] \in 0..(n - 1)
    BY <1>6
  <2>2. i \in 1..n /\ i - 1 = pos[p]
    <3> HIDE DEF n
    <3> QED BY <1>2, <2>1
  <2> HIDE DEF i
  <2>3. ranked[i] \in R /\ pos[ranked[i]] = pos[p]
    BY <1>11, <2>2
  <2>4. ranked[i] = p
    BY <1>8, <2>3
  <2> QED BY <2>2, <2>4
<1>14. \A i, j \in 1..n : ranked[i] = ranked[j] => i = j
  <2> SUFFICES ASSUME NEW i \in 1..n, NEW j \in 1..n, ranked[i] = ranked[j] PROVE i = j
    OBVIOUS
  <2>1. i - 1 = j - 1
    BY <1>11
  <2> HIDE DEF n
  <2> QED BY <1>2, <2>1
<1> HIDE DEF n
<1> QED BY <1>1, <1>2, <1>11, <1>12, <1>13, <1>14 DEF R, ranked, n

\* A plan as it is built, before the ranking annotates it.
Blank(p) ==
    [source |-> p.source, action |-> p.action, components |-> p.components, kind |-> p.kind, ids |-> p.ids,
     exception |-> p.exception, status |-> p.status, gates |-> p.gates, issues |-> p.issues,
     dimensions |-> p.dimensions, bounds |-> p.bounds, cost |-> p.cost, resolution |-> p.resolution,
     lifecycle |-> p.lifecycle, ordering |-> FALSE, pending |-> FALSE, quote |-> FALSE,
     quoteReason |-> "NONE", autonomous |-> FALSE]
Fresh(p) == p = Blank(p)

(* A plan is built without annotations.                                             *)
LEMMA PlanIsFresh ==
    ASSUME NEW m, NEW gates, NEW status, NEW d
    PROVE  Fresh(Plan(m, gates, status, d))
  BY DEF Fresh, Plan, Blank

\* A plan with the annotations of the ranking.
Annotate(p, a1, a2, a3, a4, a5) ==
    [p EXCEPT !.ordering = a1, !.pending = a2, !.quote = a3, !.quoteReason = a4, !.autonomous = a5]

(* Annotating keeps different plans apart.                                          *)
LEMMA AnnotationTells ==
    ASSUME NEW p, NEW q, Fresh(p), Fresh(q), NEW a1, NEW a2, NEW a3, NEW a4, NEW a5,
           NEW b1, NEW b2, NEW b3, NEW b4, NEW b5,
           Annotate(p, a1, a2, a3, a4, a5) = Annotate(q, b1, b2, b3, b4, b5)
    PROVE  p = q
<1> DEFINE x == Annotate(p, a1, a2, a3, a4, a5)
           y == Annotate(q, b1, b2, b3, b4, b5)
<1>1. /\ x.source = p.source /\ x.action = p.action /\ x.components = p.components /\ x.kind = p.kind
      /\ x.ids = p.ids /\ x.exception = p.exception /\ x.status = p.status /\ x.gates = p.gates
      /\ x.issues = p.issues /\ x.dimensions = p.dimensions /\ x.bounds = p.bounds /\ x.cost = p.cost
      /\ x.resolution = p.resolution /\ x.lifecycle = p.lifecycle
  BY DEF Fresh, Blank, Annotate
<1>2. /\ y.source = q.source /\ y.action = q.action /\ y.components = q.components /\ y.kind = q.kind
      /\ y.ids = q.ids /\ y.exception = q.exception /\ y.status = q.status /\ y.gates = q.gates
      /\ y.issues = q.issues /\ y.dimensions = q.dimensions /\ y.bounds = q.bounds /\ y.cost = q.cost
      /\ y.resolution = q.resolution /\ y.lifecycle = q.lifecycle
  BY DEF Fresh, Blank, Annotate
<1>3. x = y
  OBVIOUS
<1> HIDE DEF x, y
<1>4. Blank(p) = Blank(q)
  BY <1>1, <1>2, <1>3 DEF Blank
<1> QED BY <1>4 DEF Fresh

(* Plans of one id are one plan when the evaluation can be written to rows.         *)
LEMMA IdsTell ==
    ASSUME NEW Q, \A p \in Q : Fresh(p), NEW e, e = rank_and_frontiers(Q), ~RowsRaise(e)
    PROVE  \A p, q \in Q : p.ids = q.ids => p = q
<1> DEFINE ranked == RankedPlans(Q)
           s == ranked[1]
           eligible == {p \in Q : p.status \in Eligible}
           C == Competitors(eligible, s)
           verdict == IF ranked = <<>>
                      THEN [status |-> "UNDETERMINED", frontier |-> {},
                            unavailable |-> {p \in eligible : p.bounds = {}}]
                      ELSE assess_rank_stability(Bounded(s), C)
           selected == IF ranked = <<>> THEN {} ELSE {s.ids}
           ordering == selected \cup {p.ids : p \in verdict.frontier}
           resolution == IF ranked = <<>> THEN {} ELSE ResolutionFrontier(Q, s)
           reason(p) == quote_reason(p, selected, ordering, resolution, ranked)
           a1(p) == p.ids \in ordering
           a2(p) == p.ids \in resolution
           a3(p) == reason(p) # "NONE" /\ p.action \in QuoteActions
           a5(p) == /\ p.lifecycle = "EXECUTABLE" /\ verdict.status = "STABLE"
                    /\ ~p.cost.payment /\ p.action \in AutonomousActions
           Ann(p) == [p EXCEPT !.ordering = a1(p), !.pending = a2(p), !.quote = a3(p),
                               !.quoteReason = reason(p), !.autonomous = a5(p)]
<1>1. e.plans = {Ann(p) : p \in Q}
  BY DEF rank_and_frontiers
<1> HIDE DEF a1, a2, a3, a5, reason, ordering, resolution, verdict
<1>2. \A p \in Q : Ann(p).ids = p.ids
  BY DEF Fresh, Blank
<1>3. \A p, q \in Q : Ann(p) = Ann(q) => p = q
  <2> SUFFICES ASSUME NEW p \in Q, NEW q \in Q, Ann(p) = Ann(q) PROVE p = q
    OBVIOUS
  <2> DEFINE p1 == a1(p)
             p2 == a2(p)
             p3 == a3(p)
             p4 == reason(p)
             p5 == a5(p)
             q1 == a1(q)
             q2 == a2(q)
             q3 == a3(q)
             q4 == reason(q)
             q5 == a5(q)
             x == Annotate(p, p1, p2, p3, p4, p5)
             y == Annotate(q, q1, q2, q3, q4, q5)
  <2>1. x = y
    BY Zenon DEF Annotate
  <2>2. Fresh(p) /\ Fresh(q)
    OBVIOUS
  <2> HIDE DEF p1, p2, p3, p4, p5, q1, q2, q3, q4, q5
  <2>3. p = q
    BY <2>1, <2>2, AnnotationTells
  <2> QED BY <2>3
<1> HIDE DEF Ann
<1> QED BY <1>1, <1>2, <1>3 DEF RowsRaise

(* Sets that map into each other without repetitions have the same size.            *)
LEMMA SameSize ==
    ASSUME NEW A, IsFiniteSet(A), NEW B, IsFiniteSet(B),
           NEW f \in [A -> B], \A x, y \in A : f[x] = f[y] => x = y,
           NEW g \in [B -> A], \A x, y \in B : g[x] = g[y] => x = y
    PROVE  Cardinality(A) = Cardinality(B)
<1> DEFINE a == Cardinality(A)
           b == Cardinality(B)
<1>1. a \in Nat /\ b \in Nat
  BY FS_CardinalityType
<1>2. ~(a < b)
  BY FS_PigeonHole
<1>3. ~(b < a)
  BY FS_PigeonHole
<1> HIDE DEF a, b
<1>4. a = b
  BY <1>1, <1>2, <1>3
<1> QED BY <1>4 DEF a, b

(* A ranking names the plans of the order, and selects the first.                   *)
LEMMA RankedIs ==
    ASSUME NEW Q, NEW e, e = rank_and_frontiers(Q)
    PROVE  LET ranked == RankedPlans(Q)
           IN  /\ e.ranked = [i \in 1..Len(ranked) |-> ranked[i].ids]
               /\ e.selected = IF ranked = <<>> THEN {} ELSE {ranked[1].ids}
               /\ IsFiniteSet(Q) => IsFiniteSet(e.plans)
<1> DEFINE ranked == RankedPlans(Q)
           s == ranked[1]
           eligible == {p \in Q : p.status \in Eligible}
           verdict == IF ranked = <<>>
                      THEN [status |-> "UNDETERMINED", frontier |-> {},
                            unavailable |-> {p \in eligible : p.bounds = {}}]
                      ELSE assess_rank_stability(Bounded(s), Competitors(eligible, s))
           selected == IF ranked = <<>> THEN {} ELSE {s.ids}
           ordering == selected \cup {p.ids : p \in verdict.frontier}
           resolution == IF ranked = <<>> THEN {} ELSE ResolutionFrontier(Q, s)
           reason(p) == quote_reason(p, selected, ordering, resolution, ranked)
           Ann(p) == [p EXCEPT !.ordering = p.ids \in ordering, !.pending = p.ids \in resolution,
                          !.quote = (reason(p) # "NONE" /\ p.action \in QuoteActions),
                          !.quoteReason = reason(p),
                          !.autonomous = (/\ p.lifecycle = "EXECUTABLE" /\ verdict.status = "STABLE"
                                          /\ ~p.cost.payment /\ p.action \in AutonomousActions)]
<1>1. /\ e.plans = {Ann(p) : p \in Q} /\ e.selected = selected
      /\ e.ranked = [i \in 1..Len(ranked) |-> ranked[i].ids]
  BY DEF rank_and_frontiers
<1> HIDE DEF Ann
<1>2. IsFiniteSet(Q) => IsFiniteSet(e.plans)
  <2> SUFFICES ASSUME IsFiniteSet(Q) PROVE IsFiniteSet(e.plans)
    OBVIOUS
  <2> DEFINE h == [p \in Q |-> Ann(p)]
  <2>1. {h[p] : p \in Q} = e.plans
    BY <1>1, Zenon
  <2> HIDE DEF h
  <2>2. IsFiniteSet({h[p] : p \in Q})
    BY ImageFinite
  <2> QED BY <2>1, <2>2
<1> HIDE DEF ranked
<1>3. e.selected = IF ranked = <<>> THEN {} ELSE {ranked[1].ids}
  BY <1>1
<1> QED BY <1>1, <1>2, <1>3 DEF ranked

(* The plans are built fresh.                                                       *)
LEMMA PlansFresh ==
    ASSUME NEW in
    PROVE  \A p \in build_solution_plans(in) : Fresh(p)
<1> DEFINE M == materials(in, recall_and_deduplicate(in))
           pairs == PairsOf(in)
<1>1. build_solution_plans(in) = {build_solution_plan(in, m, pairs) : m \in M}
  BY DEF build_solution_plans, PairsOf
<1>2. \A m \in M : Fresh(build_solution_plan(in, m, pairs))
  BY PlanIsFresh DEF build_solution_plan, Gated
<1> QED BY <1>1, <1>2

\* An evaluation whose plans have one id each, and the input it is of.
Tellable(in, e) ==
    /\ FrozenFacts(in) /\ FrozenRecords(in) /\ FrozenRules(in) /\ decision_graph_input(in) /\ ~Malformed(in)
    /\ e = rank_and_frontiers(build_solution_plans(in)) /\ ~RowsRaise(e)

\* The ranked ids are those of the eligible bounded plans, each once, the first selected.
RanksTell(e) ==
    LET R == Rankable(e.plans)
        n == Cardinality(R)
    IN  /\ IsFiniteSet(e.plans) /\ IsFiniteSet(R) /\ n \in Nat /\ Len(e.ranked) = n
        /\ \A i \in 1..n : \E p \in R : e.ranked[i] = p.ids
        /\ \A i, j \in 1..n : e.ranked[i] = e.ranked[j] => i = j
        /\ \A p \in R : \E i \in 1..n : e.ranked[i] = p.ids
        /\ e.selected = IF n = 0 THEN {} ELSE {e.ranked[1]}

(* Every evaluation that raised nothing has its ranks in order.                     *)
LEMMA RanksHold ==
    ASSUME NEW in, NEW e, Tellable(in, e)
    PROVE  RanksTell(e)
<1> DEFINE Q == build_solution_plans(in)
           A == Rankable(Q)
           B == Rankable(e.plans)
           ranked == RankedPlans(Q)
<1>1. IsFiniteSet(Q) /\ \A p \in Q : Bounded(p) \in BoundedPlan /\ PlanLike(p) /\ Fresh(p)
  BY PlansTyped, PlansFresh DEF Tellable
<1>2. e = rank_and_frontiers(Q) /\ ~RowsRaise(e)
  BY DEF Tellable
<1> HIDE DEF Q
<1>3. \A p, q \in Q : p.ids = q.ids => p = q
  BY <1>1, <1>2, IdsTell
<1>4. /\ IsFiniteSet(A) /\ Cardinality(A) \in Nat /\ Len(ranked) = Cardinality(A)
      /\ \A i \in 1..Len(ranked) : ranked[i] \in A
      /\ \A i, j \in 1..Len(ranked) : ranked[i] = ranked[j] => i = j
      /\ \A p \in A : \E i \in 1..Len(ranked) : ranked[i] = p
  <2>1. \A p \in Q : Bounded(p) \in BoundedPlan
    BY <1>1
  <2> QED BY <1>1, <1>3, <2>1, RanksExact
<1>5. /\ e.ranked = [i \in 1..Len(ranked) |-> ranked[i].ids]
      /\ e.selected = IF ranked = <<>> THEN {} ELSE {ranked[1].ids}
      /\ IsFiniteSet(e.plans)
  BY <1>1, <1>2, RankedIs
<1>6. (\A a \in e.plans : \E p \in Q : Alike(a, p)) /\ (\A p \in Q : \E a \in e.plans : Alike(a, p))
  BY <1>1, <1>2, RankingParts
<1>7. \A a, b \in e.plans : a.ids = b.ids => a = b
  BY <1>2 DEF RowsRaise
<1>8. (\A b \in B : \E a \in A : Alike(b, a)) /\ (\A a \in A : \E b \in B : Alike(b, a))
  BY <1>6 DEF Rankable, Alike
<1>9. A \subseteq Q /\ B \subseteq e.plans /\ IsFiniteSet(B)
  <2>1. A \subseteq Q /\ B \subseteq e.plans
    BY DEF Rankable
  <2> QED BY <2>1, <1>5, FS_Subset
<1>10. \A a \in Q, b \in e.plans : Alike(b, a) => b.ids = a.ids
  BY DEF Alike
<1>11. ranked = <<>> <=> Len(ranked) = 0
  <2>1. ranked = <<>> <=> A = {}
    BY <1>1, FirstLeads
  <2> HIDE DEF A, ranked
  <2> QED BY <2>1, <1>4, FS_EmptySet
<1> HIDE DEF A, B, ranked
<1>12. Cardinality(B) = Cardinality(A)
  <2> DEFINE f == [b \in B |-> CHOOSE a \in A : Alike(b, a)]
             g == [a \in A |-> CHOOSE b \in B : Alike(b, a)]
  <2>1. f \in [B -> A] /\ \A b \in B : Alike(b, f[b])
    BY <1>8
  <2>2. g \in [A -> B] /\ \A a \in A : Alike(g[a], a)
    BY <1>8
  <2> HIDE DEF f, g
  <2>3. \A b \in B : b.ids = f[b].ids
    BY <2>1, <1>9, <1>10
  <2>4. \A a \in A : g[a].ids = a.ids
    BY <2>2, <1>9, <1>10
  <2>5. \A x, y \in B : f[x] = f[y] => x = y
    BY <2>3, <1>7, <1>9
  <2>6. \A x, y \in A : g[x] = g[y] => x = y
    BY <2>4, <1>3, <1>9
  <2> QED BY <2>1, <2>2, <2>5, <2>6, <1>4, <1>9, SameSize
<1> DEFINE n == Cardinality(B)
<1>13. n \in Nat /\ Len(ranked) = n /\ n = Cardinality(A)
  BY <1>4, <1>12
<1> HIDE DEF n
<1>14. Len(e.ranked) = n /\ \A i \in 1..n : e.ranked[i] = ranked[i].ids
  BY <1>5, <1>13
<1>15. \A i \in 1..n : \E p \in B : e.ranked[i] = p.ids
  BY <1>4, <1>8, <1>9, <1>10, <1>13, <1>14
<1>16. \A i, j \in 1..n : e.ranked[i] = e.ranked[j] => i = j
  BY <1>3, <1>4, <1>9, <1>13, <1>14
<1>17. \A p \in B : \E i \in 1..n : e.ranked[i] = p.ids
  BY <1>4, <1>8, <1>9, <1>10, <1>13, <1>14
<1>18. e.selected = IF n = 0 THEN {} ELSE {e.ranked[1]}
  <2>1. CASE n = 0
    BY <2>1, <1>5, <1>11, <1>13
  <2>2. CASE n # 0
    <3>1. 1 \in 1..n
      BY <2>2, <1>13
    <3> QED BY <2>2, <3>1, <1>5, <1>11, <1>13, <1>14
  <2> QED BY <2>1, <2>2
<1> QED BY <1>5, <1>9, <1>13, <1>14, <1>15, <1>16, <1>17, <1>18 DEF RanksTell, n, B

-----------------------------------------------------------------------------------
(* The rows: what build_evaluation_graph_write returns fits the keys of its         *)
(* tables, whatever was evaluated.                                                  *)

(* A set without two different elements has at most one.                             *)
LEMMA AtMostOne ==
    ASSUME NEW S, \A x, y \in S : x = y
    PROVE  Optional(S) /\ IsFiniteSet(S)
<1>1. CASE S = {}
  BY <1>1, FS_EmptySet DEF Optional
<1>2. ASSUME NEW x \in S PROVE Optional(S) /\ IsFiniteSet(S)
  <2>1. S = {x}
    OBVIOUS
  <2> QED BY <2>1, FS_Singleton DEF Optional
<1> QED BY <1>1, <1>2

(* The status of a plan is one the tables know.                                     *)
LEMMA StatusKnown ==
    ASSUME NEW gates, \A x \in gates : x.reasons \subseteq Blocking
    PROVE  primary_status(gates) \in Statuses /\ Blocking \subseteq Statuses
<1> DEFINE reasons == UNION {g.reasons : g \in gates}
           ranks == {i \in 1..Len(StatusPrecedence) : StatusPrecedence[i] \in reasons}
           k == CHOOSE i \in ranks : \A j \in ranks : i <= j
<1>1. primary_status(gates) = IF reasons = {} THEN "ELIGIBLE" ELSE StatusPrecedence[k]
  BY DEF primary_status
<1>2. reasons \subseteq Blocking
  OBVIOUS
<1>3. Len(StatusPrecedence) = 11 /\ Len(StatusPrecedence) \in Nat
  BY DEF StatusPrecedence
<1>4. /\ StatusPrecedence[1] = "UNAVAILABLE" /\ StatusPrecedence[2] = "CONFLICTING_EVIDENCE"
      /\ StatusPrecedence[3] = "STALE_EVIDENCE" /\ StatusPrecedence[4] = "INSUFFICIENT_EVIDENCE"
      /\ StatusPrecedence[5] = "SIRA_INELIGIBLE" /\ StatusPrecedence[6] = "SEIL_PASS"
      /\ StatusPrecedence[8] = "ADVISORY_ONLY" /\ StatusPrecedence[9] = "CONDITIONAL"
      /\ StatusPrecedence[11] = "ELIGIBLE"
  BY DEF StatusPrecedence
<1>5. Statuses = {StatusPrecedence[i] : i \in 1..Len(StatusPrecedence)}
  <2>1. DOMAIN StatusPrecedence = 1..Len(StatusPrecedence)
    BY DEF StatusPrecedence
  <2> QED BY <2>1 DEF Statuses, Range
<1>6. Blocking \subseteq Statuses /\ "ELIGIBLE" \in Statuses
  <2>1. /\ StatusPrecedence[1] \in Statuses /\ StatusPrecedence[2] \in Statuses /\ StatusPrecedence[3] \in Statuses
        /\ StatusPrecedence[4] \in Statuses /\ StatusPrecedence[5] \in Statuses /\ StatusPrecedence[6] \in Statuses
        /\ StatusPrecedence[8] \in Statuses /\ StatusPrecedence[9] \in Statuses /\ StatusPrecedence[11] \in Statuses
    BY <1>3, <1>5
  <2> QED BY <1>4, <2>1 DEF Blocking
<1>7. \A b \in Blocking : \E i \in 1..Len(StatusPrecedence) : StatusPrecedence[i] = b
  BY <1>5, <1>6
<1> HIDE DEF reasons
<1>8. ASSUME reasons # {} PROVE StatusPrecedence[k] \in Statuses
  <2>1. ranks # {} /\ ranks \in SUBSET (1..Len(StatusPrecedence))
    BY <1>2, <1>7, <1>8
  <2>2. \A i \in ranks : StatusPrecedence[i] \in Statuses
    BY <1>5
  <2> HIDE DEF ranks
  <2>3. \E i \in ranks : \A j \in ranks : i <= j
    BY <1>3, <2>1, LeastPosition
  <2>4. k \in ranks
    BY <2>3
  <2> QED BY <2>2, <2>4
<1> HIDE DEF k
<1> QED BY <1>1, <1>6, <1>8

(* A plan has one result for a gate.                                                *)
LEMMA GatesUnique ==
    ASSUME NEW in, UniqueIds(in.gates), NEW m, NEW pairs
    PROVE  UniqueIds(evaluate_gates(in, m, pairs))
<1> DEFINE D == dependency_gates(m)
           A == availability_gate(m)
           B == authority_gate(m)
<1>1. \A g : evaluate_gate(in, m, g, pairs).id = <<"rule", g.id>>
  BY DEF evaluate_gate, gate_result
<1>2. A.id = <<"availability", 0>> /\ B.id = <<"authority", 0>>
  BY DEF availability_gate, authority_gate
<1>3. /\ \A x \in D : \E i : x.id = <<"dependency", i>>
      /\ \A x, y \in D : x.id = y.id => x = y
  <2> DEFINE made(i) == [id |-> <<"dependency", i>>, truth |-> "FALSE", resolution |-> {}, hard |-> TRUE,
                         reasons |-> {"SIRA_INELIGIBLE"}]
  <2>1. \A x \in D : \E i : x = made(i)
    BY DEF dependency_gates
  <2>2. \A i : made(i).id = <<"dependency", i>>
    OBVIOUS
  <2>3. \A i, j : made(i).id = made(j).id => i = j
    OBVIOUS
  <2> HIDE DEF made, D
  <2> QED BY <2>1, <2>2, <2>3
<1>4. \A x \in evaluate_gates(in, m, pairs) :
          x = A \/ x \in D \/ x = B \/ \E g \in in.gates : x = evaluate_gate(in, m, g, pairs)
  BY DEF evaluate_gates
<1> HIDE DEF A, B, D
<1> DEFINE E(g) == evaluate_gate(in, m, g, pairs)
<1>5. \A g : E(g).id = <<"rule", g.id>>
  BY <1>1
<1>6. \A x \in evaluate_gates(in, m, pairs) : x = A \/ x \in D \/ x = B \/ \E g \in in.gates : x = E(g)
  BY <1>4
<1> HIDE DEF E
<1>7. \A g, h \in in.gates : g.id = h.id => g = h
  BY DEF UniqueIds
<1>8. ASSUME NEW x \in evaluate_gates(in, m, pairs), NEW y \in evaluate_gates(in, m, pairs), x.id = y.id
      PROVE  x = y
  <2> DEFINE tag(z) == z.id[1]
  <2>1. /\ tag(A) = "availability" /\ tag(B) = "authority" /\ \A z \in D : tag(z) = "dependency"
        /\ \A g : tag(E(g)) = "rule"
    BY <1>2, <1>3, <1>5
  <2>2. tag(x) = tag(y)
    BY <1>8
  <2> HIDE DEF tag
  <2>3. CASE x = A
    BY <1>6, <2>1, <2>2, <2>3
  <2>4. CASE x = B
    BY <1>6, <2>1, <2>2, <2>4
  <2>5. CASE x \in D
    <3>1. y \in D
      BY <1>6, <2>1, <2>2, <2>5
    <3> QED BY <1>3, <1>8, <2>5, <3>1
  <2>6. ASSUME NEW g \in in.gates, x = E(g) PROVE x = y
    <3>1. PICK h \in in.gates : y = E(h)
      BY <1>6, <2>1, <2>2, <2>6
    <3>2. <<"rule", g.id>> = <<"rule", h.id>>
      BY <1>5, <1>8, <2>6, <3>1
    <3>3. g = h
      BY <1>7, <3>2
    <3> QED BY <2>6, <3>1, <3>3
  <2> QED BY <1>6, <2>3, <2>4, <2>5, <2>6
<1> QED BY <1>8 DEF UniqueIds

(* A score is of its criterion.                                                     *)
LEMMA ScoreNames ==
    ASSUME NEW in, NEW m, NEW c
    PROVE  score_component(in, m, c).id = c.id
<1> DEFINE found == field_state(in, m.facts, c.field)
           late == IF found.untimed THEN {"EVIDENCE_TIME"} ELSE {}
           values == {normalization_value(in, c, v) : v \in found.values}
           low == CHOOSE v \in values : \A w \in values : v <= w
           high == CHOOSE v \in values : \A w \in values : v >= w
           out == outcome_score(in, m, c)
<1>1. score_component(in, m, c)
        = IF c.kind = "OUTCOME_RATE" THEN [out EXCEPT !.reasons = @ \cup late]
          ELSE IF found.state = "ACCEPTABLE" /\ values # {}
          THEN Score(c, low, high, found.state, found.ev, FALSE, late)
          ELSE Unproven(c, found.state, found.ev, late)
  BY DEF score_component
<1>4. out.id = c.id /\ "id" \in DOMAIN out
  <2> DEFINE observed == {o \in in.outcomes : /\ o.subject = m.subject /\ o.criterion = c.id
                                              /\ o.sources \subseteq active_source_ids(in)}
             o == Only(observed)
             seen == {assessment(in, e, c.field) : e \in o.ev}
             state == StrongestState({x.state : x \in seen})
             untimed == IF \E x \in seen : x.age = {} THEN {"EVIDENCE_TIME"} ELSE {}
             s1 == Score(c, Only(c.prior), Only(c.prior), "UNKNOWN", {}, TRUE, {})
             s2 == Score(c, o.value, o.value, state, o.ev, FALSE, untimed)
             s3 == Unproven(c, state, o.ev, untimed)
  <2>1. out = IF observed = {} THEN s1 ELSE IF state = "ACCEPTABLE" THEN s2 ELSE s3
    BY DEF outcome_score
  <2> HIDE DEF o, state, observed, untimed
  <2>2. /\ s1.id = c.id /\ "id" \in DOMAIN s1 /\ s2.id = c.id /\ "id" \in DOMAIN s2
        /\ s3.id = c.id /\ "id" \in DOMAIN s3
    BY DEF Score, Unproven
  <2> HIDE DEF s1, s2, s3, out
  <2> QED BY <2>1, <2>2
<1> DEFINE t1 == [out EXCEPT !.reasons = @ \cup late]
           t2 == Score(c, low, high, found.state, found.ev, FALSE, late)
           t3 == Unproven(c, found.state, found.ev, late)
<1>5. score_component(in, m, c)
        = IF c.kind = "OUTCOME_RATE" THEN t1
          ELSE IF found.state = "ACCEPTABLE" /\ values # {} THEN t2 ELSE t3
  BY <1>1, Zenon
<1> HIDE DEF out, low, high, found, late, values
<1>6. t1.id = c.id
  BY <1>4
<1>7. t2.id = c.id /\ t3.id = c.id
  BY DEF Score, Unproven
<1> HIDE DEF t1, t2, t3
<1> QED BY <1>5, <1>6, <1>7

(* A plan has one score for a criterion.                                            *)
LEMMA ScoresUnique ==
    ASSUME NEW in, UniqueIds(in.preferences), NEW m
    PROVE  UniqueIds(ScoresOf(in, m))
<1> DEFINE S(c) == score_component(in, m, c)
<1>1. \A c : S(c).id = c.id
  BY ScoreNames
<1>2. \A x \in ScoresOf(in, m) : \E c \in in.preferences : x = S(c)
  BY DEF ScoresOf, Applicable
<1> HIDE DEF S
<1> QED BY <1>1, <1>2 DEF UniqueIds

(* A material has one cost or none, and lists each component once.                   *)
LEMMA MaterialsSingle ==
    ASSUME NEW in, FrozenRecords(in), decision_graph_input(in), NEW m \in materials(in, recall_and_deduplicate(in))
    PROVE  Optional(m.cost.bounds) /\ Distinct(m.components)
<1> DEFINE reps == recall_and_deduplicate(in)
<1>1. IsFiniteSet(reps) /\ \A r \in reps : RepTyped(r)
  BY RepsShape
<1> HIDE DEF reps
<1>2. ASSUME NEW r \in reps, m = pack_material(in, reps, r) PROVE Optional(m.cost.bounds) /\ Distinct(m.components)
  <2> DEFINE walked == closure(reps, r)
             records == {IF n = r.product THEN r ELSE Only(ByProduct(reps, n)) : n \in Range(walked.order)}
  <2>1. m.components = walked.order /\ m.cost = combined_cost(in, records).cost
    BY <1>2 DEF pack_material
  <2>2. Distinct(walked.order)
    BY <1>1, ClosureEnds DEF WalkStates, WalkInv, WalkOnce
  <2> HIDE DEF walked, records
  <2>3. Optional(combined_cost(in, records).cost.bounds)
    <3> DEFINE offered == {x \in records : x.offer \in DOMAIN in.offers}
               cost(x) == in.offers[x.offer]
               bounded == offered = records /\ \A x \in records : cost(x).bounds # {}
               bound(x) == Only(cost(x).bounds)
               total == [low |-> SumFunction([x \in records |-> bound(x).low]),
                         base |-> SumFunction([x \in records |-> bound(x).base]),
                         high |-> SumFunction([x \in records |-> bound(x).high])]
    <3>1. combined_cost(in, records).cost.bounds = IF bounded THEN {total} ELSE {}
      BY DEF combined_cost
    <3> HIDE DEF bounded, total
    <3> QED BY <3>1, AtMostOne
  <2> QED BY <2>1, <2>2, <2>3
<1>3. ASSUME NEW a \in in.actions, m = current_material(a) PROVE Optional(m.cost.bounds) /\ Distinct(m.components)
  <2>1. m.cost = a.cost /\ m.components = <<a.instance>>
    BY <1>3 DEF current_material
  <2>2. Optional(a.cost.bounds)
    BY DEF decision_graph_input, current_action_record, offer_cost
  <2> DEFINE x == a.instance
  <2>3. m.components = <<x>>
    BY <2>1
  <2> HIDE DEF x
  <2>4. Distinct(m.components)
    BY <2>3 DEF Distinct
  <2> QED BY <2>1, <2>2, <2>4
<1> QED BY <1>2, <1>3 DEF materials, reps

\* What the rows of a plan need of it.
PlanSound(in, p) ==
    /\ p.action \in Actions /\ p.status \in Statuses
    /\ p.lifecycle \in {"CANDIDATE", "RESOLUTION_PENDING", "EXECUTABLE", "BLOCKED"}
    /\ \A g \in p.gates : g.truth \in Truths /\ g.reasons \subseteq Statuses
    /\ UniqueIds(p.gates)
    /\ Optional(p.dimensions.preference) /\ Optional(p.dimensions.risk) /\ Optional(p.dimensions.cost)
    /\ \A b \in p.dimensions.risk : risk_bounds_record(b)
    /\ \A s \in p.dimensions.scores : ScoreTyped(in, s)
    /\ UniqueIds(p.dimensions.scores)
    /\ p.components \in Seq(Nat) /\ Distinct(p.components)

(* Every plan of an evaluation is fit for its rows.                                  *)
LEMMA PlansAreRows ==
    ASSUME NEW in, NEW e, Tellable(in, e), NEW p \in e.plans
    PROVE  PlanSound(in, p)
<1>1. PICK m \in materials(in, recall_and_deduplicate(in)) : BuiltOf(in, m, p)
  BY PlansBuilt DEF Tellable
<1>2. MaterialTyped(m) /\ Optional(m.cost.bounds) /\ Distinct(m.components)
  BY MaterialsShape, MaterialsSingle DEF Tellable
<1> DEFINE pairs == PairsOf(in)
           gates == evaluate_gates(in, m, pairs)
           scores == ScoresOf(in, m)
           preference == aggregate_preference_bounds(in, scores)
           risk == risk_bounds(in, m)
           coverage == coverage_bounds(in, m, scores)
           age == material_age(in, m, scores, pairs)
           d == Dimensions(m, scores, preference, risk, coverage, age, gates)
<1>3. /\ p.action = m.action /\ p.components = m.components /\ p.gates = gates
      /\ p.status = primary_status(gates) /\ p.lifecycle \in {"RESOLUTION_PENDING", "EXECUTABLE", "BLOCKED"}
  BY <1>1 DEF BuiltOf
<1>4. p.dimensions = d
  <2>1. p.dimensions = material_dimensions(in, m, gates, pairs)
    BY <1>1 DEF BuiltOf
  <2>2. material_dimensions(in, m, gates, pairs) = d
    BY DEF material_dimensions, Scored, ScoresOf
  <2> QED BY <2>1, <2>2
<1>5. d.scores = scores /\ d.preference = preference /\ d.risk = risk.bounds /\ d.cost = m.cost.bounds
  BY DEF Dimensions
<1>6. \A x \in gates : x.reasons \subseteq Blocking /\ x.truth \in Truths
  BY GateReasons DEF Tellable
<1>7. UniqueIds(gates)
  BY GatesUnique DEF Tellable, decision_graph_input
<1>8. IsFiniteSet(scores) /\ (\A s \in scores : ScoreTyped(in, s)) /\ UniqueIds(scores)
  BY ScoresOfTyped, ScoresUnique DEF Tellable, decision_graph_input
<1>9. Cardinality(preference) <= 1
  BY <1>8, PreferenceTyped DEF Tellable
<1>10. (\A b \in risk.bounds : risk_bounds_record(b)) /\ Cardinality(risk.bounds) <= 1
  BY RiskTyped DEF Tellable
<1> HIDE DEF gates, scores, preference, risk, d
<1>11. primary_status(gates) \in Statuses /\ Blocking \subseteq Statuses
  BY <1>6, StatusKnown
<1>12. \A g \in gates : g.truth \in Truths /\ g.reasons \subseteq Statuses
  BY <1>6, <1>11
<1>13. p.action \in Actions /\ p.components \in Seq(Nat)
  BY <1>2, <1>3 DEF MaterialTyped
<1>14. Optional(p.dimensions.preference) /\ Optional(p.dimensions.risk) /\ Optional(p.dimensions.cost)
  BY <1>2, <1>4, <1>5, <1>9, <1>10 DEF Optional
<1> QED BY <1>2, <1>3, <1>4, <1>5, <1>7, <1>8, <1>10, <1>11, <1>12, <1>13, <1>14 DEF PlanSound

(* The plans of a tellable evaluation have one id each.                             *)
LEMMA IdsApart ==
    ASSUME NEW in, NEW e, Tellable(in, e)
    PROVE  \A p, q \in e.plans : p.ids = q.ids => p = q
  BY DEF Tellable, RowsRaise

(* The verdict is one of three.                                                     *)
LEMMA RunRow ==
    ASSUME NEW in, NEW e, Tellable(in, e)
    PROVE  e.stability \in {"STABLE", "UNSTABLE", "UNDETERMINED"}
<1> DEFINE Q == build_solution_plans(in)
           ranked == RankedPlans(Q)
           s == Bounded(ranked[1])
           C == Competitors({p \in Q : p.status \in Eligible}, ranked[1])
<1>1. \A p \in Q : PlanLike(p)
  BY PlansTyped DEF Tellable
<1>2. e = rank_and_frontiers(Q)
  BY DEF Tellable
<1> HIDE DEF Q
<1>3. e.stability = "UNDETERMINED" \/ e.stability = assess_rank_stability(s, C).status
  BY <1>1, <1>2, RankingParts
<1> HIDE DEF s, C
<1>4. assess_rank_stability(s, C).status \in {"STABLE", "UNSTABLE", "UNDETERMINED"}
  BY DEF assess_rank_stability
<1> QED BY <1>3, <1>4

(* The row of a plan.                                                               *)
LEMMA PlanRows ==
    ASSUME NEW in, NEW e, Tellable(in, e), NEW w, w.plans = solution_plan_records(e)
    PROVE  evaluation_solution_plans(w)
<1> DEFINE rank(p) == {i \in 1..Len(e.ranked) : e.ranked[i] = p.ids}
           made(p) == [ids |-> p.ids, rank |-> rank(p), selected |-> p.ids \in e.selected, status |-> p.status,
                       lifecycle |-> p.lifecycle, action |-> p.action, quote |-> p.quote,
                       autonomous |-> p.autonomous]
<1>1. w.plans = {made(p) : p \in e.plans}
  BY DEF solution_plan_records
<1>2. \A p : /\ made(p).ids = p.ids /\ made(p).rank = rank(p) /\ made(p).status = p.status
             /\ made(p).lifecycle = p.lifecycle /\ made(p).action = p.action
  OBVIOUS
<1>3. RanksTell(e)
  BY RanksHold
<1>4. ASSUME NEW p PROVE Optional(rank(p)) /\ \A i \in rank(p) : i >= 1
  <2>1. \A i \in rank(p) : i >= 1
    BY <1>3 DEF RanksTell
  <2>2. \A i, j \in rank(p) : i = j
    BY <1>3 DEF RanksTell
  <2> HIDE DEF rank
  <2> QED BY <2>1, <2>2, AtMostOne
<1>5. \A p \in e.plans : PlanSound(in, p)
  BY PlansAreRows
<1>6. \A p, q \in e.plans : p.ids = q.ids => p = q
  BY IdsApart
<1> HIDE DEF made, rank
<1>7. \A x \in w.plans : /\ x.action \in Actions /\ x.status \in Statuses
                         /\ x.lifecycle \in {"CANDIDATE", "RESOLUTION_PENDING", "EXECUTABLE", "BLOCKED"}
                         /\ Optional(x.rank) /\ \A i \in x.rank : i >= 1
  BY <1>1, <1>2, <1>4, <1>5 DEF PlanSound
<1>8. \A x, y \in w.plans : x.ids = y.ids => x = y
  BY <1>1, <1>2, <1>6
<1> QED BY <1>7, <1>8 DEF evaluation_solution_plans, Unique

(* The row of an assessed pair.                                                     *)
LEMMA EvidenceRows ==
    ASSUME NEW in, NEW e, Tellable(in, e), NEW w, w.evidence = evidence_assessments(in)
    PROVE  evidence_assessment_records(w)
<1> DEFINE pairs == EvidencePairs(in, recall_and_deduplicate(in))
           made(a, b) == [ev |-> a, field |-> b, state |-> assessment(in, a, b).state,
                          age |-> assessment(in, a, b).age]
<1>1. w.evidence = {made(p[1], p[2]) : p \in pairs}
  BY DEF evidence_assessments
<1>2. \A a, b : made(a, b).ev = a /\ made(a, b).field = b /\ made(a, b).state = assessment(in, a, b).state
  OBVIOUS
<1>3. \A p \in pairs : p[2] \in DOMAIN in.policies
  BY WellFormed DEF Tellable
<1>4. \A p \in pairs : assessment(in, p[1], p[2]).state \in EvidenceStates
  BY <1>3, AgesTyped DEF Tellable
<1> HIDE DEF made, pairs
<1>5. \A x \in w.evidence : x.state \in EvidenceStates
  BY <1>1, <1>2, <1>4
<1>6. \A x \in w.evidence : x = made(x.ev, x.field)
  BY <1>1, <1>2
<1>7. \A x, y \in w.evidence : <<x.ev, x.field>> = <<y.ev, y.field>> => x = y
  <2> SUFFICES ASSUME NEW x \in w.evidence, NEW y \in w.evidence, <<x.ev, x.field>> = <<y.ev, y.field>>
               PROVE  x = y
    OBVIOUS
  <2>1. x.ev = y.ev /\ x.field = y.field
    OBVIOUS
  <2>2. x = made(x.ev, x.field) /\ y = made(y.ev, y.field)
    BY <1>6
  <2> QED BY <2>1, <2>2, Zenon
<1> QED BY <1>5, <1>7 DEF evidence_assessment_records, Unique

(* The row of a candidate and that of a current action.                             *)
LEMMA MemberRows ==
    ASSUME NEW in, NEW e, Tellable(in, e), ~MembersRaise(in), NEW w, w.members = candidate_members(in)
    PROVE  candidate_set_members(w)
<1> DEFINE pack(r) == [record |-> r.id, identity |-> identity_key(in, r), disposition |-> disposition(in, r),
                       kind |-> "PACK", version |-> {r.version}]
           own(a) == [record |-> a.id, identity |-> <<a.instance>>, disposition |-> "INCLUDED",
                      kind |-> MemberKind(a), version |-> {}]
           Kinds == {"PACK", "CURRENT_STACK", "CONTRACT_ACTION", "NO_ACTION"}
           Dispositions == {"INCLUDED", "EXCLUDED", "DEDUPLICATED"}
<1>1. w.members = {pack(r) : r \in in.candidates} \cup {own(a) : a \in in.actions}
  BY DEF candidate_members
<1>2. \A r : /\ pack(r).record = r.id /\ pack(r).disposition = disposition(in, r) /\ pack(r).kind = "PACK"
             /\ pack(r).version = {r.version}
  OBVIOUS
<1>3. \A a : /\ own(a).record = a.id /\ own(a).disposition = "INCLUDED" /\ own(a).kind = MemberKind(a)
             /\ own(a).version = {}
  OBVIOUS
<1>4. \A r : disposition(in, r) \in Dispositions
  BY DEF disposition
<1>5. \A a : MemberKind(a) \in Kinds
  BY DEF MemberKind
<1>6. /\ \A r \in in.candidates : r.version >= 1
      /\ \A r, s \in in.candidates : r.id = s.id => r = s
      /\ \A a, b \in in.actions : a.id = b.id => a = b
      /\ \A r \in in.candidates, a \in in.actions : r.id # a.id
  BY DEF Tellable, decision_graph_input, raw_candidate_record, UniqueIds, MembersRaise
<1>7. "PACK" \in Kinds /\ "INCLUDED" \in Dispositions
  OBVIOUS
<1> HIDE DEF pack, own, Kinds, Dispositions
<1>8. \A m \in w.members : (\E r \in in.candidates : m = pack(r)) \/ (\E a \in in.actions : m = own(a))
  BY <1>1
<1>9. \A m \in w.members : /\ m.disposition \in Dispositions /\ m.kind \in Kinds
                           /\ \A v \in m.version : v >= 1
  <2> SUFFICES ASSUME NEW m \in w.members
               PROVE  m.disposition \in Dispositions /\ m.kind \in Kinds /\ \A v \in m.version : v >= 1
    OBVIOUS
  <2>1. ASSUME NEW r \in in.candidates, m = pack(r)
        PROVE  m.disposition \in Dispositions /\ m.kind \in Kinds /\ \A v \in m.version : v >= 1
    <3>1. m.disposition \in Dispositions /\ m.kind \in Kinds
      BY <2>1, <1>2, <1>4, <1>7
    <3>2. m.version = {r.version} /\ r.version >= 1
      BY <2>1, <1>2, <1>6
    <3> QED BY <3>1, <3>2
  <2>2. ASSUME NEW a \in in.actions, m = own(a)
        PROVE  m.disposition \in Dispositions /\ m.kind \in Kinds /\ \A v \in m.version : v >= 1
    BY <2>2, <1>3, <1>5, <1>7
  <2> QED BY <2>1, <2>2, <1>8
<1>10. ASSUME NEW m \in w.members, NEW n \in w.members, m.record = n.record PROVE m = n
  <2>1. /\ \A r : pack(r).record = r.id
        /\ \A a : own(a).record = a.id
    BY <1>2, <1>3
  <2>2. ASSUME NEW r \in in.candidates, m = pack(r), NEW s \in in.candidates, n = pack(s) PROVE m = n
    <3>1. r.id = s.id
      BY <1>10, <2>1, <2>2
    <3>2. r = s
      BY <1>6, <3>1
    <3> QED BY <2>2, <3>2
  <2>3. ASSUME NEW a \in in.actions, m = own(a), NEW b \in in.actions, n = own(b) PROVE m = n
    <3>1. a.id = b.id
      BY <1>10, <2>1, <2>3
    <3>2. a = b
      BY <1>6, <3>1
    <3> QED BY <2>3, <3>2
  <2>4. ASSUME NEW r \in in.candidates, m = pack(r), NEW a \in in.actions, n = own(a) PROVE FALSE
    <3>1. r.id = a.id
      BY <1>10, <2>1, <2>4
    <3> QED BY <1>6, <3>1
  <2>5. ASSUME NEW r \in in.candidates, n = pack(r), NEW a \in in.actions, m = own(a) PROVE FALSE
    <3>1. r.id = a.id
      BY <1>10, <2>1, <2>5
    <3> QED BY <1>6, <3>1
  <2> QED BY <1>8, <2>2, <2>3, <2>4, <2>5
<1> QED BY <1>9, <1>10 DEF candidate_set_members, Unique, Kinds, Dispositions

(* The row of a gate result.                                                        *)
LEMMA GateRows ==
    ASSUME NEW in, NEW e, Tellable(in, e), NEW w, w.gates = gate_results(e)
    PROVE  decision_gate_results(w)
<1> DEFINE made(p, g) == [ids |-> p.ids, gate |-> g.id, truth |-> g.truth, reasons |-> g.reasons]
<1>1. w.gates = UNION {{made(p, g) : g \in p.gates} : p \in e.plans}
  BY DEF gate_results
<1>2. \A p, g : /\ made(p, g).ids = p.ids /\ made(p, g).gate = g.id /\ made(p, g).truth = g.truth
                /\ made(p, g).reasons = g.reasons
  OBVIOUS
<1>3. \A p \in e.plans : PlanSound(in, p)
  BY PlansAreRows
<1>4. \A p, q \in e.plans : p.ids = q.ids => p = q
  BY IdsApart
<1> HIDE DEF made
<1>5. \A x \in w.gates : \E p \in e.plans : \E g \in p.gates : x = made(p, g)
  BY <1>1
<1>6. \A x \in w.gates : x.truth \in Truths /\ x.reasons \subseteq Statuses
  BY <1>2, <1>3, <1>5 DEF PlanSound
<1>7. ASSUME NEW x \in w.gates, NEW y \in w.gates, <<x.ids, x.gate>> = <<y.ids, y.gate>> PROVE x = y
  <2>1. PICK p \in e.plans : \E g \in p.gates : x = made(p, g)
    BY <1>5
  <2>2. PICK q \in e.plans : \E h \in q.gates : y = made(q, h)
    BY <1>5
  <2>3. x.ids = y.ids /\ x.gate = y.gate
    BY <1>7
  <2>4. p = q
    BY <1>2, <1>4, <2>1, <2>2, <2>3
  <2>5. PICK g \in p.gates : x = made(p, g)
    BY <2>1
  <2>6. PICK h \in p.gates : y = made(p, h)
    BY <2>2, <2>4
  <2>7. g = h
    BY <1>2, <1>3, <2>3, <2>5, <2>6 DEF PlanSound, UniqueIds
  <2> QED BY <2>5, <2>6, <2>7
<1> QED BY <1>6, <1>7 DEF decision_gate_results, Unique

(* The row of a merged record.                                                      *)
LEMMA MergeRows ==
    ASSUME NEW in, NEW e, Tellable(in, e), NEW w, w.merges = identity_merges(in)
    PROVE  identity_merge_records(w)
<1> DEFINE made(r) == [record |-> r.id, identity |-> identity_key(in, r)]
           merged == {r \in in.candidates : disposition(in, r) = "DEDUPLICATED"}
<1>1. w.merges = {made(r) : r \in merged}
  BY DEF identity_merges
<1>2. \A r : made(r).record = r.id
  OBVIOUS
<1>3. \A r, s \in merged : r.id = s.id => r = s
  BY DEF Tellable, decision_graph_input, UniqueIds
<1> HIDE DEF made, merged
<1>4. \A m, n \in w.merges : m.record = n.record => m = n
  BY <1>1, <1>2, <1>3
<1> QED BY <1>4 DEF identity_merge_records, Unique

(* The frontier rows of a plan, one of each kind.                                   *)
LEMMA FrontierRows ==
    ASSUME NEW in, NEW e, Tellable(in, e), NEW w, w.frontiers = robustness_frontiers(e)
    PROVE  robustness_frontier_records(w)
<1> DEFINE ordering(p) == ordering_frontier(e, p)
           resolution(p) == [ids |-> p.ids, kind |-> "RESOLUTION", member |-> p.pending, beats |-> {}]
           missing(p) == [ids |-> p.ids, kind |-> "BOUND_UNAVAILABLE", member |-> p.ids \in e.unavailable,
                          beats |-> {}]
<1>1. w.frontiers = UNION {{ordering(p), resolution(p), missing(p)} : p \in e.plans}
  BY DEF robustness_frontiers
<1>2. \A p : /\ ordering(p).ids = p.ids /\ ordering(p).kind = "ORDERING"
             /\ resolution(p).ids = p.ids /\ resolution(p).kind = "RESOLUTION"
             /\ missing(p).ids = p.ids /\ missing(p).kind = "BOUND_UNAVAILABLE"
  BY DEF ordering_frontier
<1>3. \A p, q \in e.plans : p.ids = q.ids => p = q
  BY IdsApart
<1> HIDE DEF ordering, resolution, missing
<1>4. \A f \in w.frontiers : \E p \in e.plans : f \in {ordering(p), resolution(p), missing(p)}
  BY <1>1
<1>5. ASSUME NEW f \in w.frontiers, NEW g \in w.frontiers, <<f.ids, f.kind>> = <<g.ids, g.kind>> PROVE f = g
  <2>1. PICK p \in e.plans : f \in {ordering(p), resolution(p), missing(p)}
    BY <1>4
  <2>2. PICK q \in e.plans : g \in {ordering(q), resolution(q), missing(q)}
    BY <1>4
  <2>3. f.ids = g.ids /\ f.kind = g.kind
    BY <1>5
  <2>4. p = q
    BY <1>2, <1>3, <2>1, <2>2, <2>3
  <2>5. g \in {ordering(p), resolution(p), missing(p)}
    BY <2>2, <2>4
  <2> QED BY <1>2, <2>1, <2>3, <2>5
<1> QED BY <1>5 DEF robustness_frontier_records, Unique

(* The bound rows of a plan, one of each dimension.                                 *)
LEMMA BoundRows ==
    ASSUME NEW in, NEW e, Tellable(in, e), NEW w, w.bounds = score_bounds(e)
    PROVE  score_bound_records(w)
<1> DEFINE values(p) ==
               [PREFERENCE |-> p.dimensions.preference, STACK_RISK |-> p.dimensions.risk, TCO |-> p.dimensions.cost,
                DECISION_MATERIAL_COVERAGE |-> {p.dimensions.coverage}, EVIDENCE_AGE |-> {p.dimensions.age},
                HARD_COVERAGE |-> {p.dimensions.hard}]
           Names == {"PREFERENCE", "STACK_RISK", "TCO", "DECISION_MATERIAL_COVERAGE", "EVIDENCE_AGE", "HARD_COVERAGE"}
           made(p, n) == score_bound(p, n, values(p)[n])
<1>1. \A b \in w.bounds : \E p \in e.plans : \E n \in Names : b = made(p, n)
  <2> DEFINE six(p) == {score_bound(p, "PREFERENCE", p.dimensions.preference),
                        score_bound(p, "STACK_RISK", p.dimensions.risk),
                        score_bound(p, "TCO", p.dimensions.cost),
                        score_bound(p, "DECISION_MATERIAL_COVERAGE", {p.dimensions.coverage}),
                        score_bound(p, "EVIDENCE_AGE", {p.dimensions.age}),
                        score_bound(p, "HARD_COVERAGE", {p.dimensions.hard})}
  <2>1. w.bounds = UNION {six(p) : p \in e.plans}
    BY DEF score_bounds
  <2>2. ASSUME NEW p, NEW b \in six(p) PROVE \E n \in Names : b = made(p, n)
    <3>1. /\ made(p, "PREFERENCE") = score_bound(p, "PREFERENCE", p.dimensions.preference)
          /\ made(p, "STACK_RISK") = score_bound(p, "STACK_RISK", p.dimensions.risk)
          /\ made(p, "TCO") = score_bound(p, "TCO", p.dimensions.cost)
          /\ made(p, "DECISION_MATERIAL_COVERAGE")
                = score_bound(p, "DECISION_MATERIAL_COVERAGE", {p.dimensions.coverage})
          /\ made(p, "EVIDENCE_AGE") = score_bound(p, "EVIDENCE_AGE", {p.dimensions.age})
          /\ made(p, "HARD_COVERAGE") = score_bound(p, "HARD_COVERAGE", {p.dimensions.hard})
      OBVIOUS
    <3>2. {"PREFERENCE", "STACK_RISK", "TCO", "DECISION_MATERIAL_COVERAGE", "EVIDENCE_AGE", "HARD_COVERAGE"}
            \subseteq Names
      OBVIOUS
    <3> HIDE DEF made, Names
    <3> QED BY <2>2, <3>1, <3>2
  <2> HIDE DEF six, made, Names
  <2> QED BY <2>1, <2>2
<1>2. \A p, n : /\ made(p, n).ids = p.ids /\ made(p, n).dimension = n /\ made(p, n).values = values(p)[n]
                /\ made(p, n).reasoned = (values(p)[n] = {})
  <2> HIDE DEF values
  <2> QED BY DEF score_bound
<1>3. ASSUME NEW p \in e.plans, NEW n \in Names
      PROVE  Optional(values(p)[n]) /\ (n = "STACK_RISK" => \A v \in values(p)[n] : risk_bounds_record(v))
  <2>1. PlanSound(in, p)
    BY PlansAreRows
  <2>2. Optional({p.dimensions.coverage}) /\ Optional({p.dimensions.age}) /\ Optional({p.dimensions.hard})
    BY AtMostOne
  <2>3. /\ Optional(p.dimensions.preference) /\ Optional(p.dimensions.risk) /\ Optional(p.dimensions.cost)
        /\ \A v \in p.dimensions.risk : risk_bounds_record(v)
    BY <2>1 DEF PlanSound
  <2>4. /\ values(p)["PREFERENCE"] = p.dimensions.preference /\ values(p)["STACK_RISK"] = p.dimensions.risk
        /\ values(p)["TCO"] = p.dimensions.cost
        /\ values(p)["DECISION_MATERIAL_COVERAGE"] = {p.dimensions.coverage}
        /\ values(p)["EVIDENCE_AGE"] = {p.dimensions.age} /\ values(p)["HARD_COVERAGE"] = {p.dimensions.hard}
    OBVIOUS
  <2> HIDE DEF values
  <2> QED BY <2>2, <2>3, <2>4
<1>4. \A p, q \in e.plans : p.ids = q.ids => p = q
  BY IdsApart
<1> HIDE DEF made, values, Names
<1>5. \A b \in w.bounds : /\ Optional(b.values) /\ (b.values = {} <=> b.reasoned)
                          /\ b.dimension = "STACK_RISK" => \A v \in b.values : risk_bounds_record(v)
  <2> SUFFICES ASSUME NEW b \in w.bounds
               PROVE  /\ Optional(b.values) /\ (b.values = {} <=> b.reasoned)
                      /\ b.dimension = "STACK_RISK" => \A v \in b.values : risk_bounds_record(v)
    OBVIOUS
  <2>1. PICK p \in e.plans : \E n \in Names : b = made(p, n)
    BY <1>1
  <2>2. PICK n \in Names : b = made(p, n)
    BY <2>1
  <2>3. b.dimension = n /\ b.values = values(p)[n] /\ b.reasoned = (values(p)[n] = {})
    BY <1>2, <2>2
  <2> QED BY <1>3, <2>3
<1>6. ASSUME NEW b \in w.bounds, NEW c \in w.bounds, <<b.ids, b.dimension>> = <<c.ids, c.dimension>> PROVE b = c
  <2>1. PICK p \in e.plans : \E n \in Names : b = made(p, n)
    BY <1>1
  <2>2. PICK q \in e.plans : \E n \in Names : c = made(q, n)
    BY <1>1
  <2>3. b.ids = c.ids /\ b.dimension = c.dimension
    BY <1>6
  <2>4. p = q
    BY <1>2, <1>4, <2>1, <2>2, <2>3
  <2>5. b = made(p, b.dimension) /\ c = made(p, c.dimension)
    BY <1>2, <2>1, <2>2, <2>4
  <2> QED BY <2>3, <2>5, Zenon
<1> QED BY <1>5, <1>6 DEF score_bound_records, Unique

(* The score rows of a plan, one of each criterion.                                 *)
LEMMA ScoreRows ==
    ASSUME NEW in, NEW e, Tellable(in, e), NEW w, w.scores = score_component_rows(in, e)
    PROVE  score_component_records(in, w)
<1> DEFINE cover(n) == Only({c \in in.preferences : c.id = n}).coverage
           made(p, s) == [ids |-> p.ids, criterion |-> s.id, weight |-> s.weight, low |-> s.low, high |-> s.high,
                          coverage |-> cover(s.id), state |-> s.state]
<1>1. w.scores = UNION {{made(p, s) : s \in p.dimensions.scores} : p \in e.plans}
  BY DEF score_component_rows
<1>2. \A p, s : /\ made(p, s).ids = p.ids /\ made(p, s).criterion = s.id /\ made(p, s).weight = s.weight
                /\ made(p, s).low = s.low /\ made(p, s).high = s.high /\ made(p, s).coverage = cover(s.id)
                /\ made(p, s).state = s.state
  OBVIOUS
<1>3. \A p \in e.plans : UniqueIds(p.dimensions.scores) /\ \A s \in p.dimensions.scores : ScoreTyped(in, s)
  BY PlansAreRows DEF PlanSound
<1>4. \A p, q \in e.plans : p.ids = q.ids => p = q
  BY IdsApart
<1>5. ASSUME NEW s, ScoreTyped(in, s) PROVE cover(s.id) \in 1..5
  <2>1. PICK c \in in.preferences : c.id = s.id
    BY <1>5 DEF ScoreTyped
  <2>2. Only({d \in in.preferences : d.id = s.id}) \in in.preferences
    BY <2>1 DEF Only
  <2>3. \A d \in in.preferences : d.coverage \in 1..5
    BY CriterionShape DEF Tellable
  <2> QED BY <2>2, <2>3
<1> HIDE DEF made, cover
<1>6. \A x \in w.scores : \E p \in e.plans : \E s \in p.dimensions.scores : x = made(p, s)
  BY <1>1
<1>7. \A x \in w.scores : /\ {x.low, x.high} \subseteq 0..in.unit
                          /\ {x.weight, x.coverage} \subseteq 1..5 /\ x.state \in EvidenceStates
  <2> SUFFICES ASSUME NEW x \in w.scores
               PROVE  /\ {x.low, x.high} \subseteq 0..in.unit
                      /\ {x.weight, x.coverage} \subseteq 1..5 /\ x.state \in EvidenceStates
    OBVIOUS
  <2>1. PICK p \in e.plans : \E s \in p.dimensions.scores : x = made(p, s)
    BY <1>6
  <2>2. PICK s \in p.dimensions.scores : x = made(p, s)
    BY <2>1
  <2>3. ScoreTyped(in, s) /\ cover(s.id) \in 1..5
    BY <1>3, <1>5
  <2>4. x.low \in 0..in.unit /\ x.high \in 0..in.unit /\ x.weight \in 1..5 /\ x.coverage \in 1..5
        /\ x.state \in EvidenceStates
    BY <1>2, <2>2, <2>3 DEF ScoreTyped
  <2> QED BY <2>4
<1>8. ASSUME NEW x \in w.scores, NEW y \in w.scores, <<x.ids, x.criterion>> = <<y.ids, y.criterion>> PROVE x = y
  <2>1. PICK p \in e.plans : \E s \in p.dimensions.scores : x = made(p, s)
    BY <1>6
  <2>2. PICK q \in e.plans : \E s \in q.dimensions.scores : y = made(q, s)
    BY <1>6
  <2>3. x.ids = y.ids /\ x.criterion = y.criterion
    BY <1>8
  <2>4. p = q
    BY <1>2, <1>4, <2>1, <2>2, <2>3
  <2>5. PICK s \in p.dimensions.scores : x = made(p, s)
    BY <2>1
  <2>6. PICK t \in p.dimensions.scores : y = made(p, t)
    BY <2>2, <2>4
  <2>7. s = t
    BY <1>2, <1>3, <2>3, <2>5, <2>6 DEF UniqueIds
  <2> QED BY <2>5, <2>6, <2>7
<1> QED BY <1>7, <1>8 DEF score_component_records, Unique

(* The component rows of a plan, one of each component and one of each place.       *)
LEMMA ComponentRows ==
    ASSUME NEW in, NEW e, Tellable(in, e), NEW w, w.components = plan_components(in, e)
    PROVE  solution_plan_components(w)
<1> DEFINE made(p, i) == [ids |-> p.ids, ordinal |-> i, component |-> p.components[i],
                          source |-> component_source(in, p, p.components[i])]
<1>1. w.components = UNION {{made(p, i) : i \in 1..Len(p.components)} : p \in e.plans}
  BY DEF plan_components
<1>2. \A p, i : made(p, i).ids = p.ids /\ made(p, i).ordinal = i /\ made(p, i).component = p.components[i]
  OBVIOUS
<1>3. \A p \in e.plans : Distinct(p.components)
  BY PlansAreRows DEF PlanSound
<1>4. \A p, q \in e.plans : p.ids = q.ids => p = q
  BY IdsApart
<1> HIDE DEF made
<1>5. \A x \in w.components : \E p \in e.plans : \E i \in 1..Len(p.components) : x = made(p, i)
  BY <1>1
<1>6. ASSUME NEW x \in w.components, NEW y \in w.components, x.ids = y.ids,
             x.component = y.component \/ x.ordinal = y.ordinal
      PROVE  x = y
  <2>1. PICK p \in e.plans : \E i \in 1..Len(p.components) : x = made(p, i)
    BY <1>5
  <2>2. PICK q \in e.plans : \E i \in 1..Len(q.components) : y = made(q, i)
    BY <1>5
  <2>3. p = q
    BY <1>2, <1>4, <1>6, <2>1, <2>2
  <2>4. PICK i \in 1..Len(p.components) : x = made(p, i)
    BY <2>1
  <2>5. PICK j \in 1..Len(p.components) : y = made(p, j)
    BY <2>2, <2>3
  <2>6. i = j
    BY <1>2, <1>3, <1>6, <2>4, <2>5 DEF Distinct
  <2> QED BY <2>4, <2>5, <2>6
<1>7. \A x, y \in w.components : <<x.ids, x.component>> = <<y.ids, y.component>> => x = y
  BY <1>6
<1>8. \A x, y \in w.components : <<x.ids, x.ordinal>> = <<y.ids, y.ordinal>> => x = y
  BY <1>6
<1> QED BY <1>7, <1>8 DEF solution_plan_components, Unique

(* The rows of an evaluation whose plans and members have one id each fit their      *)
(* tables.                                                                         *)
LEMMA RowsFit ==
    ASSUME NEW in, NEW e, Tellable(in, e), ~MembersRaise(in)
    PROVE  Storable(in, build_evaluation_graph_write(in, e))
<1> DEFINE w == build_evaluation_graph_write(in, e)
<1>1. /\ w.members = candidate_members(in) /\ w.merges = identity_merges(in)
      /\ w.plans = solution_plan_records(e) /\ w.components = plan_components(in, e)
      /\ w.gates = gate_results(e) /\ w.evidence = evidence_assessments(in)
      /\ w.scores = score_component_rows(in, e) /\ w.bounds = score_bounds(e)
      /\ w.frontiers = robustness_frontiers(e) /\ w.stability = e.stability
  BY DEF build_evaluation_graph_write
<1> HIDE DEF w
<1>2. evaluation_runs(w)
  BY <1>1, RunRow DEF evaluation_runs
<1>3. evaluation_solution_plans(w) /\ evidence_assessment_records(w)
  BY <1>1, PlanRows, EvidenceRows
<1>4. candidate_set_members(w) /\ decision_gate_results(w)
  BY <1>1, MemberRows, GateRows
<1>5. identity_merge_records(w) /\ robustness_frontier_records(w)
  BY <1>1, MergeRows, FrontierRows
<1>6. score_bound_records(w) /\ score_component_records(in, w) /\ solution_plan_components(w)
  BY <1>1, BoundRows, ScoreRows, ComponentRows
<1>7. Storable(in, w)
  BY <1>2, <1>3, <1>4, <1>5, <1>6 DEF Storable
<1> QED BY <1>7 DEF w

-----------------------------------------------------------------------------------
(* What the rows tell: a reader finds the pack that stands for each record, what    *)
(* each component is sourced from, the ranks, and what the frontiers allow.         *)

(* A record of the candidates that is recalled and has the least id of its identity   *)
(* is the one included.                                                             *)
LEMMA LeastIncluded ==
    ASSUME NEW in, FrozenRecords(in), NEW r \in recalled(in)
    PROVE  \E s \in Group(in, identity_key(in, r)) :
              /\ \A t \in Group(in, identity_key(in, r)) : s.id <= t.id
              /\ disposition(in, s) = "INCLUDED"
<1> DEFINE G == Group(in, identity_key(in, r))
           ids == {s.id : s \in G}
<1>1. G \subseteq recalled(in) /\ r \in G
  BY DEF Group
<1>2. recalled(in) \subseteq in.candidates
  BY RecalledFinite
<1>3. \A s \in G : s.id \in Nat
  BY <1>1, <1>2, RecordsShape
<1>4. \A s \in G : identity_key(in, s) = identity_key(in, r)
  BY DEF Group
<1>5. \A t \in recalled(in) : identity_key(in, t) = identity_key(in, r) => t \in G
  BY DEF Group
<1> HIDE DEF G
<1>6. ids \in SUBSET Nat /\ ids # {}
  BY <1>1, <1>3
<1>7. PICK i \in ids : \A j \in ids : i <= j
  BY <1>6, LeastId
<1>8. PICK s \in G : s.id = i
  OBVIOUS
<1>9. \A t \in G : s.id <= t.id
  BY <1>7, <1>8
<1>10. recall_exclusion(in, s) = "NONE"
  BY <1>1 DEF recalled
<1>11. ~(\E t \in recalled(in) : identity_key(in, t) = identity_key(in, s) /\ t.id < s.id)
  BY <1>3, <1>4, <1>5, <1>9
<1>12. disposition(in, s) = "INCLUDED"
  BY <1>10, <1>11 DEF disposition
<1> QED BY <1>9, <1>12 DEF G

(* Every identity has one included record.                                          *)
LEMMA OneIncluded ==
    ASSUME NEW in, FrozenRecords(in), UniqueIds(in.candidates), NEW w, w.members = candidate_members(in)
    PROVE  LET packs == {m \in w.members : m.kind = "PACK"}
               included == {m \in w.members : m.disposition = "INCLUDED"}
           IN  \A m \in {m \in packs : m.disposition # "EXCLUDED"} :
                  Cardinality({n \in packs \cap included : n.identity = m.identity}) = 1
<1> DEFINE pack(r) == [record |-> r.id, identity |-> identity_key(in, r), disposition |-> disposition(in, r),
                       kind |-> "PACK", version |-> {r.version}]
           own(a) == [record |-> a.id, identity |-> <<a.instance>>, disposition |-> "INCLUDED",
                      kind |-> MemberKind(a), version |-> {}]
           packs == {m \in w.members : m.kind = "PACK"}
           included == {m \in w.members : m.disposition = "INCLUDED"}
<1>1. w.members = {pack(r) : r \in in.candidates} \cup {own(a) : a \in in.actions}
  BY DEF candidate_members
<1>2. \A r : /\ pack(r).record = r.id /\ pack(r).identity = identity_key(in, r)
             /\ pack(r).disposition = disposition(in, r) /\ pack(r).kind = "PACK"
  OBVIOUS
<1>3. \A a : own(a).kind # "PACK"
  BY DEF MemberKind
<1> HIDE DEF pack, own
<1>4. \A m \in packs : \E r \in in.candidates : m = pack(r)
  BY <1>1, <1>3
<1>5. \A r \in in.candidates : pack(r) \in packs
  BY <1>1, <1>2
<1>6. ASSUME NEW m \in packs, m.disposition # "EXCLUDED"
      PROVE  Cardinality({n \in packs \cap included : n.identity = m.identity}) = 1
  <2>1. PICK r \in in.candidates : m = pack(r)
    BY <1>4
  <2>2. r \in recalled(in)
    <3>1. disposition(in, r) # "EXCLUDED"
      BY <1>2, <1>6, <2>1
    <3> QED BY <3>1 DEF disposition, recalled
  <2>3. PICK s \in Group(in, identity_key(in, r)) : /\ \A t \in Group(in, identity_key(in, r)) : s.id <= t.id
                                                    /\ disposition(in, s) = "INCLUDED"
    BY <2>2, LeastIncluded
  <2>4. s \in recalled(in) /\ s \in in.candidates /\ identity_key(in, s) = identity_key(in, r)
    BY RecalledFinite DEF Group
  <2> DEFINE S == {n \in packs \cap included : n.identity = m.identity}
  <2>5. pack(s) \in S
    BY <1>2, <1>5, <2>1, <2>3, <2>4
  <2>6. ASSUME NEW n \in S PROVE n = pack(s)
    <3>1. PICK t \in in.candidates : n = pack(t)
      BY <1>4
    <3>2. n.disposition = "INCLUDED" /\ n.identity = m.identity
      OBVIOUS
    <3>3. disposition(in, t) = "INCLUDED" /\ identity_key(in, t) = identity_key(in, r)
      BY <1>2, <2>1, <3>1, <3>2
    <3>4. t \in recalled(in) /\ ~(\E x \in recalled(in) : identity_key(in, x) = identity_key(in, t) /\ x.id < t.id)
      BY <3>3 DEF disposition, recalled
    <3>5. t \in Group(in, identity_key(in, r))
      BY <3>3, <3>4 DEF Group
    <3>6. s.id \in Nat /\ t.id \in Nat
      BY <2>4, RecordsShape
    <3>7. s.id = t.id
      BY <2>3, <2>4, <3>3, <3>4, <3>5, <3>6
    <3>8. s = t
      BY <2>4, <3>7 DEF UniqueIds
    <3> QED BY <3>1, <3>8
  <2>7. S = {pack(s)}
    BY <2>5, <2>6
  <2> HIDE DEF S
  <2>8. Cardinality(S) = 1
    BY <2>7, FS_Singleton
  <2> QED BY <2>8 DEF S
<1> QED BY <1>6

(* Every component of a Pack plan is the product of a recalled record.               *)
LEMMA PackIsSourced ==
    ASSUME NEW in, FrozenRecords(in), decision_graph_input(in), NEW root \in recall_and_deduplicate(in),
           NEW m, m = pack_material(in, recall_and_deduplicate(in), root)
    PROVE  /\ m.authority \in DOMAIN AuthorityRank
           /\ \A n \in Range(m.components) : \E r \in recalled(in) : canonical(in, r.product) = n
<1> DEFINE reps == recall_and_deduplicate(in)
           order == closure(reps, root).order
           at(n) == RecordAt(reps, root, n)
           records == {IF n = root.product THEN root ELSE Only(ByProduct(reps, n)) : n \in Range(order)}
<1>1. m.components = order /\ m.authority = authority_floor(records)
  BY DEF pack_material
<1>2. records = {at(n) : n \in Range(order)}
  BY DEF RecordAt
<1>3. IsFiniteSet(reps) /\ \A r \in reps : RepTyped(r)
  BY RepsShape
<1>4. /\ order \in Seq(Nat) /\ order # <<>>
      /\ \A n \in Range(order) : at(n) \in reps /\ at(n).product = n
  <2> HIDE DEF reps
  <2> QED BY <1>3, ClosureShape DEF reps
<1> HIDE DEF at, records
<1>5. \A r \in reps : /\ r.authority \in DOMAIN AuthorityRank
                      /\ \E s \in recalled(in) : canonical(in, s.product) = r.product
  <2> SUFFICES ASSUME NEW r \in reps
               PROVE  /\ r.authority \in DOMAIN AuthorityRank
                      /\ \E s \in recalled(in) : canonical(in, s.product) = r.product
    OBVIOUS
  <2> DEFINE G == Group(in, r.key)
  <2>1. G # {} /\ r.product = r.key[1] /\ r.authority = authority_floor(G)
    BY RepOf
  <2>2. /\ G \subseteq recalled(in) /\ IsFiniteSet(recalled(in)) /\ recalled(in) \subseteq in.candidates
        /\ \A s \in G : identity_key(in, s) = r.key
    BY RecalledFinite DEF Group
  <2>3. \A s \in in.candidates : s.authority \in DOMAIN AuthorityRank
    BY DEF decision_graph_input, raw_candidate_record
  <2> HIDE DEF G
  <2>4. IsFiniteSet(G)
    BY <2>2, FS_Subset
  <2>5. r.authority \in DOMAIN AuthorityRank
    BY <2>1, <2>2, <2>3, <2>4, FloorIsWeakest
  <2>6. PICK s \in G : TRUE
    BY <2>1
  <2>7. identity_key(in, s)[1] = canonical(in, s.product)
    BY <2>2, KeyShapes
  <2> QED BY <2>1, <2>2, <2>5, <2>6, <2>7
<1>6. records # {} /\ records \subseteq reps
  <2>1. 1 \in DOMAIN order
    BY <1>4
  <2>2. order[1] \in Range(order)
    BY <2>1 DEF Range
  <2> HIDE DEF order
  <2> QED BY <1>2, <1>4, <2>2
<1>7. IsFiniteSet(records)
  BY <1>3, <1>6, FS_Subset
<1> HIDE DEF order, reps
<1>8. authority_floor(records) \in DOMAIN AuthorityRank
  BY <1>5, <1>6, <1>7, FloorIsWeakest
<1>9. \A n \in Range(order) : \E r \in recalled(in) : canonical(in, r.product) = n
  BY <1>4, <1>5
<1> QED BY <1>1, <1>8, <1>9

(* A component of a plan cites included records.                                    *)
LEMMA SourceCited ==
    ASSUME NEW in, NEW e, Tellable(in, e), NEW p \in e.plans, NEW i \in 1..Len(p.components),
           NEW w, w.members = candidate_members(in)
    PROVE  LET source == component_source(in, p, p.components[i])
           IN  source # {} /\ source \subseteq {m.record : m \in {m \in w.members : m.disposition = "INCLUDED"}}
<1> DEFINE reps == recall_and_deduplicate(in)
           n == p.components[i]
           included == {m \in w.members : m.disposition = "INCLUDED"}
           cited == {m.record : m \in included}
<1>0. FrozenRecords(in) /\ decision_graph_input(in)
  BY DEF Tellable
<1>1. PICK m \in materials(in, reps) : BuiltOf(in, m, p)
  BY PlansBuilt DEF Tellable
<1>2. /\ p.components = m.components /\ p.action = m.action
      /\ p.kind = (IF m.authority = "CURRENT" THEN "CURRENT_INSTANCE" ELSE "PACK")
  BY <1>1 DEF BuiltOf
<1>3. /\ \A r \in in.candidates : disposition(in, r) = "INCLUDED" => r.id \in cited
      /\ \A a \in in.actions : a.id \in cited
  <2> DEFINE pack(r) == [record |-> r.id, identity |-> identity_key(in, r), disposition |-> disposition(in, r),
                         kind |-> "PACK", version |-> {r.version}]
             own(a) == [record |-> a.id, identity |-> <<a.instance>>, disposition |-> "INCLUDED",
                        kind |-> MemberKind(a), version |-> {}]
  <2>1. w.members = {pack(r) : r \in in.candidates} \cup {own(a) : a \in in.actions}
    BY DEF candidate_members
  <2>2. \A r : pack(r).record = r.id /\ pack(r).disposition = disposition(in, r)
    OBVIOUS
  <2>3. \A a : own(a).record = a.id /\ own(a).disposition = "INCLUDED"
    OBVIOUS
  <2> HIDE DEF pack, own
  <2>4. \A r \in in.candidates : disposition(in, r) = "INCLUDED" => pack(r) \in included
    BY <2>1, <2>2
  <2>5. \A a \in in.actions : own(a) \in included
    BY <2>1, <2>3
  <2> HIDE DEF included
  <2> QED BY <2>2, <2>3, <2>4, <2>5
<1> DEFINE source == component_source(in, p, n)
<1>4. ASSUME NEW a \in in.actions, m = current_material(a) PROVE source # {} /\ source \subseteq cited
  <2>1. m.authority = "CURRENT" /\ m.components = <<a.instance>> /\ m.action = a.action
    BY <1>4 DEF current_material
  <2>2. p.kind = "CURRENT_INSTANCE" /\ n = a.instance /\ p.action = a.action
    <3> DEFINE x == a.instance
    <3>1. p.components = <<x>>
      BY <1>2, <2>1
    <3> HIDE DEF x
    <3>2. i = 1
      BY <3>1
    <3>3. n = x
      BY <3>1, <3>2
    <3> QED BY <1>2, <2>1, <3>3 DEF x
  <2>3. source = {b.id : b \in {b \in in.actions : b.instance = n /\ b.action = p.action}}
    BY <2>2 DEF component_source
  <2> HIDE DEF source, cited, n
  <2>4. a.id \in source
    BY <2>2, <2>3
  <2>5. source \subseteq cited
    BY <1>3, <2>3
  <2> QED BY <2>4, <2>5
<1>5. ASSUME NEW root \in reps, m = pack_material(in, reps, root) PROVE source # {} /\ source \subseteq cited
  <2>1. /\ m.authority \in DOMAIN AuthorityRank
        /\ \A k \in Range(m.components) : \E r \in recalled(in) : canonical(in, r.product) = k
    BY <1>0, <1>5, PackIsSourced
  <2>2. p.kind # "CURRENT_INSTANCE"
    BY <1>2, <2>1 DEF AuthorityRank
  <2>3. n \in Range(m.components)
    <3>1. p.components \in Seq(Nat)
      BY PlansAreRows DEF PlanSound
    <3>2. i \in DOMAIN p.components
      BY <3>1
    <3> QED BY <1>2, <3>2 DEF Range
  <2> DEFINE named == {r \in recalled(in) : canonical(in, r.product) = n}
             keys == {identity_key(in, r) : r \in named}
             first == CHOOSE k \in keys : \A l \in keys \ {k} : LexLess(k, l)
             group == {r.id : r \in {r \in recalled(in) : identity_key(in, r) = first}}
             least == CHOOSE x \in group : \A y \in group : x <= y
  <2>4. source = {least}
    BY <2>2 DEF component_source
  <2>5. named # {} /\ named \subseteq recalled(in)
    BY <2>1, <2>3
  <2>6. IsFiniteSet(recalled(in)) /\ recalled(in) \subseteq in.candidates
    BY <1>0, RecalledFinite
  <2> HIDE DEF named, n, source, cited
  <2>7. IsFiniteSet(named)
    BY <2>5, <2>6, FS_Subset
  <2>8. \A r \in named : identity_key(in, r) \in Seq(Int)
    <3>1. \A r \in named : identity_key(in, r) \in Seq(Nat)
      BY <1>0, <2>5, <2>6, KeyShapes
    <3> QED BY <3>1
  <2>9. first \in keys
    <3> DEFINE key == [r \in named |-> identity_key(in, r)]
    <3>1. \A r \in named : key[r] = identity_key(in, r) /\ key[r] \in Seq(Int)
      BY <2>8
    <3> HIDE DEF key
    <3>2. PICK r \in named : \A q \in named : ~LexLess(key[q], key[r])
      BY <2>5, <2>7, <3>1, LeaderExists
    <3>3. \A l \in keys \ {key[r]} : LexLess(key[r], l)
      <4> SUFFICES ASSUME NEW q \in named, identity_key(in, q) # key[r] PROVE LexLess(key[r], identity_key(in, q))
        OBVIOUS
      <4>1. ~LexLess(key[q], key[r]) /\ key[q] # key[r] /\ key[q] = identity_key(in, q)
        BY <3>1, <3>2
      <4>2. LexLess(key[q], key[r]) \/ LexLess(key[r], key[q])
        BY <3>1, <4>1, LexTotal
      <4> QED BY <4>1, <4>2
    <3>4. key[r] \in keys
      BY <3>1
    <3> HIDE DEF keys
    <3> QED BY <3>3, <3>4
  <2>10. PICK r \in named : first = identity_key(in, r)
    BY <2>9
  <2> HIDE DEF first
  <2>11. PICK s \in Group(in, identity_key(in, r)) : /\ \A t \in Group(in, identity_key(in, r)) : s.id <= t.id
                                                     /\ disposition(in, s) = "INCLUDED"
    BY <1>0, <2>5, LeastIncluded
  <2>12. group = {t.id : t \in Group(in, identity_key(in, r))}
    BY <2>10 DEF Group
  <2>13. Group(in, identity_key(in, r)) \subseteq in.candidates
    BY <2>6 DEF Group
  <2>14. \A t \in Group(in, identity_key(in, r)) : t.id \in Nat
    BY <1>0, <2>13, RecordsShape
  <2> HIDE DEF group
  <2>15. least = s.id
    <3>1. s.id \in group /\ \A y \in group : s.id <= y
      BY <2>11, <2>12
    <3>2. \A x \in group : (\A y \in group : x <= y) => x = s.id
      <4>1. s.id \in Nat /\ group \subseteq Nat
        BY <2>12, <2>14
      <4>2. ASSUME NEW x \in group, \A y \in group : x <= y
            PROVE  x = s.id
        <5>1. x \in Nat /\ x <= s.id /\ s.id <= x
          BY <3>1, <4>1, <4>2
        <5> QED BY <4>1, <5>1
      <4> QED BY <4>2
    <3> QED BY <3>1, <3>2
  <2> HIDE DEF least
  <2>16. s.id \in cited
    BY <1>3, <2>11, <2>13
  <2> QED BY <2>4, <2>15, <2>16
<1>6. source # {} /\ source \subseteq cited
  <2>1. (\E root \in reps : m = pack_material(in, reps, root)) \/ (\E a \in in.actions : m = current_material(a))
    BY DEF materials
  <2> HIDE DEF reps, source, cited
  <2> QED BY <1>4, <1>5, <2>1
<1> QED BY <1>6

(* The ranks of the rows are the places of the eligible bounded plans.              *)
LEMMA RanksTold ==
    ASSUME NEW in, NEW e, Tellable(in, e), NEW w, w.plans = solution_plan_records(e)
    PROVE  LET n == Cardinality(Rankable(e.plans))
           IN  /\ {i \in 1..Cardinality(w.plans) : \E p \in w.plans : p.rank = {i}} = 1..n
               /\ \A p \in w.plans : p.selected <=> p.rank = {1}
<1> DEFINE R == Rankable(e.plans)
           n == Cardinality(R)
           rank(p) == {i \in 1..Len(e.ranked) : e.ranked[i] = p.ids}
           made(p) == [ids |-> p.ids, rank |-> rank(p), selected |-> p.ids \in e.selected, status |-> p.status,
                       lifecycle |-> p.lifecycle, action |-> p.action, quote |-> p.quote,
                       autonomous |-> p.autonomous]
<1>1. w.plans = {made(p) : p \in e.plans}
  BY DEF solution_plan_records
<1>2. \A p : made(p).rank = rank(p) /\ made(p).selected = (p.ids \in e.selected)
  OBVIOUS
<1>3. /\ IsFiniteSet(e.plans) /\ n \in Nat /\ Len(e.ranked) = n
      /\ \A i \in 1..n : \E p \in R : e.ranked[i] = p.ids
      /\ \A i, j \in 1..n : e.ranked[i] = e.ranked[j] => i = j
      /\ e.selected = IF n = 0 THEN {} ELSE {e.ranked[1]}
  BY RanksHold DEF RanksTell
<1>4. R \subseteq e.plans
  BY DEF Rankable
<1>5. IsFiniteSet(w.plans)
  <2> DEFINE h == [p \in e.plans |-> made(p)]
  <2>1. {h[p] : p \in e.plans} = w.plans
    BY <1>1, Zenon
  <2> HIDE DEF h
  <2>2. IsFiniteSet({h[p] : p \in e.plans})
    BY <1>3, ImageFinite
  <2> QED BY <2>1, <2>2
<1> HIDE DEF made, R, n
<1>6. \A i \in 1..n : \E p \in w.plans : p.rank = {i}
  <2> SUFFICES ASSUME NEW i \in 1..n PROVE \E p \in w.plans : p.rank = {i}
    OBVIOUS
  <2>1. PICK p \in R : e.ranked[i] = p.ids
    BY <1>3
  <2>2. rank(p) = {i}
    BY <1>3, <2>1
  <2> HIDE DEF rank
  <2> QED BY <1>1, <1>2, <1>4, <2>1, <2>2
<1>7. \A p \in w.plans : \A i : p.rank = {i} => i \in 1..n
  <2>1. \A p : rank(p) \subseteq 1..n
    BY <1>3
  <2> HIDE DEF rank
  <2>2. \A p \in w.plans : p.rank \subseteq 1..n
    BY <1>1, <1>2, <2>1
  <2> QED BY <2>2
<1>8. n <= Cardinality(w.plans) /\ Cardinality(w.plans) \in Nat
  <2> DEFINE S == 1..n
             T == w.plans
             f == [i \in S |-> CHOOSE p \in T : p.rank = {i}]
  <2>1. IsFiniteSet(S) /\ Cardinality(S) = n
    <3>1. 1 \in Int /\ n \in Int
      BY <1>3
    <3>2. IsFiniteSet(1..n) /\ Cardinality(1..n) = IF 1 > n THEN 0 ELSE n - 1 + 1
      BY <3>1, FS_Interval
    <3> QED BY <1>3, <3>2
  <2>2. f \in [S -> T] /\ \A i \in S : f[i].rank = {i}
    BY <1>6
  <2>3. Cardinality(T) \in Nat
    BY <1>5, FS_CardinalityType
  <2> HIDE DEF f, S, T
  <2>4. \A i, j \in S : f[i] = f[j] => i = j
    BY <2>2
  <2>5. ~(Cardinality(T) < Cardinality(S))
    BY <2>1, <2>2, <2>4, <1>5, FS_PigeonHole DEF T
  <2>6. n <= Cardinality(T)
    BY <1>3, <2>1, <2>3, <2>5
  <2> QED BY <2>3, <2>6 DEF T
<1>9. {i \in 1..Cardinality(w.plans) : \E p \in w.plans : p.rank = {i}} = 1..n
  <2> DEFINE c == Cardinality(w.plans)
             holds(i) == \E p \in w.plans : p.rank = {i}
  <2>1. \A i \in 1..n : holds(i)
    BY <1>6
  <2>2. \A i : holds(i) => i \in 1..n
    BY <1>7
  <2>3. n \in Nat /\ c \in Nat /\ n <= c
    BY <1>3, <1>8
  <2> HIDE DEF c, holds
  <2>4. {i \in 1..c : holds(i)} = 1..n
    BY <2>1, <2>2, <2>3
  <2> QED BY <2>4 DEF c, holds
<1>10. ASSUME NEW p \in e.plans PROVE p.ids \in e.selected <=> rank(p) = {1}
  <2>1. CASE n = 0
    BY <1>3, <2>1
  <2>2. CASE n # 0
    <3>1. 1 \in 1..n
      BY <1>3, <2>2
    <3> QED BY <1>3, <2>2, <3>1
  <2> QED BY <2>1, <2>2
<1> HIDE DEF rank
<1>11. \A p \in w.plans : p.selected <=> p.rank = {1}
  BY <1>1, <1>2, <1>10
<1> QED BY <1>9, <1>11 DEF n, R

(* A plan on the ordering frontier that is not selected is eligible.                 *)
LEMMA FrontierIsEligible ==
    ASSUME NEW in, NEW e, Tellable(in, e), NEW p \in e.plans, p.ids \in e.frontier, p.ids \notin e.selected
    PROVE  p.status \in Eligible
<1> DEFINE Q == build_solution_plans(in)
           ranked == RankedPlans(Q)
           s == ranked[1]
           C == Competitors({q \in Q : q.status \in Eligible}, s)
           verdict == assess_rank_stability(Bounded(s), C)
<1>1. (\A q \in Q : PlanLike(q)) /\ e = rank_and_frontiers(Q)
  BY PlansTyped DEF Tellable
<1>2. /\ \A q \in Q : \E a \in e.plans : Alike(a, q)
      /\ ranked = <<>> => e.frontier = {}
      /\ ranked # <<>> => e.selected = {s.ids} /\ e.frontier = {s.ids} \cup {c.ids : c \in verdict.frontier}
  <2> HIDE DEF Q
  <2> QED BY <1>1, RankingParts
<1>3. verdict.frontier \subseteq C
  <2> HIDE DEF C, s
  <2> QED BY DEF assess_rank_stability, OrderingFrontier
<1>4. \A c \in C : \E q \in Q : q.status \in Eligible /\ c.ids = q.ids
  BY DEF Competitors, Bounded
<1> HIDE DEF verdict, C, s, ranked, Q
<1>5. PICK q \in Q : q.status \in Eligible /\ q.ids = p.ids
  BY <1>2, <1>3, <1>4
<1>6. PICK a \in e.plans : Alike(a, q)
  BY <1>2
<1>7. a.ids = p.ids /\ a.status \in Eligible
  BY <1>5, <1>6 DEF Alike
<1>8. a = p
  BY <1>7, IdsApart
<1> QED BY <1>7, <1>8

(* What a frontier row says of the plan it names and of the selected one.            *)
FrontierTold(e, f, s) ==
    LET planOf(ids) == CHOOSE p \in e.plans : p.ids = ids
    IN  /\ (f.kind = "ORDERING" /\ f.beats = {TRUE}) => CanOutrank(planOf(f.ids), planOf(s), Corners)
        /\ (f.beats = {FALSE} /\ f.ids # s /\ planOf(f.ids).status \in Eligible)
               => ~CanOutrank(planOf(f.ids), planOf(s), Corners)

(* A frontier row says what the outcomes of the two plans allow.                    *)
LEMMA FrontiersTold ==
    ASSUME NEW in, NEW e, Tellable(in, e), NEW w, w.frontiers = robustness_frontiers(e),
           NEW f \in w.frontiers, NEW s \in e.selected
    PROVE  FrontierTold(e, f, s)
<1> DEFINE planOf(ids) == CHOOSE p \in e.plans : p.ids = ids
           R == Rankable(e.plans)
           n == Cardinality(R)
<1>1. /\ n \in Nat /\ e.selected = IF n = 0 THEN {} ELSE {e.ranked[1]}
      /\ \A i \in 1..n : \E p \in R : e.ranked[i] = p.ids
  BY RanksHold DEF RanksTell
<1>2. R = {p \in e.plans : p.status \in Eligible /\ p.bounds # {}}
  BY DEF Rankable
<1> HIDE DEF R, n
<1>3. n # 0 /\ e.selected = {s} /\ s = e.ranked[1]
  BY <1>1
<1>4. PICK t \in R : s = t.ids
  <2>1. 1 \in 1..n
    BY <1>1, <1>3
  <2> QED BY <1>1, <1>3, <2>1
<1>5. \A p, q \in e.plans : p.ids = q.ids => p = q
  BY IdsApart
<1>6. \A p \in e.plans : planOf(p.ids) = p
  BY <1>5
<1>7. Robust(e)
  <2> DEFINE Q == build_solution_plans(in)
  <2>1. IsFiniteSet(Q) /\ \A p \in Q : Bounded(p) \in BoundedPlan /\ PlanLike(p)
    BY PlansTyped DEF Tellable
  <2>2. e = rank_and_frontiers(Q) /\ ~RowsRaise(e)
    BY DEF Tellable
  <2> HIDE DEF Q
  <2> QED BY <2>1, <2>2, RankingIsRobust
<1> DEFINE Beats(p, q) == CanOutrank(p, q, Corners)
<1>8. ASSUME NEW p \in e.plans, p.status \in Eligible, p.ids # s, e.stability # "UNDETERMINED"
      PROVE  p.ids \in e.frontier <=> Beats(p, t)
  <2> DEFINE eligible == {x \in e.plans : x.status \in Eligible}
             selected == {x \in eligible : x.ids \in e.selected /\ x.bounds # {}}
             rivals == {x \in eligible : x.ids \notin e.selected}
  <2>1. \A x \in rivals, y \in selected : x.ids \in e.frontier <=> Beats(x, y)
    <3> HIDE DEF eligible, selected, rivals
    <3> QED BY <1>7, <1>8 DEF Robust, eligible, selected, rivals
  <2>2. p \in rivals
    BY <1>3, <1>8
  <2>3. t \in selected
    BY <1>2, <1>3, <1>4
  <2> HIDE DEF rivals, selected, Beats
  <2> QED BY <2>1, <2>2, <2>3
<1> DEFINE ordering(p) == ordering_frontier(e, p)
           resolution(p) == [ids |-> p.ids, kind |-> "RESOLUTION", member |-> p.pending, beats |-> {}]
           missing(p) == [ids |-> p.ids, kind |-> "BOUND_UNAVAILABLE", member |-> p.ids \in e.unavailable,
                          beats |-> {}]
<1>9. PICK p \in e.plans : f \in {ordering(p), resolution(p), missing(p)}
  <2>1. w.frontiers = UNION {{ordering(p), resolution(p), missing(p)} : p \in e.plans}
    BY DEF robustness_frontiers
  <2> HIDE DEF ordering, resolution, missing
  <2> QED BY <2>1
<1>10. /\ f.ids = p.ids
       /\ f.beats # {} => f.beats = IF p.ids \in e.selected THEN {FALSE}
                                    ELSE IF e.stability = "UNDETERMINED" THEN {} ELSE {p.ordering}
  <2>1. /\ ordering(p).ids = p.ids /\ resolution(p).ids = p.ids /\ missing(p).ids = p.ids
        /\ resolution(p).beats = {} /\ missing(p).beats = {}
        /\ ordering(p).beats = IF p.ids \in e.selected THEN {FALSE}
                               ELSE IF e.stability = "UNDETERMINED" THEN {} ELSE {p.ordering}
    BY DEF ordering_frontier
  <2> HIDE DEF ordering, resolution, missing
  <2> QED BY <1>9, <2>1
<1>11. p.ordering = (p.ids \in e.frontier)
  BY PlansBuilt DEF Tellable
<1>12. planOf(f.ids) = p /\ planOf(s) = t
  <2>1. t \in e.plans
    BY <1>2
  <2>2. planOf(p.ids) = p /\ planOf(t.ids) = t
    BY <1>6, <2>1
  <2> HIDE DEF planOf
  <2> QED BY <1>4, <1>10, <2>2
<1> HIDE DEF planOf, Beats
<1>13. ASSUME f.beats = {TRUE} PROVE Beats(planOf(f.ids), planOf(s))
  <2>1. p.ids \notin e.selected /\ e.stability # "UNDETERMINED" /\ p.ordering = TRUE
    BY <1>10, <1>13
  <2>2. p.ids \in e.frontier
    BY <1>11, <2>1
  <2>3. p.status \in Eligible
    BY <2>1, <2>2, FrontierIsEligible
  <2> QED BY <1>3, <1>8, <1>12, <2>1, <2>2, <2>3
<1>14. ASSUME f.beats = {FALSE}, f.ids # s, planOf(f.ids).status \in Eligible
       PROVE  ~Beats(planOf(f.ids), planOf(s))
  <2>1. p.ids \notin e.selected
    BY <1>3, <1>10, <1>14
  <2>2. e.stability # "UNDETERMINED" /\ p.ordering = FALSE
    BY <1>10, <1>14, <2>1
  <2>3. p.ids \notin e.frontier
    BY <1>11, <2>2
  <2> QED BY <1>8, <1>10, <1>12, <1>14, <2>2, <2>3
<1> QED BY <1>13, <1>14 DEF Beats, planOf, FrontierTold

(* What the invariant says of a persisted or refused evaluation.                     *)
LEMMA BaseTold ==
    ASSUME EngineInv, phase = "DONE" \/ ledger # {}, ~RowsRaise(base)
    PROVE  Tellable(input, base)
<1>1. /\ FrozenFacts(input) /\ FrozenRecords(input) /\ FrozenRules(input) /\ decision_graph_input(input)
      /\ base = evaluate_decision_graph_once(input) /\ ~Raised(base)
  BY InputsAssumption DEF EngineInv
<1>2. ~Malformed(input) /\ base = rank_and_frontiers(build_solution_plans(input))
  BY <1>1, Evaluated
<1> QED BY <1>1, <1>2 DEF Tellable

(* The rows of an evaluation are refused only for plans or members of one id.        *)
LEMMA RowsStayStorable == EngineInv => RowsAreStorable
<1> SUFFICES ASSUME EngineInv, phase = "REFUSED", ledger # {}, ~RowsRaise(base), ~MembersRaise(input)
             PROVE  FALSE
  BY DEF RowsAreStorable, RowsRaise, MembersRaise
<1>1. ~Storable(input, build_evaluation_graph_write(input, base))
  BY DEF EngineInv
<1>2. Tellable(input, base)
  BY BaseTold
<1> QED BY <1>1, <1>2, RowsFit

(* The rows let a reader reconstruct the evaluation.                                *)
LEMMA RowsTell == EngineInv => RowsTellTheEvaluation
<1> SUFFICES ASSUME EngineInv, NEW w \in rows
             PROVE  LET packs == {m \in w.members : m.kind = "PACK"}
                        included == {m \in w.members : m.disposition = "INCLUDED"}
                        planOf(ids) == CHOOSE p \in base.plans : p.ids = ids
                    IN  /\ \A m \in {m \in packs : m.disposition # "EXCLUDED"} :
                              Cardinality({n \in packs \cap included : n.identity = m.identity}) = 1
                        /\ \A c \in w.components : c.source # {} /\ c.source \subseteq {m.record : m \in included}
                        /\ {i \in 1..Cardinality(w.plans) : \E p \in w.plans : p.rank = {i}}
                               = 1..Cardinality({p \in base.plans : p.status \in Eligible /\ p.bounds # {}})
                        /\ \A p \in w.plans : p.selected <=> p.rank = {1}
                        /\ \A f \in {f \in w.frontiers : f.kind = "ORDERING"}, s \in base.selected :
                              f.beats = {TRUE} => CanOutrank(planOf(f.ids), planOf(s), Corners)
                        /\ \A f \in w.frontiers, s \in base.selected :
                              (f.beats = {FALSE} /\ f.ids # s /\ planOf(f.ids).status \in Eligible)
                                  => ~CanOutrank(planOf(f.ids), planOf(s), Corners)
  BY DEF RowsTellTheEvaluation
<1>1. phase = "DONE" /\ ~RowsRaise(base) /\ w = build_evaluation_graph_write(input, base)
  BY DEF EngineInv
<1>2. Tellable(input, base)
  BY <1>1, BaseTold
<1>3. /\ w.members = candidate_members(input) /\ w.components = plan_components(input, base)
      /\ w.plans = solution_plan_records(base) /\ w.frontiers = robustness_frontiers(base)
  BY <1>1 DEF build_evaluation_graph_write
<1> HIDE DEF EngineInv
<1> DEFINE packs == {m \in w.members : m.kind = "PACK"}
           included == {m \in w.members : m.disposition = "INCLUDED"}
           planOf(ids) == CHOOSE p \in base.plans : p.ids = ids
           Beats(p, q) == CanOutrank(p, q, Corners)
<1>4. \A m \in {m \in packs : m.disposition # "EXCLUDED"} :
         Cardinality({n \in packs \cap included : n.identity = m.identity}) = 1
  <2>1. FrozenRecords(input) /\ UniqueIds(input.candidates)
    BY <1>2 DEF Tellable, decision_graph_input
  <2> QED BY <1>3, <2>1, OneIncluded
<1>5. \A c \in w.components : c.source # {} /\ c.source \subseteq {m.record : m \in included}
  <2> DEFINE made(p, i) == [ids |-> p.ids, ordinal |-> i, component |-> p.components[i],
                            source |-> component_source(input, p, p.components[i])]
             cited == {m.record : m \in included}
  <2>1. w.components = UNION {{made(p, i) : i \in 1..Len(p.components)} : p \in base.plans}
    BY <1>3 DEF plan_components
  <2>2. ASSUME NEW p \in base.plans, NEW i \in 1..Len(p.components)
        PROVE  made(p, i).source # {} /\ made(p, i).source \subseteq cited
    <3>1. made(p, i).source = component_source(input, p, p.components[i])
      OBVIOUS
    <3>2. component_source(input, p, p.components[i]) # {}
          /\ component_source(input, p, p.components[i]) \subseteq cited
      BY <1>2, <1>3, SourceCited
    <3> HIDE DEF made, cited
    <3> QED BY <3>1, <3>2
  <2> HIDE DEF made, cited
  <2>3. \A c \in w.components : c.source # {} /\ c.source \subseteq cited
    BY <2>1, <2>2
  <2> QED BY <2>3 DEF cited
<1>6. /\ {i \in 1..Cardinality(w.plans) : \E p \in w.plans : p.rank = {i}}
             = 1..Cardinality({p \in base.plans : p.status \in Eligible /\ p.bounds # {}})
      /\ \A p \in w.plans : p.selected <=> p.rank = {1}
  BY <1>2, <1>3, RanksTold DEF Rankable
<1>7. ASSUME NEW f \in w.frontiers, NEW s \in base.selected
      PROVE  /\ (f.kind = "ORDERING" /\ f.beats = {TRUE}) => Beats(planOf(f.ids), planOf(s))
             /\ (f.beats = {FALSE} /\ f.ids # s /\ planOf(f.ids).status \in Eligible)
                    => ~Beats(planOf(f.ids), planOf(s))
  <2>1. w.frontiers = robustness_frontiers(base)
    BY <1>3
  <2>2. FrontierTold(base, f, s)
    BY <1>2, <2>1, FrontiersTold
  <2> QED BY <2>2, Zenon DEF FrontierTold
<1>8. \A f \in {f \in w.frontiers : f.kind = "ORDERING"}, s \in base.selected :
         f.beats = {TRUE} => Beats(planOf(f.ids), planOf(s))
  <2> HIDE DEF Beats, planOf
  <2> QED BY <1>7
<1>9. \A f \in w.frontiers, s \in base.selected :
         (f.beats = {FALSE} /\ f.ids # s /\ planOf(f.ids).status \in Eligible)
             => ~Beats(planOf(f.ids), planOf(s))
  <2> HIDE DEF Beats, planOf
  <2> QED BY <1>7
<1> HIDE DEF packs, included
<1> QED BY <1>4, <1>5, <1>6, <1>8, <1>9 DEF packs, included

(* The rows of an evaluation fit their tables and tell what it found, for every      *)
(* input.                                                                          *)
THEOREM RowsStayTrue == Spec => []RowsAreTrue
<1>1. EngineInv => RowsAreTrue
  BY RowsStayStorable, RowsTell DEF RowsAreTrue
<1> QED BY <1>1, EngineStart, EngineStep, PTL DEF Spec
===================================================================================
