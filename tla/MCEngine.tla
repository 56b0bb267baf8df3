--------------------------------- MODULE MCEngine ---------------------------------
(* Frozen inputs for the Decision Graph: five families around one default input,    *)
(* each varying what one part of the pipeline is sensitive to.                     *)
EXTENDS DecisionEngine

Int1(n) == [kind |-> "int", v |-> {n}]
Bool1(b) == [kind |-> "bool", v |-> {IF b THEN 1 ELSE 0}]

Fact(field, value, ev) == [field |-> field, value |-> value, ev |-> ev]

\* Evidence 1 and 2 are current, 3 is stale, 4 disputed, 5 from a source the policy
\* does not admit, 6 untimed, 7 revoked, 8 from after the evaluation; 9 is not there.
MCEvidence ==
    LET Record(id, source, age) ==
            [id |-> id, source |-> source, scope |-> "EU", reconstructable |-> TRUE,
             disputed |-> id = 4, revoked |-> id = 7, age |-> age]
    IN  {Record(1, "DOC", {[low |-> 1, high |-> 2]}), Record(2, "DOC", {[low |-> 0, high |-> 1]}),
         Record(3, "DOC", {[low |-> 5, high |-> 6]}), Record(4, "DOC", {[low |-> 1, high |-> 1]}),
         Record(5, "BLOG", {[low |-> 1, high |-> 1]}), Record(6, "DOC", {}),
         Record(7, "DOC", {[low |-> 1, high |-> 1]}), Record(8, "DOC", {[low |-> -1, high |-> 1]})}

Price(low, high) ==
    [bounds |-> {[low |-> low, base |-> low + 1, high |-> high]}, itemised |-> TRUE, fees |-> 0,
     horizon |-> 12, currency |-> "USD", payment |-> FALSE]

Pack(id, product) ==
    [id |-> id, seller |-> 10, product |-> product, edition |-> 20, region |-> 30, version |-> 1,
     offer |-> 50 + product, authority |-> "SELLER_SEALED", available |-> TRUE,
     facts |-> {Fact("tls", Bool1(TRUE), {1}), Fact("latency", Int1(product), {1}),
                Fact(LandedTotal, Int1(9), {2})},
     sellerGates |-> {}, categories |-> {"crm"}, jtbds |-> {"sell"}, status |-> "PUBLISHED",
     requires |-> {}]

Rule(id, field, op, value) ==
    [id |-> id, predicates |-> {[field |-> field, op |-> op, value |-> value]},
     mode |-> "REQUIRE_MATCH", blocked |-> "SIRA_INELIGIBLE", sources |-> {}, actions |-> {"REPLACE"},
     claims |-> {}, resolution |-> {}]

Criterion(id, field, kind) ==
    [id |-> id, field |-> field, weight |-> 1, coverage |-> 1, kind |-> kind,
     expected |-> Bool1(TRUE), sources |-> {}, actions |-> {}, unknown |-> {4}, prior |-> {2},
     resolution |-> {"REFRESH"}, aggregation |-> "MAX",
     points |-> <<<<1, 4>>, <<2, 2>>, <<6, 1>>>>]

Keep == [id |-> 90, action |-> "NO_ACTION", instance |-> 70, cost |-> Price(3, 5),
         facts |-> {[field |-> "latency", value |-> Int1(6), ev |-> {1}, component |-> 70]},
         available |-> TRUE, resolution |-> {}]
Configure == [Keep EXCEPT !.id = 91, !.action = "CONFIGURE_EXISTING", !.available = FALSE,
                          !.resolution = {"UPGRADE"}]
Cancel == [Keep EXCEPT !.id = 92, !.action = "CANCEL"]

Default ==
    [aliases |-> (4 :> 1), candidates |-> {Pack(1, 1), Pack(3, 2)},
     policy |-> {[category |-> "crm", jtbd |-> "sell", regions |-> {30, 31}]},
     evidence |-> MCEvidence,
     policies |-> [f \in {"tls", "latency", "uptime", LandedTotal} |->
                      [sources |-> {"DOC"}, scope |-> IF f = "tls" THEN "EU" ELSE "*", sla |-> 4]],
     facts |-> {}, removed |-> {}, gates |-> {Rule(1, "tls", "eq", Bool1(TRUE))},
     preferences |-> {Criterion(1, "latency", "LOWER_IS_BETTER")},
     rules |-> {}, complete |-> TRUE, actions |-> {Keep}, outcomes |-> {},
     offers |-> [o \in {51, 52, 53} |-> Price(o - 50, o - 48)], scale |-> 12, unit |-> 4]

\* Two records of one product: an alias or not, a contradiction or not, evidence
\* of every quality, withdrawn or not, weaker in authority or in availability.
Duplicates ==
    LET Second(product, version, tls, ev, region, strength) ==
            [Pack(2, 1) EXCEPT !.product = product, !.version = version, !.region = region,
                !.facts = {Fact("tls", Bool1(tls), {ev}), Fact("latency", Int1(1), {2})},
                !.offer = 53, !.status = strength[1], !.authority = strength[2],
                !.available = strength[3]]
        sealed == <<"PUBLISHED", "SELLER_SEALED", TRUE>>
    IN  {[Default EXCEPT !.candidates = {Pack(1, 1), Pack(3, 2), Second(product, version, tls, ev, 30, sealed)}]
            : product \in {1, 4}, version \in {1, 2}, tls \in BOOLEAN, ev \in {2, 3, 4, 5, 6, 7, 9}}
        \cup {[Default EXCEPT !.candidates = {Pack(3, 2), Second(product, version, TRUE, ev, region, strength)} \cup first]
            : product \in {1, 4}, version \in {1, 2}, region \in {30, 31, 32}, ev \in {1, 3, 5}, first \in {{}, {Pack(1, 1)}},
              strength \in {sealed, <<"REVOKED", "SELLER_SEALED", TRUE>>,
                            <<"SUPERSEDED", "SELLER_SEALED", TRUE>>,
                            <<"PUBLISHED", "PLATFORM_COMPILED", TRUE>>,
                            <<"PUBLISHED", "EXTERNAL_UNSEALED", TRUE>>,
                            <<"PUBLISHED", "SELLER_SEALED", FALSE>>}}

\* Three products that require one another, themselves or an absent one.
Bundles ==
    LET Needing(id, product, needs) == [Pack(id, product) EXCEPT !.requires = needs]
        Other == [Pack(4, 2) EXCEPT !.edition = 21]
    IN  {[Default EXCEPT !.candidates = {Needing(1, 1, a), Needing(2, 2, b), Needing(3, 3, c)},
                         !.actions = {}]
            : a \in SUBSET {2, 3, 9}, b \in SUBSET {1, 3}, c \in SUBSET {1, 2, 3}}
        \cup {[Default EXCEPT !.candidates = {Needing(1, 1, a), Needing(2, 2, b), Other}, !.actions = {}]
            : a \in SUBSET {2, 9}, b \in SUBSET {1, 2}}
        \cup {[Default EXCEPT !.candidates = {Needing(1, 1, needs), [Pack(2, 2) EXCEPT !.facts = facts]},
                              !.gates = {Rule(1, LandedTotal, "lte", Int1(limit))}]
            : needs \in {{}, {2}}, limit \in {2, 4, 5},
              facts \in {Pack(2, 2).facts, {Fact(LandedTotal, Int1(9), {4})}, {Fact("tls", Bool1(TRUE), {1})}}}
        \cup {[Default EXCEPT !.candidates = {Needing(1, 1, {2}), [Pack(2, 2) EXCEPT !.facts = facts]},
                              !.preferences = {[Criterion(1, "latency", "LOWER_IS_BETTER")
                                                   EXCEPT !.aggregation = way]},
                              !.offers = prices]
            : way \in {"MIN", "MAX", "SUM", "ANY", "UNION", "PRIMARY_COMPONENT"},
              facts \in {Pack(2, 2).facts, {Fact("tls", Bool1(TRUE), {1})},
                         {Fact("latency", Int1(2), {1})},
                         {Fact("tls", Bool1(FALSE), {1}), Fact("latency", Bool1(TRUE), {1})}},
              prices \in {Default.offers, (51 :> Price(1, 3)),
                          (51 :> Price(1, 3)) @@ (52 :> [Price(1, 3) EXCEPT !.currency = "EUR"])}}

\* Overlapping and missing bounds.
Rankings ==
    LET Latency(value, ev) == {Fact("tls", Bool1(TRUE), {1}), Fact("latency", Int1(value), {ev})}
        Risk(missing) == [actions |-> {"REPLACE"}, bounds |-> [low |-> 1, base |-> 2, high |-> 3],
                          predicate |-> {[field |-> "uptime", op |-> "lt", value |-> Int1(3)]},
                          missing |-> missing]
        Bare == [actions |-> {"REPLACE", "NO_ACTION"}, bounds |-> [low |-> 0, base |-> 1, high |-> 2],
                 predicate |-> {}, missing |-> {}]
        costs == {Price(1, 2), Price(1, 6), Price(3, 4)}
    IN  {[Default EXCEPT !.candidates = {[Pack(1, 1) EXCEPT !.facts = Latency(1, 1)],
                                         [Pack(3, 2) EXCEPT !.facts = Latency(x, ev)]},
                         !.actions = current, !.offers = (51 :> a) @@ (52 :> b)]
            : x \in {1, 2}, ev \in {1, 3, 4, 6}, a \in costs, b \in costs,
              current \in {{}, {Keep, Configure, Cancel}}}
        \cup {[Default EXCEPT !.rules = rules, !.complete = complete, !.preferences = criteria,
                              !.outcomes = seen, !.actions = {Keep}]
            : rules \in {{}, {Risk({})}, {Risk({[low |-> 0, base |-> 1, high |-> 3]})}, {Bare},
                        {Bare, Risk({[low |-> 1, base |-> 1, high |-> 2]})}},
              complete \in BOOLEAN,
              criteria \in {{}, {Criterion(1, "latency", "LOWER_IS_BETTER"), Criterion(2, "tls", "BOOLEAN_EQUALS")},
                            {[Criterion(3, "uptime", "OUTCOME_RATE") EXCEPT !.unknown = {}]}},
              seen \in {{}} \cup {{[subject |-> 1, criterion |-> 3, value |-> 3, ev |-> {e}, sources |-> {}]}
                                     : e \in {1, 3}}}
        \cup {[Default EXCEPT !.offers[51] = o]
            : o \in {[Price(1, 2) EXCEPT !.payment = TRUE], [Price(1, 2) EXCEPT !.payment = TRUE, !.fees = 1],
                     [Price(1, 2) EXCEPT !.itemised = FALSE],
                     [Price(1, 2) EXCEPT !.bounds = {}], [Price(1, 2) EXCEPT !.horizon = 24],
                     [Price(1, 2) EXCEPT !.bounds = {[low |-> 2, base |-> 1, high |-> 3]}]}}

\* Three private facts behind the gates, the preference and an anti-fit rule.
PrivateFacts ==
    LET Known(id, field, value) == [id |-> id, field |-> field, value |-> value, private |-> id # 4]
        facts == {Known(1, "size", Int1(2)), Known(2, "region", Int1(1)), Known(3, "team", Int1(3)),
                  Known(4, "spend", Int1(5))}
        AntiFit == [Rule(5, "size", "lt", Int1(3)) EXCEPT !.mode = "BLOCK_ON_MATCH", !.blocked = "SEIL_PASS"]
        Past(n, id, sources) == [Rule(id, "latency", "gte", Int1(n)) EXCEPT !.sources = sources]
    IN  {[Default EXCEPT !.facts = facts,
                         !.candidates = {Pack(1, 1), Pack(3, 2), [Pack(5, 3) EXCEPT !.sellerGates = anti]},
                         !.gates = {Past(2, 1, s), Past(n, 2, t), Past(2, 3, u),
                                    [AntiFit EXCEPT !.claims = claims]},
                         !.preferences = {Criterion(1, "latency", "LOWER_IS_BETTER"),
                                          [Criterion(2, "latency", "BOOLEAN_EQUALS")
                                              EXCEPT !.sources = {3}, !.expected = Int1(2)]}]
            : anti \in {{}, {5}}, claims \in {{}, {1}, {3}}, s \in {{1}, {2, 3}}, n \in {2, 3},
              t \in {{1}, {1, 2}, {2, 4}, {4}}, u \in {{2}, {3}, {1, 4}}}

\* Inputs one defect of which refuses the whole evaluation.
Defects ==
    {[Default EXCEPT !.aliases = (4 :> 5) @@ (5 :> 4)],
     [Default EXCEPT !.policies = [f \in {"tls", LandedTotal} |-> Default.policies["tls"]]],
     [Default EXCEPT !.offers[51].fees = 1], [Default EXCEPT !.policies["tls"].sla = 0],
     [Default EXCEPT !.candidates = @ \cup {[Pack(7, 3) EXCEPT !.facts = {Fact("tls", Bool1(TRUE), {8})}]}],
     [Default EXCEPT !.actions = {[Keep EXCEPT !.id = 1]}]}

MCInputs == Duplicates \cup Bundles \cup Rankings \cup PrivateFacts \cup Defects
==================================================================================
