---------------------------- MODULE MCWorkspace ----------------------------
EXTENDS Workspace

\* One request sent twice, another sent once.
MCSends == [r1 |-> 2, r2 |-> 1]
Says(m, a, w, r) == [mission |-> m, actor |-> a, mode |-> w, route |-> r]
Ann(route) == Says("m1", "ann", "SIRA", route)
Sue(route) == Says("m1", "sue", "SIRA", route)
MCScenarios ==
  {[r1 |-> s[1], r2 |-> s[2]] : s \in
     { <<Ann("TASK"), Says("m1", "bob", "SIRA", "LIGHT")>>,
       <<Says("m1", "sue", "SEIL", "TASK"), Says("m1", "sue", "SEIL", "LIGHT")>>,
       <<Sue("MARKET"), Sue("GOVERNED")>>,
       <<Sue("GOVERNED"), Says("m2", "bob", "SIRA", "GOVERNED")>>,
       <<Ann("DATAHUB"), Says("m1", "ann", "SEIL", "LIGHT")>> }}

\* A finished answer with bold claims, the same with one more event, and one that
\* goes on after a search.
MCPlan ==
  [NoAnswer EXCEPT !.message = {"plan"}, !.state = "PLANNING", !.tasks = <<"compare">>,
     !.events = <<"planned">>,
     !.artifacts = {[kind |-> "brief", authority |-> "VERIFIED", sources |-> {}, run |-> <<>>,
                     by |-> RootAgent],
                    [kind |-> "cited_decision", authority |-> "VERIFIED", sources |-> {"page"},
                     run |-> <<>>, by |-> RootAgent]}]
MCOutputs ==
  {MCPlan, [MCPlan EXCEPT !.events = <<"planned", "refined">>],
   [NoAnswer EXCEPT !.message = {"found"}, !.state = "EXPLORING", !.continue = TRUE,
      !.tools = <<"search_published_products">>, !.ready = TRUE]}

\* Two refreshes may bring listings of one domain.
MCDiscoveries == {<<"acme1", "acme2">>, <<"acme2", "zen">>, <<"pub2">>}
MCDomain == [pub |-> "pub.io", pub2 |-> "pub.io", acme1 |-> "acme.com", acme2 |-> "acme.com",
             zen |-> "zen.dev"]
MCCitations == <<"fact", "claim">>

\* A purchase request of ann from m1, hers in the first and the last scenario.
MCOrigin == [req |-> [mission |-> "m1", actor |-> "ann"]]
=============================================================================
