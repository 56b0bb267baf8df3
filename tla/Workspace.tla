----------------------------- MODULE Workspace -----------------------------
(***************************************************************************)
(* WorkspaceService.chat: the turns of the buyer and seller agents on a    *)
(* durable mission.  A call is one HTTP request; a client that saw no      *)
(* answer sends the same request id again, also while the first call still *)
(* runs.  Each call prepares the mission in one transaction, works outside *)
(* any transaction, and persists each turn in a transaction of its own.    *)
(* What a message routes to (_routes_to_... and _lightweight_reply) is a   *)
(* field of the request.  A chat without a mission_id draws a new one each *)
(* time it is sent: it is a request here for each time, with a mission of  *)
(* its own.  The other writer of missions, create_purchase_request, works  *)
(* under the same row lock.  The agent runtime, the web researcher and     *)
(* Snowflake are external: they answer, refuse or fail.                    *)
(***************************************************************************)
EXTENDS MissionStore, GovernedLedger

CONSTANTS Requests,     \* request ids
          Sends,        \* how often each is sent
          Missions,
          Scenarios,    \* what the requests carry: mission, actor, mode, route of each
          Outputs,      \* validated MissionTurnOutputs of the agent
          Discoveries,  \* answers of the web researcher: sequences of listings
          Domain,       \* _listing_domain of each listing
          Published,    \* listings of the fixtures
          Refs,         \* what a message or an artifact may name: listings, pages, plans
          MaxRestarts,  \* bound on restarts of the API process
          Decisions,    \* purchase requests created from a mission
          Origin        \* the mission and the actor of each

RootAgent == "sira-root-agent"
Artifact == [kind : STRING, authority : STRING, sources : SUBSET Refs, run : {<<>>},
             by : {RootAgent}]
MissionTurnOutput ==
  [message : SUBSET Refs, tools : Seq(STRING), events : Seq(STRING), tasks : Seq(STRING),
   artifacts : SUBSET Artifact, state : STRING, stop_reason : STRING, continue : BOOLEAN,
   attention : BOOLEAN, ready : BOOLEAN]

\* A citation has an id of its own; no two packs of the fixtures are of one domain.
ASSUME WorkspaceAssumption ==
  /\ Budget \in Nat /\ MaxRestarts \in Nat
  /\ Sends \in [Requests -> Nat \ {0}]
  /\ \A s \in Scenarios, r \in Requests :
       /\ s[r].mission \in Missions
       /\ s[r].route \in {"LIGHT", "DATAHUB", "MARKET", "GOVERNED", "TASK"}
       /\ s[r].mode = "SEIL" => s[r].route \in {"LIGHT", "TASK"}
  /\ Outputs \subseteq MissionTurnOutput
  /\ \A d \in Decisions : Origin[d].mission \in Missions /\ d \in Refs
  /\ "datahub" \in Refs /\ Published \subseteq Refs /\ Discoveries \subseteq Seq(Refs)
  /\ \A p, q \in Published : Domain[p] = Domain[q] => p = q
  /\ Citations \in Seq(Range(Citations)) /\ IsInjective(Citations)

VARIABLES body,       \* what each request carries
          missions,   \* the missions of the organization
          refresh,    \* background refreshes: the calls that started one
          discovered, \* _discovered_catalog
          backup,     \* _seil_backup_active
          restarts,
          created     \* the purchase requests whose transaction is committed

process == <<refresh, discovered, backup, restarts>>
vars == <<ledger, body, missions, call, process, created>>

Calls == UNION {{r} \X (1 .. Sends[r]) : r \in Requests}
Body(c) == body[c[1]]
Turn(c, suffix) == <<c[1], suffix>>
Light(c) == Body(c).route = "LIGHT"
Mission(c) == missions[Body(c).mission]

NoAnswer == [message |-> {}, tools |-> <<>>, events |-> <<>>, tasks |-> <<>>, artifacts |-> {},
             state |-> "", stop_reason |-> "", continue |-> FALSE, attention |-> FALSE,
             ready |-> FALSE]
NotSent == [pc |-> "idle", turn |-> "", round |-> 0, key |-> "none", answer |-> NoAnswer,
            ready |-> FALSE, request |-> <<>>, run |-> <<>>, sources |-> {}]

Init ==
  /\ LedgerInit
  /\ body \in Scenarios
  /\ missions = [m \in Missions |-> NoMission]
  /\ call = [c \in Calls |-> NotSent]
  /\ refresh = {} /\ discovered = {} /\ backup = FALSE /\ restarts = 0
  /\ created = {}

Store(c, row) == missions' = [missions EXCEPT ![Body(c).mission] = row]

-----------------------------------------------------------------------------
\* _prepare_mission

Exists(c) == Mission(c).version > 0
Owns(c) == Mission(c).actor = Body(c).actor /\ Mission(c).mode = Body(c).mode
Entry(c) == [LIGHT |-> "light", DATAHUB |-> "datahub", MARKET |-> "market",
             GOVERNED |-> "find", TASK |-> "agent"][Body(c).route]
Accept(c, row) == Store(c, Prepared(row, Light(c), Turn(c, ""), {})) /\ Goto(c, Entry(c))

\* A retry is sent after the call it repeats.
Sent(c) == call[c].pc = "idle" /\ (c[2] > 1 => call[<<c[1], c[2] - 1>>].pc # "idle")

\* PermissionError: the mission of another actor, or of the other workspace.
PrepareMission(c) ==
  /\ Sent(c)
  /\ IF ~Exists(c) THEN Goto(c, "create") /\ UNCHANGED missions
     ELSE IF ~Owns(c) THEN Goto(c, "failed") /\ UNCHANGED missions
     ELSE Accept(c, Mission(c))
  /\ UNCHANGED <<ledger, body, process, created>>

\* The insert of a mission another call created meanwhile violates the primary key.
CreateMission(c) ==
  /\ call[c].pc = "create"
  /\ IF Exists(c) THEN Goto(c, "failed") /\ UNCHANGED missions
     ELSE Accept(c, Created(Body(c).actor, Body(c).mode))
  /\ UNCHANGED <<ledger, body, process, created>>

-----------------------------------------------------------------------------
\* The work of a turn

Answer(c, suffix, answer) ==
  Set(c, [call[c] EXCEPT !.pc = "persist", !.turn = suffix, !.answer = answer])

LightweightReply(c) ==
  /\ call[c].pc = "light"
  /\ Answer(c, "", [NoAnswer EXCEPT !.state = "ORIENTING", !.stop_reason = "LIGHTWEIGHT_REPLY"])
  /\ UNCHANGED <<ledger, body, missions, process, created>>

\* The run_id that the payload of a DataHub decision names: the proof's.
ProofRunId == <<"proof">>

\* buyer_decision raises when no verified proof artifact is there.
DatahubFit(c) ==
  /\ call[c].pc = "datahub"
  /\ \/ Goto(c, "failed")
     \/ Answer(c, "datahub-fit",
               [NoAnswer EXCEPT !.state = "SYNTHESIZING", !.tools = <<"evaluate_datahub_fit">>,
                  !.stop_reason = "DATAHUB_FIT_DECISION_READY",
                  !.artifacts = {[kind |-> "cited_decision", authority |-> "VERIFIED",
                                  sources |-> {"datahub"}, run |-> ProofRunId,
                                  by |-> RootAgent]}])
  /\ UNCHANGED <<ledger, body, missions, process, created>>

\* The refresh runs behind the answer, which counts and ranks what is known now.
MarketplaceDiscovery(c) ==
  /\ call[c].pc = "market"
  /\ refresh' = refresh \cup {c}
  /\ Answer(c, "marketplace-discovery",
            [NoAnswer EXCEPT !.message = Published \cup discovered, !.state = "SYNTHESIZING",
               !.tools = <<"search_published_products">>,
               !.stop_reason = "SIRA_MARKETPLACE_CANDIDATES_READY",
               !.artifacts = {[kind |-> "candidate_set", authority |-> "OBSERVED",
                               sources |-> discovered, run |-> <<>>, by |-> RootAgent]}])
  /\ UNCHANGED <<ledger, body, missions, discovered, backup, restarts, created>>

\* _refresh_marketplace_supply after its await: one listing per domain.
\* Mutant: the domains of the same answer are not remembered.
ForgetsOwnDomains(listings, known) ==
  {l \in Range(listings) : Domain[l] \notin {Domain[k] : k \in known}}

NewListings(listings, known) ==
  {listings[i] : i \in {j \in DOMAIN listings :
     \A l \in known \cup {listings[k] : k \in 1 .. j - 1} : Domain[l] # Domain[listings[j]]}}

RefreshMarketplaceSupply(c) ==
  /\ c \in refresh
  /\ refresh' = refresh \ {c}
  /\ \/ \E found \in Discoveries :
          discovered' = discovered \cup NewListings(found, Published \cup discovered)
     \/ UNCHANGED discovered
  /\ UNCHANGED <<ledger, body, missions, call, backup, restarts, created>>

-----------------------------------------------------------------------------
\* _run_agent, in the first turn and in at most two continuations

Suffix(round) == <<"", "continuation:0", "continuation:1">>[round + 1]

\* After the turns of a task: the governed decision of a buyer, or the answer.
Enriching(c, k) == IF Body(c).mode = "SIRA" /\ k.ready THEN "find" ELSE "done"

\* An exception of the first turn ends the call, one of a continuation the loop.
AgentFails(c) == Goto(c, IF call[c].round = 0 THEN "failed" ELSE Enriching(c, call[c]))

SelectKey(c) == IF Body(c).mode = "SIRA" THEN "sira" ELSE IF backup THEN "backup" ELSE "primary"

StartAgent(c) ==
  /\ call[c].pc = "agent"
  /\ Set(c, [call[c] EXCEPT !.pc = "running", !.key = SelectKey(c)])
  /\ UNCHANGED <<ledger, body, missions, process, created>>

AgentAnswers(c) ==
  /\ call[c].pc = "running"
  /\ \E a \in Outputs : Answer(c, Suffix(call[c].round), a)
  /\ UNCHANGED <<ledger, body, missions, process, created>>

\* AuthenticationError: the first call to meet it moves the process to the backup key.
AgentRefused(c) ==
  /\ call[c].pc = "running"
  /\ IF call[c].key = "primary" /\ ~backup
     THEN backup' = TRUE /\ Set(c, [call[c] EXCEPT !.key = "backup"])
     ELSE AgentFails(c) /\ UNCHANGED backup
  /\ UNCHANGED <<ledger, body, missions, refresh, discovered, restarts, created>>

\* Mutant: a rate limit sends the agent off again.
AgentRetries(c) ==
  /\ call[c].pc = "running"
  /\ Goto(c, "agent")
  /\ UNCHANGED <<ledger, body, missions, process, created>>

\* Rate limit, invalid output, unavailable provider.
AgentUnavailable(c) ==
  /\ call[c].pc = "running"
  /\ AgentFails(c)
  /\ UNCHANGED <<ledger, body, missions, process, created>>

-----------------------------------------------------------------------------
\* _persist_turn, one transaction under the row lock

\* Where the call goes once the turn is committed.
AfterTurn(c, k) ==
  IF Body(c).route = "GOVERNED" THEN [k EXCEPT !.pc = "artifact"]
  ELSE IF Body(c).route # "TASK" \/ k.turn = "snowflake" THEN [k EXCEPT !.pc = "done"]
  ELSE LET told == [k EXCEPT !.ready = @ \/ k.answer.ready]
       IN IF k.answer.continue /\ ~k.answer.attention /\ k.round < 2
          THEN [told EXCEPT !.pc = "agent", !.round = @ + 1]
          ELSE [told EXCEPT !.pc = Enriching(c, told)]

\* A refused turn ends the call, except in the blocks that catch everything.
TurnFails(c) ==
  Goto(c, IF call[c].turn = "snowflake" /\ Body(c).route = "TASK" THEN "done"
          ELSE IF call[c].round > 0 THEN Enriching(c, call[c]) ELSE "failed")

PersistTurn(c) ==
  LET k == call[c]
  IN /\ k.pc = "persist"
     /\ \E es \in {TurnEvents(Turn(c, k.turn), k.answer)} :
          IF Persistable(Mission(c), es, k.answer)
          THEN Store(c, Persisted(Mission(c), es, k.answer)) /\ Set(c, AfterTurn(c, k))
          ELSE TurnFails(c) /\ UNCHANGED missions
     /\ UNCHANGED <<ledger, body, process, created>>

-----------------------------------------------------------------------------
\* The governed decision

Deciding(c) == CreateDecision(c, Body(c).mission)
               /\ UNCHANGED <<body, missions, process, created>>

DecisionFails(c) ==
  /\ call[c].pc \in Governing
  /\ Goto(c, IF Body(c).route = "TASK" THEN "done" ELSE "failed")
  /\ UNCHANGED <<ledger, body, missions, process, created>>

\* _snowflake_answer: the governed route persists its turn before the artifact,
\* the enrichment of a task after it.
Governed == [NoAnswer EXCEPT !.state = "SYNTHESIZING", !.tools = <<"evaluate_cited_decision">>,
                             !.stop_reason = "GOVERNED_DECISION_READY"]

Decided(c) ==
  /\ call[c].pc = "decided"
  /\ IF Body(c).route = "GOVERNED" THEN Answer(c, "snowflake", Governed) ELSE Goto(c, "artifact")
  /\ UNCHANGED <<ledger, body, missions, process, created>>

CitedDecision(c) == [kind |-> "cited_decision", authority |-> "VERIFIED",
                     sources |-> call[c].sources, run |-> call[c].run,
                     by |-> "snowflake-decision-plane"]

PersistSnowflakeArtifact(c) ==
  /\ call[c].pc = "artifact"
  /\ Store(c, WithArtifacts(Mission(c), {CitedDecision(c)}))
  /\ IF Body(c).route = "GOVERNED" THEN Goto(c, "done") ELSE Answer(c, "snowflake", Governed)
  /\ UNCHANGED <<ledger, body, process, created>>

-----------------------------------------------------------------------------
\* create_purchase_request: one transaction under the lock of get_for_actor,
\* which refuses an unknown mission and another actor's, but not another mode.
\* A retry finds the completed idempotency record.

CreatePurchaseRequest(d) ==
  LET m == Origin[d].mission
  IN /\ d \notin created
     /\ missions[m].version > 0 /\ missions[m].actor = Origin[d].actor
     /\ missions' = [missions EXCEPT ![m] = Proposed(missions[m], d)]
     /\ created' = created \cup {d}
     /\ UNCHANGED <<ledger, body, call, process>>

-----------------------------------------------------------------------------
\* Environment

InFlight(c) == call[c].pc \notin {"idle", "done", "failed"}

\* The API process stops: its calls, its refreshes and what it learned are gone.
Restart ==
  /\ restarts < MaxRestarts
  /\ restarts' = restarts + 1
  /\ call' = [c \in Calls |-> IF InFlight(c) THEN [call[c] EXCEPT !.pc = "failed"] ELSE call[c]]
  /\ refresh' = {} /\ discovered' = {} /\ backup' = FALSE
  /\ UNCHANGED <<ledger, body, missions, created>>

Step(c) ==
  \/ CreateMission(c) \/ LightweightReply(c) \/ DatahubFit(c) \/ MarketplaceDiscovery(c)
  \/ StartAgent(c) \/ AgentAnswers(c) \/ AgentRefused(c) \/ AgentUnavailable(c)
  \/ PersistTurn(c) \/ Deciding(c) \/ DecisionFails(c) \/ Decided(c)
  \/ PersistSnowflakeArtifact(c)

Next ==
  \/ \E c \in Calls : PrepareMission(c) \/ Step(c) \/ RefreshMarketplaceSupply(c)
  \/ \E d \in Decisions : CreatePurchaseRequest(d)
  \/ Restart

\* The event loop runs every call and its refresh on: awaits end, by answer
\* or by timeout.
Fairness == \A c \in Calls : WF_vars(Step(c) \/ RefreshMarketplaceSupply(c))

Spec == Init /\ [][Next]_vars /\ Fairness

-----------------------------------------------------------------------------
\* Properties

Stored == {m \in Missions : missions[m].version > 0}
Kind(m, i) == missions[m].events[i].key.kind
TurnOf(m, i) == missions[m].events[i].key.turn
TurnKinds == {"assistant", "tool", "agent"}

\* The history of a mission reads as a conversation, whatever calls overlap:
\* no event twice, every answer after the message it answers, its tools next
\* to it, its agent events behind it, and no message of another actor or
\* workspace (append_event under the lock of get_for_actor).
ConversationSound ==
  \A m \in Stored :
    LET es == missions[m].events
    IN /\ \A i, j \in DOMAIN es : es[i].key = es[j].key => i = j
       /\ \A i \in DOMAIN es : Kind(m, i) \in TurnKinds =>
            \E j \in 1 .. i - 1 : Kind(m, j) = "user" /\ TurnOf(m, j)[1] = TurnOf(m, i)[1]
       /\ \A i \in DOMAIN es : Kind(m, i) = "tool" => TurnOf(m, i - 1) = TurnOf(m, i)
       /\ \A i \in DOMAIN es : Kind(m, i) = "agent" =>
            \E j \in 1 .. i - 1 : Kind(m, j) = "assistant" /\ TurnOf(m, j) = TurnOf(m, i)
       /\ \A i \in DOMAIN es : Kind(m, i) = "user" =>
            LET b == body[TurnOf(m, i)[1]]
            IN b.mission = m /\ b.actor = missions[m].actor /\ b.mode = missions[m].mode

DecisionsOf(m) == {i \in DOMAIN missions[m].events : Kind(m, i) = "decision"}

\* The checkpoint that a mission resumes from covers every persisted turn and
\* every decision created from it: behind it there are only messages still to
\* be answered.  Each decision left a checkpoint of its own, and version and
\* turn budget count the other checkpoints, those of turns, whichever of the
\* two writers came last (checkpoint at the end of _persist_turn and of
\* create_purchase_request, uq_agent_checkpoint_sequence).
CheckpointCoversTurns ==
  \A m \in Stored :
    LET row == missions[m]
    IN /\ \A i \in DOMAIN row.events : Kind(m, i) \in TurnKinds => i <= row.checkpoint
       /\ \A i \in DecisionsOf(m) : i <= row.checkpoint /\ i \in row.checkpoints
       /\ row.version = 1 + Cardinality(row.checkpoints \ DecisionsOf(m))
       /\ row.turns_left = IF row.version > Budget THEN 0 ELSE Budget + 1 - row.version

\* What a mission resumes from tells what happened in it.
HistorySound == ConversationSound /\ CheckpointCoversTurns

\* The exception: a call that took over the run of another call before that one
\* stored (all) its citations leaves a decision without them.
TookOverRun(run) == \E c \in Calls \ {run} : call[c].run = run

\* Where an OBSERVED or VERIFIED artifact comes from.  The governed decision of
\* _persist_snowflake_artifact cites a run of the mission's own request and
\* nothing but what that run recorded, and all of it unless the run was taken
\* over: then it may be VERIFIED without a source.  The proposal of
\* create_purchase_request names the request created with it and its event is
\* in the same history.  Whatever _persist_turn stores has a source.
VerifiedIsRecorded ==
  \A m \in Stored : \A a \in missions[m].artifacts :
    a.authority \in {"OBSERVED", "VERIFIED"} =>
      CASE a.by = "snowflake-decision-plane" ->
             /\ a.sources \subseteq CitedOf(a.run)
             /\ \E r \in Range(runs), q \in requests :
                  r.id = a.run /\ q.id = r.request /\ q.key = m
             /\ a.sources # Range(Citations) => TookOverRun(a.run)
        [] a.by = "authority-kernel" ->
             \E d \in created : /\ a.sources = {d} /\ Origin[d].mission = m
                                /\ HasKey(missions[m], DecisionCreated(d).key)
        [] OTHER -> a.sources # {}

\* The catalogue shows one listing per domain, whatever refreshes added to the
\* published listings (_refresh_marketplace_supply).
OneListingPerDomain ==
  \A p, q \in Published \cup discovered : Domain[p] = Domain[q] => p = q

\* Every call gets an answer or an error and every refresh ends: the process
\* comes to rest (no call waits for another across its awaits).
CallsEnd == <>[](refresh = {} /\ \A c \in Calls : ~InFlight(c))
=============================================================================
