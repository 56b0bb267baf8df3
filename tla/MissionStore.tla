---------------------------- MODULE MissionStore ----------------------------
(***************************************************************************)
(* A mission as the rows of the mission repository keep it: the mission,   *)
(* its append-only events, its tasks, artifacts and checkpoints.  Every    *)
(* operator maps a mission to the mission after the statements of one      *)
(* repository call; the caller holds the row lock and commits the result.  *)
(***************************************************************************)
EXTENDS Naturals, Sequences, FiniteSets, Functions

CONSTANT Budget  \* model_turns_remaining of a new mission

\* A row that does not exist.
NoMission == [version |-> 0]

\* Events: the key is unique, the payload is compared by its hash.
EventKey(kind, turn, index, tool) == [kind |-> kind, turn |-> turn, index |-> index, tool |-> tool]
Event(kind, turn, payload) == [key |-> EventKey(kind, turn, 0, ""), payload |-> payload]

HasKey(row, key) == \E i \in DOMAIN row.events : row.events[i].key = key

\* append_event of each of es: a known key is replayed.
\* Mutant: appends without looking the key up.
AppendedBlindly(row, es) == [row EXCEPT !.events = @ \o es]

Unknown(row, es) == {i \in DOMAIN es : ~HasKey(row, es[i].key)}

\* The events of es at some of its positions, in their order.
At(es) ==
  [new \in SUBSET DOMAIN es |->
     [k \in 1 .. Cardinality(new) |->
        es[CHOOSE i \in new : Cardinality({j \in new : j <= i}) = k]]]

Appended(row, es) == [row EXCEPT !.events = @ \o At(es)[Unknown(row, es)]]

\* append_event raises PersistenceConflict: a known key with another payload.
Conflicts(row, es) ==
  \E i \in DOMAIN es, j \in DOMAIN row.events :
    row.events[j].key = es[i].key /\ row.events[j].payload # es[i].payload

Created(actor, mode) ==
  [actor |-> actor, mode |-> mode, state |-> "ORIENTING", version |-> 1,
   turns_left |-> Budget, stop_reason |-> "none",
   events |-> << Event("created", <<>>, <<>>) >>, tasks |-> <<>>, artifacts |-> {},
   checkpoint |-> 0, checkpoints |-> {}]

\* What _prepare_mission writes: a lightweight message gets no agent.accepted.
Accepting(light, turn, message) ==
  << Event("user", turn, message) >>
  \o IF light THEN <<>> ELSE << Event("accepted", turn, <<>>) >>

Prepared(row, light, turn, message) ==
  Appended([row EXCEPT !.state = IF light THEN "ORIENTING" ELSE "PLANNING"],
           Accepting(light, turn, message))

-----------------------------------------------------------------------------
\* _persist_turn

TurnEvents(turn, answer) ==
  << Event("assistant", turn, [message |-> answer.message, tools |-> answer.tools]) >>
  \o [i \in DOMAIN answer.tools |->
        [key |-> EventKey("tool", turn, i, answer.tools[i]), payload |-> answer.tools[i]]]
  \o [i \in DOMAIN answer.events |->
        [key |-> EventKey("agent", turn, i, ""), payload |-> answer.events[i]]]

\* An artifact that claims authority without a source is stored as inferred.
StoredAuthority(a) ==
  IF a.authority \in {"OBSERVED", "VERIFIED"} /\ a.sources = {}
  THEN [a EXCEPT !.authority = "INFERRED"] ELSE a

\* add_artifact: the content hash makes the artifacts of a mission a set.
WithArtifacts(row, as) == [row EXCEPT !.artifacts = @ \cup as]

\* add_task: no key, every call inserts a row.
WithTasks(row, ts) == [row EXCEPT !.tasks = @ \o ts]

\* checkpoint: at the last event; uq_agent_checkpoint_sequence admits one per sequence.
Checkpointed(row) ==
  [row EXCEPT !.checkpoint = Len(row.events), !.checkpoints = @ \cup {Len(row.events)}]
Uncheckpointed(row) == Len(row.events) \notin row.checkpoints

Answered(row, es, answer) ==
  WithArtifacts(
    WithTasks(
      Appended([row EXCEPT !.state = answer.state, !.version = @ + 1,
                           !.stop_reason = answer.stop_reason,
                           !.turns_left = IF @ = 0 THEN 0 ELSE @ - 1],
               es),
      answer.tasks),
    {StoredAuthority(a) : a \in answer.artifacts})

Persistable(row, es, answer) ==
  ~Conflicts(row, es) /\ Uncheckpointed(Answered(row, es, answer))

Persisted(row, es, answer) == Checkpointed(Answered(row, es, answer))

-----------------------------------------------------------------------------
\* The mission half of create_purchase_request: a checkpoint of its own, which
\* leaves version, state and budget alone.
DecisionCreated(d) == Event("decision", <<d, "">>, <<>>)
PurchaseProposal(d) == [kind |-> "purchase_proposal", authority |-> "VERIFIED", sources |-> {d},
                        run |-> <<>>, by |-> "authority-kernel"]

Proposed(row, d) ==
  Checkpointed(WithArtifacts(Appended(row, << DecisionCreated(d) >>), {PurchaseProposal(d)}))
=============================================================================
