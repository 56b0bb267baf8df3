------------------------------ MODULE ProofRun ------------------------------
(***************************************************************************)
(* The proofs the operator runs against DataHub and the adapter router:    *)
(* run_exchange_proof with its B-A-B causal proof ("causal" processes) and *)
(* run_deployment_proof ("deploy" processes).  Both change shared state    *)
(* outside the database, may be interrupted after every call, and undo     *)
(* their changes in a finally block from flags they set themselves.        *)
(*                                                                         *)
(* DataHub answers reads from an index that lags behind its writes; other  *)
(* users change the governed facts meanwhile.  The router applies a change *)
(* only at the version the caller read.                                    *)
(***************************************************************************)
EXTENDS Naturals, Sequences, SequencesExt, FiniteSets

CONSTANTS Causal, Deploy, \* processes of each kind
          MaxDrift        \* bound on changes by other DataHub users

ASSUME ProofAssumption == Causal \cap Deploy = {} /\ MaxDrift \in Nat

Procs == Causal \cup Deploy

VARIABLES hub,        \* DataHub facts as written
          index,      \* DataHub facts as reads return them
          drift,      \* changes by other users so far
          router,     \* version and active adapter of the proof router
          routes,     \* history: who activated which adapter, by version
          proc,       \* program counter, recovery flags and reads of each process
          documents,  \* receipt documents in DataHub: who wrote what
          unrecorded, \* history: processes that changed something no flag records
          stranded    \* history: processes whose recovery failed

hub_vars == <<hub, index, drift>>
router_vars == <<router, routes>>
vars == <<hub_vars, router_vars, proc, documents, unrecorded, stranded>>

Adapters == {"a", "b"}
None == "none"
NoObservation == [pii |-> FALSE, regions |-> {}]
Started == [pc |-> "start", control |-> FALSE, removed |-> FALSE, active |-> FALSE,
            runs |-> <<>>, approval |-> NoObservation, version |-> 0]

-----------------------------------------------------------------------------
\* compile_manifest and evaluate_campaign

\* What _normalize_observation keeps of the facts: the control tag is not
\* part of the fingerprint.
Observation == [pii |-> index.pii, regions |-> index.regions]

Compiles(o) == o.regions # {}
Gates(o) == {"EXECUTION_REGION_ALLOWED", "REQUIRED_SCHEMA_SUPPORTED", "FUNCTIONAL_CANARY_PASSED"}
            \cup (IF o.pii THEN {"RAW_PII_EGRESS_FORBIDDEN"} ELSE {})

\* An adapter refuses a trial that does not allow the EU, in an answer without
\* its identity: campaign_probe raises.
Campaigns(o) == Compiles(o) /\ "EU" \in o.regions

\* campaign_probe: both adapters run in the EU with the full schema, only b
\* redacts.
Passed(adapter) ==
  {"EXECUTION_REGION_ALLOWED", "REQUIRED_SCHEMA_SUPPORTED", "FUNCTIONAL_CANARY_PASSED"}
  \cup (IF adapter = "b" THEN {"RAW_PII_EGRESS_FORBIDDEN"} ELSE {})
Price == [a |-> 2, b |-> 5]
Eligible(o) == {x \in Adapters : Gates(o) \subseteq Passed(x)}
Winner(o) == CHOOSE x \in Eligible(o) : \A y \in Eligible(o) : Price[x] <= Price[y]
Decision(o) == [manifest |-> Gates(o), fingerprint |-> o, winner |-> Winner(o)]

-----------------------------------------------------------------------------
\* Steps of a process

At(p, pc) == proc[p].pc = pc
Goto(p, pc) == proc' = [proc EXCEPT ![p].pc = pc]
Raised(p) == IF p \in Causal THEN "recover" ELSE "cleanup"

\* An exception that no handler catches before the finally block.
Raise(p) == Goto(p, Raised(p))

Write(field, value) == hub' = [hub EXCEPT ![field] = value] /\ UNCHANGED <<index, drift>>

\* set_field_tag: the tool fails, or its answer is lost after it took effect.
SetTag(p, from, field, value, to) ==
  /\ At(p, from)
  /\ \/ Write(field, value) /\ proc' = [proc EXCEPT ![p] = to] /\ UNCHANGED unrecorded
     \/ Write(field, value) /\ Raise(p) /\ unrecorded' = unrecorded \cup {p}
     \/ Raise(p) /\ UNCHANGED <<hub_vars, unrecorded>>
  /\ UNCHANGED <<router_vars, documents, stranded>>

\* Mutant: the wait has no deadline.
AwaitForever(p, from, field, value, to) ==
  /\ At(p, from)
  /\ index[field] = value /\ proc' = [proc EXCEPT ![p] = to] /\ UNCHANGED unrecorded
  /\ UNCHANGED <<hub_vars, router_vars, documents, stranded>>

\* wait_for_pii and wait_for_field_tag: until the index shows the value, or 20 s.
AwaitTag(p, from, field, value, to) ==
  /\ At(p, from)
  /\ \/ index[field] = value /\ proc' = [proc EXCEPT ![p] = to] /\ UNCHANGED unrecorded
     \/ /\ Raise(p)
        /\ unrecorded' = IF from = "off_wait" /\ p \in Deploy
                         THEN unrecorded \cup {p} ELSE unrecorded
  /\ UNCHANGED <<hub_vars, router_vars, documents, stranded>>

To(p, pc) == [proc[p] EXCEPT !.pc = pc]

\* _compile_and_run: observe, compile, run the campaign, check, record.
CompileAndRun(p, from, accepts, to) ==
  /\ At(p, from)
  /\ \/ /\ Campaigns(Observation) /\ accepts
        /\ proc' = [proc EXCEPT ![p] = [To(p, to) EXCEPT !.runs = Append(@, Observation)]]
     \/ Raise(p)
  /\ UNCHANGED <<hub_vars, router_vars, documents, unrecorded, stranded>>

-----------------------------------------------------------------------------
\* run_causal_proof

Baseline(p) == proc[p].runs[1]

\* Mutant: the recovery flag is set once the index shows the removal.
FlagAfterWait(p) ==
  \/ SetTag(p, "off", "pii", FALSE, To(p, "off_wait"))
  \/ AwaitTag(p, "off_wait", "pii", FALSE, [To(p, "mutation") EXCEPT !.removed = TRUE])

RemovePii(p) ==
  \/ SetTag(p, "off", "pii", FALSE, [To(p, "off_wait") EXCEPT !.removed = TRUE])
  \/ AwaitTag(p, "off_wait", "pii", FALSE, To(p, "mutation"))

Control(p) ==
  \/ SetTag(p, "control", "control", TRUE, [To(p, "control_wait") EXCEPT !.control = TRUE])
  \/ AwaitTag(p, "control_wait", "control", TRUE, To(p, "negative"))
  \/ CompileAndRun(p, "negative", Observation = Baseline(p), "uncontrol")
  \/ SetTag(p, "uncontrol", "control", FALSE, To(p, "uncontrol_wait"))
  \/ AwaitTag(p, "uncontrol_wait", "control", FALSE, [To(p, "off") EXCEPT !.control = FALSE])

Restores(p) == Winner(Observation) = "b" /\ Observation = Baseline(p)

run_causal_proof(p) ==
  \/ SetTag(p, "start", "pii", TRUE, To(p, "on_wait"))
  \/ AwaitTag(p, "on_wait", "pii", TRUE, To(p, "baseline"))
  \/ CompileAndRun(p, "baseline", Winner(Observation) = "b", "control")
  \/ Control(p)
  \/ RemovePii(p)
  \/ CompileAndRun(p, "mutation",
       Winner(Observation) = "a" /\ Decision(Observation) # Decision(Baseline(p)), "back")
  \/ SetTag(p, "back", "pii", TRUE, To(p, "back_wait"))
  \/ AwaitTag(p, "back_wait", "pii", TRUE, [To(p, "restored") EXCEPT !.removed = FALSE])
  \/ CompileAndRun(p, "restored", Restores(p), "recover")

\* The finally block: a new session undoes what the flags record.  When it
\* fails, the proof ends with RECOVERY_REQUIRED.
Undone(p) == [hub EXCEPT !.control = @ /\ ~proc[p].control, !.pii = @ \/ proc[p].removed]

RecoverCausal(p) ==
  /\ At(p, "recover")
  /\ \/ /\ hub' = Undone(p)
        /\ Goto(p, IF Len(proc[p].runs) = 4 THEN "approve" ELSE "failed")
        /\ UNCHANGED stranded
     \/ /\ hub' \in {hub, [hub EXCEPT !.control = @ /\ ~proc[p].control]}
        /\ Goto(p, "failed")
        /\ stranded' = stranded \cup {p}
  /\ UNCHANGED <<index, drift, router_vars, documents, unrecorded>>

-----------------------------------------------------------------------------
\* run_exchange_proof after the causal proof

Exchanged(p) == [by |-> p, kind |-> "decision", fact |-> Decision(proc[p].runs[4])]

\* exact_approval_subject, read_stable, assert_current_approval.
ApproveExchange(p) ==
  /\ At(p, "approve")
  /\ \/ /\ Observation = proc[p].runs[4]
        /\ proc' = [proc EXCEPT ![p] = [To(p, "publish") EXCEPT !.approval = Observation]]
     \/ Goto(p, "failed")
  /\ UNCHANGED <<hub_vars, router_vars, documents, unrecorded, stranded>>

PublishExchange(p) ==
  /\ At(p, "publish")
  /\ \/ documents' = documents \cup {Exchanged(p)} /\ Goto(p, "reread")
     \/ documents' = documents \cup {Exchanged(p)} /\ Goto(p, "failed")
     \/ UNCHANGED documents /\ Goto(p, "failed")
  /\ UNCHANGED <<hub_vars, router_vars, unrecorded, stranded>>

\* reread_receipt_projection finds the document or gives up.
RereadExchange(p) ==
  /\ At(p, "reread")
  /\ \E pc \in (IF Exchanged(p) \in documents THEN {"passed", "failed"} ELSE {"failed"}) :
       Goto(p, pc)
  /\ UNCHANGED <<hub_vars, router_vars, documents, unrecorded, stranded>>

-----------------------------------------------------------------------------
\* The router, as router_server and effect_probe drive it

\* effect_probe reads the route and requires the digest of the plan.
ReadRoute(p, from, expected, to) ==
  /\ At(p, from)
  /\ \/ /\ router.active = expected
        /\ proc' = [proc EXCEPT ![p] = [To(p, to) EXCEPT !.version = router.version]]
     \/ Raise(p)
  /\ UNCHANGED <<hub_vars, router_vars, documents, unrecorded, stranded>>

\* Mutant: the router applies a change whatever version it was made for.
AnyVersion(v) == TRUE

SameVersion(v) == v = router.version

Applied(p, target) ==
  /\ router' = [version |-> router.version + 1, active |-> target]
  /\ routes' = Append(routes, [active |-> target, by |-> p])

\* _transition, then the probe and the routed traffic of effect_probe, within
\* the 20 s of the subprocess.  An unhealthy target changes nothing; a failed
\* probe or a timeout after the change raises.
Transition(p, from, target, to) ==
  /\ At(p, from)
  /\ \/ /\ SameVersion(proc[p].version) /\ Applied(p, target)
        /\ proc' = [proc EXCEPT ![p] = to] /\ UNCHANGED unrecorded
     \/ /\ SameVersion(proc[p].version) /\ Applied(p, target)
        /\ Raise(p)
        /\ unrecorded' = IF target = "a" THEN unrecorded \cup {p} ELSE unrecorded
     \/ Raise(p) /\ UNCHANGED <<router_vars, unrecorded>>
  /\ UNCHANGED <<hub_vars, documents, stranded>>

-----------------------------------------------------------------------------
\* run_deployment_proof

Receipt(p) == [by |-> p, kind |-> "receipt", approval |-> proc[p].approval,
               version |-> proc[p].version + 1]

ObserveDeployment(p) ==
  /\ At(p, "observe")
  /\ \/ /\ Campaigns(Observation) /\ Winner(Observation) = "a"
        /\ proc' = [proc EXCEPT ![p] = [To(p, "decisive") EXCEPT !.approval = Observation]]
     \/ Raise(p)
  /\ UNCHANGED <<hub_vars, router_vars, documents, unrecorded, stranded>>

\* assert_current_approval on fingerprint and manifest.
SameContext(o, approval) == Compiles(o) /\ Decision(o) = Decision(approval)

\* read_stable compared with the approved observation, before and after the effect.
Reread(p, from, pcs) ==
  /\ At(p, from)
  /\ \/ SameContext(Observation, proc[p].approval) /\ \E pc \in pcs : Goto(p, pc)
     \/ Raise(p)
  /\ UNCHANGED <<hub_vars, router_vars, documents, unrecorded, stranded>>

\* publish_receipt_projection and its reread: the document may be there even
\* if the answer is not.
Writeback(p) ==
  /\ At(p, "writeback")
  /\ \/ documents' = documents \cup {Receipt(p)} /\ Goto(p, "rollback_read")
     \/ documents' = documents \cup {Receipt(p)} /\ Raise(p)
     \/ UNCHANGED documents /\ Raise(p)
  /\ UNCHANGED <<hub_vars, router_vars, unrecorded, stranded>>

run_deployment_proof(p) ==
  \/ SetTag(p, "start", "pii", FALSE, To(p, "off_wait"))
  \/ AwaitTag(p, "off_wait", "pii", FALSE, [To(p, "observe") EXCEPT !.removed = TRUE])
  \/ ObserveDeployment(p)
  \/ Reread(p, "decisive", {"effect_read"})
  \/ ReadRoute(p, "effect_read", "b", "effect")
  \/ Transition(p, "effect", "a", [To(p, "post") EXCEPT !.active = TRUE])
  \/ Reread(p, "post", {"writeback", "rollback_read"}) \* or simulate_writeback_failure
  \/ Writeback(p)
  \/ ReadRoute(p, "rollback_read", "a", "rollback")
  \/ Transition(p, "rollback", "b", [To(p, "back") EXCEPT !.active = FALSE])
  \/ SetTag(p, "back", "pii", TRUE, To(p, "back_wait"))
  \/ AwaitTag(p, "back_wait", "pii", TRUE, [To(p, "passed") EXCEPT !.removed = FALSE])

\* The emergency rollback of the finally block: read, then compare and set.
EmergencyRollback(p) ==
  IF proc[p].active /\ router.active = "a" THEN Applied(p, "b") ELSE UNCHANGED router_vars

\* The finally block: closing the session, the rollback, whose failure is only
\* logged, and the restored tag may each fail.
CleanupDeployment(p) ==
  /\ At(p, "cleanup")
  /\ \/ EmergencyRollback(p) /\ hub' = [hub EXCEPT !.pii = @ \/ proc[p].removed]
        /\ UNCHANGED stranded
     \/ /\ UNCHANGED router_vars /\ hub' \in {hub, [hub EXCEPT !.pii = @ \/ proc[p].removed]}
        /\ stranded' = stranded \cup {p}
     \/ /\ EmergencyRollback(p) /\ UNCHANGED hub
        /\ stranded' = stranded \cup {p}
  /\ Goto(p, "failed")
  /\ UNCHANGED <<index, drift, documents, unrecorded>>

-----------------------------------------------------------------------------
\* DataHub: the index catches up, and other users change facts

Reindex ==
  /\ index # hub /\ index' = hub
  /\ UNCHANGED <<hub, drift, router_vars, proc, documents, unrecorded, stranded>>

Drift ==
  /\ drift < MaxDrift /\ drift' = drift + 1
  /\ \/ hub' = [hub EXCEPT !.pii = ~@]
     \/ \E r \in SUBSET {"EU", "US"} : r # hub.regions /\ hub' = [hub EXCEPT !.regions = r]
  /\ UNCHANGED <<index, router_vars, proc, documents, unrecorded, stranded>>

\* No proof has changed anything.
AtRest ==
  /\ hub = [pii |-> TRUE, control |-> FALSE, regions |-> {"EU"}]
  /\ index = hub /\ drift = 0
  /\ router = [version |-> 1, active |-> "b"]
  /\ routes = <<[active |-> "b", by |-> None]>>
  /\ documents = {} /\ unrecorded = {} /\ stranded = {}

Init == AtRest /\ proc = [p \in Procs |-> Started]

ExchangeStep(p) ==
  \/ run_causal_proof(p) \/ RecoverCausal(p)
  \/ ApproveExchange(p) \/ PublishExchange(p) \/ RereadExchange(p)
DeploymentStep(p) == run_deployment_proof(p) \/ CleanupDeployment(p)

Step(p) == IF p \in Causal THEN ExchangeStep(p) ELSE DeploymentStep(p)

Next == (\E p \in Procs : Step(p)) \/ Reindex \/ Drift

Fairness == \A p \in Procs : WF_vars(Step(p))
Spec == Init /\ [][Next]_vars /\ Fairness

-----------------------------------------------------------------------------
Ended(p) == proc[p].pc \in {"passed", "failed"}

\* The finally blocks of both proofs: once all proofs have ended, however they
\* ended and overlapped, the PII tag is back, the control tag is gone and the
\* router is on adapter b, unless a recovery failed or a change was made that
\* no flag records.
ProofsRestore ==
  ((\A p \in Procs : Ended(p)) /\ unrecorded = {} /\ stranded = {} /\ drift = 0) =>
    hub.pii /\ ~hub.control /\ router.active = "b"

\* A receipt document names a route version at which its own process put the
\* approved adapter in place, under an approval that had selected it.
ReceiptIsTrue ==
  \A d \in documents : d.kind = "receipt" =>
    /\ Winner(d.approval) = "a"
    /\ d.version \in DOMAIN routes /\ routes[d.version] = [active |-> "a", by |-> d.by]
    /\ d.version > 1 /\ routes[d.version - 1].active = "b"

\* _project_buyer_decision: an exchange proof that passed shows the B-A-B
\* sequence on one context, and its document holds the restored decision,
\* which the owner approved.
PassIsCausal ==
  \A p \in Causal : At(p, "passed") =>
    LET r == proc[p].runs IN
    /\ <<Winner(r[1]), Winner(r[2]), Winner(r[3]), Winner(r[4])>> = <<"b", "b", "a", "b">>
    /\ Decision(r[1]) = Decision(r[4]) /\ Decision(r[2]) = Decision(r[1])
    /\ Decision(r[3]) # Decision(r[4]) /\ proc[p].approval = r[4]
    /\ \E d \in documents : d.kind = "decision" /\ d.by = p /\ d.fact = Decision(r[4])

\* What the proofs leave in DataHub is what they did and saw.
DocumentsAreTrue == ReceiptIsTrue /\ PassIsCausal

\* Every read, wait and subprocess has a timeout: each proof ends.
ProofsEnd == \A p \in Procs : <>Ended(p)
=============================================================================
