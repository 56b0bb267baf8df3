--------------------------- MODULE ProofRunProofs ---------------------------
(***************************************************************************)
(* Proofs about ProofRun, for any number of overlapping proofs of both     *)
(* kinds and any drift: what is changed is undone (ProofsRestore), and the *)
(* documents say what was done and seen (DocumentsAreTrue).                *)
(***************************************************************************)
EXTENDS ProofRun, SequenceTheorems, TLAPS

Regions == SUBSET {"EU", "US"}
Facts == [pii : BOOLEAN, control : BOOLEAN, regions : Regions]
Observations == [pii : BOOLEAN, regions : Regions]
Routes == [active : Adapters, by : Procs \cup {None}]
Steps == {"start", "on_wait", "baseline", "control", "control_wait", "negative", "uncontrol",
          "uncontrol_wait", "off", "off_wait", "mutation", "back", "back_wait", "restored",
          "recover", "approve", "publish", "reread", "observe", "decisive", "effect_read",
          "effect", "post", "writeback", "rollback_read", "rollback", "cleanup", "passed",
          "failed"}
Rows == [pc : Steps, control : BOOLEAN, removed : BOOLEAN, active : BOOLEAN,
         runs : Seq(Observations), approval : Observations, version : Nat]

TypeOK ==
  /\ hub \in Facts /\ index \in Facts /\ drift \in Nat
  /\ router \in [version : Nat \ {0}, active : Adapters] /\ routes \in Seq(Routes)
  /\ proc \in [Procs -> Rows]
  /\ unrecorded \subseteq Procs /\ stranded \subseteq Procs

-----------------------------------------------------------------------------
(* Who still has to undo a change.  The flags say it, except while a step   *)
(* that undoes is behind a process and its flag not yet cleared, and before *)
(* the deployment proof has set its flag.                                   *)

\* The finally block is over.
Recovered == {"approve", "publish", "reread", "passed", "failed"}

OwesPii(p) ==
  \/ proc[p].removed /\ proc[p].pc \notin Recovered \cup {"back_wait"}
  \/ p \in Deploy /\ proc[p].pc = "off_wait"

OwesControl(p) ==
  p \in Causal /\ proc[p].control /\ proc[p].pc \notin Recovered \cup {"uncontrol_wait"}

OwesRoute(p) ==
  p \in Deploy /\ proc[p].active /\ proc[p].pc \notin Recovered \cup {"back", "back_wait"}

Excused == unrecorded # {} \/ stranded # {}

PiiInv == drift = 0 /\ ~hub.pii => Excused \/ \E p \in Procs : OwesPii(p)
ControlInv == hub.control => Excused \/ \E p \in Procs : OwesControl(p)
RouteInv == router.active = "a" => Excused \/ \E p \in Procs : OwesRoute(p)
RestoreInv == PiiInv /\ ControlInv /\ RouteInv

-----------------------------------------------------------------------------
(* What the steps keep true of routes, runs and documents.                  *)

RoutesInv == Len(routes) = router.version /\ routes[router.version].active = router.active

\* Process p has put adapter a in place of b, at the version after the one it read.
Placed(p) ==
  /\ proc[p].version > 0 /\ proc[p].version + 1 \in DOMAIN routes
  /\ routes[proc[p].version + 1] = [active |-> "a", by |-> p]
  /\ routes[proc[p].version].active = "b"

DeployInv(p) ==
  /\ proc[p].pc \in {"decisive", "effect_read", "effect", "post", "writeback"} =>
       Winner(proc[p].approval) = "a"
  /\ proc[p].pc = "effect" => /\ proc[p].version \in DOMAIN routes
                              /\ routes[proc[p].version].active = "b"
  /\ proc[p].pc \in {"post", "writeback"} => Placed(p)

\* The runs of a causal proof that got as far as n runs.
RunsUpTo(r, n) ==
  /\ Len(r) = n
  /\ n >= 1 => Winner(r[1]) = "b"
  /\ n >= 2 => r[2] = r[1]
  /\ n >= 3 => Winner(r[3]) = "a" /\ Decision(r[3]) # Decision(r[1])
  /\ n >= 4 => r[4] = r[1]

CausalInv(p) ==
  LET r == proc[p].runs
      pc == proc[p].pc IN
  /\ pc \in {"start", "on_wait", "baseline"} => RunsUpTo(r, 0)
  /\ pc \in {"control", "control_wait", "negative"} => RunsUpTo(r, 1)
  /\ pc \in {"uncontrol", "uncontrol_wait", "off", "off_wait", "mutation"} => RunsUpTo(r, 2)
  /\ pc \in {"back", "back_wait", "restored"} => RunsUpTo(r, 3)
  /\ pc = "recover" /\ Len(r) = 4 => RunsUpTo(r, 4)
  /\ pc \in {"approve", "publish", "reread", "passed"} => RunsUpTo(r, 4)
  /\ pc \in {"publish", "reread", "passed"} => proc[p].approval = r[4]
  /\ pc = "passed" => Exchanged(p) \in documents

HistoryInv ==
  /\ RoutesInv
  /\ \A p \in Deploy : DeployInv(p)
  /\ \A p \in Causal : CausalInv(p)
  /\ ReceiptIsTrue

Inv == TypeOK /\ RestoreInv /\ HistoryInv

-----------------------------------------------------------------------------
(* Types                                                                    *)

LEMMA InitInv == Init => Inv
<1> SUFFICES ASSUME Init PROVE Inv
  OBVIOUS
<1>1. TypeOK
  <2>1. <<[active |-> "b", by |-> None]>> \in Seq(Routes)
    BY DEF Routes, Adapters
  <2>2. Started \in Rows
    BY DEF Started, Rows, Steps, NoObservation, Observations, Regions
  <2> QED
    BY <2>1, <2>2 DEF Init, AtRest, TypeOK, Facts, Regions, Adapters
<1>2. RestoreInv
  BY DEF Init, AtRest, RestoreInv, PiiInv, ControlInv, RouteInv
<1>3. HistoryInv
  <2>1. RoutesInv
    BY DEF Init, AtRest, RoutesInv
  <2>2. \A p \in Procs : proc[p].pc = "start" /\ proc[p].runs = <<>>
    BY DEF Init, AtRest, Started
  <2>3. \A p \in Deploy : DeployInv(p)
    BY <2>2 DEF DeployInv, Procs
  <2>4. \A p \in Causal : CausalInv(p)
    BY <2>2 DEF CausalInv, RunsUpTo, Procs
  <2>5. ReceiptIsTrue
    BY DEF Init, AtRest, ReceiptIsTrue
  <2> QED
    BY <2>1, <2>3, <2>4, <2>5 DEF HistoryInv
<1> QED
  BY <1>1, <1>2, <1>3 DEF Inv

LEMMA ObservationType == ASSUME TypeOK PROVE Observation \in Observations
BY DEF TypeOK, Facts, Observation, Observations

(* A step that only sends its process to another place.                     *)
LEMMA RowsGoto ==
  ASSUME TypeOK, NEW p \in Procs, NEW pc \in Steps, Goto(p, pc)
  PROVE  proc' \in [Procs -> Rows] /\ proc'[p] \in Rows /\ proc'[p] = [proc[p] EXCEPT !.pc = pc]
BY DEF TypeOK, Goto, Rows

LEMMA RaisedType == \A p \in Procs : Raised(p) \in Steps
BY DEF Raised, Steps

(* Writing one tag of the facts.                                            *)
LEMMA WriteType ==
  ASSUME TypeOK, NEW field \in {"pii", "control"}, NEW value \in BOOLEAN, Write(field, value)
  PROVE  hub' \in Facts /\ index' \in Facts /\ drift' \in Nat
<1>1. CASE field = "pii"
  BY <1>1 DEF TypeOK, Write, Facts
<1>2. CASE field = "control"
  BY <1>2 DEF TypeOK, Write, Facts
<1> QED
  BY <1>1, <1>2

LEMMA SetTagTypes ==
  ASSUME TypeOK, NEW p \in Procs, NEW from, NEW field \in {"pii", "control"},
         NEW value \in BOOLEAN, NEW to \in Rows, SetTag(p, from, field, value, to)
  PROVE  TypeOK'
<1>1. CASE Write(field, value) /\ proc' = [proc EXCEPT ![p] = to] /\ UNCHANGED unrecorded
  BY <1>1, WriteType DEF TypeOK, SetTag, router_vars
<1>2. CASE Write(field, value) /\ Raise(p) /\ unrecorded' = unrecorded \cup {p}
  BY <1>2, WriteType, RowsGoto, RaisedType DEF TypeOK, SetTag, Raise, router_vars
<1>3. CASE Raise(p) /\ UNCHANGED <<hub_vars, unrecorded>>
  BY <1>3, RowsGoto, RaisedType DEF TypeOK, SetTag, Raise, router_vars, hub_vars
<1> QED
  BY <1>1, <1>2, <1>3 DEF SetTag

LEMMA AwaitTagTypes ==
  ASSUME TypeOK, NEW p \in Procs, NEW from, NEW field, NEW value, NEW to \in Rows,
         AwaitTag(p, from, field, value, to)
  PROVE  TypeOK'
<1>1. CASE proc' = [proc EXCEPT ![p] = to] /\ UNCHANGED unrecorded
  BY <1>1 DEF TypeOK, AwaitTag, router_vars, hub_vars
<1>2. CASE Raise(p)
  BY <1>2, RowsGoto, RaisedType DEF TypeOK, AwaitTag, Raise, router_vars, hub_vars
<1> QED
  BY <1>1, <1>2 DEF AwaitTag

LEMMA CompileAndRunTypes ==
  ASSUME TypeOK, NEW p \in Procs, NEW from, NEW accepts, NEW to \in Steps,
         CompileAndRun(p, from, accepts, to)
  PROVE  TypeOK'
<1>1. CASE proc' = [proc EXCEPT ![p] = [To(p, to) EXCEPT !.runs = Append(@, Observation)]]
  <2>1. proc[p] \in Rows /\ Append(proc[p].runs, Observation) \in Seq(Observations)
    BY ObservationType DEF TypeOK, Rows
  <2>2. proc' = [proc EXCEPT ![p] = [proc[p] EXCEPT !.pc = to,
                                       !.runs = Append(proc[p].runs, Observation)]]
    BY <1>1, <2>1 DEF To, Rows
  <2> QED
    BY <2>1, <2>2 DEF TypeOK, CompileAndRun, router_vars, hub_vars, Rows
<1>2. CASE Raise(p)
  BY <1>2, RowsGoto, RaisedType DEF TypeOK, CompileAndRun, Raise, router_vars, hub_vars
<1> QED
  BY <1>1, <1>2 DEF CompileAndRun

LEMMA ReadRouteTypes ==
  ASSUME TypeOK, NEW p \in Procs, NEW from, NEW expected, NEW to \in Steps,
         ReadRoute(p, from, expected, to)
  PROVE  TypeOK'
<1>1. CASE proc' = [proc EXCEPT ![p] = [To(p, to) EXCEPT !.version = router.version]]
  BY <1>1 DEF TypeOK, ReadRoute, router_vars, hub_vars, To, Rows
<1>2. CASE Raise(p)
  BY <1>2, RowsGoto, RaisedType DEF TypeOK, ReadRoute, Raise, router_vars, hub_vars
<1> QED
  BY <1>1, <1>2 DEF ReadRoute

LEMMA AppliedType ==
  ASSUME TypeOK, NEW p \in Procs, NEW target \in Adapters, Applied(p, target)
  PROVE  router' \in [version : Nat \ {0}, active : Adapters] /\ routes' \in Seq(Routes)
BY DEF TypeOK, Applied, Routes

LEMMA TransitionTypes ==
  ASSUME TypeOK, NEW p \in Procs, NEW from, NEW target \in Adapters, NEW to \in Rows,
         Transition(p, from, target, to)
  PROVE  TypeOK'
<1>1. CASE Applied(p, target) /\ proc' = [proc EXCEPT ![p] = to] /\ UNCHANGED unrecorded
  BY <1>1, AppliedType DEF TypeOK, Transition, hub_vars
<1>2. CASE /\ Applied(p, target) /\ Raise(p)
           /\ unrecorded' = IF target = "a" THEN unrecorded \cup {p} ELSE unrecorded
  BY <1>2, AppliedType, RowsGoto, RaisedType DEF TypeOK, Transition, Raise, hub_vars
<1>3. CASE Raise(p) /\ UNCHANGED <<router_vars, unrecorded>>
  BY <1>3, RowsGoto, RaisedType DEF TypeOK, Transition, Raise, hub_vars, router_vars
<1> QED
  BY <1>1, <1>2, <1>3 DEF Transition

LEMMA RereadTypes ==
  ASSUME TypeOK, NEW p \in Procs, NEW from, NEW pcs \in SUBSET Steps, Reread(p, from, pcs)
  PROVE  TypeOK'
<1>1. CASE \E pc \in pcs : Goto(p, pc)
  BY <1>1, RowsGoto DEF TypeOK, Reread, router_vars, hub_vars
<1>2. CASE Raise(p)
  BY <1>2, RowsGoto, RaisedType DEF TypeOK, Reread, Raise, router_vars, hub_vars
<1> QED
  BY <1>1, <1>2 DEF Reread
LEMMA CausalTypes ==
  ASSUME TypeOK, NEW p \in Causal, ExchangeStep(p)
  PROVE  TypeOK'
<1>p. p \in Procs /\ proc[p] \in Rows
  BY DEF Procs, TypeOK
<1>1. CASE run_causal_proof(p)
  <2>1. /\ To(p, "on_wait") \in Rows /\ To(p, "baseline") \in Rows
        /\ [To(p, "control_wait") EXCEPT !.control = TRUE] \in Rows
        /\ To(p, "negative") \in Rows /\ To(p, "uncontrol_wait") \in Rows
        /\ [To(p, "off") EXCEPT !.control = FALSE] \in Rows
        /\ [To(p, "off_wait") EXCEPT !.removed = TRUE] \in Rows
        /\ To(p, "mutation") \in Rows /\ To(p, "back_wait") \in Rows
        /\ [To(p, "restored") EXCEPT !.removed = FALSE] \in Rows
    BY <1>p DEF To, Rows, Steps
  <2>2. CASE Control(p)
    BY <1>p, <2>1, <2>2, SetTagTypes, AwaitTagTypes, CompileAndRunTypes DEF Control, Steps
  <2>3. CASE RemovePii(p)
    BY <1>p, <2>1, <2>3, SetTagTypes, AwaitTagTypes DEF RemovePii
  <2>4. ASSUME ~Control(p), ~RemovePii(p)
        PROVE  TypeOK'
    BY <1>1, <1>p, <2>1, <2>4, SetTagTypes, AwaitTagTypes, CompileAndRunTypes
    DEF run_causal_proof, Steps
  <2> QED
    BY <2>2, <2>3, <2>4
<1>2. CASE RecoverCausal(p)
  <2>1. hub' \in Facts
    BY <1>2, <1>p DEF RecoverCausal, Undone, TypeOK, Facts, Rows
  <2>2. \E pc \in {"approve", "failed"} : Goto(p, pc)
    BY <1>2 DEF RecoverCausal
  <2> QED
    BY <1>2, <1>p, <2>1, <2>2, RowsGoto DEF RecoverCausal, TypeOK, Steps, router_vars
<1>3. CASE ApproveExchange(p)
  <2>1. CASE proc' = [proc EXCEPT ![p] = [To(p, "publish") EXCEPT !.approval = Observation]]
    BY <1>3, <1>p, <2>1, ObservationType
    DEF ApproveExchange, TypeOK, To, Rows, Steps, router_vars, hub_vars
  <2>2. CASE Goto(p, "failed")
    BY <1>3, <1>p, <2>2, RowsGoto DEF ApproveExchange, TypeOK, Steps, router_vars, hub_vars
  <2> QED
    BY <1>3, <2>1, <2>2 DEF ApproveExchange
<1>4. CASE PublishExchange(p)
  <2>1. \E pc \in {"reread", "failed"} : Goto(p, pc)
    BY <1>4 DEF PublishExchange
  <2> QED
    BY <1>4, <1>p, <2>1, RowsGoto DEF PublishExchange, TypeOK, Steps, router_vars, hub_vars
<1>5. CASE RereadExchange(p)
  <2>1. \E pc \in {"passed", "failed"} : Goto(p, pc)
    BY <1>5 DEF RereadExchange
  <2> QED
    BY <1>5, <1>p, <2>1, RowsGoto DEF RereadExchange, TypeOK, Steps, router_vars, hub_vars
<1> QED
  BY <1>1, <1>2, <1>3, <1>4, <1>5 DEF ExchangeStep

LEMMA DeployTypes ==
  ASSUME TypeOK, NEW p \in Deploy, DeploymentStep(p)
  PROVE  TypeOK'
<1>p. p \in Procs /\ proc[p] \in Rows
  BY DEF Procs, TypeOK
<1>1. CASE run_deployment_proof(p)
  <2>1. /\ To(p, "off_wait") \in Rows /\ To(p, "back_wait") \in Rows
        /\ [To(p, "observe") EXCEPT !.removed = TRUE] \in Rows
        /\ [To(p, "post") EXCEPT !.active = TRUE] \in Rows
        /\ [To(p, "back") EXCEPT !.active = FALSE] \in Rows
        /\ [To(p, "passed") EXCEPT !.removed = FALSE] \in Rows
    BY <1>p DEF To, Rows, Steps
  <2>2. CASE ObserveDeployment(p)
    <3>1. CASE proc' = [proc EXCEPT ![p] = [To(p, "decisive") EXCEPT !.approval = Observation]]
      BY <1>p, <2>2, <3>1, ObservationType
      DEF ObserveDeployment, TypeOK, To, Rows, Steps, router_vars, hub_vars
    <3>2. CASE Raise(p)
      BY <1>p, <2>2, <3>2, RowsGoto, RaisedType
      DEF ObserveDeployment, Raise, TypeOK, router_vars, hub_vars
    <3> QED
      BY <2>2, <3>1, <3>2 DEF ObserveDeployment
  <2>3. CASE Writeback(p)
    <3>1. \E pc \in Steps : Goto(p, pc)
      BY <1>p, <2>3, RaisedType DEF Writeback, Raise, Steps
    <3> QED
      BY <1>p, <2>3, <3>1, RowsGoto DEF Writeback, TypeOK, router_vars, hub_vars
  <2>4. ASSUME ~ObserveDeployment(p), ~Writeback(p)
        PROVE  TypeOK'
    <3>1. {"effect_read"} \in SUBSET Steps /\ {"writeback", "rollback_read"} \in SUBSET Steps
      BY DEF Steps
    <3> QED
      BY <1>1, <1>p, <2>1, <2>4, <3>1, SetTagTypes, AwaitTagTypes, ReadRouteTypes, TransitionTypes,
         RereadTypes DEF run_deployment_proof, Steps, Adapters
  <2> QED
    BY <2>2, <2>3, <2>4
<1>2. CASE CleanupDeployment(p)
  <2>1. hub' \in Facts
    BY <1>2, <1>p DEF CleanupDeployment, TypeOK, Facts, Rows
  <2>2. router' \in [version : Nat \ {0}, active : Adapters] /\ routes' \in Seq(Routes)
    <3>1. CASE Applied(p, "b")
      BY <1>p, <3>1, AppliedType DEF Adapters
    <3>2. CASE UNCHANGED router_vars
      BY <3>2 DEF TypeOK, router_vars
    <3> QED
      BY <1>2, <3>1, <3>2 DEF CleanupDeployment, EmergencyRollback
  <2> QED
    BY <1>2, <1>p, <2>1, <2>2, RowsGoto DEF CleanupDeployment, TypeOK, Steps
<1> QED
  BY <1>1, <1>2 DEF DeploymentStep

LEMMA NextTypes == TypeOK /\ [Next]_vars => TypeOK'
<1> SUFFICES ASSUME TypeOK, [Next]_vars PROVE TypeOK'
  OBVIOUS
<1>1. CASE \E p \in Procs : Step(p)
  BY <1>1, CausalTypes, DeployTypes DEF Step, Procs
<1>2. CASE Reindex
  BY <1>2 DEF TypeOK, Reindex, router_vars
<1>3. CASE Drift
  <2>1. hub \in Facts /\ hub' \in Facts
    <3>1. hub \in Facts /\ (~hub.pii) \in BOOLEAN
      BY DEF TypeOK
    <3>2. CASE hub' = [hub EXCEPT !.pii = ~hub.pii]
      BY <3>1, <3>2 DEF Facts
    <3>3. CASE \E r \in Regions : hub' = [hub EXCEPT !.regions = r]
      BY <3>1, <3>3 DEF Facts
    <3> QED
      BY <1>3, <3>1, <3>2, <3>3 DEF Drift, Regions
  <2> QED
    BY <1>3, <2>1 DEF TypeOK, Drift, router_vars
<1>4. CASE UNCHANGED vars
  BY <1>4 DEF TypeOK, vars, hub_vars, router_vars
<1> QED
  BY <1>1, <1>2, <1>3, <1>4 DEF Next

(* Every fact, route, flag and read of a proof stays in its domain.         *)
THEOREM ProofTypes == Spec => []TypeOK
BY InitInv, NextTypes, PTL DEF Spec, Inv

-----------------------------------------------------------------------------
(* What one process does to the changes that have to be undone: either a    *)
(* step leaves a tag or the route as it wants it, or it owes the undoing    *)
(* afterwards, or it owed nothing and changed nothing.                      *)

Others(p) == \A q \in Procs : q # p => proc'[q] = proc[q]

PiiKept(p) ==
  \/ Excused' \/ hub'.pii \/ OwesPii(p)'
  \/ hub'.pii = hub.pii /\ ~OwesPii(p)
ControlKept(p) ==
  \/ Excused' \/ ~hub'.control \/ OwesControl(p)'
  \/ hub'.control = hub.control /\ ~OwesControl(p)
RouteKept(p) ==
  \/ Excused' \/ router'.active = "b" \/ OwesRoute(p)'
  \/ router'.active = router.active /\ ~OwesRoute(p)

RestoreFrame(p) ==
  /\ Others(p) /\ (Excused => Excused') /\ drift' = drift
  /\ PiiKept(p) /\ ControlKept(p) /\ RouteKept(p)

LEMMA FrameRestores ==
  ASSUME RestoreInv, NEW p \in Procs, RestoreFrame(p)
  PROVE  RestoreInv'
<1>1. \A q \in Procs : q # p => proc'[q] = proc[q]
  BY DEF RestoreFrame, Others
<1>2. (Excused => Excused') /\ drift' = drift /\ PiiKept(p) /\ ControlKept(p) /\ RouteKept(p)
  BY DEF RestoreFrame
<1>3. PiiInv'
  <2> SUFFICES ASSUME drift' = 0, ~hub'.pii, ~Excused' PROVE \E q \in Procs : OwesPii(q)'
    BY DEF PiiInv
  <2>1. CASE OwesPii(p)'
    BY <2>1
  <2>2. CASE hub'.pii = hub.pii /\ ~OwesPii(p)
    <3>1. PICK q \in Procs : OwesPii(q)
      BY <1>2, <2>2 DEF RestoreInv, PiiInv
    <3>2. q # p
      BY <2>2, <3>1 DEF OwesPii
    <3>3. OwesPii(q)'
      BY <1>1, <3>1, <3>2 DEF OwesPii
    <3> QED
      BY <3>3
  <2> QED
    BY <1>2, <2>1, <2>2 DEF PiiKept
<1>4. ControlInv'
  <2> SUFFICES ASSUME hub'.control, ~Excused' PROVE \E q \in Procs : OwesControl(q)'
    BY DEF ControlInv
  <2>1. CASE OwesControl(p)'
    BY <2>1
  <2>2. CASE hub'.control = hub.control /\ ~OwesControl(p)
    <3>1. PICK q \in Procs : OwesControl(q)
      BY <1>2, <2>2 DEF RestoreInv, ControlInv
    <3>2. q # p
      BY <2>2, <3>1 DEF OwesControl
    <3>3. OwesControl(q)'
      BY <1>1, <3>1, <3>2 DEF OwesControl
    <3> QED
      BY <3>3
  <2> QED
    BY <1>2, <2>1, <2>2 DEF ControlKept
<1>5. RouteInv'
  <2> SUFFICES ASSUME router'.active = "a", ~Excused' PROVE \E q \in Procs : OwesRoute(q)'
    BY DEF RouteInv
  <2>1. CASE OwesRoute(p)'
    BY <2>1
  <2>2. CASE router'.active = router.active /\ ~OwesRoute(p)
    <3>1. PICK q \in Procs : OwesRoute(q)
      BY <1>2, <2>2 DEF RestoreInv, RouteInv
    <3>2. q # p
      BY <2>2, <3>1 DEF OwesRoute
    <3>3. OwesRoute(q)'
      BY <1>1, <3>1, <3>2 DEF OwesRoute
    <3> QED
      BY <3>3
  <2> QED
    BY <1>2, <2>1, <2>2 DEF RouteKept
<1> QED
  BY <1>3, <1>4, <1>5 DEF RestoreInv

(* A process step that leaves facts, route and flags alone and stays before *)
(* its finally block, or is behind it.                                      *)
Quiet(p) ==
  /\ hub' = hub /\ drift' = drift /\ router' = router
  /\ unrecorded' = unrecorded /\ stranded' = stranded /\ Others(p)
  /\ proc'[p].control = proc[p].control /\ proc'[p].removed = proc[p].removed
  /\ proc'[p].active = proc[p].active
  /\ proc[p].pc \in Recovered => proc'[p].pc \in Recovered
  /\ proc'[p].pc \in Recovered => proc[p].pc \in Recovered
  /\ {proc[p].pc, proc'[p].pc} \cap {"off_wait", "back_wait", "uncontrol_wait"} = {}
  /\ p \in Deploy => "back" \notin {proc[p].pc, proc'[p].pc}

LEMMA QuietFrame == ASSUME NEW p \in Procs, Quiet(p) PROVE RestoreFrame(p)
<1>1. PiiKept(p)
  BY DEF Quiet, PiiKept, OwesPii
<1>2. ControlKept(p)
  BY DEF Quiet, ControlKept, OwesControl
<1>3. RouteKept(p)
  BY DEF Quiet, RouteKept, OwesRoute
<1> QED
  BY <1>1, <1>2, <1>3 DEF Quiet, RestoreFrame, Excused

(* What the parameterised steps do to p and to nobody else.                 *)
LEMMA GotoMoves ==
  ASSUME TypeOK, NEW p \in Procs, NEW pc, Goto(p, pc)
  PROVE  /\ Others(p) /\ proc'[p] = [proc[p] EXCEPT !.pc = pc] /\ proc'[p].pc = pc
         /\ proc'[p].control = proc[p].control /\ proc'[p].removed = proc[p].removed
         /\ proc'[p].active = proc[p].active /\ proc'[p].runs = proc[p].runs
         /\ proc'[p].approval = proc[p].approval /\ proc'[p].version = proc[p].version
<1>1. Others(p) /\ proc'[p] = [proc[p] EXCEPT !.pc = pc] /\ proc[p] \in Rows
  BY DEF TypeOK, Goto, Others
<1> QED
  BY <1>1 DEF Rows

LEMMA RaiseMoves ==
  ASSUME TypeOK, NEW p \in Procs, Raise(p)
  PROVE  /\ Others(p) /\ proc'[p] = [proc[p] EXCEPT !.pc = Raised(p)]
         /\ proc'[p].pc = Raised(p) /\ Raised(p) \in {"recover", "cleanup"}
         /\ proc'[p].control = proc[p].control /\ proc'[p].removed = proc[p].removed
         /\ proc'[p].active = proc[p].active /\ proc'[p].runs = proc[p].runs
         /\ proc'[p].approval = proc[p].approval /\ proc'[p].version = proc[p].version
BY GotoMoves DEF Raise, Raised

LEMMA CompileAndRunQuiet ==
  ASSUME TypeOK, NEW p \in Procs, NEW from \in Steps, NEW accepts, NEW to \in Steps,
         CompileAndRun(p, from, accepts, to),
         {from, to} \cap (Recovered \cup {"off_wait", "back_wait", "uncontrol_wait"}) = {},
         p \in Causal
  PROVE  Quiet(p)
<1>p. proc[p] \in Rows /\ p \notin Deploy
  BY ProofAssumption DEF TypeOK
<1>q. from \notin Recovered \cup {"off_wait", "back_wait", "uncontrol_wait"}
      /\ to \notin Recovered \cup {"off_wait", "back_wait", "uncontrol_wait"}
  OBVIOUS
<1>1. CASE proc' = [proc EXCEPT ![p] = [To(p, to) EXCEPT !.runs = Append(@, Observation)]]
  <2>1. Others(p) /\ proc'[p] = [To(p, to) EXCEPT !.runs = Append(proc[p].runs, Observation)]
    BY <1>1, <1>p DEF TypeOK, Others, To, Rows
  <2> QED
    BY <2>1, <1>p, <1>q DEF CompileAndRun, Quiet, To, Rows, At, hub_vars, router_vars
<1>2. CASE Raise(p)
  BY <1>2, <1>p, <1>q, RaiseMoves DEF CompileAndRun, Quiet, At, hub_vars, router_vars, Recovered
<1> QED
  BY <1>1, <1>2 DEF CompileAndRun

LEMMA RowMoves ==
  ASSUME TypeOK, NEW p \in Procs, NEW to, proc' = [proc EXCEPT ![p] = to]
  PROVE  Others(p) /\ proc'[p] = to
BY DEF TypeOK, Others

(* An excused step and one that raises with nothing changed.                *)
LEMMA ExcusedFrame ==
  ASSUME NEW p \in Procs, Others(p), drift' = drift, Excused'
  PROVE  RestoreFrame(p)
BY DEF RestoreFrame, PiiKept, ControlKept, RouteKept

LEMMA RaiseFrame ==
  ASSUME TypeOK, NEW p \in Procs, Raise(p), proc[p].pc \notin Recovered,
         p \in Deploy => proc[p].pc # "off_wait",
         UNCHANGED <<hub, drift, router, unrecorded, stranded>>
  PROVE  RestoreFrame(p)
<1>1. proc'[p].pc \notin Recovered \cup {"off_wait", "back_wait", "uncontrol_wait", "back"}
  BY RaiseMoves DEF Recovered
<1>2. PiiKept(p)
  BY <1>1, RaiseMoves DEF PiiKept, OwesPii
<1>3. ControlKept(p)
  BY <1>1, RaiseMoves DEF ControlKept, OwesControl
<1>4. RouteKept(p)
  BY <1>1, RaiseMoves DEF RouteKept, OwesRoute
<1> QED
  BY <1>2, <1>3, <1>4, RaiseMoves DEF RestoreFrame, Excused

(* Setting a tag and waiting for it: what is left is the outcome in which   *)
(* the process goes on.                                                     *)
LEMMA SetTagFrame ==
  ASSUME TypeOK, NEW p \in Procs, NEW from \in Steps \ (Recovered \cup {"off_wait"}), NEW field,
         NEW value, NEW to, SetTag(p, from, field, value, to),
         Write(field, value) /\ proc'[p] = to /\ UNCHANGED <<router, unrecorded, stranded>> =>
           PiiKept(p) /\ ControlKept(p) /\ RouteKept(p)
  PROVE  RestoreFrame(p)
<1>1. CASE Write(field, value) /\ proc' = [proc EXCEPT ![p] = to] /\ UNCHANGED unrecorded
  <2>1. /\ Write(field, value) /\ proc'[p] = to /\ Others(p)
        /\ UNCHANGED <<router, unrecorded, stranded>>
    BY <1>1, RowMoves DEF SetTag, router_vars
  <2> QED
    BY <2>1 DEF RestoreFrame, Write, Excused
<1>2. CASE Write(field, value) /\ Raise(p) /\ unrecorded' = unrecorded \cup {p}
  BY <1>2, RaiseMoves, ExcusedFrame DEF Write, Excused
<1>3. CASE Raise(p) /\ UNCHANGED <<hub_vars, unrecorded>>
  BY <1>3, RaiseFrame DEF SetTag, At, hub_vars, router_vars
<1> QED
  BY <1>1, <1>2, <1>3 DEF SetTag

LEMMA AwaitTagFrame ==
  ASSUME TypeOK, NEW p \in Procs, NEW from \in Steps \ Recovered, NEW field, NEW value, NEW to,
         AwaitTag(p, from, field, value, to),
         proc'[p] = to /\ UNCHANGED <<hub, router, unrecorded, stranded>> =>
           PiiKept(p) /\ ControlKept(p) /\ RouteKept(p)
  PROVE  RestoreFrame(p)
<1>1. CASE proc' = [proc EXCEPT ![p] = to] /\ UNCHANGED unrecorded
  <2>1. proc'[p] = to /\ Others(p) /\ UNCHANGED <<hub, drift, router, unrecorded, stranded>>
    BY <1>1, RowMoves DEF AwaitTag, hub_vars, router_vars
  <2> QED
    BY <2>1 DEF RestoreFrame, Excused
<1>2. CASE /\ Raise(p)
           /\ unrecorded' = IF from = "off_wait" /\ p \in Deploy
                            THEN unrecorded \cup {p} ELSE unrecorded
  <2>1. CASE from = "off_wait" /\ p \in Deploy
    BY <1>2, <2>1, RaiseMoves, ExcusedFrame DEF AwaitTag, hub_vars, Excused
  <2>2. CASE ~(from = "off_wait" /\ p \in Deploy)
    BY <1>2, <2>2, RaiseFrame DEF AwaitTag, At, hub_vars, router_vars
  <2> QED
    BY <2>1, <2>2
<1> QED
  BY <1>1, <1>2 DEF AwaitTag

LEMMA CausalProofFrame ==
  ASSUME TypeOK, NEW p \in Causal, run_causal_proof(p)
  PROVE  RestoreFrame(p)
<1>p. p \in Procs /\ p \notin Deploy /\ proc[p] \in Rows
  BY ProofAssumption DEF Procs, TypeOK
<1>1. CASE SetTag(p, "start", "pii", TRUE, To(p, "on_wait"))
  <2>1. ASSUME Write("pii", TRUE), proc'[p] = To(p, "on_wait"), UNCHANGED <<router, unrecorded, stranded>>
        PROVE  PiiKept(p) /\ ControlKept(p) /\ RouteKept(p)
    <3>1. proc[p].pc = "start" /\ proc'[p].pc = "on_wait"
          /\ proc'[p].control = proc[p].control
          /\ proc'[p].removed = proc[p].removed
      BY <1>p, <1>1, <2>1 DEF SetTag, At, To, Rows
    <3>2. hub'.pii = TRUE /\ hub'.control = hub.control /\ router' = router
      BY <2>1 DEF Write, TypeOK, Facts
    <3>3. PiiKept(p)
      BY <1>p, <3>1, <3>2 DEF PiiKept, OwesPii, Recovered
    <3>4. ControlKept(p)
      BY <3>1, <3>2 DEF ControlKept, OwesControl, Recovered
    <3>5. RouteKept(p)
      BY <1>p, <3>2 DEF RouteKept, OwesRoute
    <3> QED
      BY <3>3, <3>4, <3>5
  <2>2. "start" \in Steps \ (Recovered \cup {"off_wait"})
    BY DEF Steps, Recovered
  <2> QED
    BY <1>p, <1>1, <2>1, <2>2, SetTagFrame
<1>2. CASE AwaitTag(p, "on_wait", "pii", TRUE, To(p, "baseline"))
  <2>1. ASSUME proc'[p] = To(p, "baseline"), UNCHANGED <<hub, router, unrecorded, stranded>>
        PROVE  PiiKept(p) /\ ControlKept(p) /\ RouteKept(p)
    <3>1. proc[p].pc = "on_wait" /\ proc'[p].pc = "baseline"
          /\ proc'[p].control = proc[p].control
          /\ proc'[p].removed = proc[p].removed
      BY <1>p, <1>2, <2>1 DEF AwaitTag, At, To, Rows
    <3>2. hub' = hub /\ router' = router
      BY <2>1
    <3>3. PiiKept(p)
      BY <1>p, <3>1, <3>2 DEF PiiKept, OwesPii, Recovered
    <3>4. ControlKept(p)
      BY <3>1, <3>2 DEF ControlKept, OwesControl, Recovered
    <3>5. RouteKept(p)
      BY <1>p, <3>2 DEF RouteKept, OwesRoute
    <3> QED
      BY <3>3, <3>4, <3>5
  <2>2. "on_wait" \in Steps \ Recovered
    BY DEF Steps, Recovered
  <2> QED
    BY <1>p, <1>2, <2>1, <2>2, AwaitTagFrame
<1>3. CASE SetTag(p, "control", "control", TRUE, [To(p, "control_wait") EXCEPT !.control = TRUE])
  <2>1. ASSUME Write("control", TRUE), proc'[p] = [To(p, "control_wait") EXCEPT !.control = TRUE], UNCHANGED <<router, unrecorded, stranded>>
        PROVE  PiiKept(p) /\ ControlKept(p) /\ RouteKept(p)
    <3>1. proc[p].pc = "control" /\ proc'[p].pc = "control_wait"
          /\ proc'[p].control = TRUE
          /\ proc'[p].removed = proc[p].removed
      BY <1>p, <1>3, <2>1 DEF SetTag, At, To, Rows
    <3>2. hub'.control = TRUE /\ hub'.pii = hub.pii /\ router' = router
      BY <2>1 DEF Write, TypeOK, Facts
    <3>3. PiiKept(p)
      BY <1>p, <3>1, <3>2 DEF PiiKept, OwesPii, Recovered
    <3>4. ControlKept(p)
      BY <3>1, <3>2 DEF ControlKept, OwesControl, Recovered
    <3>5. RouteKept(p)
      BY <1>p, <3>2 DEF RouteKept, OwesRoute
    <3> QED
      BY <3>3, <3>4, <3>5
  <2>2. "control" \in Steps \ (Recovered \cup {"off_wait"})
    BY DEF Steps, Recovered
  <2> QED
    BY <1>p, <1>3, <2>1, <2>2, SetTagFrame
<1>4. CASE AwaitTag(p, "control_wait", "control", TRUE, To(p, "negative"))
  <2>1. ASSUME proc'[p] = To(p, "negative"), UNCHANGED <<hub, router, unrecorded, stranded>>
        PROVE  PiiKept(p) /\ ControlKept(p) /\ RouteKept(p)
    <3>1. proc[p].pc = "control_wait" /\ proc'[p].pc = "negative"
          /\ proc'[p].control = proc[p].control
          /\ proc'[p].removed = proc[p].removed
      BY <1>p, <1>4, <2>1 DEF AwaitTag, At, To, Rows
    <3>2. hub' = hub /\ router' = router
      BY <2>1
    <3>3. PiiKept(p)
      BY <1>p, <3>1, <3>2 DEF PiiKept, OwesPii, Recovered
    <3>4. ControlKept(p)
      BY <3>1, <3>2 DEF ControlKept, OwesControl, Recovered
    <3>5. RouteKept(p)
      BY <1>p, <3>2 DEF RouteKept, OwesRoute
    <3> QED
      BY <3>3, <3>4, <3>5
  <2>2. "control_wait" \in Steps \ Recovered
    BY DEF Steps, Recovered
  <2> QED
    BY <1>p, <1>4, <2>1, <2>2, AwaitTagFrame
<1>5. CASE SetTag(p, "uncontrol", "control", FALSE, To(p, "uncontrol_wait"))
  <2>1. ASSUME Write("control", FALSE), proc'[p] = To(p, "uncontrol_wait"), UNCHANGED <<router, unrecorded, stranded>>
        PROVE  PiiKept(p) /\ ControlKept(p) /\ RouteKept(p)
    <3>1. proc[p].pc = "uncontrol" /\ proc'[p].pc = "uncontrol_wait"
          /\ proc'[p].control = proc[p].control
          /\ proc'[p].removed = proc[p].removed
      BY <1>p, <1>5, <2>1 DEF SetTag, At, To, Rows
    <3>2. hub'.control = FALSE /\ hub'.pii = hub.pii /\ router' = router
      BY <2>1 DEF Write, TypeOK, Facts
    <3>3. PiiKept(p)
      BY <1>p, <3>1, <3>2 DEF PiiKept, OwesPii, Recovered
    <3>4. ControlKept(p)
      BY <3>1, <3>2 DEF ControlKept, OwesControl, Recovered
    <3>5. RouteKept(p)
      BY <1>p, <3>2 DEF RouteKept, OwesRoute
    <3> QED
      BY <3>3, <3>4, <3>5
  <2>2. "uncontrol" \in Steps \ (Recovered \cup {"off_wait"})
    BY DEF Steps, Recovered
  <2> QED
    BY <1>p, <1>5, <2>1, <2>2, SetTagFrame
<1>6. CASE AwaitTag(p, "uncontrol_wait", "control", FALSE, [To(p, "off") EXCEPT !.control = FALSE])
  <2>1. ASSUME proc'[p] = [To(p, "off") EXCEPT !.control = FALSE], UNCHANGED <<hub, router, unrecorded, stranded>>
        PROVE  PiiKept(p) /\ ControlKept(p) /\ RouteKept(p)
    <3>1. proc[p].pc = "uncontrol_wait" /\ proc'[p].pc = "off"
          /\ proc'[p].control = FALSE
          /\ proc'[p].removed = proc[p].removed
      BY <1>p, <1>6, <2>1 DEF AwaitTag, At, To, Rows
    <3>2. hub' = hub /\ router' = router
      BY <2>1
    <3>3. PiiKept(p)
      BY <1>p, <3>1, <3>2 DEF PiiKept, OwesPii, Recovered
    <3>4. ControlKept(p)
      BY <3>1, <3>2 DEF ControlKept, OwesControl, Recovered
    <3>5. RouteKept(p)
      BY <1>p, <3>2 DEF RouteKept, OwesRoute
    <3> QED
      BY <3>3, <3>4, <3>5
  <2>2. "uncontrol_wait" \in Steps \ Recovered
    BY DEF Steps, Recovered
  <2> QED
    BY <1>p, <1>6, <2>1, <2>2, AwaitTagFrame
<1>7. CASE SetTag(p, "off", "pii", FALSE, [To(p, "off_wait") EXCEPT !.removed = TRUE])
  <2>1. ASSUME Write("pii", FALSE), proc'[p] = [To(p, "off_wait") EXCEPT !.removed = TRUE], UNCHANGED <<router, unrecorded, stranded>>
        PROVE  PiiKept(p) /\ ControlKept(p) /\ RouteKept(p)
    <3>1. proc[p].pc = "off" /\ proc'[p].pc = "off_wait"
          /\ proc'[p].control = proc[p].control
          /\ proc'[p].removed = TRUE
      BY <1>p, <1>7, <2>1 DEF SetTag, At, To, Rows
    <3>2. hub'.pii = FALSE /\ hub'.control = hub.control /\ router' = router
      BY <2>1 DEF Write, TypeOK, Facts
    <3>3. PiiKept(p)
      BY <1>p, <3>1, <3>2 DEF PiiKept, OwesPii, Recovered
    <3>4. ControlKept(p)
      BY <3>1, <3>2 DEF ControlKept, OwesControl, Recovered
    <3>5. RouteKept(p)
      BY <1>p, <3>2 DEF RouteKept, OwesRoute
    <3> QED
      BY <3>3, <3>4, <3>5
  <2>2. "off" \in Steps \ (Recovered \cup {"off_wait"})
    BY DEF Steps, Recovered
  <2> QED
    BY <1>p, <1>7, <2>1, <2>2, SetTagFrame
<1>8. CASE AwaitTag(p, "off_wait", "pii", FALSE, To(p, "mutation"))
  <2>1. ASSUME proc'[p] = To(p, "mutation"), UNCHANGED <<hub, router, unrecorded, stranded>>
        PROVE  PiiKept(p) /\ ControlKept(p) /\ RouteKept(p)
    <3>1. proc[p].pc = "off_wait" /\ proc'[p].pc = "mutation"
          /\ proc'[p].control = proc[p].control
          /\ proc'[p].removed = proc[p].removed
      BY <1>p, <1>8, <2>1 DEF AwaitTag, At, To, Rows
    <3>2. hub' = hub /\ router' = router
      BY <2>1
    <3>3. PiiKept(p)
      BY <1>p, <3>1, <3>2 DEF PiiKept, OwesPii, Recovered
    <3>4. ControlKept(p)
      BY <3>1, <3>2 DEF ControlKept, OwesControl, Recovered
    <3>5. RouteKept(p)
      BY <1>p, <3>2 DEF RouteKept, OwesRoute
    <3> QED
      BY <3>3, <3>4, <3>5
  <2>2. "off_wait" \in Steps \ Recovered
    BY DEF Steps, Recovered
  <2> QED
    BY <1>p, <1>8, <2>1, <2>2, AwaitTagFrame
<1>9. CASE SetTag(p, "back", "pii", TRUE, To(p, "back_wait"))
  <2>1. ASSUME Write("pii", TRUE), proc'[p] = To(p, "back_wait"), UNCHANGED <<router, unrecorded, stranded>>
        PROVE  PiiKept(p) /\ ControlKept(p) /\ RouteKept(p)
    <3>1. proc[p].pc = "back" /\ proc'[p].pc = "back_wait"
          /\ proc'[p].control = proc[p].control
          /\ proc'[p].removed = proc[p].removed
      BY <1>p, <1>9, <2>1 DEF SetTag, At, To, Rows
    <3>2. hub'.pii = TRUE /\ hub'.control = hub.control /\ router' = router
      BY <2>1 DEF Write, TypeOK, Facts
    <3>3. PiiKept(p)
      BY <1>p, <3>1, <3>2 DEF PiiKept, OwesPii, Recovered
    <3>4. ControlKept(p)
      BY <3>1, <3>2 DEF ControlKept, OwesControl, Recovered
    <3>5. RouteKept(p)
      BY <1>p, <3>2 DEF RouteKept, OwesRoute
    <3> QED
      BY <3>3, <3>4, <3>5
  <2>2. "back" \in Steps \ (Recovered \cup {"off_wait"})
    BY DEF Steps, Recovered
  <2> QED
    BY <1>p, <1>9, <2>1, <2>2, SetTagFrame
<1>10. CASE AwaitTag(p, "back_wait", "pii", TRUE, [To(p, "restored") EXCEPT !.removed = FALSE])
  <2>1. ASSUME proc'[p] = [To(p, "restored") EXCEPT !.removed = FALSE], UNCHANGED <<hub, router, unrecorded, stranded>>
        PROVE  PiiKept(p) /\ ControlKept(p) /\ RouteKept(p)
    <3>1. proc[p].pc = "back_wait" /\ proc'[p].pc = "restored"
          /\ proc'[p].control = proc[p].control
          /\ proc'[p].removed = FALSE
      BY <1>p, <1>10, <2>1 DEF AwaitTag, At, To, Rows
    <3>2. hub' = hub /\ router' = router
      BY <2>1
    <3>3. PiiKept(p)
      BY <1>p, <3>1, <3>2 DEF PiiKept, OwesPii, Recovered
    <3>4. ControlKept(p)
      BY <3>1, <3>2 DEF ControlKept, OwesControl, Recovered
    <3>5. RouteKept(p)
      BY <1>p, <3>2 DEF RouteKept, OwesRoute
    <3> QED
      BY <3>3, <3>4, <3>5
  <2>2. "back_wait" \in Steps \ Recovered
    BY DEF Steps, Recovered
  <2> QED
    BY <1>p, <1>10, <2>1, <2>2, AwaitTagFrame
<1>11. ASSUME NEW from \in {"baseline", "negative", "mutation", "restored"}, NEW accepts,
              NEW to \in {"control", "uncontrol", "back", "recover"}, CompileAndRun(p, from, accepts, to)
       PROVE  RestoreFrame(p)
  <2>1. from \in Steps /\ to \in Steps
        /\ {from, to} \cap (Recovered \cup {"off_wait", "back_wait", "uncontrol_wait"}) = {}
    BY DEF Steps, Recovered
  <2> QED
    BY <1>p, <1>11, <2>1, CompileAndRunQuiet, QuietFrame
<1> QED
  BY <1>1, <1>2, <1>3, <1>4, <1>5, <1>6, <1>7, <1>8, <1>9, <1>10, <1>11
  DEF run_causal_proof, Control, RemovePii

LEMMA ExchangeFrame ==
  ASSUME TypeOK, NEW p \in Causal, ExchangeStep(p)
  PROVE  RestoreFrame(p)
<1>p. p \in Procs /\ p \notin Deploy /\ proc[p] \in Rows
  BY ProofAssumption DEF Procs, TypeOK
<1>1. CASE run_causal_proof(p)
  BY <1>1, CausalProofFrame
<1>2. CASE RecoverCausal(p)
  <2>1. PICK pc \in {"approve", "failed"} : Goto(p, pc)
    BY <1>2 DEF RecoverCausal
  <2>2. Others(p) /\ proc[p].pc = "recover" /\ proc'[p].pc \in Recovered
    BY <1>2, <1>p, <2>1, GotoMoves DEF RecoverCausal, At, Rows, Recovered
  <2>3. CASE hub' = Undone(p) /\ UNCHANGED stranded
    <3>1. /\ proc[p].control => ~hub'.control
          /\ ~proc[p].control => hub'.control = hub.control
          /\ proc[p].removed => hub'.pii
          /\ ~proc[p].removed => hub'.pii = hub.pii
      BY <1>p, <2>3 DEF Undone, TypeOK, Facts, Rows
    <3>2. drift' = drift /\ router' = router /\ unrecorded' = unrecorded
      BY <1>2 DEF RecoverCausal, router_vars
    <3>3. PiiKept(p)
      BY <1>p, <2>2, <3>1 DEF PiiKept, OwesPii
    <3>4. ControlKept(p)
      BY <1>p, <2>2, <3>1 DEF ControlKept, OwesControl
    <3>5. RouteKept(p)
      BY <1>p, <3>2 DEF RouteKept, OwesRoute
    <3> QED
      BY <2>2, <2>3, <3>2, <3>3, <3>4, <3>5 DEF RestoreFrame, Excused
  <2>4. CASE stranded' = stranded \cup {p}
    BY <1>2, <1>p, <2>2, <2>4, ExcusedFrame DEF RecoverCausal, Excused
  <2> QED
    BY <1>2, <2>3, <2>4 DEF RecoverCausal
<1>3. CASE ApproveExchange(p)
  <2>1. CASE proc' = [proc EXCEPT ![p] = [To(p, "publish") EXCEPT !.approval = Observation]]
    <3>1. Others(p) /\ proc'[p] = [To(p, "publish") EXCEPT !.approval = Observation]
      BY <1>p, <2>1, RowMoves
    <3> QED
      BY <1>3, <1>p, <3>1, QuietFrame
      DEF ApproveExchange, Quiet, At, To, Rows, Recovered, hub_vars, router_vars
  <2>2. CASE Goto(p, "failed")
    <3>1. UNCHANGED <<hub, drift, router, unrecorded, stranded>> /\ proc[p].pc = "approve"
      BY <1>3 DEF ApproveExchange, At, hub_vars, router_vars
    <3>2. /\ Others(p) /\ proc'[p].pc = "failed"
          /\ proc'[p].control = proc[p].control /\ proc'[p].removed = proc[p].removed
          /\ proc'[p].active = proc[p].active /\ proc'[p].runs = proc[p].runs
         /\ proc'[p].approval = proc[p].approval /\ proc'[p].version = proc[p].version
      BY <1>p, <2>2, GotoMoves
    <3>3. Quiet(p)
      BY <1>p, <3>1, <3>2 DEF Quiet, Recovered
    <3> QED
      BY <1>p, <3>3, QuietFrame
  <2> QED
    BY <1>3, <2>1, <2>2 DEF ApproveExchange
<1>4. CASE PublishExchange(p)
  <2>1. UNCHANGED <<hub, drift, router, unrecorded, stranded>> /\ proc[p].pc = "publish"
    BY <1>4 DEF PublishExchange, At, hub_vars, router_vars
  <2>2. PICK pc \in {"reread", "failed"} : Goto(p, pc)
    BY <1>4 DEF PublishExchange
  <2>3. /\ Others(p) /\ proc'[p].pc = pc
        /\ proc'[p].control = proc[p].control /\ proc'[p].removed = proc[p].removed
        /\ proc'[p].active = proc[p].active
    BY <1>p, <2>2, GotoMoves
  <2>4. Quiet(p)
    BY <1>p, <2>1, <2>3 DEF Quiet, Recovered
  <2> QED
    BY <1>p, <2>4, QuietFrame
<1>5. CASE RereadExchange(p)
  <2>1. UNCHANGED <<hub, drift, router, unrecorded, stranded>> /\ proc[p].pc = "reread"
    BY <1>5 DEF RereadExchange, At, hub_vars, router_vars
  <2>2. PICK pc \in {"passed", "failed"} : Goto(p, pc)
    BY <1>5 DEF RereadExchange
  <2>3. /\ Others(p) /\ proc'[p].pc = pc
        /\ proc'[p].control = proc[p].control /\ proc'[p].removed = proc[p].removed
        /\ proc'[p].active = proc[p].active
    BY <1>p, <2>2, GotoMoves
  <2>4. Quiet(p)
    BY <1>p, <2>1, <2>3 DEF Quiet, Recovered
  <2> QED
    BY <1>p, <2>4, QuietFrame
<1> QED
  BY <1>1, <1>2, <1>3, <1>4, <1>5 DEF ExchangeStep

LEMMA DeploymentFrame ==
  ASSUME TypeOK, NEW p \in Deploy, DeploymentStep(p)
  PROVE  RestoreFrame(p)
<1>p. p \in Procs /\ p \notin Causal /\ proc[p] \in Rows
  BY ProofAssumption DEF Procs, TypeOK
<1>1. CASE SetTag(p, "start", "pii", FALSE, To(p, "off_wait"))
  <2>1. ASSUME Write("pii", FALSE), proc'[p] = To(p, "off_wait"), UNCHANGED <<router, unrecorded, stranded>>
        PROVE  PiiKept(p) /\ ControlKept(p) /\ RouteKept(p)
    <3>1. proc[p].pc = "start" /\ proc'[p].pc = "off_wait"
          /\ proc'[p].removed = proc[p].removed
          /\ proc'[p].active = proc[p].active /\ proc'[p].runs = proc[p].runs
         /\ proc'[p].approval = proc[p].approval /\ proc'[p].version = proc[p].version
      BY <1>p, <1>1, <2>1 DEF SetTag, At, To, Rows
    <3>2. hub'.pii = FALSE /\ hub'.control = hub.control /\ router' = router
      BY <2>1 DEF Write, TypeOK, Facts
    <3>3. PiiKept(p)
      BY <3>1, <3>2 DEF PiiKept, OwesPii, Recovered
    <3>4. ControlKept(p)
      BY <1>p, <3>2 DEF ControlKept, OwesControl
    <3>5. RouteKept(p)
      BY <3>1, <3>2 DEF RouteKept, OwesRoute, Recovered
    <3> QED
      BY <3>3, <3>4, <3>5
  <2>2. "start" \in Steps \ (Recovered \cup {"off_wait"})
    BY DEF Steps, Recovered
  <2> QED
    BY <1>p, <1>1, <2>1, <2>2, SetTagFrame
<1>2. CASE AwaitTag(p, "off_wait", "pii", FALSE, [To(p, "observe") EXCEPT !.removed = TRUE])
  <2>1. ASSUME proc'[p] = [To(p, "observe") EXCEPT !.removed = TRUE], UNCHANGED <<hub, router, unrecorded, stranded>>
        PROVE  PiiKept(p) /\ ControlKept(p) /\ RouteKept(p)
    <3>1. proc[p].pc = "off_wait" /\ proc'[p].pc = "observe"
          /\ proc'[p].removed = TRUE
          /\ proc'[p].active = proc[p].active /\ proc'[p].runs = proc[p].runs
         /\ proc'[p].approval = proc[p].approval /\ proc'[p].version = proc[p].version
      BY <1>p, <1>2, <2>1 DEF AwaitTag, At, To, Rows
    <3>2. hub' = hub /\ router' = router
      BY <2>1
    <3>3. PiiKept(p)
      BY <3>1, <3>2 DEF PiiKept, OwesPii, Recovered
    <3>4. ControlKept(p)
      BY <1>p, <3>2 DEF ControlKept, OwesControl
    <3>5. RouteKept(p)
      BY <3>1, <3>2 DEF RouteKept, OwesRoute, Recovered
    <3> QED
      BY <3>3, <3>4, <3>5
  <2>2. "off_wait" \in Steps \ Recovered
    BY DEF Steps, Recovered
  <2> QED
    BY <1>p, <1>2, <2>1, <2>2, AwaitTagFrame
<1>3. CASE SetTag(p, "back", "pii", TRUE, To(p, "back_wait"))
  <2>1. ASSUME Write("pii", TRUE), proc'[p] = To(p, "back_wait"), UNCHANGED <<router, unrecorded, stranded>>
        PROVE  PiiKept(p) /\ ControlKept(p) /\ RouteKept(p)
    <3>1. proc[p].pc = "back" /\ proc'[p].pc = "back_wait"
          /\ proc'[p].removed = proc[p].removed
          /\ proc'[p].active = proc[p].active /\ proc'[p].runs = proc[p].runs
         /\ proc'[p].approval = proc[p].approval /\ proc'[p].version = proc[p].version
      BY <1>p, <1>3, <2>1 DEF SetTag, At, To, Rows
    <3>2. hub'.pii = TRUE /\ hub'.control = hub.control /\ router' = router
      BY <2>1 DEF Write, TypeOK, Facts
    <3>3. PiiKept(p)
      BY <3>1, <3>2 DEF PiiKept, OwesPii, Recovered
    <3>4. ControlKept(p)
      BY <1>p, <3>2 DEF ControlKept, OwesControl
    <3>5. RouteKept(p)
      BY <3>1, <3>2 DEF RouteKept, OwesRoute, Recovered
    <3> QED
      BY <3>3, <3>4, <3>5
  <2>2. "back" \in Steps \ (Recovered \cup {"off_wait"})
    BY DEF Steps, Recovered
  <2> QED
    BY <1>p, <1>3, <2>1, <2>2, SetTagFrame
<1>4. CASE AwaitTag(p, "back_wait", "pii", TRUE, [To(p, "passed") EXCEPT !.removed = FALSE])
  <2>1. ASSUME proc'[p] = [To(p, "passed") EXCEPT !.removed = FALSE], UNCHANGED <<hub, router, unrecorded, stranded>>
        PROVE  PiiKept(p) /\ ControlKept(p) /\ RouteKept(p)
    <3>1. proc[p].pc = "back_wait" /\ proc'[p].pc = "passed"
          /\ proc'[p].removed = FALSE
          /\ proc'[p].active = proc[p].active /\ proc'[p].runs = proc[p].runs
         /\ proc'[p].approval = proc[p].approval /\ proc'[p].version = proc[p].version
      BY <1>p, <1>4, <2>1 DEF AwaitTag, At, To, Rows
    <3>2. hub' = hub /\ router' = router
      BY <2>1
    <3>3. PiiKept(p)
      BY <3>1, <3>2 DEF PiiKept, OwesPii, Recovered
    <3>4. ControlKept(p)
      BY <1>p, <3>2 DEF ControlKept, OwesControl
    <3>5. RouteKept(p)
      BY <3>1, <3>2 DEF RouteKept, OwesRoute, Recovered
    <3> QED
      BY <3>3, <3>4, <3>5
  <2>2. "back_wait" \in Steps \ Recovered
    BY DEF Steps, Recovered
  <2> QED
    BY <1>p, <1>4, <2>1, <2>2, AwaitTagFrame
<1>5. CASE Transition(p, "effect", "a", [To(p, "post") EXCEPT !.active = TRUE])
  <2>h. hub' = hub /\ drift' = drift /\ stranded' = stranded /\ proc[p].pc = "effect"
    BY <1>5 DEF Transition, At, hub_vars
  <2>1. CASE Applied(p, "a") /\ proc' = [proc EXCEPT ![p] = [To(p, "post") EXCEPT !.active = TRUE]] /\ UNCHANGED unrecorded
    <3>0. Others(p) /\ proc'[p] = [To(p, "post") EXCEPT !.active = TRUE]
      BY <1>p, <2>1, RowMoves
    <3>1. proc[p].pc = "effect" /\ proc'[p].pc = "post"
          /\ proc'[p].removed = proc[p].removed
          /\ proc'[p].active = TRUE
      BY <1>p, <2>h, <3>0 DEF To, Rows
    <3>2. hub' = hub /\ router'.active = "a"
      BY <2>h, <2>1 DEF Applied
    <3>3. PiiKept(p)
      BY <3>1, <3>2 DEF PiiKept, OwesPii, Recovered
    <3>4. ControlKept(p)
      BY <1>p, <3>2 DEF ControlKept, OwesControl
    <3>5. RouteKept(p)
      BY <3>1, <3>2 DEF RouteKept, OwesRoute, Recovered
    <3> QED
      BY <2>h, <2>1, <3>0, <3>3, <3>4, <3>5 DEF RestoreFrame, Excused
  <2>2. CASE Raise(p) /\ unrecorded' = unrecorded \cup {p}
    BY <1>p, <2>h, <2>2, RaiseMoves, ExcusedFrame DEF Excused
  <2>3. CASE Raise(p) /\ UNCHANGED <<router_vars, unrecorded>>
    BY <1>p, <2>h, <2>3, RaiseFrame DEF router_vars, Recovered
  <2> QED
    BY <1>5, <2>1, <2>2, <2>3 DEF Transition
<1>6. CASE Transition(p, "rollback", "b", [To(p, "back") EXCEPT !.active = FALSE])
  <2>h. hub' = hub /\ drift' = drift /\ stranded' = stranded /\ proc[p].pc = "rollback"
    BY <1>6 DEF Transition, At, hub_vars
  <2>1. CASE Applied(p, "b") /\ proc' = [proc EXCEPT ![p] = [To(p, "back") EXCEPT !.active = FALSE]] /\ UNCHANGED unrecorded
    <3>0. Others(p) /\ proc'[p] = [To(p, "back") EXCEPT !.active = FALSE]
      BY <1>p, <2>1, RowMoves
    <3>1. proc[p].pc = "rollback" /\ proc'[p].pc = "back"
          /\ proc'[p].removed = proc[p].removed
          /\ proc'[p].active = FALSE
      BY <1>p, <2>h, <3>0 DEF To, Rows
    <3>2. hub' = hub /\ router'.active = "b"
      BY <2>h, <2>1 DEF Applied
    <3>3. PiiKept(p)
      BY <3>1, <3>2 DEF PiiKept, OwesPii, Recovered
    <3>4. ControlKept(p)
      BY <1>p, <3>2 DEF ControlKept, OwesControl
    <3>5. RouteKept(p)
      BY <3>1, <3>2 DEF RouteKept, OwesRoute, Recovered
    <3> QED
      BY <2>h, <2>1, <3>0, <3>3, <3>4, <3>5 DEF RestoreFrame, Excused
  <2>2. CASE Applied(p, "b") /\ Raise(p) /\ unrecorded' = unrecorded
    <3>1. Others(p) /\ proc'[p].pc \in {"recover", "cleanup"} /\ proc'[p].removed = proc[p].removed
      BY <1>p, <2>2, RaiseMoves
    <3>2. router'.active = "b"
      BY <2>2 DEF Applied
    <3>3. PiiKept(p)
      BY <2>h, <3>1 DEF PiiKept, OwesPii, Recovered
    <3>4. ControlKept(p) /\ RouteKept(p)
      BY <1>p, <2>h, <3>2 DEF ControlKept, OwesControl, RouteKept
    <3> QED
      BY <2>h, <2>2, <3>1, <3>3, <3>4 DEF RestoreFrame, Excused
  <2>3. CASE Raise(p) /\ UNCHANGED <<router_vars, unrecorded>>
    BY <1>p, <2>h, <2>3, RaiseFrame DEF router_vars, Recovered
  <2> QED
    BY <1>6, <2>1, <2>2, <2>3 DEF Transition
<1>7. ASSUME ObserveDeployment(p) \/ Writeback(p)
             \/ (\E from \in {"effect_read", "rollback_read"}, expected \in Adapters,
                   to \in {"effect", "rollback"} : ReadRoute(p, from, expected, to))
             \/ (\E from \in {"decisive", "post"},
                   pcs \in SUBSET {"effect_read", "writeback", "rollback_read"} : Reread(p, from, pcs))
      PROVE  RestoreFrame(p)
  <2> DEFINE Quietly == {"observe", "writeback", "effect_read", "rollback_read", "decisive", "post",
                         "effect", "rollback"}
  <2>1. UNCHANGED <<hub, drift, router, unrecorded, stranded>> /\ proc[p].pc \in Quietly
    BY <1>7 DEF ObserveDeployment, Writeback, ReadRoute, Reread, At, hub_vars, router_vars
  <2>2. CASE Raise(p)
    BY <1>p, <2>1, <2>2, RaiseFrame DEF Recovered
  <2>3. ASSUME Others(p), proc'[p].pc \in Quietly, proc'[p].control = proc[p].control,
               proc'[p].removed = proc[p].removed, proc'[p].active = proc[p].active
        PROVE  RestoreFrame(p)
    BY <1>p, <2>1, <2>3, QuietFrame DEF Quiet, Recovered
  <2>4. ASSUME NEW pc \in Quietly, Goto(p, pc)
        PROVE  RestoreFrame(p)
    BY <1>p, <2>3, <2>4, GotoMoves
  <2>5. CASE ObserveDeployment(p)
    <3>1. ASSUME proc' = [proc EXCEPT ![p] = [To(p, "decisive") EXCEPT !.approval = Observation]]
          PROVE  RestoreFrame(p)
      <4>1. Others(p) /\ proc'[p] = [To(p, "decisive") EXCEPT !.approval = Observation]
        BY <1>p, <3>1, RowMoves
      <4> QED
        BY <1>p, <2>3, <4>1 DEF To, Rows
    <3> QED
      BY <2>2, <2>5, <3>1 DEF ObserveDeployment
  <2>6. ASSUME NEW from \in {"effect_read", "rollback_read"}, NEW expected \in Adapters,
               NEW to \in {"effect", "rollback"}, ReadRoute(p, from, expected, to)
        PROVE  RestoreFrame(p)
    <3>1. ASSUME proc' = [proc EXCEPT ![p] = [To(p, to) EXCEPT !.version = router.version]]
          PROVE  RestoreFrame(p)
      <4>1. Others(p) /\ proc'[p] = [To(p, to) EXCEPT !.version = router.version]
        BY <1>p, <3>1, RowMoves
      <4> QED
        BY <1>p, <2>3, <4>1 DEF To, Rows
    <3> QED
      BY <2>2, <2>6, <3>1 DEF ReadRoute
  <2>7. CASE Writeback(p)
    BY <2>2, <2>4, <2>7 DEF Writeback
  <2>8. ASSUME NEW from, NEW pcs \in SUBSET {"effect_read", "writeback", "rollback_read"},
               Reread(p, from, pcs)
        PROVE  RestoreFrame(p)
    BY <2>2, <2>4, <2>8 DEF Reread
  <2> HIDE DEF Quietly
  <2> QED
    BY <1>7, <2>5, <2>6, <2>7, <2>8
<1>8. CASE CleanupDeployment(p)
  <2>1. Others(p) /\ proc[p].pc = "cleanup" /\ proc'[p].pc = "failed"
    BY <1>8, <1>p, GotoMoves DEF CleanupDeployment, At, Rows
  <2>2. CASE /\ EmergencyRollback(p) /\ hub' = [hub EXCEPT !.pii = @ \/ proc[p].removed]
             /\ UNCHANGED stranded
    <3>1. /\ hub'.control = hub.control
          /\ proc[p].removed => hub'.pii
          /\ ~proc[p].removed => hub'.pii = hub.pii
      BY <1>p, <2>2 DEF TypeOK, Facts, Rows
    <3>2. router'.active = "b" \/ (router'.active = router.active /\ ~proc[p].active)
      <4>1. CASE Applied(p, "b")
        BY <4>1 DEF Applied
      <4>2. CASE UNCHANGED router_vars /\ ~(proc[p].active /\ router.active = "a")
        BY <4>2 DEF router_vars, TypeOK, Adapters
      <4> QED
        BY <2>2, <4>1, <4>2 DEF EmergencyRollback
    <3>3. PiiKept(p)
      BY <2>1, <3>1 DEF PiiKept, OwesPii
    <3>4. ControlKept(p)
      BY <1>p, <3>1 DEF ControlKept, OwesControl
    <3>5. RouteKept(p)
      BY <3>2 DEF RouteKept, OwesRoute
    <3> QED
      BY <1>8, <2>1, <2>2, <3>3, <3>4, <3>5 DEF CleanupDeployment, RestoreFrame, Excused
  <2>3. CASE stranded' = stranded \cup {p}
    BY <1>8, <1>p, <2>1, <2>3, ExcusedFrame DEF CleanupDeployment, Excused
  <2> QED
    BY <1>8, <2>2, <2>3 DEF CleanupDeployment
<1> QED
  BY <1>1, <1>2, <1>3, <1>4, <1>5, <1>6, <1>7, <1>8
  DEF DeploymentStep, run_deployment_proof, Adapters

LEMMA RestoreStep ==
  ASSUME TypeOK, RestoreInv, [Next]_vars
  PROVE  RestoreInv'
<1>1. CASE \E p \in Procs : Step(p)
  BY <1>1, ExchangeFrame, DeploymentFrame, FrameRestores DEF Step, Procs
<1>2. CASE Reindex
  BY <1>2 DEF Reindex, RestoreInv, PiiInv, ControlInv, RouteInv, Excused, OwesPii, OwesControl,
     OwesRoute, router_vars
<1>3. CASE Drift
  <2>1. drift' # 0 /\ hub'.control = hub.control
    BY <1>3 DEF Drift, TypeOK, Facts
  <2>2. UNCHANGED <<router, proc, unrecorded, stranded>>
    BY <1>3 DEF Drift, router_vars
  <2> QED
    BY <2>1, <2>2 DEF RestoreInv, PiiInv, ControlInv, RouteInv, Excused, OwesControl, OwesRoute
<1>4. CASE UNCHANGED vars
  BY <1>4 DEF vars, RestoreInv, PiiInv, ControlInv, RouteInv, Excused, OwesPii, OwesControl,
     OwesRoute, hub_vars, router_vars
<1> QED
  BY <1>1, <1>2, <1>3, <1>4 DEF Next

(* Once all proofs have ended nobody owes anything: the PII tag is back, the *)
(* control tag gone and the route on b, unless a recovery failed or a change *)
(* was made that no flag records (the finally blocks of both proofs).        *)
THEOREM WorldIsRestored == Spec => []ProofsRestore
<1>1. TypeOK /\ RestoreInv => ProofsRestore
  <2> SUFFICES ASSUME TypeOK, RestoreInv, \A p \in Procs : Ended(p), ~Excused, drift = 0
               PROVE  hub.pii /\ ~hub.control /\ router.active = "b"
    BY DEF ProofsRestore, Excused
  <2>1. \A p \in Procs : ~OwesPii(p) /\ ~OwesControl(p) /\ ~OwesRoute(p)
    BY DEF Ended, OwesPii, OwesControl, OwesRoute, Recovered
  <2> QED
    BY <2>1 DEF RestoreInv, PiiInv, ControlInv, RouteInv, TypeOK, Adapters
<1>2. Spec => [](TypeOK /\ RestoreInv)
  BY InitInv, NextTypes, RestoreStep, PTL DEF Spec, Inv
<1> QED
  BY <1>1, <1>2, PTL

-----------------------------------------------------------------------------
(* Routes, runs and documents: what a step of process p adds, and what it   *)
(* leaves of everybody else.                                                *)

TrueReceipt(d) == d.kind = "receipt" =>
  /\ Winner(d.approval) = "a"
  /\ d.version \in DOMAIN routes /\ routes[d.version] = [active |-> "a", by |-> d.by]
  /\ d.version > 1 /\ routes[d.version - 1].active = "b"

\* Nothing that was recorded is lost or rewritten.
Recorded ==
  /\ DOMAIN routes \subseteq DOMAIN routes' /\ \A i \in DOMAIN routes : routes'[i] = routes[i]
  /\ documents \subseteq documents'

HistoryFrame(p) ==
  /\ Others(p) /\ Recorded /\ RoutesInv'
  /\ p \in Deploy => DeployInv(p)'
  /\ p \in Causal => CausalInv(p)'
  /\ \A d \in documents' \ documents : TrueReceipt(d)'

LEMMA PlacedStays ==
  ASSUME TypeOK, NEW q \in Procs, Placed(q), Recorded, proc'[q] = proc[q]
  PROVE  Placed(q)'
<1>1. proc[q].version \in Nat /\ proc[q].version \in DOMAIN routes
  BY DEF TypeOK, Rows, Placed
<1> QED
  BY <1>1 DEF Placed, Recorded

LEMMA DeployStays ==
  ASSUME TypeOK, NEW q \in Deploy, DeployInv(q), Recorded, proc'[q] = proc[q]
  PROVE  DeployInv(q)'
<1>1. q \in Procs
  BY DEF Procs
<1>2. proc[q].pc \in {"post", "writeback"} => Placed(q)'
  BY <1>1, PlacedStays DEF DeployInv
<1> QED
  BY <1>2 DEF DeployInv, Recorded

LEMMA CausalStays ==
  ASSUME TypeOK, NEW q \in Causal, CausalInv(q), Recorded, proc'[q] = proc[q]
  PROVE  CausalInv(q)'
BY DEF CausalInv, Recorded, Exchanged

LEMMA ReceiptStays ==
  ASSUME TypeOK, NEW d, TrueReceipt(d), Recorded
  PROVE  TrueReceipt(d)'
<1> SUFFICES ASSUME d.kind = "receipt"
             PROVE  /\ d.version \in DOMAIN routes'
                    /\ routes'[d.version] = [active |-> "a", by |-> d.by]
                    /\ d.version > 1 /\ routes'[d.version - 1].active = "b"
  BY DEF TrueReceipt
<1>1. /\ d.version \in DOMAIN routes /\ routes[d.version] = [active |-> "a", by |-> d.by]
      /\ d.version > 1 /\ routes[d.version - 1].active = "b"
  BY DEF TrueReceipt
<1>2. d.version - 1 \in DOMAIN routes
  BY <1>1 DEF TypeOK
<1> QED
  BY <1>1, <1>2 DEF Recorded

LEMMA FrameHistory ==
  ASSUME TypeOK, HistoryInv, NEW p \in Procs, HistoryFrame(p)
  PROVE  HistoryInv'
<1>1. \A q \in Deploy : DeployInv(q)'
  <2> TAKE q \in Deploy
  <2>1. CASE q = p
    BY <2>1 DEF HistoryFrame
  <2>2. CASE q # p
    <3>1. proc'[q] = proc[q] /\ DeployInv(q) /\ Recorded
      BY <2>2 DEF HistoryFrame, Others, HistoryInv, Procs
    <3> QED
      BY <3>1, DeployStays
  <2> QED
    BY <2>1, <2>2
<1>2. \A q \in Causal : CausalInv(q)'
  <2> TAKE q \in Causal
  <2>1. CASE q = p
    BY <2>1 DEF HistoryFrame
  <2>2. CASE q # p
    <3>1. proc'[q] = proc[q] /\ CausalInv(q) /\ Recorded
      BY <2>2 DEF HistoryFrame, Others, HistoryInv, Procs
    <3> QED
      BY <3>1, CausalStays
  <2> QED
    BY <2>1, <2>2
<1>3. \A d \in documents' : TrueReceipt(d)'
  <2> TAKE d \in documents'
  <2>1. CASE d \in documents
    <3>1. TrueReceipt(d) /\ Recorded
      BY <2>1 DEF HistoryInv, ReceiptIsTrue, TrueReceipt, HistoryFrame
    <3> QED
      BY <3>1, ReceiptStays
  <2> QED
    BY <2>1 DEF HistoryFrame
<1>4. ReceiptIsTrue'
  BY <1>3 DEF ReceiptIsTrue, TrueReceipt
<1> QED
  BY <1>1, <1>2, <1>4 DEF HistoryInv, HistoryFrame

\* The body of run_causal_proof, and its steps that add no run.
Proving == {"start", "on_wait", "baseline", "control", "control_wait", "negative", "uncontrol",
            "uncontrol_wait", "off", "off_wait", "mutation", "back", "back_wait", "restored"}
CausalMoves ==
  {<<"start", "on_wait">>, <<"on_wait", "baseline">>, <<"control", "control_wait">>,
   <<"control_wait", "negative">>, <<"uncontrol", "uncontrol_wait">>,
   <<"uncontrol_wait", "off">>, <<"off", "off_wait">>, <<"off_wait", "mutation">>,
   <<"back", "back_wait">>, <<"back_wait", "restored">>}

(* A causal proof goes on without a new run, or raises.                     *)
LEMMA CausalSameRuns ==
  ASSUME NEW p \in Causal, CausalInv(p), proc'[p].runs = proc[p].runs,
         \/ <<proc[p].pc, proc'[p].pc>> \in CausalMoves
         \/ proc[p].pc \in Proving /\ proc'[p].pc = "recover"
  PROVE  CausalInv(p)'
<1> DEFINE r == proc[p].runs
<1>1. CASE proc[p].pc \in {"start", "on_wait", "baseline"}
  <2>1. RunsUpTo(r, 0)
    BY <1>1 DEF CausalInv
  <2> QED
    BY <1>1, <2>1 DEF CausalInv, RunsUpTo, CausalMoves, Proving
<1>2. CASE proc[p].pc \in {"control", "control_wait", "negative"}
  <2>1. RunsUpTo(r, 1)
    BY <1>2 DEF CausalInv
  <2> QED
    BY <1>2, <2>1 DEF CausalInv, RunsUpTo, CausalMoves, Proving
<1>3. CASE proc[p].pc \in {"uncontrol", "uncontrol_wait", "off", "off_wait", "mutation"}
  <2>1. RunsUpTo(r, 2)
    BY <1>3 DEF CausalInv
  <2> QED
    BY <1>3, <2>1 DEF CausalInv, RunsUpTo, CausalMoves, Proving
<1>4. CASE proc[p].pc \in {"back", "back_wait", "restored"}
  <2>1. RunsUpTo(r, 3)
    BY <1>4 DEF CausalInv
  <2> QED
    BY <1>4, <2>1 DEF CausalInv, RunsUpTo, CausalMoves, Proving
<1> QED
  BY <1>1, <1>2, <1>3, <1>4 DEF Proving, CausalMoves

(* One more run that fits.                                                  *)
LEMMA RunAdded ==
  ASSUME NEW r \in Seq(Observations), NEW o \in Observations, NEW n \in 0..3, RunsUpTo(r, n),
         n = 0 => Winner(o) = "b",
         n \in {1, 3} => o = r[1],
         n = 2 => Winner(o) = "a" /\ Decision(o) # Decision(r[1])
  PROVE  RunsUpTo(Append(r, o), n + 1)
<1>1. Len(Append(r, o)) = n + 1 /\ Append(r, o)[n + 1] = o /\ \A i \in 1..n : Append(r, o)[i] = r[i]
  BY AppendProperties DEF RunsUpTo
<1>2. CASE n = 0
  BY <1>1, <1>2 DEF RunsUpTo
<1>3. CASE n = 1
  BY <1>1, <1>3 DEF RunsUpTo
<1>4. CASE n = 2
  BY <1>1, <1>4 DEF RunsUpTo
<1>5. CASE n = 3
  BY <1>1, <1>5 DEF RunsUpTo
<1> QED
  BY <1>2, <1>3, <1>4, <1>5

(* A step that touches neither routes nor documents adds nothing.           *)
LEMMA NothingRecorded ==
  ASSUME NEW p \in Procs, RoutesInv, UNCHANGED <<router_vars, documents>>, Others(p),
         p \in Deploy => DeployInv(p)', p \in Causal => CausalInv(p)'
  PROVE  HistoryFrame(p)
BY DEF RoutesInv, HistoryFrame, Recorded, router_vars

LEMMA CausalRaises ==
  ASSUME TypeOK, NEW p \in Causal, RoutesInv, CausalInv(p), Raise(p),
         UNCHANGED <<router_vars, documents>>,
         proc[p].pc \in Proving
  PROVE  HistoryFrame(p)
<1>p. p \in Procs /\ p \notin Deploy
  BY ProofAssumption DEF Procs
<1>1. Others(p) /\ proc'[p].pc = "recover" /\ proc'[p].runs = proc[p].runs
  BY <1>p, RaiseMoves DEF Raised
<1>2. CausalInv(p)'
  BY <1>1, CausalSameRuns
<1> QED
  BY <1>p, <1>1, <1>2, NothingRecorded

(* A tag set or awaited: on to the next place, or raised.                   *)
LEMMA CausalTag ==
  ASSUME TypeOK, NEW p \in Causal, RoutesInv, CausalInv(p), NEW from, NEW field, NEW value, NEW to,
         SetTag(p, from, field, value, to) \/ AwaitTag(p, from, field, value, to),
         <<from, to.pc>> \in CausalMoves, to.runs = proc[p].runs
  PROVE  HistoryFrame(p)
<1>p. p \in Procs /\ p \notin Deploy
  BY ProofAssumption DEF Procs
<1>1. UNCHANGED <<router_vars, documents>> /\ proc[p].pc = from
  BY DEF SetTag, AwaitTag, At
<1>2. CASE proc' = [proc EXCEPT ![p] = to]
  <2>1. Others(p) /\ proc'[p] = to
    BY <1>p, <1>2, RowMoves
  <2>2. CausalInv(p)'
    BY <1>1, <2>1, CausalSameRuns DEF CausalMoves
  <2> QED
    BY <1>p, <1>1, <2>1, <2>2, NothingRecorded
<1>3. CASE Raise(p)
  BY <1>1, <1>3, CausalRaises DEF CausalMoves, Proving
<1> QED
  BY <1>2, <1>3 DEF SetTag, AwaitTag

\* What the nth run has to show to be accepted.
Fits(p, n) ==
  /\ n = 0 => Winner(Observation) = "b"
  /\ n \in {1, 3} => Observation = Baseline(p)
  /\ n = 2 => Winner(Observation) = "a" /\ Decision(Observation) # Decision(Baseline(p))

LEMMA CausalRun ==
  ASSUME TypeOK, NEW p \in Causal, RoutesInv, CausalInv(p), NEW to, NEW n \in 0..3,
         UNCHANGED <<router_vars, documents>>, proc[p].pc \in Proving, RunsUpTo(proc[p].runs, n),
         \/ /\ Fits(p, n)
            /\ proc' = [proc EXCEPT ![p] = [To(p, to) EXCEPT !.runs = Append(@, Observation)]]
         \/ Raise(p),
         to = <<"control", "uncontrol", "back", "recover">>[n + 1]
  PROVE  HistoryFrame(p)
<1>p. p \in Procs /\ p \notin Deploy /\ proc[p] \in Rows
  BY ProofAssumption DEF Procs, TypeOK
<1>1. CASE /\ Fits(p, n)
           /\ proc' = [proc EXCEPT ![p] = [To(p, to) EXCEPT !.runs = Append(@, Observation)]]
  <2>1. Others(p) /\ proc'[p] = [To(p, to) EXCEPT !.runs = Append(To(p, to).runs, Observation)]
    BY <1>p, <1>1, RowMoves
  <2>2. proc'[p].pc = to /\ proc'[p].runs = Append(proc[p].runs, Observation)
    BY <1>p, <2>1 DEF To, Rows
  <2>3. RunsUpTo(proc'[p].runs, n + 1)
    BY <1>p, <1>1, <2>2, RunAdded, ObservationType DEF Rows, Baseline, Fits
  <2>4. CausalInv(p)'
    BY <2>2, <2>3 DEF CausalInv
  <2> QED
    BY <1>p, <2>1, <2>4, NothingRecorded
<1>2. CASE Raise(p)
  BY <1>2, CausalRaises
<1> QED
  BY <1>1, <1>2

LEMMA CausalHistory ==
  ASSUME TypeOK, HistoryInv, NEW p \in Causal, ExchangeStep(p)
  PROVE  HistoryFrame(p)
<1>p. p \in Procs /\ p \notin Deploy /\ proc[p] \in Rows /\ RoutesInv /\ CausalInv(p)
  BY ProofAssumption DEF Procs, TypeOK, HistoryInv
<1>1. CASE run_causal_proof(p)
  <2>1. /\ To(p, "on_wait").runs = proc[p].runs /\ To(p, "on_wait").pc = "on_wait"
        /\ To(p, "baseline").runs = proc[p].runs /\ To(p, "baseline").pc = "baseline"
        /\ To(p, "back_wait").runs = proc[p].runs /\ To(p, "back_wait").pc = "back_wait"
    BY <1>p DEF To, Rows
  <2>2. CASE Control(p)
    <3>1. /\ [To(p, "control_wait") EXCEPT !.control = TRUE].runs = proc[p].runs
          /\ [To(p, "control_wait") EXCEPT !.control = TRUE].pc = "control_wait"
          /\ To(p, "negative").runs = proc[p].runs /\ To(p, "negative").pc = "negative"
          /\ To(p, "uncontrol_wait").runs = proc[p].runs
          /\ To(p, "uncontrol_wait").pc = "uncontrol_wait"
          /\ [To(p, "off") EXCEPT !.control = FALSE].runs = proc[p].runs
          /\ [To(p, "off") EXCEPT !.control = FALSE].pc = "off"
      BY <1>p DEF To, Rows
    <3>2. ASSUME CompileAndRun(p, "negative", Observation = Baseline(p), "uncontrol")
          PROVE  HistoryFrame(p)
      <4>1. /\ RunsUpTo(proc[p].runs, 1) /\ proc[p].pc \in Proving
            /\ UNCHANGED <<router_vars, documents>>
        BY <1>p, <3>2 DEF CompileAndRun, At, CausalInv, Proving
      <4> QED
        BY <1>p, <3>2, <4>1, CausalRun DEF CompileAndRun, Fits
    <3> QED
      BY <1>p, <2>2, <3>1, <3>2, CausalTag DEF Control, CausalMoves
  <2>3. CASE RemovePii(p)
    <3>1. /\ [To(p, "off_wait") EXCEPT !.removed = TRUE].runs = proc[p].runs
          /\ [To(p, "off_wait") EXCEPT !.removed = TRUE].pc = "off_wait"
          /\ To(p, "mutation").runs = proc[p].runs /\ To(p, "mutation").pc = "mutation"
      BY <1>p DEF To, Rows
    <3> QED
      BY <1>p, <2>3, <3>1, CausalTag DEF RemovePii, CausalMoves
  <2>4. ASSUME CompileAndRun(p, "baseline", Winner(Observation) = "b", "control")
        PROVE  HistoryFrame(p)
    <3>1. /\ RunsUpTo(proc[p].runs, 0) /\ proc[p].pc \in Proving
          /\ UNCHANGED <<router_vars, documents>>
      BY <1>p, <2>4 DEF CompileAndRun, At, CausalInv, Proving
    <3>2. \/ /\ Fits(p, 0)
             /\ proc' = [proc EXCEPT ![p] = [To(p, "control") EXCEPT !.runs = Append(@, Observation)]]
          \/ Raise(p)
      BY <2>4 DEF CompileAndRun, Fits
    <3> QED
      BY <1>p, <3>1, <3>2, CausalRun DEF Fits
  <2>5. ASSUME CompileAndRun(p, "mutation",
                 Winner(Observation) = "a" /\ Decision(Observation) # Decision(Baseline(p)), "back")
        PROVE  HistoryFrame(p)
    <3>1. /\ RunsUpTo(proc[p].runs, 2) /\ proc[p].pc \in Proving
          /\ UNCHANGED <<router_vars, documents>>
      BY <1>p, <2>5 DEF CompileAndRun, At, CausalInv, Proving
    <3>2. \/ /\ Fits(p, 2)
             /\ proc' = [proc EXCEPT ![p] = [To(p, "back") EXCEPT !.runs = Append(@, Observation)]]
          \/ Raise(p)
      BY <2>5 DEF CompileAndRun, Fits
    <3> QED
      BY <1>p, <3>1, <3>2, CausalRun DEF Fits
  <2>6. ASSUME CompileAndRun(p, "restored", Restores(p), "recover")
        PROVE  HistoryFrame(p)
    <3>1. /\ RunsUpTo(proc[p].runs, 3) /\ proc[p].pc \in Proving
          /\ UNCHANGED <<router_vars, documents>>
      BY <1>p, <2>6 DEF CompileAndRun, At, CausalInv, Proving
    <3>2. Restores(p) => Observation = Baseline(p)
      BY DEF Restores
    <3> QED
      BY <1>p, <2>6, <3>1, <3>2, CausalRun DEF CompileAndRun, Fits
  <2>7. ASSUME SetTag(p, "start", "pii", TRUE, To(p, "on_wait"))
               \/ AwaitTag(p, "on_wait", "pii", TRUE, To(p, "baseline"))
               \/ SetTag(p, "back", "pii", TRUE, To(p, "back_wait"))
        PROVE  HistoryFrame(p)
    BY <1>p, <2>1, <2>7, CausalTag DEF CausalMoves
  <2>8. ASSUME AwaitTag(p, "back_wait", "pii", TRUE, [To(p, "restored") EXCEPT !.removed = FALSE])
        PROVE  HistoryFrame(p)
    <3>1. /\ [To(p, "restored") EXCEPT !.removed = FALSE].runs = proc[p].runs
          /\ [To(p, "restored") EXCEPT !.removed = FALSE].pc = "restored"
      BY <1>p DEF To, Rows
    <3> QED
      BY <1>p, <2>8, <3>1, CausalTag DEF CausalMoves
  <2> QED
    BY <1>1, <2>2, <2>3, <2>4, <2>5, <2>6, <2>7, <2>8 DEF run_causal_proof
<1>2. CASE RecoverCausal(p)
  <2>1. UNCHANGED <<router_vars, documents>> /\ proc[p].pc = "recover"
    BY <1>2 DEF RecoverCausal, At
  <2>2. PICK pc \in {"approve", "failed"} :
          Goto(p, pc) /\ (pc = "approve" => Len(proc[p].runs) = 4)
    BY <1>2 DEF RecoverCausal
  <2>3. Others(p) /\ proc'[p].pc = pc /\ proc'[p].runs = proc[p].runs
    BY <1>p, <2>2, GotoMoves
  <2>4. CausalInv(p)'
    BY <1>p, <2>1, <2>2, <2>3 DEF CausalInv
  <2> QED
    BY <1>p, <2>1, <2>3, <2>4, NothingRecorded
<1>3. CASE ApproveExchange(p)
  <2>1. UNCHANGED <<router_vars, documents>> /\ proc[p].pc = "approve"
    BY <1>3 DEF ApproveExchange, At
  <2>2. CASE /\ Observation = proc[p].runs[4]
             /\ proc' = [proc EXCEPT ![p] = [To(p, "publish") EXCEPT !.approval = Observation]]
    <3>1. Others(p) /\ proc'[p] = [To(p, "publish") EXCEPT !.approval = Observation]
      BY <1>p, <2>2, RowMoves
    <3>2. proc'[p].pc = "publish" /\ proc'[p].runs = proc[p].runs /\ proc'[p].approval = proc[p].runs[4]
      BY <1>p, <2>2, <3>1 DEF To, Rows
    <3>3. CausalInv(p)'
      BY <1>p, <2>1, <3>2 DEF CausalInv
    <3> QED
      BY <1>p, <2>1, <3>1, <3>3, NothingRecorded
  <2>3. CASE Goto(p, "failed")
    <3>1. Others(p) /\ proc'[p].pc = "failed"
      BY <1>p, <2>3, GotoMoves
    <3>2. CausalInv(p)'
      BY <3>1 DEF CausalInv
    <3> QED
      BY <1>p, <2>1, <3>1, <3>2, NothingRecorded
  <2> QED
    BY <1>3, <2>2, <2>3 DEF ApproveExchange
<1>4. CASE PublishExchange(p)
  <2>1. UNCHANGED router_vars /\ proc[p].pc = "publish"
    BY <1>4 DEF PublishExchange, At
  <2>2. PICK pc \in {"reread", "failed"} : Goto(p, pc)
    BY <1>4 DEF PublishExchange
  <2>3. Others(p) /\ proc'[p].pc = pc /\ proc'[p].runs = proc[p].runs /\ proc'[p].approval = proc[p].approval
    BY <1>p, <2>2, GotoMoves
  <2>4. CausalInv(p)'
    BY <1>p, <2>1, <2>3 DEF CausalInv
  <2>5. documents' \in {documents, documents \cup {Exchanged(p)}}
    BY <1>4 DEF PublishExchange
  <2>6. \A d \in documents' \ documents : TrueReceipt(d)'
    BY <2>5 DEF TrueReceipt, Exchanged
  <2> QED
    BY <1>p, <2>1, <2>3, <2>4, <2>5, <2>6 DEF HistoryFrame, Recorded, RoutesInv, router_vars
<1>5. CASE RereadExchange(p)
  <2>1. UNCHANGED <<router_vars, documents>> /\ proc[p].pc = "reread"
    BY <1>5 DEF RereadExchange, At
  <2>2. PICK pc \in {"passed", "failed"} : Goto(p, pc) /\ (pc = "passed" => Exchanged(p) \in documents)
    BY <1>5 DEF RereadExchange
  <2>3. Others(p) /\ proc'[p].pc = pc /\ proc'[p].runs = proc[p].runs /\ proc'[p].approval = proc[p].approval
    BY <1>p, <2>2, GotoMoves
  <2>4. CausalInv(p)'
    BY <1>p, <2>1, <2>2, <2>3 DEF CausalInv, Exchanged
  <2> QED
    BY <1>p, <2>1, <2>3, <2>4, NothingRecorded
<1> QED
  BY <1>1, <1>2, <1>3, <1>4, <1>5 DEF ExchangeStep

(* The deployment proof: steps after which the row says nothing yet of      *)
(* route or document, and the two that put a in place and publish.          *)
Silent == {"off_wait", "observe", "back", "back_wait", "passed", "rollback", "rollback_read",
           "cleanup", "failed"}

LEMMA DeploySilent ==
  ASSUME NEW p \in Deploy, proc'[p].pc \in Silent
  PROVE  DeployInv(p)'
BY DEF Silent, DeployInv

LEMMA DeployTag ==
  ASSUME TypeOK, NEW p \in Deploy, RoutesInv, NEW from, NEW field, NEW value, NEW to,
         SetTag(p, from, field, value, to) \/ AwaitTag(p, from, field, value, to), to.pc \in Silent
  PROVE  HistoryFrame(p)
<1>p. p \in Procs /\ p \notin Causal
  BY ProofAssumption DEF Procs
<1>1. UNCHANGED <<router_vars, documents>>
  BY DEF SetTag, AwaitTag
<1>2. Others(p) /\ proc'[p].pc \in Silent
  <2>1. CASE proc' = [proc EXCEPT ![p] = to]
    BY <1>p, <2>1, RowMoves
  <2>2. CASE Raise(p)
    BY <1>p, <2>2, RaiseMoves DEF Raised, Silent
  <2> QED
    BY <2>1, <2>2 DEF SetTag, AwaitTag
<1> QED
  BY <1>p, <1>1, <1>2, DeploySilent, NothingRecorded

LEMMA DeployRaises ==
  ASSUME TypeOK, NEW p \in Deploy, RoutesInv, Raise(p), UNCHANGED <<router_vars, documents>>
  PROVE  HistoryFrame(p)
<1>p. p \in Procs /\ p \notin Causal
  BY ProofAssumption DEF Procs
<1> QED
  BY <1>p, RaiseMoves, DeploySilent, NothingRecorded DEF Raised, Silent

(* The router moves on by one version.                                      *)
LEMMA AppliedRecords ==
  ASSUME TypeOK, RoutesInv, NEW p \in Procs, NEW target \in Adapters, Applied(p, target)
  PROVE  /\ RoutesInv' /\ Len(routes') = Len(routes) + 1
         /\ routes'[Len(routes) + 1] = [active |-> target, by |-> p]
         /\ \A i \in DOMAIN routes : i \in DOMAIN routes' /\ routes'[i] = routes[i]
<1>1. [active |-> target, by |-> p] \in Routes /\ routes \in Seq(Routes)
  BY DEF Routes, TypeOK
<1>2. /\ Len(routes') = Len(routes) + 1 /\ routes'[Len(routes) + 1] = [active |-> target, by |-> p]
      /\ \A i \in DOMAIN routes : i \in DOMAIN routes' /\ routes'[i] = routes[i]
  BY <1>1, AppendProperties DEF Applied
<1>3. router'.version = Len(routes) + 1 /\ router'.active = target
  BY DEF Applied, RoutesInv
<1> QED
  BY <1>2, <1>3 DEF RoutesInv

LEMMA DeploymentHistory ==
  ASSUME TypeOK, HistoryInv, NEW p \in Deploy, DeploymentStep(p)
  PROVE  HistoryFrame(p)
<1>p. p \in Procs /\ p \notin Causal /\ proc[p] \in Rows /\ RoutesInv /\ DeployInv(p)
  BY ProofAssumption DEF Procs, TypeOK, HistoryInv
<1>q. Len(routes) = router.version /\ Len(routes) \in Nat \ {0} /\ DOMAIN routes = 1..Len(routes)
  BY <1>p DEF RoutesInv, TypeOK
<1>1. ASSUME SetTag(p, "start", "pii", FALSE, To(p, "off_wait"))
             \/ AwaitTag(p, "off_wait", "pii", FALSE, [To(p, "observe") EXCEPT !.removed = TRUE])
             \/ SetTag(p, "back", "pii", TRUE, To(p, "back_wait"))
             \/ AwaitTag(p, "back_wait", "pii", TRUE, [To(p, "passed") EXCEPT !.removed = FALSE])
      PROVE  HistoryFrame(p)
  <2>1. /\ To(p, "off_wait").pc \in Silent /\ To(p, "back_wait").pc \in Silent
        /\ [To(p, "observe") EXCEPT !.removed = TRUE].pc \in Silent
        /\ [To(p, "passed") EXCEPT !.removed = FALSE].pc \in Silent
    BY <1>p DEF To, Rows, Silent
  <2> QED
    BY <1>p, <1>1, <2>1, DeployTag
<1>2. CASE ObserveDeployment(p)
  <2>1. UNCHANGED <<router_vars, documents>>
    BY <1>2 DEF ObserveDeployment
  <2>2. CASE /\ Winner(Observation) = "a"
             /\ proc' = [proc EXCEPT ![p] = [To(p, "decisive") EXCEPT !.approval = Observation]]
    <3>1. Others(p) /\ proc'[p] = [To(p, "decisive") EXCEPT !.approval = Observation]
      BY <1>p, <2>2, RowMoves
    <3>2. proc'[p].pc = "decisive" /\ proc'[p].approval = Observation
      BY <1>p, <3>1 DEF To, Rows
    <3>3. DeployInv(p)'
      BY <2>2, <3>2 DEF DeployInv
    <3> QED
      BY <1>p, <2>1, <3>1, <3>3, NothingRecorded
  <2>3. CASE Raise(p)
    BY <1>p, <2>1, <2>3, DeployRaises
  <2> QED
    BY <1>2, <2>2, <2>3 DEF ObserveDeployment
<1>3. ASSUME NEW from \in {"decisive", "post"}, NEW pcs, Reread(p, from, pcs),
             from = "decisive" => pcs = {"effect_read"},
             from = "post" => pcs = {"writeback", "rollback_read"}
      PROVE  HistoryFrame(p)
  <2>1. UNCHANGED <<router_vars, documents>> /\ proc[p].pc = from
    BY <1>3 DEF Reread, At
  <2>2. ASSUME NEW pc \in pcs, Goto(p, pc)
        PROVE  HistoryFrame(p)
    <3>1. /\ Others(p) /\ proc'[p].pc = pc
          /\ proc'[p].approval = proc[p].approval /\ proc'[p].version = proc[p].version
      BY <1>p, <2>2, GotoMoves
    <3>2. DeployInv(p)'
      BY <1>p, <1>3, <2>1, <2>2, <3>1 DEF DeployInv, Placed, router_vars
    <3> QED
      BY <1>p, <2>1, <3>1, <3>2, NothingRecorded
  <2>3. CASE Raise(p)
    BY <1>p, <2>1, <2>3, DeployRaises
  <2> QED
    BY <1>3, <2>2, <2>3 DEF Reread
<1>4. CASE ReadRoute(p, "effect_read", "b", "effect")
  <2>1. UNCHANGED <<router_vars, documents>> /\ proc[p].pc = "effect_read"
    BY <1>4 DEF ReadRoute, At
  <2>2. CASE /\ router.active = "b"
             /\ proc' = [proc EXCEPT ![p] = [To(p, "effect") EXCEPT !.version = router.version]]
    <3>1. Others(p) /\ proc'[p] = [To(p, "effect") EXCEPT !.version = router.version]
      BY <1>p, <2>2, RowMoves
    <3>2. /\ proc'[p].pc = "effect" /\ proc'[p].approval = proc[p].approval
          /\ proc'[p].version = router.version
      BY <1>p, <3>1 DEF To, Rows
    <3>3. router.version \in DOMAIN routes' /\ routes'[router.version].active = "b"
      BY <1>p, <1>q, <2>1, <2>2 DEF RoutesInv, router_vars
    <3>4. DeployInv(p)'
      BY <1>p, <2>1, <3>2, <3>3 DEF DeployInv
    <3> QED
      BY <1>p, <2>1, <3>1, <3>4, NothingRecorded
  <2>3. CASE Raise(p)
    BY <1>p, <2>1, <2>3, DeployRaises
  <2> QED
    BY <1>4, <2>2, <2>3 DEF ReadRoute
<1>5. CASE ReadRoute(p, "rollback_read", "a", "rollback")
  <2>1. UNCHANGED <<router_vars, documents>>
    BY <1>5 DEF ReadRoute
  <2>2. CASE proc' = [proc EXCEPT ![p] = [To(p, "rollback") EXCEPT !.version = router.version]]
    <3>1. Others(p) /\ proc'[p] = [To(p, "rollback") EXCEPT !.version = router.version]
      BY <1>p, <2>2, RowMoves
    <3>2. proc'[p].pc \in Silent
      BY <1>p, <3>1 DEF To, Rows, Silent
    <3> QED
      BY <1>p, <2>1, <3>1, <3>2, DeploySilent, NothingRecorded
  <2>3. CASE Raise(p)
    BY <1>p, <2>1, <2>3, DeployRaises
  <2> QED
    BY <1>5, <2>2, <2>3 DEF ReadRoute
<1>6. CASE Writeback(p)
  <2>1. /\ UNCHANGED router_vars /\ proc[p].pc = "writeback"
        /\ documents' \in {documents, documents \cup {Receipt(p)}}
    BY <1>6 DEF Writeback, At
  <2>2. Others(p) /\ proc'[p].pc \in Silent
    <3>1. CASE Goto(p, "rollback_read")
      BY <1>p, <3>1, GotoMoves DEF Silent
    <3>2. CASE Raise(p)
      BY <1>p, <3>2, RaiseMoves DEF Raised, Silent
    <3> QED
      BY <1>6, <3>1, <3>2 DEF Writeback
  <2>3. Winner(proc[p].approval) = "a" /\ Placed(p) /\ proc[p].version \in Nat
    BY <1>p, <2>1 DEF DeployInv, Rows
  <2>4. ASSUME NEW d, d = Receipt(p)
        PROVE  TrueReceipt(d)'
    <3>1. /\ d.approval = proc[p].approval /\ d.version = proc[p].version + 1 /\ d.by = p
          /\ routes' = routes
      BY <2>1, <2>4 DEF Receipt, router_vars
    <3>2. d.version > 1 /\ d.version - 1 = proc[p].version
      BY <2>3, <3>1 DEF Placed
    <3> QED
      BY <2>3, <3>1, <3>2 DEF TrueReceipt, Placed
  <2>5. \A d \in documents' \ documents : TrueReceipt(d)'
    BY <2>1, <2>4
  <2>6. DeployInv(p)' /\ RoutesInv'
    BY <1>p, <2>1, <2>2, DeploySilent DEF RoutesInv, router_vars
  <2> QED
    BY <1>p, <2>1, <2>2, <2>5, <2>6 DEF HistoryFrame, Recorded, router_vars
<1>7. CASE Transition(p, "effect", "a", [To(p, "post") EXCEPT !.active = TRUE])
  <2>1. documents' = documents /\ proc[p].pc = "effect"
    BY <1>7 DEF Transition, At
  <2>2. CASE /\ SameVersion(proc[p].version) /\ Applied(p, "a")
             /\ proc' = [proc EXCEPT ![p] = [To(p, "post") EXCEPT !.active = TRUE]]
    <3>1. Others(p) /\ proc'[p] = [To(p, "post") EXCEPT !.active = TRUE]
      BY <1>p, <2>2, RowMoves
    <3>2. /\ proc'[p].pc = "post" /\ proc'[p].approval = proc[p].approval
          /\ proc'[p].version = Len(routes)
      BY <1>p, <1>q, <2>2, <3>1 DEF To, Rows, SameVersion
    <3>3. /\ RoutesInv' /\ Len(routes') = Len(routes) + 1
          /\ routes'[Len(routes) + 1] = [active |-> "a", by |-> p]
          /\ \A i \in DOMAIN routes : i \in DOMAIN routes' /\ routes'[i] = routes[i]
      BY <1>p, <2>2, AppliedRecords DEF Adapters
    <3>4. routes[Len(routes)].active = "b" /\ Winner(proc[p].approval) = "a"
      BY <1>p, <1>q, <2>1, <2>2 DEF DeployInv, SameVersion
    <3>5. Len(routes) + 1 \in DOMAIN routes'
      BY <1>p, <1>q, <2>2, <3>3, AppliedType DEF Adapters
    <3>6. Placed(p)'
      BY <1>q, <3>2, <3>3, <3>4, <3>5 DEF Placed
    <3>7. DeployInv(p)'
      BY <3>2, <3>4, <3>6 DEF DeployInv
    <3> QED
      BY <1>p, <2>1, <3>1, <3>3, <3>7 DEF HistoryFrame, Recorded
  <2>3. CASE Applied(p, "a") /\ Raise(p)
    <3>1. Others(p) /\ proc'[p].pc \in Silent
      BY <1>p, <2>3, RaiseMoves DEF Raised, Silent
    <3>2. /\ RoutesInv' /\ \A i \in DOMAIN routes : i \in DOMAIN routes' /\ routes'[i] = routes[i]
      BY <1>p, <2>3, AppliedRecords DEF Adapters
    <3> QED
      BY <1>p, <2>1, <3>1, <3>2, DeploySilent DEF HistoryFrame, Recorded
  <2>4. CASE Raise(p) /\ UNCHANGED <<router_vars, unrecorded>>
    BY <1>p, <2>1, <2>4, DeployRaises
  <2> QED
    BY <1>7, <2>2, <2>3, <2>4 DEF Transition
<1>8. CASE Transition(p, "rollback", "b", [To(p, "back") EXCEPT !.active = FALSE])
  <2>1. documents' = documents
    BY <1>8 DEF Transition
  <2>2. CASE UNCHANGED router_vars /\ Raise(p)
    BY <1>p, <2>1, <2>2, DeployRaises
  <2>3. ASSUME Applied(p, "b"), Others(p), proc'[p].pc \in Silent
        PROVE  HistoryFrame(p)
    <3>1. /\ RoutesInv' /\ \A i \in DOMAIN routes : i \in DOMAIN routes' /\ routes'[i] = routes[i]
      BY <1>p, <2>3, AppliedRecords DEF Adapters
    <3> QED
      BY <1>p, <2>1, <2>3, <3>1, DeploySilent DEF HistoryFrame, Recorded
  <2>4. CASE Applied(p, "b") /\ proc' = [proc EXCEPT ![p] = [To(p, "back") EXCEPT !.active = FALSE]]
    <3>1. Others(p) /\ proc'[p] = [To(p, "back") EXCEPT !.active = FALSE]
      BY <1>p, <2>4, RowMoves
    <3>2. proc'[p].pc \in Silent
      BY <1>p, <3>1 DEF To, Rows, Silent
    <3> QED
      BY <2>3, <2>4, <3>1, <3>2
  <2>5. CASE Applied(p, "b") /\ Raise(p)
    BY <1>p, <2>3, <2>5, RaiseMoves DEF Raised, Silent
  <2> QED
    BY <1>8, <2>2, <2>4, <2>5 DEF Transition
<1>9. CASE CleanupDeployment(p)
  <2>1. documents' = documents /\ Goto(p, "failed")
    BY <1>9 DEF CleanupDeployment
  <2>2. Others(p) /\ proc'[p].pc \in Silent
    BY <1>p, <2>1, GotoMoves DEF Silent
  <2>3. RoutesInv' /\ \A i \in DOMAIN routes : i \in DOMAIN routes' /\ routes'[i] = routes[i]
    <3>1. CASE Applied(p, "b")
      BY <1>p, <3>1, AppliedRecords DEF Adapters
    <3>2. CASE UNCHANGED router_vars
      BY <1>p, <3>2 DEF RoutesInv, router_vars
    <3> QED
      BY <1>9, <3>1, <3>2 DEF CleanupDeployment, EmergencyRollback
  <2> QED
    BY <1>p, <2>1, <2>2, <2>3, DeploySilent DEF HistoryFrame, Recorded
<1>10. CASE run_deployment_proof(p)
  BY <1>10, <1>1, <1>2, <1>3, <1>4, <1>5, <1>6, <1>7, <1>8 DEF run_deployment_proof
<1> QED
  BY <1>9, <1>10 DEF DeploymentStep

LEMMA HistoryStep ==
  ASSUME TypeOK, HistoryInv, [Next]_vars
  PROVE  HistoryInv'
<1>1. CASE \E p \in Procs : Step(p)
  BY <1>1, CausalHistory, DeploymentHistory, FrameHistory DEF Step, Procs
<1>2. CASE UNCHANGED <<router_vars, proc, documents>>
  BY <1>2 DEF HistoryInv, RoutesInv, DeployInv, Placed, CausalInv, Exchanged, ReceiptIsTrue, router_vars
<1> QED
  BY <1>1, <1>2 DEF Next, Reindex, Drift, vars

(* A receipt names the route version its process put in place, under an     *)
(* approval that had selected it, and an exchange proof that passed shows   *)
(* B-A-B on one context with the restored decision approved and published   *)
(* (DocumentsAreTrue), for any number of overlapping proofs and any drift.  *)
THEOREM ProofDocumentsAreTrue == Spec => []DocumentsAreTrue
<1>1. HistoryInv => DocumentsAreTrue
  <2> SUFFICES ASSUME HistoryInv PROVE PassIsCausal
    BY DEF HistoryInv, DocumentsAreTrue
  <2>1. ASSUME NEW p \in Causal, At(p, "passed")
        PROVE  /\ RunsUpTo(proc[p].runs, 4) /\ proc[p].approval = proc[p].runs[4]
               /\ Exchanged(p) \in documents
    BY <2>1 DEF HistoryInv, CausalInv, At
  <2>2. \A p \in Causal : At(p, "passed") =>
          /\ Exchanged(p).kind = "decision" /\ Exchanged(p).by = p
          /\ Exchanged(p).fact = Decision(proc[p].runs[4])
    BY DEF Exchanged
  <2> QED
    BY <2>1, <2>2 DEF PassIsCausal, RunsUpTo
<1>2. Spec => [](TypeOK /\ HistoryInv)
  BY InitInv, NextTypes, HistoryStep, PTL DEF Spec, Inv
<1> QED
  BY <1>1, <1>2, PTL

=============================================================================
