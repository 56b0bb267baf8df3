--------------------------- MODULE GovernedLedger ---------------------------
(***************************************************************************)
(* The Snowflake side of a governed decision: create_decision with the     *)
(* procedure RUN_SIRA_DECISION and _hydrate.  The connection is opened     *)
(* without autocommit=False, so each statement commits by itself and the   *)
(* rollback of a failed call undoes nothing; Snowflake does not enforce    *)
(* UNIQUE (organization_id, idempotency_key).  call[c].pc, .request, .run  *)
(* and .sources are local variables of the call c, which also names the    *)
(* ids that uuid4 draws for it.                                            *)
(***************************************************************************)
EXTENDS Naturals, Sequences, FiniteSets, Functions

CONSTANT Citations  \* decisive facts and cited claims of the evaluation, in insertion order

VARIABLES requests,  \* DECISION.REQUESTS: id and idempotency key (one per mission)
          runs,      \* DECISION.RUNS in order of creation
          citations, \* DECISION.CITATIONS: run and what is cited
          call       \* local state of each call

ledger == <<requests, runs, citations>>

LedgerInit == requests = {} /\ runs = <<>> /\ citations = {}

\* SELECT request_id: any of the rows the key has.
\* Mutant: the key of another mission is found too.
AnyRequest(key) == {q.id : q \in requests}
PriorRequests(key) == {q.id : q \in {x \in requests : x.key = key}}

CitedOf(run) == {x.source : x \in {y \in citations : y.run = run}}

\* The newest run of the request: prior[0] of the procedure.
RunsOf(request) == {i \in DOMAIN runs : runs[i].request = request}
Newest(i, request) == i \in RunsOf(request) /\ \A j \in RunsOf(request) : j <= i

Goto(c, pc) == call' = [call EXCEPT ![c].pc = pc]
Set(c, k) == call' = [call EXCEPT ![c] = k]

Find(c, key) ==
  /\ call[c].pc = "find"
  /\ IF PriorRequests(key) = {} THEN Set(c, [call[c] EXCEPT !.pc = "insert"])
     ELSE \E q \in PriorRequests(key) : Set(c, [call[c] EXCEPT !.pc = "procedure", !.request = q])
  /\ UNCHANGED ledger

Insert(c, key) ==
  /\ call[c].pc = "insert"
  /\ requests' = requests \cup {[id |-> c, key |-> key]}
  /\ Set(c, [call[c] EXCEPT !.pc = "procedure", !.request = c])
  /\ UNCHANGED <<runs, citations>>

\* The procedure returns the output of a prior run, cited or not yet.
Procedure(c) ==
  /\ call[c].pc = "procedure"
  /\ \/ RunsOf(call[c].request) = {} /\ Goto(c, "run")
     \/ \E i \in DOMAIN runs :
          /\ Newest(i, call[c].request)
          /\ Set(c, [call[c] EXCEPT !.pc = "hydrate", !.run = runs[i].id])
  /\ UNCHANGED ledger

\* INPUT_SNAPSHOTS and RUNS; a snapshot without a run is never read.
Run(c) ==
  /\ call[c].pc = "run"
  /\ runs' = Append(runs, [id |-> c, request |-> call[c].request])
  /\ Set(c, [call[c] EXCEPT !.pc = "cite", !.run = c])
  /\ UNCHANGED <<requests, citations>>

Cite(c) ==
  /\ call[c].pc = "cite"
  /\ LET done == Cardinality(CitedOf(call[c].run))
     IN IF done = Len(Citations) THEN Set(c, [call[c] EXCEPT !.pc = "hydrate"]) /\ UNCHANGED citations
        ELSE /\ citations' = citations \cup {[run |-> call[c].run, source |-> Citations[done + 1]]}
             /\ UNCHANGED call
  /\ UNCHANGED <<requests, runs>>

\* The result the caller gets: the run and the citations stored by now.
Hydrate(c) ==
  /\ call[c].pc = "hydrate"
  /\ Set(c, [call[c] EXCEPT !.pc = "decided", !.sources = CitedOf(call[c].run)])
  /\ UNCHANGED ledger

CreateDecision(c, key) ==
  \/ Find(c, key)
  \/ Insert(c, key)
  \/ Procedure(c)
  \/ Run(c)
  \/ Cite(c)
  \/ Hydrate(c)

Governing == {"find", "insert", "procedure", "run", "cite", "hydrate"}
=============================================================================
