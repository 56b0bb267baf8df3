-------------------------- MODULE WorkspaceProofs --------------------------
(***************************************************************************)
(* Missions of the workspace for every set of requests, retries, missions, *)
(* agent answers and restarts: a mission's history reads as a conversation *)
(* and its checkpoint covers it, what is shown as verified was recorded,   *)
(* and the catalogue has one listing per domain.                           *)
(***************************************************************************)
EXTENDS Workspace, FiniteSetTheorems, TLAPS

Bodies == {s[r] : s \in Scenarios, r \in Requests}
Suffixes == {"", "datahub-fit", "marketplace-discovery", "snowflake", "continuation:0",
             "continuation:1"}
Turns == {<<>>} \cup ((Requests \cup Decisions) \X Suffixes)
Working == Governing \cup {"light", "datahub", "market", "agent", "running", "persist",
                           "decided", "artifact"}
(* The words of the model and of the agent's answers.                       *)
Text == STRING \cup {"", "created", "ORIENTING", "PLANNING", "SYNTHESIZING", "none",
                     "LIGHTWEIGHT_REPLY", "evaluate_datahub_fit", "DATAHUB_FIT_DECISION_READY",
                     "purchase_proposal", "VERIFIED", "search_published_products",
                     "SIRA_MARKETPLACE_CANDIDATES_READY", "candidate_set", "OBSERVED", "INFERRED",
                     "evaluate_cited_decision", "GOVERNED_DECISION_READY", "cited_decision"}
AnswerArtifact == [kind : Text, authority : Text, sources : SUBSET Refs,
                   run : {<<>>, ProofRunId}, by : {RootAgent}]
TurnOutput ==
  [message : SUBSET Refs, tools : Seq(Text), events : Seq(Text), tasks : Seq(Text),
   artifacts : SUBSET AnswerArtifact, state : Text, stop_reason : Text, continue : BOOLEAN,
   attention : BOOLEAN, ready : BOOLEAN]
Texts == [message : SUBSET Refs, tools : Seq(Text)]
EventRow == [key : [kind : {"created", "user", "accepted", "decision"} \cup TurnKinds, turn : Turns,
                    index : Nat, tool : Text],
             payload : {<<>>, {}} \cup Text \cup Texts]
Writers == {RootAgent, "snowflake-decision-plane", "authority-kernel"}
ArtifactRow == [kind : Text, authority : Text, run : Calls \cup {<<>>, ProofRunId}, by : Writers,
                sources : SUBSET (Refs \cup Range(Citations))]
MissionRow == [actor : {b.actor : b \in Bodies}, mode : {b.mode : b \in Bodies},
               state : Text, version : Nat \ {0}, turns_left : Nat, stop_reason : Text,
               events : Seq(EventRow), tasks : Seq(Text), artifacts : SUBSET ArtifactRow,
               checkpoint : Nat, checkpoints : SUBSET Nat]
CallRow == [pc : Working \cup {"idle", "create", "done", "failed"}, turn : Suffixes,
            round : 0..2, key : {"none", "sira", "primary", "backup"},
            answer : TurnOutput, ready : BOOLEAN, request : Calls \cup {<<>>},
            run : Calls \cup {<<>>}, sources : SUBSET Range(Citations)]

(* The domains of the rows and of the calls.                                *)
TypeOK ==
  /\ body \in Scenarios
  /\ missions \in [Missions -> MissionRow \cup {NoMission}]
  /\ call \in [Calls -> CallRow]
  /\ requests \in SUBSET [id : Calls, key : Missions]
  /\ runs \in Seq([id : Calls, request : Calls])
  /\ citations \in SUBSET [run : Calls, source : Range(Citations)]
  /\ refresh \in SUBSET Calls /\ discovered \in SUBSET Refs
  /\ backup \in BOOLEAN /\ restarts \in Nat /\ created \in SUBSET Decisions

-----------------------------------------------------------------------------
(* The rows of a mission.                                                   *)

(* No key twice; an answer's tools and agent events come after it, its      *)
(* tools next to it, and whatever a request left comes after its message.   *)
Ordered(row) ==
  LET es == row.events
  IN /\ \A i, j \in DOMAIN es : es[i].key = es[j].key => i = j
     /\ \A i \in DOMAIN es : es[i].key.kind \in TurnKinds \cup {"accepted"} =>
          \E j \in 1 .. i - 1 : es[j].key = EventKey("user", <<es[i].key.turn[1], "">>, 0, "")
     /\ \A i \in DOMAIN es : es[i].key.kind \in {"tool", "agent"} =>
          \E j \in 1 .. i - 1 : es[j].key = EventKey("assistant", es[i].key.turn, 0, "")
     /\ \A i \in DOMAIN es : es[i].key.kind = "tool" => es[i - 1].key.turn = es[i].key.turn

(* A turn is there with all its tools or not at all, and its agent events   *)
(* are there up to some index.                                              *)
Whole(row) ==
  /\ \A i \in DOMAIN row.events : row.events[i].key.kind = "assistant" =>
       /\ row.events[i].payload \in Texts
       /\ \A k \in DOMAIN row.events[i].payload.tools :
            HasKey(row, EventKey("tool", row.events[i].key.turn, k, row.events[i].payload.tools[k]))
  /\ \A t \in Turns : \E q \in Nat : \A k \in Nat \ {0} :
       HasKey(row, EventKey("agent", t, k, "")) <=> k <= q

(* Its messages are its own.                                                *)
Own(m, row) ==
  \A i \in DOMAIN row.events : row.events[i].key.kind = "user" =>
    LET b == body[row.events[i].key.turn[1]]
    IN b.mission = m /\ b.actor = row.actor /\ b.mode = row.mode

(* The events of decisions, and those of the purchase requests in S.        *)
DecisionsIn(row) == {i \in DOMAIN row.events : row.events[i].key.kind = "decision"}
DecidedBy(row, S) ==
  \A i \in DecisionsIn(row) : \E d \in S : row.events[i].key = DecisionCreated(d).key

(* Every decision is a checkpoint, none lies behind the current one, and    *)
(* version and budget count the others: the turns.                          *)
Counted(row) ==
  /\ \A i \in DOMAIN row.events : row.events[i].key.kind \in TurnKinds => i <= row.checkpoint
  /\ DecisionsIn(row) \subseteq row.checkpoints
  /\ \A i \in row.checkpoints : i <= row.checkpoint
  /\ row.checkpoint <= Len(row.events)
  /\ IsFiniteSet(row.checkpoints)
  /\ row.version = 1 + Cardinality(row.checkpoints \ DecisionsIn(row))
  /\ row.turns_left = IF row.version > Budget THEN 0 ELSE Budget + 1 - row.version

Sound(m, row) ==
  Ordered(row) /\ Whole(row) /\ Own(m, row) /\ Counted(row) /\ DecidedBy(row, created)

HistoryInv == \A m \in Missions : missions[m] # NoMission => Sound(m, missions[m])

(* A call at work has left its message in a mission of its actor.           *)
HasAsked(c) == Exists(c) /\ Owns(c) /\ HasKey(Mission(c), EventKey("user", Turn(c, ""), 0, ""))
AskedInv == \A c \in Calls : call[c].pc \in Working => HasAsked(c)

-----------------------------------------------------------------------------
(* The governed decision.                                                   *)

(* The run belongs to a request of the mission.                             *)
Recorded(run, m) ==
  \E i \in DOMAIN runs, q \in requests :
    runs[i].id = run /\ q.id = runs[i].request /\ q.key = m

(* A call that has its result holds citations of a recorded run, all of     *)
(* them if the run is its own.                                              *)
Found(c) ==
  /\ call[c].run # <<>> /\ Recorded(call[c].run, Body(c).mission)
  /\ call[c].sources \subseteq CitedOf(call[c].run)
  /\ call[c].run = c => call[c].sources = Range(Citations)

(* Which routes lead to a step.                                             *)
RoutedBy(c) ==
  /\ call[c].pc = "light" => Body(c).route = "LIGHT"
  /\ call[c].pc = "datahub" => Body(c).route = "DATAHUB"
  /\ call[c].pc = "market" => Body(c).route = "MARKET"
  /\ call[c].pc \in {"agent", "running"} => Body(c).route = "TASK"
  /\ call[c].pc = "persist" /\ Body(c).route = "GOVERNED" => call[c].turn = "snowflake"
  /\ call[c].round > 0 => Body(c).route = "TASK"

(* A run is chosen once, and only its own call cites for it.                *)
Undecided(c) ==
  /\ call[c].pc \in {"idle", "create", "light", "datahub", "market", "agent", "running",
                     "find", "insert", "procedure", "run"} => call[c].run = <<>>
  /\ call[c].pc = "persist" /\ call[c].turn # "snowflake" => call[c].run = <<>>
RunInv ==
  /\ \A i \in DOMAIN runs : call[runs[i].id].run = runs[i].id
  /\ \A y \in citations : call[y.run].run = y.run

(* The citations of the call's run so far are the first n.                  *)
CitesUpTo(c, n) ==
  /\ CitedOf(c) = {Citations[i] : i \in 1 .. n}
  /\ IsFiniteSet(CitedOf(c)) /\ Cardinality(CitedOf(c)) = n

(* What each step of a decision may rely on.                                *)
Relies(c) ==
  /\ call[c].pc \in {"procedure", "run"} =>
       \E q \in requests : q.id = call[c].request /\ q.key = Body(c).mission
  /\ call[c].pc = "cite" => call[c].run = c /\ \E n \in 0 .. Len(Citations) : CitesUpTo(c, n)
  /\ call[c].pc \in {"cite", "hydrate"} =>
       call[c].run # <<>> /\ Recorded(call[c].run, Body(c).mission)
  /\ call[c].pc = "hydrate" /\ call[c].run = c => CitedOf(c) = Range(Citations)
  /\ call[c].pc \in {"decided", "artifact"} \/ (call[c].pc = "persist" /\ call[c].turn = "snowflake")
       => Found(c)

CallInv == \A c \in Calls : RoutedBy(c) /\ Undecided(c) /\ Relies(c)

IInv == TypeOK /\ HistoryInv /\ AskedInv /\ CallInv /\ RunInv /\ VerifiedIsRecorded

-----------------------------------------------------------------------------
(* Types.                                                                   *)
LEMMA CallParts ==
  ASSUME NEW c \in Calls
  PROVE  c[1] \in Requests /\ c # <<>> /\ c \in Requests \X Nat
BY WorkspaceAssumption DEF Calls

LEMMA BodyType ==
  ASSUME TypeOK, NEW c \in Calls
  PROVE  /\ Body(c).mission \in Missions
         /\ Body(c).route \in {"LIGHT", "DATAHUB", "MARKET", "GOVERNED", "TASK"}
         /\ Body(c).actor \in {b.actor : b \in Bodies} /\ Body(c).mode \in {b.mode : b \in Bodies}
<1>1. c[1] \in Requests /\ body \in Scenarios
  BY CallParts DEF TypeOK
<1> QED BY <1>1, WorkspaceAssumption DEF Body, Bodies

LEMMA TurnType ==
  ASSUME NEW c \in Calls, NEW suffix \in Suffixes
  PROVE  Turn(c, suffix) \in Turns /\ Turn(c, suffix)[1] = c[1] /\ Turn(c, suffix)[2] = suffix
BY CallParts DEF Turn, Turns

LEMMA SuffixType ==
  ASSUME NEW round \in 0..2 PROVE Suffix(round) \in Suffixes /\ Suffix(round) # "snowflake"
<1>1. round = 0 \/ round = 1 \/ round = 2
  OBVIOUS
<1>2. round = 0 => Suffix(round) = ""
  BY DEF Suffix
<1>3. round = 1 => Suffix(round) = "continuation:0"
  BY DEF Suffix
<1>4. round = 2 => Suffix(round) = "continuation:1"
  BY DEF Suffix
<1> QED BY <1>1, <1>2, <1>3, <1>4 DEF Suffixes

LEMMA LargerSeq ==
  ASSUME NEW S, NEW T, S \subseteq T, NEW s \in Seq(S) PROVE s \in Seq(T)
<1>1. Len(s) \in Nat /\ s = [i \in 1 .. Len(s) |-> s[i]] /\ \A i \in 1 .. Len(s) : s[i] \in T
  OBVIOUS
<1> QED BY <1>1

LEMMA SeqOfText == Seq(STRING) \subseteq Seq(Text)
<1>1. STRING \subseteq Text
  BY DEF Text
<1> QED BY <1>1, LargerSeq

LEMMA OutputTypes == Outputs \subseteq TurnOutput /\ NoAnswer \in TurnOutput
<1>1. Artifact \subseteq AnswerArtifact
  BY DEF Artifact, AnswerArtifact, Text
<1>2. MissionTurnOutput \subseteq TurnOutput
  BY <1>1, SeqOfText DEF MissionTurnOutput, TurnOutput, Text
<1>3. NoAnswer \in TurnOutput
  BY DEF NoAnswer, TurnOutput, Text
<1> QED BY <1>2, <1>3, WorkspaceAssumption

LEMMA MissionTypes ==
  /\ NoMission \notin MissionRow /\ NoMission.version = 0
  /\ \A row \in MissionRow : row.version > 0
BY DEF NoMission, MissionRow

(* A mission is replaced by another row.                                    *)
LEMMA StoreTypes ==
  ASSUME TypeOK, NEW c \in Calls, NEW row \in MissionRow, Store(c, row)
  PROVE  /\ missions' \in [Missions -> MissionRow \cup {NoMission}]
         /\ missions'[Body(c).mission] = row
         /\ \A m \in Missions : m # Body(c).mission => missions'[m] = missions[m]
BY BodyType DEF TypeOK, Store

LEMMA GotoTypes ==
  ASSUME TypeOK, NEW c \in Calls, NEW pc, Goto(c, pc)
  PROVE  /\ pc \in Working \cup {"idle", "create", "done", "failed"} => call' \in [Calls -> CallRow]
         /\ call'[c] = [call[c] EXCEPT !.pc = pc]
         /\ call'[c].pc = pc /\ call'[c].turn = call[c].turn /\ call'[c].run = call[c].run
         /\ call'[c].round = call[c].round
         /\ call'[c].sources = call[c].sources /\ call'[c].request = call[c].request
         /\ \A d \in Calls : d # c => call'[d] = call[d]
BY DEF TypeOK, Goto, CallRow

LEMMA SetTypes ==
  ASSUME TypeOK, NEW c \in Calls, NEW k \in CallRow, Set(c, k)
  PROVE  /\ call' \in [Calls -> CallRow] /\ call'[c] = k
         /\ \A d \in Calls : d # c => call'[d] = call[d]
BY DEF TypeOK, Set

LEMMA AnswerTypes ==
  ASSUME TypeOK, NEW c \in Calls, NEW suffix \in Suffixes, NEW answer \in TurnOutput,
         Answer(c, suffix, answer)
  PROVE  /\ call' \in [Calls -> CallRow]
         /\ call'[c].pc = "persist" /\ call'[c].turn = suffix /\ call'[c].answer = answer
         /\ call'[c].run = call[c].run /\ call'[c].sources = call[c].sources
         /\ call'[c].request = call[c].request /\ call'[c].round = call[c].round
         /\ \A d \in Calls : d # c => call'[d] = call[d]
<1> DEFINE k == [call[c] EXCEPT !.pc = "persist", !.turn = suffix, !.answer = answer]
<1>1. call[c] \in CallRow /\ "persist" \in Working
  BY DEF TypeOK, Working
<1>2. /\ k \in CallRow
      /\ k.pc = "persist" /\ k.turn = suffix /\ k.answer = answer /\ k.run = call[c].run
      /\ k.sources = call[c].sources /\ k.request = call[c].request /\ k.round = call[c].round
  BY <1>1 DEF CallRow
<1>3. Set(c, k)
  BY DEF Answer
<1> HIDE DEF k
<1> QED BY <1>2, <1>3, SetTypes

-----------------------------------------------------------------------------
(* append_event.                                                            *)

(* A history continued by the part of es that follows its k-th event.       *)
Continued(old, es, k, new) ==
  /\ new \in Seq(EventRow) /\ Len(new) = Len(old) + (Len(es) - k)
  /\ \A i \in 1 .. Len(old) : new[i] = old[i]
  /\ \A i \in 1 .. Len(es) - k : new[Len(old) + i] = es[k + i]

LEMMA LaterEvents ==
  ASSUME NEW es \in Seq(EventRow), NEW k \in 0 .. Len(es)
  PROVE  At(es)[(k + 1) .. Len(es)] = [i \in 1 .. Len(es) - k |-> es[k + i]]
<1> DEFINE n == Len(es)
<1> DEFINE new == (k + 1) .. n
<1>0. n \in Nat /\ k \in Nat /\ k <= n /\ new \in SUBSET DOMAIN es
  OBVIOUS
<1>1. Cardinality(new) = n - k
  <2>1. k + 1 \in Int /\ n \in Int
    BY <1>0
  <2> HIDE DEF n
  <2>2. Cardinality((k + 1) .. n) = IF k + 1 > n THEN 0 ELSE n - (k + 1) + 1
    BY <2>1, FS_Interval
  <2> QED BY <1>0, <2>2
<1>2. ASSUME NEW j \in new PROVE Cardinality({x \in new : x <= j}) = j - k
  <2>1. {x \in new : x <= j} = (k + 1) .. j
    BY <1>0
  <2>2. j \in Int /\ k + 1 <= j
    BY <1>0
  <2>3. k + 1 \in Int /\ j \in Nat
    BY <1>0
  <2>4. Cardinality((k + 1) .. j) = IF k + 1 > j THEN 0 ELSE j - (k + 1) + 1
    BY <2>2, <2>3, FS_Interval
  <2>5. Cardinality((k + 1) .. j) = j - k
    BY <1>0, <2>2, <2>3, <2>4
  <2> QED BY <2>1, <2>5
<1>3. ASSUME NEW i \in 1 .. n - k
      PROVE  (CHOOSE x \in new : Cardinality({y \in new : y <= x}) = i) = k + i
  <2>1. k + i \in new
    BY <1>0
  <2>2. \A x \in new : Cardinality({y \in new : y <= x}) = i <=> x = k + i
    <3>1. TAKE x \in new
    <3>2. Cardinality({y \in new : y <= x}) = x - k /\ x \in Nat
      BY <1>0, <1>2
    <3> HIDE DEF new
    <3> QED BY <1>0, <3>2
  <2> HIDE DEF new
  <2> QED BY <2>1, <2>2
<1>4. At(es)[new] = [i \in 1 .. Cardinality(new) |->
                       es[CHOOSE x \in new : Cardinality({y \in new : y <= x}) = i]]
  BY <1>0 DEF At
<1> HIDE DEF new
<1>5. At(es)[new] = [i \in 1 .. n - k |-> es[k + i]]
  BY <1>1, <1>3, <1>4
<1> QED BY <1>5 DEF new

LEMMA AppendedContinues ==
  ASSUME NEW row \in MissionRow, NEW es \in Seq(EventRow), NEW k \in 0 .. Len(es),
         Unknown(row, es) = (k + 1) .. Len(es)
  PROVE  Continued(row.events, es, k, Appended(row, es).events)
<1> DEFINE old == row.events
<1> DEFINE tail == [i \in 1 .. Len(es) - k |-> es[k + i]]
<1>1. old \in Seq(EventRow) /\ tail \in Seq(EventRow) /\ Len(tail) = Len(es) - k
  BY DEF MissionRow
<1>2. Appended(row, es).events = old \o tail
  BY LaterEvents DEF Appended, MissionRow
<1>3. \A i \in 1 .. Len(es) - k : tail[i] = es[k + i]
  OBVIOUS
<1> HIDE DEF old, tail
<1>4. old \o tail \in Seq(EventRow) /\ Len(old \o tail) = Len(old) + (Len(es) - k)
  BY <1>1
<1>5. \A i \in 1 .. Len(old) : (old \o tail)[i] = old[i]
  BY <1>1
<1>6. \A i \in 1 .. Len(es) - k : (old \o tail)[Len(old) + i] = tail[i]
  BY <1>1
<1>7. Continued(old, es, k, old \o tail)
  BY <1>3, <1>4, <1>5, <1>6 DEF Continued
<1> QED BY <1>2, <1>7 DEF old

(* Where the events of a continued history come from.                       *)
LEMMA Positions ==
  ASSUME NEW old \in Seq(EventRow), NEW es \in Seq(EventRow), NEW k \in 0 .. Len(es), NEW new,
         Continued(old, es, k, new)
  PROVE  /\ DOMAIN new = 1 .. Len(old) + (Len(es) - k)
         /\ \A i \in DOMAIN new :
              \/ i \in 1 .. Len(old) /\ new[i] = old[i]
              \/ \E j \in (k + 1) .. Len(es) : i = Len(old) + (j - k) /\ new[i] = es[j]
         /\ \A j \in (k + 1) .. Len(es) :
              Len(old) + (j - k) \in DOMAIN new /\ new[Len(old) + (j - k)] = es[j]
<1> DEFINE n == Len(old)
<1> DEFINE m == Len(es)
<1>1. n \in Nat /\ m \in Nat /\ k \in Nat /\ k <= m
  OBVIOUS
<1>2. /\ DOMAIN new = 1 .. n + (m - k)
      /\ \A i \in 1 .. n : new[i] = old[i]
      /\ \A i \in 1 .. m - k : new[n + i] = es[k + i]
  BY DEF Continued
<1> HIDE DEF n, m
<1>3. ASSUME NEW j \in (k + 1) .. m
      PROVE  n + (j - k) \in DOMAIN new /\ new[n + (j - k)] = es[j]
  <2>1. j - k \in 1 .. m - k /\ k + (j - k) = j /\ n + (j - k) \in 1 .. n + (m - k)
    BY <1>1
  <2>2. new[n + (j - k)] = es[k + (j - k)]
    BY <1>2, <2>1
  <2> QED BY <1>2, <2>1, <2>2
<1>4. ASSUME NEW i \in DOMAIN new, i \notin 1 .. n
      PROVE  \E j \in (k + 1) .. m : i = n + (j - k) /\ new[i] = es[j]
  <2>1. /\ i - n + k \in (k + 1) .. m
        /\ i = n + ((i - n + k) - k)
    BY <1>1, <1>2, <1>4
  <2> QED BY <1>3, <2>1
<1>5. \A i \in DOMAIN new :
        \/ i \in 1 .. n /\ new[i] = old[i]
        \/ \E j \in (k + 1) .. m : i = n + (j - k) /\ new[i] = es[j]
  BY <1>2, <1>4
<1> QED BY <1>2, <1>3, <1>5 DEF n, m

(* The keys of the continued history are the old ones and those of es.      *)
LEMMA KeysAfter ==
  ASSUME NEW row, NEW row2, row.events \in Seq(EventRow),
         NEW es \in Seq(EventRow), NEW k \in 0 .. Len(es),
         Unknown(row, es) = (k + 1) .. Len(es), Continued(row.events, es, k, row2.events),
         NEW key
  PROVE  HasKey(row2, key) <=> (HasKey(row, key) \/ \E j \in DOMAIN es : es[j].key = key)
<1> DEFINE old == row.events
<1> DEFINE new == row2.events
<1> DEFINE n == Len(old)
<1> DEFINE m == Len(es)
<1>1. old \in Seq(EventRow) /\ Continued(old, es, k, new)
  OBVIOUS
<1>2. /\ HasKey(row, key) <=> \E i \in DOMAIN old : old[i].key = key
      /\ HasKey(row2, key) <=> \E i \in DOMAIN new : new[i].key = key
      /\ \A j \in DOMAIN es : j \notin (k + 1) .. m => HasKey(row, es[j].key)
  BY DEF HasKey, Unknown
<1>3. n \in Nat /\ m \in Nat /\ k \in Nat /\ DOMAIN es = 1 .. m /\ DOMAIN old = 1 .. n
  OBVIOUS
<1> HIDE DEF old, new, n, m
<1>4. /\ \A i \in DOMAIN new :
           \/ i \in 1 .. n /\ new[i] = old[i]
           \/ \E j \in (k + 1) .. m : i = n + (j - k) /\ new[i] = es[j]
      /\ \A j \in (k + 1) .. m : n + (j - k) \in DOMAIN new /\ new[n + (j - k)] = es[j]
      /\ DOMAIN new = 1 .. n + (m - k)
  BY <1>1, Positions DEF n, m
<1>5. \A i \in 1 .. n : i \in DOMAIN new /\ new[i] = old[i]
  <2>1. \A i \in 1 .. n : new[i] = old[i]
    BY <1>1 DEF Continued, n
  <2>2. k <= m
    BY DEF m
  <2> QED BY <1>3, <1>4, <2>1, <2>2
<1>6. (k + 1) .. m \subseteq DOMAIN es
  BY <1>3
<1>7. ASSUME HasKey(row2, key) PROVE HasKey(row, key) \/ \E j \in DOMAIN es : es[j].key = key
  BY <1>2, <1>3, <1>4, <1>6, <1>7
<1>8. ASSUME HasKey(row, key) PROVE HasKey(row2, key)
  BY <1>2, <1>3, <1>5, <1>8
<1>9. ASSUME NEW j \in DOMAIN es, es[j].key = key PROVE HasKey(row2, key)
  <2>1. CASE j \in (k + 1) .. m
    BY <1>2, <1>4, <1>9, <2>1
  <2>2. CASE j \notin (k + 1) .. m
    BY <1>2, <1>8, <1>9, <2>2
  <2> QED BY <2>1, <2>2
<1> QED BY <1>7, <1>8, <1>9

(* es fits the history of row from its k-th event on: the events up to it   *)
(* are known and those after it are not; what follows a message or an       *)
(* answer has it before it among the new events or in the history.          *)
Fits(row, es, k) ==
  /\ Unknown(row, es) = (k + 1) .. Len(es)
  /\ \A i, j \in DOMAIN es : es[i].key = es[j].key => i = j
  /\ \A j \in (k + 1) .. Len(es) : es[j].key.kind \in TurnKinds \cup {"accepted"} =>
       \/ HasKey(row, EventKey("user", <<es[j].key.turn[1], "">>, 0, ""))
       \/ \E l \in (k + 1) .. (j - 1) : es[l].key = EventKey("user", <<es[j].key.turn[1], "">>, 0, "")
  /\ \A j \in (k + 1) .. Len(es) : es[j].key.kind \in {"tool", "agent"} =>
       \/ HasKey(row, EventKey("assistant", es[j].key.turn, 0, ""))
       \/ \E l \in (k + 1) .. (j - 1) : es[l].key = EventKey("assistant", es[j].key.turn, 0, "")
  /\ \A j \in (k + 1) .. Len(es) : es[j].key.kind = "tool" =>
       j - 1 \in (k + 1) .. Len(es) /\ es[j - 1].key.turn = es[j].key.turn

(* A history stays in order when what fits it is appended.                  *)
LEMMA OrderedAfter ==
  ASSUME NEW row, NEW row2, row.events \in Seq(EventRow),
         NEW es \in Seq(EventRow), NEW k \in Nat, k <= Len(es),
         Fits(row, es, k), Continued(row.events, es, k, row2.events), Ordered(row)
  PROVE  Ordered(row2)
<1> DEFINE old == row.events
<1> DEFINE new == row2.events
<1> DEFINE n == Len(old)
<1> DEFINE m == Len(es)
<1> DEFINE User(e) == EventKey("user", <<e.key.turn[1], "">>, 0, "")
<1> DEFINE Assistant(e) == EventKey("assistant", e.key.turn, 0, "")
<1>1. old \in Seq(EventRow) /\ Continued(old, es, k, new)
  OBVIOUS
<1>2. n \in Nat /\ m \in Nat /\ k \in Nat /\ k <= m /\ DOMAIN es = 1 .. m /\ DOMAIN old = 1 .. n
  OBVIOUS
<1>3. /\ \A i, j \in 1 .. n : old[i].key = old[j].key => i = j
      /\ \A i \in 1 .. n : old[i].key.kind \in TurnKinds \cup {"accepted"} =>
           \E j \in 1 .. i - 1 : old[j].key = User(old[i])
      /\ \A i \in 1 .. n : old[i].key.kind \in {"tool", "agent"} =>
           \E j \in 1 .. i - 1 : old[j].key = Assistant(old[i])
      /\ \A i \in 1 .. n : old[i].key.kind = "tool" => old[i - 1].key.turn = old[i].key.turn
  BY <1>2 DEF Ordered
<1>4. /\ \A key : HasKey(row, key) <=> \E i \in 1 .. n : old[i].key = key
      /\ \A j \in (k + 1) .. m, i \in 1 .. n : old[i].key # es[j].key
  BY <1>2 DEF Fits, Unknown, HasKey
<1>5. \A i, j \in (k + 1) .. m : es[i].key = es[j].key => i = j
  <2>1. \A i, j \in DOMAIN es : es[i].key = es[j].key => i = j
    BY DEF Fits
  <2>2. (k + 1) .. m \subseteq DOMAIN es
    BY <1>2
  <2> QED BY <2>1, <2>2
<1>6. /\ \A j \in (k + 1) .. m : es[j].key.kind \in TurnKinds \cup {"accepted"} =>
           HasKey(row, User(es[j])) \/ \E l \in (k + 1) .. (j - 1) : es[l].key = User(es[j])
      /\ \A j \in (k + 1) .. m : es[j].key.kind \in {"tool", "agent"} =>
           HasKey(row, Assistant(es[j])) \/ \E l \in (k + 1) .. (j - 1) : es[l].key = Assistant(es[j])
      /\ \A j \in (k + 1) .. m : es[j].key.kind = "tool" =>
           j - 1 \in (k + 1) .. m /\ es[j - 1].key.turn = es[j].key.turn
  BY DEF Fits
<1>7. \A i \in 1 .. n : new[i] = old[i]
  BY <1>1 DEF Continued
<1>8. /\ Ordered(row2) <=>
           /\ \A i, j \in DOMAIN new : new[i].key = new[j].key => i = j
           /\ \A i \in DOMAIN new : new[i].key.kind \in TurnKinds \cup {"accepted"} =>
                \E j \in 1 .. i - 1 : new[j].key = User(new[i])
           /\ \A i \in DOMAIN new : new[i].key.kind \in {"tool", "agent"} =>
                \E j \in 1 .. i - 1 : new[j].key = Assistant(new[i])
           /\ \A i \in DOMAIN new : new[i].key.kind = "tool" => new[i - 1].key.turn = new[i].key.turn
  BY DEF Ordered
<1> HIDE DEF new, n, m, old, User, Assistant
<1>9. /\ \A i \in DOMAIN new :
           \/ i \in 1 .. n /\ new[i] = old[i]
           \/ \E j \in (k + 1) .. m : i = n + (j - k) /\ new[i] = es[j]
      /\ \A j \in (k + 1) .. m : n + (j - k) \in DOMAIN new /\ new[n + (j - k)] = es[j]
      /\ DOMAIN new = 1 .. n + (m - k)
  BY <1>1, Positions DEF n, m
<1>10. ASSUME NEW key, NEW j \in (k + 1) .. m,
              HasKey(row, key) \/ \E l \in (k + 1) .. (j - 1) : es[l].key = key
       PROVE  \E i \in 1 .. (n + (j - k)) - 1 : new[i].key = key
  <2>1. ASSUME HasKey(row, key) PROVE \E i \in 1 .. (n + (j - k)) - 1 : new[i].key = key
    <3>1. PICK i \in 1 .. n : old[i].key = key
      BY <1>4, <2>1
    <3>2. i \in 1 .. (n + (j - k)) - 1
      BY <1>2
    <3> QED BY <1>7, <3>1, <3>2
  <2>2. ASSUME NEW l \in (k + 1) .. (j - 1), es[l].key = key
        PROVE  \E i \in 1 .. (n + (j - k)) - 1 : new[i].key = key
    <3>1. l \in (k + 1) .. m /\ n + (l - k) \in 1 .. (n + (j - k)) - 1
      BY <1>2
    <3> QED BY <1>9, <2>2, <3>1
  <2> QED BY <1>10, <2>1, <2>2
<1>11. ASSUME NEW i \in DOMAIN new, NEW j \in DOMAIN new, new[i].key = new[j].key PROVE i = j
  <2>1. CASE i \in 1 .. n /\ new[i] = old[i] /\ j \in 1 .. n /\ new[j] = old[j]
    BY <1>3, <1>11, <2>1
  <2>2. ASSUME i \in 1 .. n, new[i] = old[i], NEW y \in (k + 1) .. m, new[j] = es[y]
        PROVE  FALSE
    BY <1>4, <1>11, <2>2
  <2>3. ASSUME j \in 1 .. n, new[j] = old[j], NEW x \in (k + 1) .. m, new[i] = es[x]
        PROVE  FALSE
    BY <1>4, <1>11, <2>3
  <2>4. ASSUME NEW x \in (k + 1) .. m, i = n + (x - k), new[i] = es[x],
               NEW y \in (k + 1) .. m, j = n + (y - k), new[j] = es[y]
        PROVE  i = j
    BY <1>5, <1>11, <2>4
  <2> QED BY <1>9, <2>1, <2>2, <2>3, <2>4
<1>12. ASSUME NEW i \in DOMAIN new, new[i].key.kind \in TurnKinds \cup {"accepted"}
       PROVE  \E j \in 1 .. i - 1 : new[j].key = User(new[i])
  <2>1. ASSUME i \in 1 .. n, new[i] = old[i]
        PROVE  \E j \in 1 .. i - 1 : new[j].key = User(new[i])
    <3>1. PICK j \in 1 .. i - 1 : old[j].key = User(old[i])
      BY <1>3, <1>12, <2>1
    <3>2. j \in 1 .. n
      BY <1>2, <2>1
    <3> QED BY <1>7, <2>1, <3>1, <3>2
  <2>2. ASSUME NEW j \in (k + 1) .. m, i = n + (j - k), new[i] = es[j]
        PROVE  \E l \in 1 .. i - 1 : new[l].key = User(new[i])
    <3>1. HasKey(row, User(es[j])) \/ \E l \in (k + 1) .. (j - 1) : es[l].key = User(es[j])
      BY <1>6, <1>12, <2>2
    <3>2. \E l \in 1 .. (n + (j - k)) - 1 : new[l].key = User(es[j])
      BY <1>10, <3>1
    <3> QED BY <2>2, <3>2
  <2> QED BY <1>9, <2>1, <2>2
<1>13. ASSUME NEW i \in DOMAIN new, new[i].key.kind \in {"tool", "agent"}
       PROVE  \E j \in 1 .. i - 1 : new[j].key = Assistant(new[i])
  <2>1. ASSUME i \in 1 .. n, new[i] = old[i]
        PROVE  \E j \in 1 .. i - 1 : new[j].key = Assistant(new[i])
    <3>1. PICK j \in 1 .. i - 1 : old[j].key = Assistant(old[i])
      BY <1>3, <1>13, <2>1
    <3>2. j \in 1 .. n
      BY <1>2, <2>1
    <3> QED BY <1>7, <2>1, <3>1, <3>2
  <2>2. ASSUME NEW j \in (k + 1) .. m, i = n + (j - k), new[i] = es[j]
        PROVE  \E l \in 1 .. i - 1 : new[l].key = Assistant(new[i])
    <3>1. HasKey(row, Assistant(es[j])) \/ \E l \in (k + 1) .. (j - 1) : es[l].key = Assistant(es[j])
      BY <1>6, <1>13, <2>2
    <3>2. \E l \in 1 .. (n + (j - k)) - 1 : new[l].key = Assistant(es[j])
      BY <1>10, <3>1
    <3> QED BY <2>2, <3>2
  <2> QED BY <1>9, <2>1, <2>2
<1>14. ASSUME NEW i \in DOMAIN new, new[i].key.kind = "tool"
       PROVE  new[i - 1].key.turn = new[i].key.turn
  <2>1. ASSUME i \in 1 .. n, new[i] = old[i] PROVE new[i - 1].key.turn = new[i].key.turn
    <3>1. old[i - 1].key.turn = old[i].key.turn /\ \E j \in 1 .. i - 1 : TRUE
      BY <1>3, <1>14, <2>1
    <3>2. i - 1 \in 1 .. n
      BY <1>2, <2>1, <3>1
    <3> QED BY <1>7, <2>1, <3>1, <3>2
  <2>2. ASSUME NEW j \in (k + 1) .. m, i = n + (j - k), new[i] = es[j]
        PROVE  new[i - 1].key.turn = new[i].key.turn
    <3>1. j - 1 \in (k + 1) .. m /\ es[j - 1].key.turn = es[j].key.turn
      BY <1>6, <1>14, <2>2
    <3>2. i - 1 = n + ((j - 1) - k)
      BY <1>2, <2>2
    <3> QED BY <1>9, <2>2, <3>1, <3>2
  <2> QED BY <1>9, <2>1, <2>2
<1> QED BY <1>8, <1>11, <1>12, <1>13, <1>14

(* What a batch of events has to bring along: the tools of an answer, and   *)
(* the agent events of a turn up to some index.                             *)
Complete(es) ==
  /\ \A i \in DOMAIN es : es[i].key.kind = "assistant" =>
       /\ es[i].payload \in Texts
       /\ \A k \in DOMAIN es[i].payload.tools : \E j \in DOMAIN es :
            es[j].key = EventKey("tool", es[i].key.turn, k, es[i].payload.tools[k])
  /\ \A t \in Turns : \E p \in Nat : \A k \in Nat \ {0} :
       (\E j \in DOMAIN es : es[j].key = EventKey("agent", t, k, "")) <=> k <= p

LEMMA LargerOfTwo ==
  ASSUME NEW q \in Nat, NEW p \in Nat
  PROVE  \E larger \in Nat : \A x \in Nat : x <= larger <=> (x <= q \/ x <= p)
<1>1. CASE q <= p
  <2>1. \A x \in Nat : x <= p <=> (x <= q \/ x <= p)
    BY <1>1
  <2> QED BY <2>1
<1>2. CASE p <= q
  <2>1. \A x \in Nat : x <= q <=> (x <= q \/ x <= p)
    BY <1>2
  <2> QED BY <2>1
<1> QED BY <1>1, <1>2

LEMMA WholeAfter ==
  ASSUME NEW row, NEW row2, row.events \in Seq(EventRow),
         NEW es \in Seq(EventRow), NEW k \in 0 .. Len(es),
         Unknown(row, es) = (k + 1) .. Len(es), Continued(row.events, es, k, row2.events),
         Whole(row), Complete(es)
  PROVE  Whole(row2)
<1> DEFINE Given(key) == \E j \in DOMAIN es : es[j].key = key
<1> DEFINE ToolsKept(r, e) ==
      /\ e.payload \in Texts
      /\ \A x \in DOMAIN e.payload.tools :
           HasKey(r, EventKey("tool", e.key.turn, x, e.payload.tools[x]))
<1>1. \A key : HasKey(row2, key) <=> (HasKey(row, key) \/ Given(key))
  BY KeysAfter
<1>2. \A i \in DOMAIN row2.events :
        \/ i \in 1 .. Len(row.events) /\ row2.events[i] = row.events[i]
        \/ \E j \in (k + 1) .. Len(es) : row2.events[i] = es[j]
  BY Positions
<1>3. /\ \A i \in DOMAIN row.events : row.events[i].key.kind = "assistant" => ToolsKept(row, row.events[i])
      /\ \A t \in Turns : \E q \in Nat : \A x \in Nat \ {0} :
           HasKey(row, EventKey("agent", t, x, "")) <=> x <= q
  BY DEF Whole
<1>4. /\ \A i \in DOMAIN es : es[i].key.kind = "assistant" =>
           /\ es[i].payload \in Texts
           /\ \A x \in DOMAIN es[i].payload.tools :
                Given(EventKey("tool", es[i].key.turn, x, es[i].payload.tools[x]))
      /\ \A t \in Turns : \E p \in Nat : \A x \in Nat \ {0} :
           Given(EventKey("agent", t, x, "")) <=> x <= p
  BY DEF Complete
<1>5. DOMAIN row.events = 1 .. Len(row.events) /\ (k + 1) .. Len(es) \subseteq DOMAIN es
  OBVIOUS
<1>6. \A e : ToolsKept(row, e) => ToolsKept(row2, e)
  BY <1>1
<1>7. \A i \in DOMAIN es : es[i].key.kind = "assistant" => ToolsKept(row2, es[i])
  BY <1>1, <1>4
<1>8. Whole(row2) <=>
        /\ \A i \in DOMAIN row2.events : row2.events[i].key.kind = "assistant" => ToolsKept(row2, row2.events[i])
        /\ \A t \in Turns : \E q \in Nat : \A x \in Nat \ {0} :
             HasKey(row2, EventKey("agent", t, x, "")) <=> x <= q
  BY DEF Whole
<1> HIDE DEF ToolsKept, Given
<1>9. ASSUME NEW i \in DOMAIN row2.events, row2.events[i].key.kind = "assistant"
      PROVE  ToolsKept(row2, row2.events[i])
  BY <1>2, <1>3, <1>5, <1>6, <1>7, <1>9
<1>10. ASSUME NEW t \in Turns
       PROVE  \E q \in Nat : \A x \in Nat \ {0} : HasKey(row2, EventKey("agent", t, x, "")) <=> x <= q
  <2>1. PICK q \in Nat : \A x \in Nat \ {0} : HasKey(row, EventKey("agent", t, x, "")) <=> x <= q
    BY <1>3
  <2>2. PICK p \in Nat : \A x \in Nat \ {0} : Given(EventKey("agent", t, x, "")) <=> x <= p
    BY <1>4
  <2>3. \E larger \in Nat : \A x \in Nat : x <= larger <=> (x <= q \/ x <= p)
    BY LargerOfTwo
  <2>4. PICK larger \in Nat : \A x \in Nat : x <= larger <=> (x <= q \/ x <= p)
    BY <2>3
  <2>5. \A x \in Nat \ {0} : HasKey(row2, EventKey("agent", t, x, "")) <=> x <= larger
    BY <1>1, <2>1, <2>2, <2>4
  <2> QED BY <2>5
<1> QED BY <1>8, <1>9, <1>10

LEMMA OwnAfter ==
  ASSUME NEW row, NEW row2, row.events \in Seq(EventRow),
         NEW es \in Seq(EventRow), NEW k \in 0 .. Len(es), NEW m,
         Continued(row.events, es, k, row2.events), row2.actor = row.actor, row2.mode = row.mode,
         Own(m, row),
         \A i \in DOMAIN es : es[i].key.kind = "user" =>
           LET b == body[es[i].key.turn[1]]
           IN b.mission = m /\ b.actor = row.actor /\ b.mode = row.mode
  PROVE  Own(m, row2)
<1>1. \A i \in DOMAIN row2.events :
        \/ i \in 1 .. Len(row.events) /\ row2.events[i] = row.events[i]
        \/ \E j \in (k + 1) .. Len(es) : row2.events[i] = es[j]
  BY Positions
<1>2. DOMAIN row.events = 1 .. Len(row.events) /\ (k + 1) .. Len(es) \subseteq DOMAIN es
  OBVIOUS
<1> QED BY <1>1, <1>2 DEF Own

-----------------------------------------------------------------------------
(* _prepare_mission.                                                        *)

(* A message, and its acceptance if it is not a lightweight one.            *)
Accepts(c, es) ==
  /\ es \in Seq(EventRow) /\ Len(es) \in {1, 2}
  /\ es[1].key = EventKey("user", Turn(c, ""), 0, "")
  /\ Len(es) = 2 => es[2].key = EventKey("accepted", Turn(c, ""), 0, "")

LEMMA PreparedEvents ==
  ASSUME NEW c \in Calls, NEW row
  PROVE  \E es, state : Accepts(c, es) /\ Prepared(row, Light(c), Turn(c, ""), {}) = Appended([row EXCEPT !.state = state], es)
                       /\ state \in {"ORIENTING", "PLANNING"}
<1> DEFINE user == Event("user", Turn(c, ""), {})
<1> DEFINE accepted == Event("accepted", Turn(c, ""), <<>>)
<1>1. Turn(c, "") \in Turns
  BY TurnType DEF Suffixes
<1>2. user \in EventRow /\ accepted \in EventRow
  BY <1>1 DEF Event, EventKey, EventRow, Text
<1>3. user.key = EventKey("user", Turn(c, ""), 0, "") /\ accepted.key = EventKey("accepted", Turn(c, ""), 0, "")
  BY DEF Event
<1>4. /\ Light(c) => Prepared(row, Light(c), Turn(c, ""), {})
                     = Appended([row EXCEPT !.state = "ORIENTING"], << user >> \o <<>>)
      /\ ~Light(c) => Prepared(row, Light(c), Turn(c, ""), {})
                     = Appended([row EXCEPT !.state = "PLANNING"], << user >> \o << accepted >>)
  BY Zenon DEF Prepared, Accepting
<1> HIDE DEF user, accepted
<1> DEFINE one == << user >> \o <<>>
<1> DEFINE two == << user >> \o << accepted >>
<1>5. one \in Seq(EventRow) /\ Len(one) = 1 /\ one[1] = user
  BY <1>2
<1>6. two \in Seq(EventRow) /\ Len(two) = 2 /\ two[1] = user /\ two[2] = accepted
  BY <1>2
<1> HIDE DEF one, two
<1>7. Accepts(c, one) /\ Accepts(c, two)
  BY <1>3, <1>5, <1>6 DEF Accepts
<1> QED BY <1>4, <1>7, Zenon DEF one, two

LEMMA AcceptingKeys ==
  ASSUME NEW c \in Calls, NEW es, Accepts(c, es)
  PROVE  /\ \A i \in DOMAIN es : es[i].key.kind \in {"user", "accepted"} /\ es[i].key.turn = Turn(c, "")
         /\ 1 \in DOMAIN es /\ es[1].key = EventKey("user", Turn(c, ""), 0, "")
         /\ Complete(es)
<1> DEFINE n == Len(es)
<1>1. n \in {1, 2} /\ es \in Seq(EventRow)
  BY DEF Accepts
<1>2. DOMAIN es = 1 .. n
  BY <1>1
<1>3. es[1].key = EventKey("user", Turn(c, ""), 0, "")
  BY DEF Accepts
<1>4. n = 2 => es[2].key = EventKey("accepted", Turn(c, ""), 0, "")
  BY DEF Accepts
<1> HIDE DEF n
<1>5. \A i \in 1 .. n : i = 1 \/ (i = 2 /\ n = 2)
  BY <1>1
<1>6. 1 \in 1 .. n
  BY <1>1
<1>7. \A i \in DOMAIN es : es[i].key.kind \in {"user", "accepted"} /\ es[i].key.turn = Turn(c, "")
  <2>1. /\ es[1].key.kind = "user" /\ es[1].key.turn = Turn(c, "")
        /\ n = 2 => es[2].key.kind = "accepted" /\ es[2].key.turn = Turn(c, "")
    <3> DEFINE k1 == es[1].key
    <3> DEFINE k2 == es[2].key
    <3>1. k1 = EventKey("user", Turn(c, ""), 0, "")
      BY <1>3
    <3>2. n = 2 => k2 = EventKey("accepted", Turn(c, ""), 0, "")
      BY <1>4
    <3> HIDE DEF k1, k2
    <3>3. k1.kind = "user" /\ k1.turn = Turn(c, "")
      BY <3>1 DEF EventKey
    <3>4. ASSUME n = 2 PROVE k2.kind = "accepted" /\ k2.turn = Turn(c, "")
      <4>1. k2 = EventKey("accepted", Turn(c, ""), 0, "")
        BY <3>2, <3>4
      <4> QED BY <4>1 DEF EventKey
    <3> QED BY <3>3, <3>4 DEF k1, k2
  <2> QED BY <1>2, <1>5, <2>1
<1>8. \A t \in Turns : \A x \in Nat \ {0} : ~\E j \in DOMAIN es : es[j].key = EventKey("agent", t, x, "")
  <2>1. \A t, x : EventKey("agent", t, x, "").kind = "agent"
    BY DEF EventKey
  <2>2. \A i \in DOMAIN es : es[i].key.kind # "agent"
    BY <1>7
  <2> QED BY <2>1, <2>2, Zenon
<1>9. \A x \in Nat \ {0} : ~(x <= 0)
  OBVIOUS
<1>10. \A t \in Turns : \E p \in Nat : \A x \in Nat \ {0} :
         (\E j \in DOMAIN es : es[j].key = EventKey("agent", t, x, "")) <=> x <= p
  BY <1>8, <1>9
<1>11. Complete(es)
  BY <1>7, <1>10 DEF Complete
<1> QED BY <1>2, <1>3, <1>6, <1>7, <1>11

(* A message and its acceptance fit every history: if the message is not    *)
(* there, neither is its acceptance.                                        *)
LEMMA AcceptingFits ==
  ASSUME NEW c \in Calls, NEW es, Accepts(c, es), NEW row, row.events \in Seq(EventRow), Ordered(row)
  PROVE  \E k \in 0 .. Len(es) : Fits(row, es, k)
<1> DEFINE user == EventKey("user", Turn(c, ""), 0, "")
<1> DEFINE accepted == EventKey("accepted", Turn(c, ""), 0, "")
<1> DEFINE n == Len(es)
<1>0. n \in {1, 2} /\ es \in Seq(EventRow) /\ es[1].key = user /\ (n = 2 => es[2].key = accepted)
  BY DEF Accepts
<1>1. /\ n \in {1, 2} /\ DOMAIN es = 1 .. n
      /\ \A i \in DOMAIN es : (i = 1 /\ es[i].key = user) \/ (i = 2 /\ n = 2 /\ es[i].key = accepted)
  <2>1. n \in {1, 2} /\ DOMAIN es = 1 .. n
    <3>1. es \in Seq(EventRow)
      BY <1>0
    <3>2. DOMAIN es = 1 .. Len(es)
      BY <3>1
    <3> QED BY <1>0, <3>2
  <2> HIDE DEF n, user, accepted
  <2>2. \A i \in 1 .. n : i = 1 \/ (i = 2 /\ n = 2)
    BY <2>1
  <2> QED BY <1>0, <2>1, <2>2
<1>2. /\ user.kind = "user" /\ accepted.kind = "accepted" /\ user # accepted
      /\ EventKey("user", <<accepted.turn[1], "">>, 0, "") = user
  BY DEF EventKey, Turn
<1>3. HasKey(row, accepted) => HasKey(row, user)
  <2>1. SUFFICES ASSUME NEW i \in DOMAIN row.events, row.events[i].key = accepted
                 PROVE  HasKey(row, user)
    BY DEF HasKey
  <2>2. \E j \in 1 .. i - 1 : row.events[j].key = user
    BY <1>2, <2>1 DEF Ordered
  <2>3. 1 .. i - 1 \subseteq DOMAIN row.events
    OBVIOUS
  <2> QED BY <2>2, <2>3 DEF HasKey
<1>4. /\ \A i \in DOMAIN es : i \in Unknown(row, es) <=> ~HasKey(row, es[i].key)
      /\ Unknown(row, es) \subseteq DOMAIN es
  BY DEF Unknown
<1> HIDE DEF user, accepted, n
<1>5. \A i, j \in DOMAIN es : es[i].key = es[j].key => i = j
  BY <1>1, <1>2
<1>6. \A i \in DOMAIN es : es[i].key.kind \notin TurnKinds /\ (es[i].key.kind = "accepted" => i = 2 /\ es[i].key = accepted)
  BY <1>1, <1>2 DEF TurnKinds
<1>7. \A k \in 0 .. n :
        /\ Unknown(row, es) = (k + 1) .. n
        /\ n = 2 => k = 0 \/ HasKey(row, user)
        => Fits(row, es, k)
  <2>1. SUFFICES ASSUME NEW k \in 0 .. n, Unknown(row, es) = (k + 1) .. n,
                        n = 2 => k = 0 \/ HasKey(row, user)
                 PROVE  Fits(row, es, k)
    OBVIOUS
  <2>2. ASSUME NEW j \in (k + 1) .. n
        PROVE  /\ j \in DOMAIN es
               /\ es[j].key.kind = "accepted" =>
                    \/ HasKey(row, EventKey("user", <<es[j].key.turn[1], "">>, 0, ""))
                    \/ \E l \in (k + 1) .. (j - 1) :
                         es[l].key = EventKey("user", <<es[j].key.turn[1], "">>, 0, "")
    <3>1. j \in DOMAIN es
      BY <1>1
    <3>2. es[j].key.kind = "accepted" => n = 2 /\ j = 2 /\ es[j].key = accepted
      BY <1>1, <1>6, <3>1
    <3>3. k = 0 => 1 \in (k + 1) .. (2 - 1)
      OBVIOUS
    <3>4. es[1].key = user
      BY <1>1
    <3>5. ASSUME es[j].key.kind = "accepted"
          PROVE  HasKey(row, user) \/ \E l \in (k + 1) .. (j - 1) : es[l].key = user
      BY <2>1, <3>2, <3>3, <3>4, <3>5
    <3>6. es[j].key.kind = "accepted" => EventKey("user", <<es[j].key.turn[1], "">>, 0, "") = user
      BY <1>2, <3>2
    <3> QED BY <3>1, <3>5, <3>6
  <2>3. \A j \in (k + 1) .. n : es[j].key.kind \notin TurnKinds
    BY <1>6, <2>2
  <2> QED BY <1>5, <2>1, <2>2, <2>3 DEF Fits, TurnKinds, n
<1>8. CASE ~HasKey(row, user)
  <2>1. \A i \in DOMAIN es : i \in Unknown(row, es)
    BY <1>1, <1>3, <1>4, <1>8
  <2>3. Unknown(row, es) = (0 + 1) .. n
    BY <1>1, <1>4, <2>1
  <2>2. 0 \in 0 .. n
    BY <1>1
  <2> QED BY <1>7, <2>3, <2>2 DEF n
<1>9. CASE HasKey(row, user) /\ n = 2 /\ ~HasKey(row, accepted)
  <2>1. Unknown(row, es) = (1 + 1) .. n
    BY <1>1, <1>4, <1>9
  <2>2. 1 \in 0 .. n
    BY <1>9
  <2> QED BY <1>7, <1>9, <2>1, <2>2 DEF n
<1>10. CASE HasKey(row, user) /\ ~(n = 2 /\ ~HasKey(row, accepted))
  <2>3. \A i \in DOMAIN es : i \notin Unknown(row, es)
    BY <1>1, <1>4, <1>10
  <2>4. (n + 1) .. n = {}
    BY <1>1
  <2>1. Unknown(row, es) = (n + 1) .. n
    BY <1>4, <2>3, <2>4
  <2>2. n \in 0 .. n
    BY <1>1
  <2> QED BY <1>7, <1>10, <2>1, <2>2 DEF n
<1> QED BY <1>8, <1>9, <1>10

(* What only depends on the events, and on whom they belong to.             *)
LEMMA SameEvents ==
  ASSUME NEW row, NEW row2, row2.events = row.events, row2.actor = row.actor, row2.mode = row.mode,
         NEW m
  PROVE  /\ Ordered(row) => Ordered(row2)
         /\ Whole(row) => Whole(row2)
         /\ Own(m, row) => Own(m, row2)
         /\ \A es : Unknown(row2, es) = Unknown(row, es)
         /\ \A es, k : Fits(row, es, k) => Fits(row2, es, k)
         /\ \A key : HasKey(row2, key) <=> HasKey(row, key)
         /\ DecisionsIn(row2) = DecisionsIn(row)
         /\ \A S : DecidedBy(row, S) => DecidedBy(row2, S)
<1>1. \A key : HasKey(row2, key) <=> HasKey(row, key)
  BY DEF HasKey
<1>2. \A es : Unknown(row2, es) = Unknown(row, es)
  BY <1>1 DEF Unknown
<1>3. \A es, k : Fits(row, es, k) => Fits(row2, es, k)
  BY <1>1, <1>2 DEF Fits
<1>4. /\ Ordered(row) => Ordered(row2)
      /\ Own(m, row) => Own(m, row2)
  BY DEF Ordered, Own
<1>5. Whole(row) => Whole(row2)
  BY <1>1 DEF Whole
<1>6. DecisionsIn(row2) = DecisionsIn(row) /\ \A S : DecidedBy(row, S) => DecidedBy(row2, S)
  BY DEF DecisionsIn, DecidedBy
<1> QED BY <1>1, <1>2, <1>3, <1>4, <1>5, <1>6

(* No decision comes with events of another kind.                           *)
LEMMA DecisionsAfter ==
  ASSUME NEW row, NEW row2, row.events \in Seq(EventRow), NEW es \in Seq(EventRow),
         NEW k \in 0 .. Len(es), Continued(row.events, es, k, row2.events),
         \A i \in DOMAIN es : es[i].key.kind # "decision"
  PROVE  /\ DecisionsIn(row2) = DecisionsIn(row)
         /\ \A S : DecidedBy(row, S) => DecidedBy(row2, S)
         /\ Len(row.events) <= Len(row2.events)
<1> DEFINE old == row.events
           new == row2.events
<1>1. old \in Seq(EventRow) /\ Continued(old, es, k, new)
  OBVIOUS
<1>2. /\ DecisionsIn(row) = {i \in DOMAIN old : old[i].key.kind = "decision"}
      /\ DecisionsIn(row2) = {i \in DOMAIN new : new[i].key.kind = "decision"}
      /\ \A S : DecidedBy(row, S) <=>
                 \A i \in DecisionsIn(row) : \E d \in S : old[i].key = DecisionCreated(d).key
      /\ \A S : DecidedBy(row2, S) <=>
                 \A i \in DecisionsIn(row2) : \E d \in S : new[i].key = DecisionCreated(d).key
  BY DEF DecisionsIn, DecidedBy
<1> HIDE DEF old, new
<1>3. /\ DOMAIN new = 1 .. Len(old) + (Len(es) - k)
      /\ \A i \in DOMAIN new :
           \/ i \in 1 .. Len(old) /\ new[i] = old[i]
           \/ \E j \in (k + 1) .. Len(es) : i = Len(old) + (j - k) /\ new[i] = es[j]
  BY <1>1, Positions
<1>4. /\ DOMAIN old = 1 .. Len(old) /\ Len(old) \in Nat /\ Len(es) \in Nat
      /\ (k + 1) .. Len(es) \subseteq DOMAIN es
      /\ \A i \in 1 .. Len(old) : new[i] = old[i]
      /\ Len(new) = Len(old) + (Len(es) - k)
  BY <1>1 DEF Continued
<1>5. DecisionsIn(row2) = DecisionsIn(row)
  <2>1. \A i \in DecisionsIn(row2) : i \in DecisionsIn(row)
    BY <1>2, <1>3, <1>4
  <2>2. \A i \in DecisionsIn(row) : i \in DecisionsIn(row2)
    BY <1>2, <1>3, <1>4
  <2> QED BY <2>1, <2>2
<1>6. \A i \in DecisionsIn(row) : new[i] = old[i]
  BY <1>2, <1>4
<1>7. Len(old) <= Len(new)
  BY <1>4
<1> QED BY <1>2, <1>5, <1>6, <1>7 DEF old, new

(* Appending changes only the events.                                       *)
LEMMA AppendedRow ==
  ASSUME NEW row \in MissionRow, NEW es \in Seq(EventRow), NEW k \in 0 .. Len(es),
         Unknown(row, es) = (k + 1) .. Len(es), NEW row2, row2 = Appended(row, es)
  PROVE  /\ row2 \in MissionRow /\ Continued(row.events, es, k, row2.events)
         /\ row2.actor = row.actor /\ row2.mode = row.mode /\ row2.version = row.version
         /\ row2.turns_left = row.turns_left /\ row2.checkpoint = row.checkpoint
         /\ row2.checkpoints = row.checkpoints /\ row2.artifacts = row.artifacts
<1>1. Continued(row.events, es, k, row2.events)
  BY AppendedContinues
<1>2. row2.events \in Seq(EventRow)
  BY <1>1 DEF Continued
<1>3. PICK events : row2 = [row EXCEPT !.events = events]
  BY DEF Appended
<1>4. row2.events = events
  BY <1>3 DEF MissionRow
<1> QED BY <1>1, <1>2, <1>3, <1>4 DEF MissionRow

(* append_event of events that fit, come with what belongs to them and are  *)
(* the mission's own.                                                       *)
LEMMA AppendedSound ==
  ASSUME NEW m, NEW row \in MissionRow, NEW es \in Seq(EventRow), NEW k \in 0 .. Len(es),
         Fits(row, es, k), Complete(es), Ordered(row), Whole(row), Own(m, row),
         \A i \in DOMAIN es : es[i].key.kind = "user" =>
           LET b == body[es[i].key.turn[1]]
           IN b.mission = m /\ b.actor = row.actor /\ b.mode = row.mode,
         NEW row2, row2 = Appended(row, es)
  PROVE  /\ Ordered(row2) /\ Whole(row2) /\ Own(m, row2)
         /\ \A key : HasKey(row2, key) <=> (HasKey(row, key) \/ \E j \in DOMAIN es : es[j].key = key)
<1>1. Unknown(row, es) = (k + 1) .. Len(es)
  BY DEF Fits
<1>2. Continued(row.events, es, k, row2.events) /\ row2.actor = row.actor /\ row2.mode = row.mode
  BY <1>1, AppendedRow
<1>3. row.events \in Seq(EventRow) /\ k \in Nat /\ k <= Len(es)
  BY DEF MissionRow
<1>4. Ordered(row2)
  BY <1>2, <1>3, OrderedAfter
<1>5. Whole(row2)
  BY <1>1, <1>2, <1>3, WholeAfter
<1>6. Own(m, row2)
  BY <1>2, <1>3, OwnAfter
<1>7. \A key : HasKey(row2, key) <=> (HasKey(row, key) \/ \E j \in DOMAIN es : es[j].key = key)
  BY <1>1, <1>2, <1>3, KeysAfter
<1> QED BY <1>4, <1>5, <1>6, <1>7

(* Preparing a mission for a message of its own.                            *)
PreparedFor(c, row) == Prepared(row, Light(c), Turn(c, ""), {})

LEMMA PreparedSound ==
  ASSUME TypeOK, NEW c \in Calls, NEW row \in MissionRow, Sound(Body(c).mission, row),
         row.actor = Body(c).actor, row.mode = Body(c).mode,
         NEW row2, row2 = PreparedFor(c, row)
  PROVE  /\ row2 \in MissionRow /\ Sound(Body(c).mission, row2)
         /\ row2.actor = row.actor /\ row2.mode = row.mode /\ row2.artifacts = row.artifacts
         /\ HasKey(row2, EventKey("user", Turn(c, ""), 0, ""))
         /\ \A key : HasKey(row, key) => HasKey(row2, key)
<1> DEFINE m == Body(c).mission
<1>1. PICK es, state : /\ Accepts(c, es) /\ row2 = Appended([row EXCEPT !.state = state], es)
                       /\ state \in {"ORIENTING", "PLANNING"}
  BY PreparedEvents DEF PreparedFor
<1> DEFINE mid == [row EXCEPT !.state = state]
<1>2. /\ mid \in MissionRow /\ mid.events = row.events /\ mid.actor = row.actor
      /\ mid.mode = row.mode /\ mid.artifacts = row.artifacts /\ mid.version = row.version
      /\ mid.turns_left = row.turns_left /\ mid.checkpoint = row.checkpoint
      /\ mid.checkpoints = row.checkpoints
  BY <1>1 DEF MissionRow, Text
<1>3. row2 = Appended(mid, es)
  BY <1>1
<1> HIDE DEF mid
<1>4. /\ es \in Seq(EventRow) /\ row.events \in Seq(EventRow)
  BY <1>1 DEF Accepts, MissionRow
<1>5. Ordered(row) /\ Whole(row) /\ Own(m, row) /\ Counted(row)
  BY DEF Sound
<1>6. PICK k \in 0 .. Len(es) : Fits(row, es, k)
  BY <1>1, <1>4, <1>5, AcceptingFits
<1>7. /\ Fits(mid, es, k) /\ Ordered(mid) /\ Whole(mid) /\ Own(m, mid)
      /\ \A key : HasKey(mid, key) <=> HasKey(row, key)
  BY <1>2, <1>5, <1>6, SameEvents
<1>8. /\ \A i \in DOMAIN es : es[i].key.kind \in {"user", "accepted"} /\ es[i].key.turn = Turn(c, "")
      /\ 1 \in DOMAIN es /\ es[1].key = EventKey("user", Turn(c, ""), 0, "")
  BY <1>1, AcceptingKeys
<1>9. Complete(es)
  BY <1>1, AcceptingKeys
<1>10. Turn(c, "")[1] = c[1]
  BY TurnType DEF Suffixes
<1>11. \A i \in DOMAIN es : es[i].key.kind = "user" =>
         LET b == body[es[i].key.turn[1]]
         IN b.mission = m /\ b.actor = mid.actor /\ b.mode = mid.mode
  BY <1>2, <1>8, <1>10 DEF Body
<1>12. /\ Ordered(row2) /\ Whole(row2) /\ Own(m, row2)
       /\ \A key : HasKey(row2, key) <=> (HasKey(mid, key) \/ \E j \in DOMAIN es : es[j].key = key)
  BY <1>2, <1>3, <1>4, <1>7, <1>9, <1>11, AppendedSound
<1>13. Unknown(mid, es) = (k + 1) .. Len(es)
  BY <1>7 DEF Fits
<1>14. /\ row2 \in MissionRow /\ Continued(mid.events, es, k, row2.events)
       /\ row2.actor = mid.actor /\ row2.mode = mid.mode /\ row2.version = mid.version
       /\ row2.turns_left = mid.turns_left /\ row2.checkpoint = mid.checkpoint
       /\ row2.checkpoints = mid.checkpoints /\ row2.artifacts = mid.artifacts
  BY <1>2, <1>3, <1>4, <1>13, AppendedRow
<1>16. /\ DecisionsIn(row2) = DecisionsIn(row) /\ DecidedBy(row2, created)
       /\ Len(row.events) <= Len(row2.events)
  <2>1. DecidedBy(row, created) /\ Continued(row.events, es, k, row2.events)
    BY <1>2, <1>14 DEF Sound
  <2>2. \A i \in DOMAIN es : es[i].key.kind # "decision"
    BY <1>8
  <2> QED BY <1>4, <2>1, <2>2, DecisionsAfter
<1>15. Counted(row2)
  <2>1. \A i \in DOMAIN row2.events :
          \/ i \in 1 .. Len(row.events) /\ row2.events[i] = row.events[i]
          \/ \E j \in (k + 1) .. Len(es) : row2.events[i] = es[j]
    <3>1. Continued(row.events, es, k, row2.events)
      BY <1>2, <1>14
    <3> DEFINE old == row.events
    <3> DEFINE new == row2.events
    <3>0. old \in Seq(EventRow) /\ es \in Seq(EventRow) /\ k \in 0 .. Len(es)
      BY <1>4, <1>6
    <3>2. Continued(old, es, k, new)
      BY <3>1
    <3> HIDE DEF old, new
    <3>3. \A i \in DOMAIN new :
            \/ i \in 1 .. Len(old) /\ new[i] = old[i]
            \/ \E j \in (k + 1) .. Len(es) : i = Len(old) + (j - k) /\ new[i] = es[j]
      BY <3>0, <3>2, Positions
    <3> QED BY <3>3, Zenon DEF old, new
  <2>2. DOMAIN row.events = 1 .. Len(row.events) /\ (k + 1) .. Len(es) \subseteq DOMAIN es
    BY <1>4
  <2>3. \A i \in DOMAIN row2.events : row2.events[i].key.kind \in TurnKinds => i <= row2.checkpoint
    BY <1>2, <1>5, <1>8, <1>14, <2>1, <2>2 DEF Counted, TurnKinds
  <2>4. Len(row.events) <= Len(row2.events) /\ DecisionsIn(row2) = DecisionsIn(row)
    BY <1>16
  <2>5. row2.checkpoint <= Len(row2.events)
    <3>1. row.checkpoint <= Len(row.events) /\ row.checkpoint \in Nat
      BY <1>5 DEF Counted, MissionRow
    <3>2. Len(row.events) \in Nat /\ Len(row2.events) \in Nat
      BY <1>4, <1>14 DEF MissionRow
    <3> QED BY <1>2, <1>14, <2>4, <3>1, <3>2
  <2> QED BY <1>2, <1>5, <1>14, <2>3, <2>4, <2>5 DEF Counted
<1> QED BY <1>2, <1>5, <1>7, <1>8, <1>12, <1>14, <1>15, <1>16 DEF Sound

-----------------------------------------------------------------------------
(* _persist_turn.                                                           *)

(* The events of a turn: the answer, its tools and n events of the agent.   *)
Told(turn, message, tools, n, es) ==
  /\ es \in Seq(EventRow) /\ Len(es) = 1 + Len(tools) + n
  /\ es[1].key = EventKey("assistant", turn, 0, "")
  /\ es[1].payload = [message |-> message, tools |-> tools]
  /\ \A i \in 1 .. Len(tools) : es[1 + i].key = EventKey("tool", turn, i, tools[i])
  /\ \A i \in 1 .. n : es[1 + Len(tools) + i].key = EventKey("agent", turn, i, "")

LEMMA ThreeParts ==
  ASSUME NEW a \in EventRow, NEW b \in Seq(EventRow), NEW d \in Seq(EventRow)
  PROVE  /\ << a >> \o b \o d \in Seq(EventRow) /\ Len(<< a >> \o b \o d) = 1 + Len(b) + Len(d)
         /\ (<< a >> \o b \o d)[1] = a
         /\ \A i \in 1 .. Len(b) : (<< a >> \o b \o d)[1 + i] = b[i]
         /\ \A i \in 1 .. Len(d) : (<< a >> \o b \o d)[1 + Len(b) + i] = d[i]
<1> DEFINE ab == << a >> \o b
<1>1. ab \in Seq(EventRow) /\ Len(ab) = 1 + Len(b) /\ ab[1] = a /\ \A i \in 1 .. Len(b) : ab[1 + i] = b[i]
  OBVIOUS
<1>2. Len(b) \in Nat /\ Len(d) \in Nat
  OBVIOUS
<1> HIDE DEF ab
<1>3. ab \o d \in Seq(EventRow) /\ Len(ab \o d) = Len(ab) + Len(d)
  <2>1. ab \in Seq(EventRow)
    BY <1>1
  <2> QED BY <2>1
<1>4. \A i \in 1 .. Len(ab) : (ab \o d)[i] = ab[i]
  BY <1>1
<1>5. \A i \in 1 .. Len(d) : (ab \o d)[Len(ab) + i] = d[i]
  <2>1. ab \in Seq(EventRow)
    BY <1>1
  <2> QED BY <2>1
<1>6. 1 \in 1 .. Len(ab) /\ \A i \in 1 .. Len(b) : 1 + i \in 1 .. Len(ab)
  BY <1>1, <1>2
<1> QED BY <1>1, <1>3, <1>4, <1>5, <1>6 DEF ab

LEMMA SeqByElements ==
  ASSUME NEW S, NEW n \in Nat, NEW s, s = [i \in 1 .. n |-> s[i]], \A i \in 1 .. n : s[i] \in S
  PROVE  s \in Seq(S) /\ Len(s) = n
OBVIOUS

LEMMA TurnEventsTold ==
  ASSUME NEW turn \in Turns, NEW answer \in TurnOutput
  PROVE  Told(turn, answer.message, answer.tools, Len(answer.events), TurnEvents(turn, answer))
<1> DEFINE message == answer.message
<1> DEFINE tools == answer.tools
<1> DEFINE events == answer.events
<1>1. message \in SUBSET Refs /\ tools \in Seq(Text) /\ events \in Seq(Text)
  BY DEF TurnOutput
<1> DEFINE a == Event("assistant", turn, [message |-> message, tools |-> tools])
<1> DEFINE b == [i \in DOMAIN tools |-> [key |-> EventKey("tool", turn, i, tools[i]), payload |-> tools[i]]]
<1> DEFINE d == [i \in DOMAIN events |-> [key |-> EventKey("agent", turn, i, ""), payload |-> events[i]]]
<1>2. TurnEvents(turn, answer) = << a >> \o b \o d
  BY DEF TurnEvents
<1> HIDE DEF message, tools, events
<1>3. a \in EventRow
  <2>1. [message |-> message, tools |-> tools] \in Texts
    BY <1>1 DEF Texts
  <2> QED BY <2>1 DEF Event, EventKey, EventRow, TurnKinds, Text
<1>4. b \in Seq(EventRow) /\ Len(b) = Len(tools)
  <2>1. DOMAIN tools = 1 .. Len(tools) /\ Len(tools) \in Nat
    BY <1>1
  <2>2. \A i \in DOMAIN tools : tools[i] \in Text /\ i \in Nat
    BY <1>1
  <2>3. \A i \in DOMAIN tools :
          [key |-> EventKey("tool", turn, i, tools[i]), payload |-> tools[i]] \in EventRow
    BY <2>2 DEF EventKey, EventRow, TurnKinds
  <2> QED BY <2>1, <2>3
<1>5. d \in Seq(EventRow) /\ Len(d) = Len(events)
  <2>1. DOMAIN events = 1 .. Len(events) /\ Len(events) \in Nat
    BY <1>1
  <2>2. \A i \in DOMAIN events : events[i] \in Text /\ i \in Nat
    BY <1>1
  <2>3. \A i \in DOMAIN events :
          [key |-> EventKey("agent", turn, i, ""), payload |-> events[i]] \in EventRow
    BY <2>2 DEF EventKey, EventRow, TurnKinds, Text
  <2>4. d = [i \in 1 .. Len(events) |-> d[i]] /\ \A i \in 1 .. Len(events) : d[i] \in EventRow
    BY <2>1, <2>3
  <2> HIDE DEF d
  <2> QED BY <2>1, <2>4, SeqByElements
<1>6. a.key = EventKey("assistant", turn, 0, "") /\ a.payload = [message |-> message, tools |-> tools]
  BY DEF Event
<1>7. \A i \in 1 .. Len(b) : b[i].key = EventKey("tool", turn, i, tools[i])
  BY <1>1, <1>4
<1>8. \A i \in 1 .. Len(d) : d[i].key = EventKey("agent", turn, i, "")
  <2>1. \A i \in DOMAIN events : d[i].key = EventKey("agent", turn, i, "")
    OBVIOUS
  <2> HIDE DEF d
  <2>2. DOMAIN events = 1 .. Len(d)
    BY <1>1, <1>5
  <2> QED BY <2>1, <2>2
<1> HIDE DEF a, b, d
<1> DEFINE es == << a >> \o b \o d
<1>9. /\ es \in Seq(EventRow) /\ Len(es) = 1 + Len(b) + Len(d)
      /\ es[1] = a
      /\ \A i \in 1 .. Len(b) : es[1 + i] = b[i]
      /\ \A i \in 1 .. Len(d) : es[1 + Len(b) + i] = d[i]
  BY <1>3, <1>4, <1>5, ThreeParts
<1> HIDE DEF es
<1>10. Told(turn, message, tools, Len(events), es)
  BY <1>4, <1>5, <1>6, <1>7, <1>8, <1>9 DEF Told
<1> QED BY <1>2, <1>10 DEF es, message, tools, events

(* The keys of a turn, one for each of its positions.                       *)
Layout(turn, tools, n, es) ==
  /\ DOMAIN es = 1 .. 1 + Len(tools) + n
  /\ es[1].key.kind = "assistant"
  /\ \A i \in DOMAIN es : es[i].key.turn = turn /\ es[i].key.kind \in TurnKinds
  /\ \A i \in 2 .. 1 + Len(tools) :
       es[i].key = EventKey("tool", turn, i - 1, tools[i - 1]) /\ es[i].key.kind = "tool"
  /\ \A i \in 2 + Len(tools) .. 1 + Len(tools) + n :
       es[i].key = EventKey("agent", turn, i - 1 - Len(tools), "") /\ es[i].key.kind = "agent"

LEMMA ToldKeys ==
  ASSUME NEW turn \in Turns, NEW message, NEW tools \in Seq(Text), NEW n \in Nat, NEW es,
         Told(turn, message, tools, n, es)
  PROVE  /\ Layout(turn, tools, n, es)
         /\ \A i, j \in DOMAIN es : es[i].key = es[j].key => i = j
<1> DEFINE T == Len(tools)
<1> DEFINE Assistant == EventKey("assistant", turn, 0, "")
<1> DEFINE Tool(i) == EventKey("tool", turn, i, tools[i])
<1> DEFINE Agent(i) == EventKey("agent", turn, i, "")
<1>1. /\ es \in Seq(EventRow) /\ Len(es) = 1 + T + n /\ T \in Nat
      /\ es[1].key = Assistant
      /\ \A i \in 1 .. T : es[1 + i].key = Tool(i)
      /\ \A i \in 1 .. n : es[1 + T + i].key = Agent(i)
  <2>1. T \in Nat
    OBVIOUS
  <2> QED BY <2>1, Zenon DEF Told
<1>2. /\ Assistant.kind = "assistant" /\ Assistant.turn = turn
      /\ \A i \in Nat : Tool(i).kind = "tool" /\ Tool(i).turn = turn /\ Tool(i).index = i
      /\ \A i \in Nat : Agent(i).kind = "agent" /\ Agent(i).turn = turn /\ Agent(i).index = i
  BY DEF EventKey
<1> HIDE DEF T, Assistant, Tool, Agent
<1>3. DOMAIN es = 1 .. 1 + T + n
  <2>1. es \in Seq(EventRow) /\ Len(es) = 1 + T + n
    BY <1>1
  <2>2. DOMAIN es = 1 .. Len(es)
    BY <2>1
  <2> QED BY <2>1, <2>2
<1>4. ASSUME NEW i \in 2 .. 1 + T PROVE es[i].key = Tool(i - 1) /\ i - 1 \in Nat
  <2>1. i - 1 \in 1 .. T /\ 1 + (i - 1) = i
    BY <1>1
  <2>2. es[1 + (i - 1)].key = Tool(i - 1)
    BY <1>1, <2>1
  <2> QED BY <2>1, <2>2
<1>5. ASSUME NEW i \in 2 + T .. 1 + T + n PROVE es[i].key = Agent(i - 1 - T) /\ i - 1 - T \in Nat
  <2>1. i - 1 - T \in 1 .. n /\ 1 + T + (i - 1 - T) = i
    BY <1>1
  <2>2. es[1 + T + (i - 1 - T)].key = Agent(i - 1 - T)
    BY <1>1, <2>1
  <2> QED BY <2>1, <2>2
<1>6. \A i \in DOMAIN es : i = 1 \/ i \in 2 .. 1 + T \/ i \in 2 + T .. 1 + T + n
  BY <1>1, <1>3
<1>7. /\ es[1].key.kind = "assistant" /\ es[1].key.turn = turn
      /\ \A i \in 2 .. 1 + T : es[i].key.kind = "tool" /\ es[i].key.turn = turn /\ es[i].key.index = i - 1
      /\ \A i \in 2 + T .. 1 + T + n :
           es[i].key.kind = "agent" /\ es[i].key.turn = turn /\ es[i].key.index = i - 1 - T
  BY <1>1, <1>2, <1>4, <1>5
<1>8. \A i \in DOMAIN es : es[i].key.turn = turn /\ es[i].key.kind \in TurnKinds
  BY <1>6, <1>7 DEF TurnKinds
<1>9. ASSUME NEW i \in DOMAIN es, NEW j \in DOMAIN es, es[i].key = es[j].key PROVE i = j
  <2>1. es[i].key.kind = es[j].key.kind /\ es[i].key.index = es[j].key.index
    BY <1>9
  <2>2. CASE i = 1
    BY <1>6, <1>7, <2>1, <2>2
  <2>3. CASE i \in 2 .. 1 + T
    <3>1. j \in 2 .. 1 + T
      BY <1>6, <1>7, <2>1, <2>3
    <3>2. i - 1 = j - 1
      BY <1>7, <2>1, <2>3, <3>1
    <3> QED BY <1>1, <2>3, <3>1, <3>2
  <2>4. CASE i \in 2 + T .. 1 + T + n
    <3>1. j \in 2 + T .. 1 + T + n
      BY <1>6, <1>7, <2>1, <2>4
    <3>2. i - 1 - T = j - 1 - T
      BY <1>7, <2>1, <2>4, <3>1
    <3> QED BY <1>1, <2>4, <3>1, <3>2
  <2> QED BY <1>6, <2>2, <2>3, <2>4
<1>10. /\ \A i \in 2 .. 1 + T : es[i].key = Tool(i - 1) /\ es[i].key.kind = "tool"
       /\ \A i \in 2 + T .. 1 + T + n : es[i].key = Agent(i - 1 - T) /\ es[i].key.kind = "agent"
  BY <1>4, <1>5, <1>7
<1> QED BY <1>3, <1>7, <1>8, <1>9, <1>10 DEF T, Tool, Agent, Layout

(* A turn comes with all its tools and its agent events in a row.           *)
LEMMA ToldComplete ==
  ASSUME NEW turn \in Turns, NEW message \in SUBSET Refs, NEW tools \in Seq(Text), NEW n \in Nat,
         NEW es, Told(turn, message, tools, n, es)
  PROVE  Complete(es)
<1> DEFINE T == Len(tools)
<1> DEFINE Tool(i) == EventKey("tool", turn, i, tools[i])
<1> DEFINE Agent(t, i) == EventKey("agent", t, i, "")
<1>0. T \in Nat /\ DOMAIN tools = 1 .. T
  OBVIOUS
<1>1. /\ DOMAIN es = 1 .. 1 + T + n
      /\ es[1].key.kind = "assistant"
      /\ \A i \in DOMAIN es : es[i].key.turn = turn /\ es[i].key.kind \in TurnKinds
      /\ \A i \in 2 .. 1 + T : es[i].key = Tool(i - 1) /\ es[i].key.kind = "tool"
      /\ \A i \in 2 + T .. 1 + T + n : es[i].key = Agent(turn, i - 1 - T) /\ es[i].key.kind = "agent"
  <2>1. Layout(turn, tools, n, es)
    BY ToldKeys
  <2> QED BY <2>1, Zenon DEF Layout
<1>2. /\ es[1].payload = [message |-> message, tools |-> tools]
      /\ \A i \in 1 .. T : es[1 + i].key = Tool(i)
      /\ \A i \in 1 .. n : es[1 + T + i].key = Agent(turn, i)
  BY DEF Told
<1>3. /\ es[1].payload \in Texts /\ es[1].payload.tools = tools
  <2> DEFINE payload == es[1].payload
  <2>1. payload = [message |-> message, tools |-> tools]
    BY <1>2
  <2> HIDE DEF payload
  <2>2. payload \in Texts /\ payload.tools = tools
    BY <2>1 DEF Texts
  <2> QED BY <2>2 DEF payload
<1>4. \A t, i : Agent(t, i).kind = "agent" /\ Agent(t, i).turn = t /\ Agent(t, i).index = i
  BY DEF EventKey
<1> HIDE DEF T, Tool, Agent
<1>5. ASSUME NEW i \in DOMAIN es, es[i].key.kind = "assistant" PROVE i = 1
  <2>1. i = 1 \/ i \in 2 .. 1 + T \/ i \in 2 + T .. 1 + T + n
    BY <1>0, <1>1
  <2> QED BY <1>1, <1>5, <2>1
<1>6. ASSUME NEW i \in DOMAIN es, es[i].key.kind = "assistant"
      PROVE  /\ es[i].payload \in Texts
             /\ \A k \in DOMAIN es[i].payload.tools : \E j \in DOMAIN es :
                  es[j].key = EventKey("tool", es[i].key.turn, k, es[i].payload.tools[k])
  <2>1. i = 1 /\ es[i].key.turn = turn /\ es[i].payload \in Texts /\ es[i].payload.tools = tools
    BY <1>1, <1>3, <1>5, <1>6
  <2>2. \A k \in DOMAIN tools : 1 + k \in DOMAIN es /\ es[1 + k].key = Tool(k)
    BY <1>0, <1>1, <1>2
  <2> QED BY <2>1, <2>2 DEF Tool
<1>7. ASSUME NEW k \in Nat \ {0}
      PROVE  (\E j \in DOMAIN es : es[j].key = Agent(turn, k)) <=> k <= n
  <2>1. ASSUME NEW j \in DOMAIN es, es[j].key = Agent(turn, k) PROVE k <= n
    <3>1. es[j].key.kind = "agent" /\ es[j].key.index = k
      BY <1>4, <2>1
    <3>2. j = 1 \/ j \in 2 .. 1 + T \/ j \in 2 + T .. 1 + T + n
      BY <1>0, <1>1
    <3>3. j \in 2 + T .. 1 + T + n
      BY <1>1, <3>1, <3>2
    <3>4. k = j - 1 - T
      BY <1>1, <1>4, <3>1, <3>3
    <3> QED BY <1>0, <3>3, <3>4
  <2>2. ASSUME k <= n PROVE \E j \in DOMAIN es : es[j].key = Agent(turn, k)
    <3>1. k \in 1 .. n /\ 1 + T + k \in 1 .. 1 + T + n
      BY <1>0, <2>2
    <3> QED BY <1>1, <1>2, <3>1
  <2> QED BY <2>1, <2>2
<1>8. ASSUME NEW t \in Turns
      PROVE  \E p \in Nat : \A k \in Nat \ {0} : (\E j \in DOMAIN es : es[j].key = Agent(t, k)) <=> k <= p
  <2>1. CASE t = turn
    BY <1>7, <2>1
  <2>2. CASE t # turn
    <3>1. \A k \in Nat \ {0} : ~\E j \in DOMAIN es : es[j].key = Agent(t, k)
      BY <1>1, <1>4, <2>2
    <3>2. \A k \in Nat \ {0} : ~(k <= 0)
      OBVIOUS
    <3> QED BY <3>1, <3>2
  <2> QED BY <2>1, <2>2
<1> QED BY <1>6, <1>8 DEF Complete, Agent

(* In an ordered history what belongs to a turn has its answer before it.   *)
LEMMA AnswerKnown ==
  ASSUME NEW row, row.events \in Seq(EventRow), Ordered(row), NEW key, HasKey(row, key),
         key.kind \in {"tool", "agent"}
  PROVE  HasKey(row, EventKey("assistant", key.turn, 0, ""))
<1> DEFINE assistant == EventKey("assistant", key.turn, 0, "")
<1>1. PICK i \in DOMAIN row.events : row.events[i].key = key
  BY DEF HasKey
<1>2. \E j \in 1 .. i - 1 : row.events[j].key = assistant
  BY <1>1 DEF Ordered
<1> HIDE DEF assistant
<1>3. 1 .. i - 1 \subseteq DOMAIN row.events
  OBVIOUS
<1> QED BY <1>2, <1>3 DEF HasKey, assistant

(* Where the new events of a turn start: at the front if its answer is not  *)
(* there, and else behind its tools and the agent events that are.          *)
Splits(turn, tools, es, row) ==
  \E k \in 0 .. Len(es) :
    /\ Unknown(row, es) = (k + 1) .. Len(es)
    /\ k = 0 \/ (k > Len(tools) /\ HasKey(row, EventKey("assistant", turn, 0, "")))

LEMMA ToldUnknown ==
  ASSUME NEW turn \in Turns, NEW message, NEW tools \in Seq(Text), NEW n \in Nat, NEW es,
         Told(turn, message, tools, n, es),
         NEW row, row.events \in Seq(EventRow), Ordered(row), Whole(row),
         \A i \in DOMAIN row.events :
           row.events[i].key = es[1].key => row.events[i].payload = es[1].payload
  PROVE  Splits(turn, tools, es, row)
<1> DEFINE T == Len(tools)
<1> DEFINE N == Len(es)
<1> DEFINE assistant == EventKey("assistant", turn, 0, "")
<1> DEFINE Tool(i) == EventKey("tool", turn, i, tools[i])
<1> DEFINE Agent(i) == EventKey("agent", turn, i, "")
<1>1. /\ T \in Nat /\ DOMAIN tools = 1 .. T
      /\ N = 1 + T + n
  <2>1. N = 1 + T + n
    BY Zenon DEF Told
  <2> QED BY <2>1
<1>2. /\ es[1].key = assistant
      /\ es[1].payload = [message |-> message, tools |-> tools]
  BY DEF Told
<1>3. /\ DOMAIN es = 1 .. 1 + T + n
      /\ \A i \in DOMAIN es : es[i].key.turn = turn
      /\ \A i \in 2 .. 1 + T : es[i].key = Tool(i - 1) /\ es[i].key.kind = "tool"
      /\ \A i \in 2 + T .. 1 + T + n : es[i].key = Agent(i - 1 - T) /\ es[i].key.kind = "agent"
  <2>1. Layout(turn, tools, n, es)
    BY ToldKeys
  <2> QED BY <2>1, Zenon DEF Layout
<1>4. /\ \A i \in DOMAIN es : i \in Unknown(row, es) <=> ~HasKey(row, es[i].key)
      /\ Unknown(row, es) \subseteq DOMAIN es
  BY DEF Unknown
<1>5. ASSUME NEW i \in DOMAIN es, i # 1, HasKey(row, es[i].key) PROVE HasKey(row, assistant)
  <2> DEFINE key == es[i].key
  <2>1. i \in 2 .. 1 + T \/ i \in 2 + T .. 1 + T + n
    <3>1. DOMAIN es = 1 .. 1 + T + n /\ T \in Nat
      BY <1>1, <1>3
    <3> HIDE DEF T
    <3> QED BY <1>5, <3>1
  <2>2. key.kind \in {"tool", "agent"} /\ key.turn = turn /\ HasKey(row, key)
    BY <1>3, <1>5, <2>1
  <2> HIDE DEF key
  <2>3. HasKey(row, EventKey("assistant", key.turn, 0, ""))
    BY <2>2, AnswerKnown
  <2> QED BY <2>2, <2>3
<1>6. ASSUME HasKey(row, assistant) PROVE \A i \in DOMAIN tools : HasKey(row, Tool(i))
  <2>1. PICK p \in DOMAIN row.events : row.events[p].key = assistant
    BY <1>6 DEF HasKey
  <2> DEFINE e == row.events[p]
  <2>2. e.key.kind = "assistant" /\ e.key.turn = turn
    <3> DEFINE key == e.key
    <3>1. key = assistant
      BY <2>1
    <3> HIDE DEF key
    <3>2. key.kind = "assistant" /\ key.turn = turn
      BY <3>1 DEF EventKey
    <3> QED BY <3>2 DEF key
  <2>3. e.payload.tools = tools
    <3> DEFINE payload == e.payload
    <3>1. payload = [message |-> message, tools |-> tools]
      BY <1>2, <2>1
    <3> HIDE DEF payload
    <3>2. payload.tools = tools
      BY <3>1
    <3> QED BY <3>2 DEF payload
  <2>4. \A x \in DOMAIN e.payload.tools : HasKey(row, EventKey("tool", e.key.turn, x, e.payload.tools[x]))
    BY <2>2 DEF Whole
  <2> HIDE DEF e
  <2> QED BY <2>2, <2>3, <2>4
<1>7. PICK q \in Nat : \A x \in Nat \ {0} : HasKey(row, Agent(x)) <=> x <= q
  BY DEF Whole
<1> HIDE DEF T, N, assistant, Tool, Agent
<1>8. CASE ~HasKey(row, assistant)
  <2>1. \A i \in DOMAIN es : i \in Unknown(row, es)
    BY <1>2, <1>4, <1>5, <1>8
  <2>4. Unknown(row, es) = DOMAIN es
    BY <1>4, <2>1
  <2>2. Unknown(row, es) = (0 + 1) .. N
    BY <1>1, <1>3, <2>4
  <2>3. 0 \in 0 .. N
    BY <1>1
  <2> QED BY <2>2, <2>3 DEF N, Splits
<1>9. CASE HasKey(row, assistant)
  <2> DEFINE r == IF q < n THEN q ELSE n
  <2> DEFINE k == 1 + T + r
  <2>1. r \in Nat /\ r <= n /\ k \in 0 .. N /\ k > T /\ \A x \in 1 .. n : x <= q <=> x <= r
    BY <1>1, <1>7
  <2>2. \A i \in 2 .. 1 + T : i \notin Unknown(row, es)
    <3>1. \A i \in 2 .. 1 + T : i \in DOMAIN es /\ i - 1 \in DOMAIN tools
      BY <1>1, <1>3
    <3> QED BY <1>3, <1>4, <1>6, <1>9, <3>1
  <2>3. \A i \in 2 + T .. 1 + T + n : i \in Unknown(row, es) <=> i > k
    <3>1. SUFFICES ASSUME NEW i \in 2 + T .. 1 + T + n PROVE i \in Unknown(row, es) <=> i > k
      OBVIOUS
    <3>2. i \in DOMAIN es /\ i - 1 - T \in 1 .. n /\ es[i].key = Agent(i - 1 - T)
      BY <1>1, <1>3
    <3>3. i \in Unknown(row, es) <=> ~(i - 1 - T <= q)
      BY <1>4, <1>7, <3>2
    <3>4. i \in Unknown(row, es) <=> ~(i - 1 - T <= r)
      BY <2>1, <3>2, <3>3
    <3> HIDE DEF r
    <3> QED BY <1>1, <2>1, <3>4
  <2>4. 1 \notin Unknown(row, es)
    BY <1>1, <1>2, <1>3, <1>4, <1>9
  <2> HIDE DEF r
  <2>5. \A i \in DOMAIN es : i = 1 \/ i \in 2 .. 1 + T \/ i \in 2 + T .. 1 + T + n
    BY <1>1, <1>3
  <2>6. \A i \in DOMAIN es : i \in Unknown(row, es) <=> i > k
    <3>1. \A i \in DOMAIN es : i = 1 \/ i \in 2 .. 1 + T => ~(i > k)
      BY <1>1, <2>1
    <3> QED BY <2>2, <2>3, <2>4, <2>5, <3>1
  <2>7. DOMAIN es = 1 .. N
    BY <1>1, <1>3
  <2> HIDE DEF k
  <2>8. \A i : i \in Unknown(row, es) <=> i \in (k + 1) .. N
    BY <1>1, <1>4, <2>1, <2>6, <2>7
  <2>9. Unknown(row, es) = (k + 1) .. N
    BY <2>8
  <2> QED BY <1>9, <2>1, <2>9 DEF N, T, assistant, Splits
<1> QED BY <1>8, <1>9

(* The message that a turn answers is there.                                *)
Asked(row, turn) == HasKey(row, EventKey("user", <<turn[1], "">>, 0, ""))

LEMMA ToldFits ==
  ASSUME NEW turn \in Turns, NEW message, NEW tools \in Seq(Text), NEW n \in Nat, NEW es,
         Told(turn, message, tools, n, es),
         NEW row, row.events \in Seq(EventRow), Ordered(row), Whole(row),
         \A i \in DOMAIN row.events :
           row.events[i].key = es[1].key => row.events[i].payload = es[1].payload,
         Asked(row, turn)
  PROVE  \E k \in 0 .. Len(es) : Fits(row, es, k)
<1> DEFINE T == Len(tools)
<1> DEFINE N == Len(es)
<1> DEFINE assistant == EventKey("assistant", turn, 0, "")
<1>0. Splits(turn, tools, es, row)
  BY ToldUnknown
<1>1. PICK k \in 0 .. Len(es) :
        /\ Unknown(row, es) = (k + 1) .. Len(es)
        /\ k = 0 \/ (k > T /\ HasKey(row, assistant))
  BY <1>0, Zenon DEF Splits
<1>2. N = 1 + T + n
  BY Zenon DEF Told
<1>3. T \in Nat
  OBVIOUS
<1>4. /\ DOMAIN es = 1 .. 1 + T + n
      /\ es[1].key.kind = "assistant"
      /\ \A i \in DOMAIN es : es[i].key.turn = turn
      /\ \A i \in 2 .. 1 + T : es[i].key.kind = "tool"
      /\ \A i \in 2 + T .. 1 + T + n : es[i].key.kind = "agent"
  <2>1. Layout(turn, tools, n, es)
    BY ToldKeys
  <2> QED BY <2>1, Zenon DEF Layout
<1>5. \A i, j \in DOMAIN es : es[i].key = es[j].key => i = j
  BY ToldKeys
<1>6. es[1].key = assistant
  BY Zenon DEF Told
<1> HIDE DEF T, N, assistant
<1>7. k \in Nat /\ k <= N /\ DOMAIN es = 1 .. N
  BY <1>1, <1>2, <1>3, <1>4 DEF N
<1>12. (k + 1) .. N \subseteq DOMAIN es
  <2>1. k \in Nat /\ N \in Nat /\ k <= N
    BY <1>2, <1>3, <1>7
  <2>2. (k + 1) .. N \subseteq 1 .. N
    BY <2>1
  <2> QED BY <1>7, <2>2
<1>8. ASSUME NEW j \in (k + 1) .. N
      PROVE  /\ j \in DOMAIN es /\ es[j].key.turn = turn
             /\ es[j].key.kind \in {"tool", "agent"} =>
                  HasKey(row, assistant) \/ \E l \in (k + 1) .. (j - 1) : es[l].key = assistant
             /\ es[j].key.kind = "tool" =>
                  j - 1 \in (k + 1) .. N /\ es[j - 1].key.turn = es[j].key.turn
  <2>1. j \in DOMAIN es /\ es[j].key.turn = turn
    BY <1>4, <1>12
  <2>2. CASE k = 0
    <3>1. es[j].key.kind \in {"tool", "agent"} => j # 1
      BY <1>4
    <3>2. j # 1 => 1 \in (k + 1) .. (j - 1) /\ j - 1 \in (k + 1) .. N
      <4>1. N \in Nat /\ j \in 1 .. N /\ k = 0
        BY <1>2, <1>3, <2>2
      <4> QED BY <4>1
    <3>3. \A i \in (k + 1) .. N : es[i].key.turn = turn
      BY <1>4, <1>12
    <3> QED BY <1>6, <2>1, <3>1, <3>2, <3>3
  <2>3. CASE k > T /\ HasKey(row, assistant)
    <3>1. j \in 2 + T .. 1 + T + n
      BY <1>2, <1>3, <1>7, <2>3
    <3> QED BY <1>4, <2>1, <2>3, <3>1
  <2> QED BY <1>1, <2>2, <2>3
<1>9. \A j \in (k + 1) .. Len(es) : es[j].key.kind \in {"tool", "agent"} =>
        \/ HasKey(row, EventKey("assistant", es[j].key.turn, 0, ""))
        \/ \E l \in (k + 1) .. (j - 1) : es[l].key = EventKey("assistant", es[j].key.turn, 0, "")
  <2>1. \A j \in (k + 1) .. N : EventKey("assistant", es[j].key.turn, 0, "") = assistant
    BY <1>8 DEF assistant
  <2> QED BY <1>8, <2>1 DEF N
<1>10. \A j \in (k + 1) .. Len(es) : es[j].key.kind = "tool" =>
         j - 1 \in (k + 1) .. Len(es) /\ es[j - 1].key.turn = es[j].key.turn
  BY <1>8 DEF N
<1>11. \A j \in (k + 1) .. Len(es) : HasKey(row, EventKey("user", <<es[j].key.turn[1], "">>, 0, ""))
  BY <1>8 DEF N, Asked
<1> QED BY <1>1, <1>5, <1>9, <1>10, <1>11 DEF Fits

(* The mission after a turn was persisted.                                  *)
StoredArtifacts(answer) == {StoredAuthority(a) : a \in answer.artifacts}

LEMMA StoredTypes ==
  ASSUME NEW answer \in TurnOutput
  PROVE  /\ StoredArtifacts(answer) \subseteq ArtifactRow
         /\ \A a \in StoredArtifacts(answer) :
              a.by = RootAgent /\ (a.authority \in {"OBSERVED", "VERIFIED"} => a.sources # {})
<1>1. SUFFICES ASSUME NEW a \in answer.artifacts
               PROVE  /\ StoredAuthority(a) \in ArtifactRow /\ StoredAuthority(a).by = RootAgent
                      /\ StoredAuthority(a).authority \in {"OBSERVED", "VERIFIED"} =>
                           StoredAuthority(a).sources # {}
  BY DEF StoredArtifacts
<1>2. a \in AnswerArtifact
  BY DEF TurnOutput
<1>3. CASE a.authority \in {"OBSERVED", "VERIFIED"} /\ a.sources = {}
  <2>1. StoredAuthority(a) = [a EXCEPT !.authority = "INFERRED"]
    BY <1>3 DEF StoredAuthority
  <2> QED BY <1>2, <2>1 DEF AnswerArtifact, ArtifactRow, Writers, Text
<1>4. CASE ~(a.authority \in {"OBSERVED", "VERIFIED"} /\ a.sources = {})
  <2>1. StoredAuthority(a) = a
    BY <1>4 DEF StoredAuthority
  <2> QED BY <1>2, <1>4, <2>1 DEF AnswerArtifact, ArtifactRow, Writers
<1> QED BY <1>3, <1>4

LEMMA AnsweredRow ==
  ASSUME NEW row \in MissionRow, NEW answer \in TurnOutput, NEW es
  PROVE  \E mid \in MissionRow, tasks \in Seq(Text) :
           /\ mid.events = row.events /\ mid.actor = row.actor /\ mid.mode = row.mode
           /\ mid.artifacts = row.artifacts /\ mid.version = row.version + 1
           /\ mid.turns_left = (IF row.turns_left = 0 THEN 0 ELSE row.turns_left - 1)
           /\ mid.checkpoint = row.checkpoint /\ mid.checkpoints = row.checkpoints
           /\ Answered(row, es, answer)
              = WithArtifacts(WithTasks(Appended(mid, es), tasks), StoredArtifacts(answer))
<1> DEFINE left == IF row.turns_left = 0 THEN 0 ELSE row.turns_left - 1
<1> DEFINE mid == [row EXCEPT !.state = answer.state, !.version = @ + 1,
                              !.stop_reason = answer.stop_reason, !.turns_left = left]
<1>0. left \in Nat /\ row.version + 1 \in Nat \ {0}
  BY DEF MissionRow
<1>1. answer.state \in Text /\ answer.stop_reason \in Text /\ answer.tasks \in Seq(Text)
  BY DEF TurnOutput
<1>2. /\ mid \in MissionRow
      /\ mid.events = row.events /\ mid.actor = row.actor /\ mid.mode = row.mode
      /\ mid.artifacts = row.artifacts /\ mid.version = row.version + 1
      /\ mid.turns_left = left
      /\ mid.checkpoint = row.checkpoint /\ mid.checkpoints = row.checkpoints
  <2> HIDE DEF left
  <2> QED BY <1>0, <1>1 DEF MissionRow
<1>3. Answered(row, es, answer)
      = WithArtifacts(WithTasks(Appended(mid, es), answer.tasks), StoredArtifacts(answer))
  BY DEF Answered, StoredArtifacts
<1> HIDE DEF mid
<1> QED BY <1>1, <1>2, <1>3

(* A turn that was persisted: the answer's events behind the history, one   *)
(* checkpoint, one version and one model turn.                              *)
LEMMA PersistedSound ==
  ASSUME NEW m, NEW row \in MissionRow, Sound(m, row), NEW turn \in Turns, Asked(row, turn),
         NEW answer \in TurnOutput, NEW es, es = TurnEvents(turn, answer),
         Persistable(row, es, answer), NEW row2, row2 = Persisted(row, es, answer)
  PROVE  /\ row2 \in MissionRow /\ Sound(m, row2)
         /\ row2.actor = row.actor /\ row2.mode = row.mode
         /\ row2.artifacts = row.artifacts \cup StoredArtifacts(answer)
         /\ \A key : HasKey(row, key) => HasKey(row2, key)
<1> DEFINE n == Len(answer.events)
<1>1. /\ Told(turn, answer.message, answer.tools, n, es)
      /\ answer.tools \in Seq(Text) /\ n \in Nat /\ answer.message \in SUBSET Refs
  BY TurnEventsTold DEF TurnOutput
<1>2. Ordered(row) /\ Whole(row) /\ Own(m, row) /\ Counted(row) /\ row.events \in Seq(EventRow)
  BY DEF Sound, MissionRow
<1>3. es \in Seq(EventRow) /\ 1 \in DOMAIN es
  <2>1. es \in Seq(EventRow) /\ Len(es) = 1 + Len(answer.tools) + n
    BY <1>1 DEF Told
  <2>2. Len(answer.tools) \in Nat /\ n \in Nat
    BY <1>1
  <2>3. DOMAIN es = 1 .. Len(es)
    BY <2>1
  <2> HIDE DEF n
  <2>4. Len(es) \in Nat /\ Len(es) >= 1
    BY <2>1, <2>2
  <2> QED BY <2>1, <2>3, <2>4
<1>4. \A i \in DOMAIN row.events :
        row.events[i].key = es[1].key => row.events[i].payload = es[1].payload
  BY <1>3 DEF Persistable, Conflicts
<1>5. Len(Answered(row, es, answer).events) \notin row.checkpoints
  BY AnsweredRow DEF Persistable, Uncheckpointed, Answered, WithArtifacts, WithTasks, Appended, MissionRow
<1> HIDE DEF n
<1>6. PICK k \in 0 .. Len(es) : Fits(row, es, k)
  BY <1>1, <1>2, <1>4, ToldFits
<1>7. PICK mid \in MissionRow, tasks \in Seq(Text) :
        /\ mid.events = row.events /\ mid.actor = row.actor /\ mid.mode = row.mode
        /\ mid.artifacts = row.artifacts /\ mid.version = row.version + 1
        /\ mid.turns_left = (IF row.turns_left = 0 THEN 0 ELSE row.turns_left - 1)
        /\ mid.checkpoint = row.checkpoint /\ mid.checkpoints = row.checkpoints
        /\ Answered(row, es, answer)
           = WithArtifacts(WithTasks(Appended(mid, es), tasks), StoredArtifacts(answer))
  BY AnsweredRow
<1>8. /\ Fits(mid, es, k) /\ Ordered(mid) /\ Whole(mid) /\ Own(m, mid)
      /\ \A key : HasKey(mid, key) <=> HasKey(row, key)
  BY <1>2, <1>6, <1>7, SameEvents
<1>9. Complete(es)
  BY <1>1, ToldComplete
<1>10. \A i \in DOMAIN es : es[i].key.kind \notin {"user", "decision"}
  <2>1. Layout(turn, answer.tools, n, es)
    BY <1>1, ToldKeys
  <2> QED BY <2>1 DEF Layout, TurnKinds
<1> DEFINE app == Appended(mid, es)
<1>11. /\ Ordered(app) /\ Whole(app) /\ Own(m, app)
       /\ \A key : HasKey(app, key) <=> (HasKey(mid, key) \/ \E j \in DOMAIN es : es[j].key = key)
  BY <1>3, <1>6, <1>8, <1>9, <1>10, AppendedSound
<1>12. Unknown(mid, es) = (k + 1) .. Len(es)
  BY <1>8 DEF Fits
<1>13. /\ app \in MissionRow
       /\ app.actor = mid.actor /\ app.mode = mid.mode /\ app.version = mid.version
       /\ app.turns_left = mid.turns_left /\ app.checkpoint = mid.checkpoint
       /\ app.checkpoints = mid.checkpoints /\ app.artifacts = mid.artifacts
       /\ Continued(mid.events, es, k, app.events)
  BY <1>3, <1>6, <1>7, <1>12, AppendedRow
<1>20. /\ DecisionsIn(app) = DecisionsIn(row) /\ DecidedBy(app, created)
       /\ Len(row.events) <= Len(app.events)
  <2>1. Continued(row.events, es, k, app.events) /\ DecidedBy(row, created)
    BY <1>7, <1>13 DEF Sound
  <2> HIDE DEF app
  <2> QED BY <1>2, <1>3, <1>6, <1>10, <2>1, DecisionsAfter
<1> HIDE DEF app
<1> DEFINE ans == Answered(row, es, answer)
<1>14. ans = WithArtifacts(WithTasks(app, tasks), StoredArtifacts(answer))
  BY <1>7 DEF app
<1>15. /\ ans \in MissionRow /\ ans.events = app.events
       /\ ans.actor = app.actor /\ ans.mode = app.mode /\ ans.version = app.version
       /\ ans.turns_left = app.turns_left /\ ans.checkpoints = app.checkpoints
       /\ ans.artifacts = app.artifacts \cup StoredArtifacts(answer)
  <2>1. StoredArtifacts(answer) \subseteq ArtifactRow
    BY StoredTypes
  <2>2. tasks \in Seq(Text) /\ app.tasks \in Seq(Text)
    BY <1>7, <1>13 DEF MissionRow
  <2>3. app.tasks \o tasks \in Seq(Text)
    BY <2>2
  <2> QED BY <1>13, <1>14, <2>1, <2>3 DEF WithArtifacts, WithTasks, MissionRow
<1>16. row2 = Checkpointed(ans) /\ Len(ans.events) \notin ans.checkpoints
  BY <1>5, <1>7, <1>13, <1>15 DEF Persisted
<1> HIDE DEF ans
<1>17. /\ row2 \in MissionRow /\ row2.events = ans.events
       /\ row2.actor = ans.actor /\ row2.mode = ans.mode /\ row2.version = ans.version
       /\ row2.turns_left = ans.turns_left /\ row2.artifacts = ans.artifacts
       /\ row2.checkpoint = Len(row2.events)
       /\ row2.checkpoints = ans.checkpoints \cup {Len(row2.events)}
  <2>1. ans \in MissionRow
    BY <1>15
  <2>2. ans.events \in Seq(EventRow)
    BY <2>1 DEF MissionRow
  <2> DEFINE size == Len(ans.events)
  <2>3. size \in Nat
    BY <2>2
  <2>4. row2 = [ans EXCEPT !.checkpoint = size, !.checkpoints = @ \cup {size}]
    BY <1>16 DEF Checkpointed
  <2>5. row2.events = ans.events
    BY <2>1, <2>4 DEF MissionRow
  <2>6. size = Len(row2.events)
    BY <2>5
  <2> HIDE DEF size
  <2>7. /\ row2 \in MissionRow
        /\ row2.actor = ans.actor /\ row2.mode = ans.mode /\ row2.version = ans.version
        /\ row2.turns_left = ans.turns_left /\ row2.artifacts = ans.artifacts
        /\ row2.checkpoint = size /\ row2.checkpoints = ans.checkpoints \cup {size}
    <3> DEFINE points == ans.checkpoints \cup {size}
    <3>1. points \in SUBSET Nat
      BY <2>1, <2>3 DEF MissionRow
    <3>2. row2 = [ans EXCEPT !.checkpoint = size, !.checkpoints = points]
      BY <2>4
    <3> HIDE DEF points
    <3>3. row2 \in MissionRow
      BY <2>1, <2>3, <3>1, <3>2 DEF MissionRow
    <3>4. /\ row2.actor = ans.actor /\ row2.mode = ans.mode /\ row2.version = ans.version
          /\ row2.turns_left = ans.turns_left /\ row2.artifacts = ans.artifacts
          /\ row2.checkpoint = size /\ row2.checkpoints = points
      BY <2>1, <3>2 DEF MissionRow
    <3> QED BY <3>3, <3>4 DEF points
  <2> QED BY <2>5, <2>6, <2>7
<1>18. /\ Ordered(row2) /\ Whole(row2) /\ Own(m, row2)
       /\ \A key : HasKey(row2, key) <=> HasKey(app, key)
       /\ DecisionsIn(row2) = DecisionsIn(row) /\ DecidedBy(row2, created)
  BY <1>11, <1>15, <1>17, <1>20, SameEvents
<1>19. Counted(row2)
  <2>1. \A i \in DOMAIN row2.events : i <= row2.checkpoint
    <3>1. row2.events \in Seq(EventRow)
      BY <1>17 DEF MissionRow
    <3> QED BY <1>17, <3>1
  <2>2. row2.checkpoint <= Len(row2.events)
    BY <1>17 DEF MissionRow
  <2> DEFINE turns == row.checkpoints \ DecisionsIn(row)
             last == Len(row2.events)
  <2>3. /\ IsFiniteSet(row.checkpoints) /\ row.version = 1 + Cardinality(turns)
        /\ DecisionsIn(row) \subseteq row.checkpoints
        /\ \A i \in row.checkpoints : i <= row.checkpoint
        /\ row.checkpoint <= Len(row.events)
        /\ row.turns_left = IF row.version > Budget THEN 0 ELSE Budget + 1 - row.version
    BY <1>2 DEF Counted
  <2>4. row2.checkpoints = row.checkpoints \cup {last} /\ last \notin row.checkpoints
    BY <1>7, <1>13, <1>15, <1>16, <1>17
  <2>5. row2.checkpoints \ DecisionsIn(row2) = turns \cup {last} /\ last \notin turns
    BY <1>18, <2>3, <2>4
  <2>6. row2.version = row.version + 1 /\ row.version \in Nat /\ row.turns_left \in Nat
        /\ row2.turns_left = (IF row.turns_left = 0 THEN 0 ELSE row.turns_left - 1)
    BY <1>7, <1>13, <1>15, <1>17 DEF MissionRow
  <2> HIDE DEF last
  <2>7. IsFiniteSet(turns) /\ Cardinality(turns) \in Nat
    BY <2>3, FS_Subset, FS_CardinalityType
  <2> HIDE DEF turns
  <2>8. row2.version = 1 + Cardinality(row2.checkpoints \ DecisionsIn(row2))
    <3>1. IsFiniteSet(turns) /\ last \notin turns
      BY <2>5, <2>7
    <3>2. Cardinality(turns \cup {last}) = Cardinality(turns) + 1
      BY <3>1, FS_AddElement
    <3>3. Cardinality(row2.checkpoints \ DecisionsIn(row2)) = Cardinality(turns) + 1
      BY <2>5, <3>2
    <3> QED BY <2>3, <2>6, <2>7, <3>3
  <2>9. row2.turns_left = IF row2.version > Budget THEN 0 ELSE Budget + 1 - row2.version
    <3>1. Budget \in Nat
      BY WorkspaceAssumption
    <3> QED BY <2>3, <2>6, <3>1
  <2>10. DecisionsIn(row2) \subseteq row2.checkpoints /\ IsFiniteSet(row2.checkpoints)
    <3>1. IsFiniteSet(row.checkpoints \cup {last})
      BY <2>3, FS_AddElement
    <3> QED BY <1>18, <2>3, <2>4, <3>1
  <2>11. \A i \in row2.checkpoints : i <= row2.checkpoint
    <3>0. row2.events \in Seq(EventRow) /\ row.checkpoint \in Nat /\ row.checkpoints \subseteq Nat
      BY <1>17 DEF MissionRow
    <3>1. Len(row.events) \in Nat /\ last \in Nat
      BY <1>2, <3>0 DEF last
    <3>2. Len(row.events) <= last /\ row2.checkpoint = last
      BY <1>15, <1>17, <1>20 DEF last
    <3> QED BY <2>3, <2>4, <3>0, <3>1, <3>2
  <2> QED BY <2>1, <2>2, <2>8, <2>9, <2>10, <2>11 DEF Counted
<1> QED BY <1>7, <1>8, <1>11, <1>13, <1>15, <1>17, <1>18, <1>19 DEF Sound

-----------------------------------------------------------------------------
(* create_purchase_request: the decision behind the history, and one        *)
(* checkpoint, which counts for no turn.                                    *)
LEMMA ProposedSound ==
  ASSUME NEW m, NEW row \in MissionRow, Sound(m, row), NEW d \in Decisions, d \notin created,
         NEW row2, row2 = Proposed(row, d)
  PROVE  /\ row2 \in MissionRow
         /\ Ordered(row2) /\ Whole(row2) /\ Own(m, row2) /\ Counted(row2)
         /\ DecidedBy(row2, created \cup {d})
         /\ row2.actor = row.actor /\ row2.mode = row.mode
         /\ row2.artifacts = row.artifacts \cup {PurchaseProposal(d)}
         /\ HasKey(row2, DecisionCreated(d).key)
         /\ \A key : HasKey(row, key) => HasKey(row2, key)
<1> DEFINE e == DecisionCreated(d)
           es == << e >>
           app == Appended(row, es)
           n == Len(row.events)
<1>0. /\ Ordered(row) /\ Whole(row) /\ Own(m, row) /\ Counted(row) /\ DecidedBy(row, created)
      /\ row.events \in Seq(EventRow) /\ n \in Nat /\ DOMAIN row.events = 1 .. n
  BY DEF Sound, MissionRow
<1>1. e \in EventRow /\ e.key.kind = "decision"
  BY DEF DecisionCreated, Event, EventKey, EventRow, Turns, Suffixes, Text
<1>2. ~HasKey(row, e.key)
  <2>1. \A x : DecisionCreated(x).key = e.key => x = d
    <3>1. \A x : DecisionCreated(x).key.turn = <<x, "">>
      BY DEF DecisionCreated, Event, EventKey
    <3> SUFFICES ASSUME NEW x, DecisionCreated(x).key = e.key PROVE x = d
      OBVIOUS
    <3>2. <<x, "">> = <<d, "">>
      BY <3>1
    <3> QED BY <3>2
  <2>2. ASSUME NEW i \in DOMAIN row.events, row.events[i].key = e.key PROVE FALSE
    <3>1. i \in DecisionsIn(row)
      BY <1>1, <2>2 DEF DecisionsIn
    <3> QED BY <1>0, <2>1, <2>2, <3>1 DEF DecidedBy
  <2> QED BY <2>2 DEF HasKey
<1>3. es \in Seq(EventRow) /\ Len(es) = 1 /\ DOMAIN es = {1} /\ es[1] = e /\ 0 \in 0 .. Len(es)
  BY <1>1
<1> HIDE DEF e, es
<1>4. Unknown(row, es) = (0 + 1) .. Len(es)
  BY <1>2, <1>3 DEF Unknown
<1>5. Fits(row, es, 0)
  <2>1. \A j \in DOMAIN es : j = 1 /\ es[j].key.kind = "decision"
    BY <1>1, <1>3
  <2>2. (0 + 1) .. Len(es) \subseteq DOMAIN es
    BY <1>3
  <2> QED BY <1>4, <2>1, <2>2 DEF Fits, TurnKinds
<1>6. Complete(es)
  <2>1. \A t, x : ~(\E j \in DOMAIN es : es[j].key = EventKey("agent", t, x, ""))
    <3>1. \A t, x : EventKey("agent", t, x, "").kind = "agent"
      BY DEF EventKey
    <3>2. \A j \in DOMAIN es : es[j].key.kind # "agent"
      BY <1>1, <1>3
    <3> QED BY <3>1, <3>2, Zenon
  <2>2. 0 \in Nat /\ \A x \in Nat \ {0} : ~(x <= 0)
    OBVIOUS
  <2>3. \A t \in Turns : \E p \in Nat : \A x \in Nat \ {0} :
          (\E j \in DOMAIN es : es[j].key = EventKey("agent", t, x, "")) <=> x <= p
    BY <2>1, <2>2
  <2> QED BY <1>1, <1>3, <2>3 DEF Complete
<1>7. \A i \in DOMAIN es : es[i].key.kind # "user"
  BY <1>1, <1>3
<1>8. /\ Ordered(app) /\ Whole(app) /\ Own(m, app)
      /\ \A key : HasKey(app, key) <=> (HasKey(row, key) \/ \E j \in DOMAIN es : es[j].key = key)
  BY <1>0, <1>3, <1>5, <1>6, <1>7, AppendedSound
<1>9. /\ app \in MissionRow /\ Continued(row.events, es, 0, app.events)
      /\ app.actor = row.actor /\ app.mode = row.mode /\ app.version = row.version
      /\ app.turns_left = row.turns_left /\ app.checkpoint = row.checkpoint
      /\ app.checkpoints = row.checkpoints /\ app.artifacts = row.artifacts
  BY <1>3, <1>4, AppendedRow
<1> HIDE DEF app
<1>10. /\ app.events \in Seq(EventRow) /\ Len(app.events) = n + 1
       /\ DOMAIN app.events = 1 .. n + 1
       /\ \A i \in 1 .. n : app.events[i] = row.events[i]
       /\ app.events[n + 1] = e
  <2>1. /\ app.events \in Seq(EventRow) /\ Len(app.events) = n + (1 - 0)
        /\ \A i \in 1 .. n : app.events[i] = row.events[i]
        /\ \A i \in 1 .. 1 - 0 : app.events[n + i] = es[0 + i]
    BY <1>3, <1>9 DEF Continued
  <2>2. app.events[n + 1] = es[1]
    BY <2>1
  <2>3. n + (1 - 0) = n + 1
    BY <1>0
  <2> HIDE DEF n
  <2> QED BY <1>0, <1>3, <2>1, <2>2, <2>3
<1> HIDE DEF n
<1>11. /\ row2 \in MissionRow /\ row2.events = app.events
       /\ row2.actor = row.actor /\ row2.mode = row.mode /\ row2.version = row.version
       /\ row2.turns_left = row.turns_left
       /\ row2.artifacts = row.artifacts \cup {PurchaseProposal(d)}
       /\ row2.checkpoint = n + 1 /\ row2.checkpoints = row.checkpoints \cup {n + 1}
  <2> DEFINE arts == app.artifacts \cup {PurchaseProposal(d)}
             points == app.checkpoints \cup {n + 1}
             last == n + 1
  <2>1. PurchaseProposal(d) \in ArtifactRow
    BY WorkspaceAssumption DEF PurchaseProposal, ArtifactRow, Writers, Text
  <2>2. arts \in SUBSET ArtifactRow /\ points \in SUBSET Nat /\ last \in Nat
    BY <1>0, <1>9, <2>1 DEF MissionRow
  <2>3. row2 = [[app EXCEPT !.artifacts = arts] EXCEPT !.checkpoint = last, !.checkpoints = points]
    BY <1>9, <1>10 DEF Proposed, Checkpointed, WithArtifacts, app, es, e, MissionRow
  <2> HIDE DEF arts, points, last
  <2>4. /\ row2 \in MissionRow /\ row2.events = app.events
        /\ row2.actor = app.actor /\ row2.mode = app.mode /\ row2.version = app.version
        /\ row2.turns_left = app.turns_left /\ row2.artifacts = arts
        /\ row2.checkpoint = last /\ row2.checkpoints = points
    BY <1>9, <2>2, <2>3 DEF MissionRow
  <2> QED BY <1>9, <2>4 DEF arts, points, last
<1>12. /\ Ordered(row2) /\ Whole(row2) /\ Own(m, row2)
       /\ \A key : HasKey(row2, key) <=> HasKey(app, key)
  BY <1>8, <1>9, <1>11, SameEvents
<1>13. DecisionsIn(row2) = DecisionsIn(row) \cup {n + 1}
  BY <1>0, <1>1, <1>10, <1>11 DEF DecisionsIn
<1>14. DecidedBy(row2, created \cup {d})
  <2>1. \A i \in DecisionsIn(row) : i \in 1 .. n
    BY <1>0 DEF DecisionsIn
  <2> QED BY <1>0, <1>10, <1>11, <1>13, <2>1 DEF DecidedBy, e
<1>15. Counted(row2)
  <2>1. /\ DecisionsIn(row) \subseteq row.checkpoints /\ IsFiniteSet(row.checkpoints)
        /\ row.checkpoints \subseteq Nat /\ row.checkpoint \in Nat
        /\ \A i \in row.checkpoints : i <= row.checkpoint
        /\ row.checkpoint <= n
    BY <1>0 DEF Counted, MissionRow, n
  <2>2. \A i \in row.checkpoints : i <= n /\ i # n + 1
    BY <1>0, <2>1
  <2>3. row2.checkpoints \ DecisionsIn(row2) = row.checkpoints \ DecisionsIn(row)
    BY <1>11, <1>13, <2>2
  <2>4. \A i \in DOMAIN row2.events : i <= row2.checkpoint
    BY <1>0, <1>10, <1>11
  <2>5. \A i \in row2.checkpoints : i <= row2.checkpoint
    BY <1>0, <1>11, <2>1, <2>2
  <2>6. DecisionsIn(row2) \subseteq row2.checkpoints /\ IsFiniteSet(row2.checkpoints)
    BY <1>11, <1>13, <2>1, FS_AddElement
  <2>7. row2.checkpoint <= Len(row2.events)
    BY <1>0, <1>10, <1>11
  <2> QED BY <1>0, <1>11, <2>3, <2>4, <2>5, <2>6, <2>7 DEF Counted
<1>16. HasKey(row2, DecisionCreated(d).key)
  BY <1>3, <1>8, <1>12 DEF e
<1> QED BY <1>8, <1>11, <1>12, <1>14, <1>15, <1>16

-----------------------------------------------------------------------------
(* The steps of the workspace.                                              *)

LEMMA CreatedSound ==
  ASSUME NEW m, NEW actor \in {b.actor : b \in Bodies}, NEW mode \in {b.mode : b \in Bodies},
         NEW row, row = Created(actor, mode)
  PROVE  row \in MissionRow /\ Sound(m, row) /\ row.actor = actor /\ row.mode = mode
<1> DEFINE first == Event("created", <<>>, <<>>)
<1>1. first \in EventRow /\ first.key.kind = "created"
  BY DEF Event, EventKey, EventRow, Turns, Text
<1>2. Budget \in Nat
  BY WorkspaceAssumption
<1>3. row = [actor |-> actor, mode |-> mode, state |-> "ORIENTING", version |-> 1,
             turns_left |-> Budget, stop_reason |-> "none", events |-> << first >>,
             tasks |-> <<>>, artifacts |-> {}, checkpoint |-> 0, checkpoints |-> {}]
  BY DEF Created
<1> HIDE DEF first
<1>4. row \in MissionRow
  BY <1>1, <1>2, <1>3 DEF MissionRow, Text
<1>5. /\ row.events = << first >> /\ row.actor = actor /\ row.mode = mode /\ row.version = 1
      /\ row.turns_left = Budget /\ row.checkpoint = 0 /\ row.checkpoints = {}
  BY <1>3
<1>6. DOMAIN row.events = {1} /\ row.events[1] = first /\ Len(row.events) = 1
  BY <1>1, <1>5
<1>7. \A i \in DOMAIN row.events : row.events[i].key.kind = "created" /\ i = 1
  BY <1>1, <1>6
<1>8. Ordered(row) /\ Own(m, row)
  BY <1>7 DEF Ordered, Own, TurnKinds
<1>9. Whole(row)
  <2>1. \A t \in Turns : \A x \in Nat \ {0} : ~HasKey(row, EventKey("agent", t, x, ""))
    <3>1. \A t, x : EventKey("agent", t, x, "").kind = "agent"
      BY DEF EventKey
    <3>2. \A i \in DOMAIN row.events : row.events[i].key.kind # "agent"
      BY <1>7
    <3> QED BY <3>1, <3>2, Zenon DEF HasKey
  <2>2. \A x \in Nat \ {0} : ~(x <= 0)
    OBVIOUS
  <2>3. \A t \in Turns : \E q \in Nat : \A k \in Nat \ {0} :
          HasKey(row, EventKey("agent", t, k, "")) <=> k <= q
    BY <2>1, <2>2
  <2> QED BY <1>7, <2>3 DEF Whole
<1>11. DecisionsIn(row) = {}
  BY <1>7 DEF DecisionsIn
<1>10. Counted(row)
  <2>1. \A i \in DOMAIN row.events : row.events[i].key.kind \in TurnKinds => i <= row.checkpoint
    BY <1>7 DEF TurnKinds
  <2>2. row.checkpoint <= Len(row.events)
    BY <1>5, <1>6
  <2>3. /\ IsFiniteSet(row.checkpoints) /\ DecisionsIn(row) \subseteq row.checkpoints
        /\ row.checkpoints \ DecisionsIn(row) = {}
    BY <1>5, <1>11, FS_EmptySet
  <2>4. row.version = 1 + Cardinality(row.checkpoints \ DecisionsIn(row))
    BY <1>5, <2>3, FS_EmptySet
  <2>5. row.turns_left = IF row.version > Budget THEN 0 ELSE Budget + 1 - row.version
    BY <1>2, <1>5
  <2> QED BY <1>5, <2>1, <2>2, <2>3, <2>4, <2>5 DEF Counted
<1> QED BY <1>4, <1>5, <1>8, <1>9, <1>10, <1>11 DEF Sound, DecidedBy

(* What a step may do to the missions: none goes, changes hands or loses an *)
(* event, and all that there are stay sound.                                *)
HistoryKept ==
  /\ missions' \in [Missions -> MissionRow \cup {NoMission}]
  /\ \A m \in Missions : missions[m] # NoMission =>
       /\ missions'[m] # NoMission
       /\ missions'[m].actor = missions[m].actor /\ missions'[m].mode = missions[m].mode
       /\ \A key : HasKey(missions[m], key) => HasKey(missions'[m], key)
HistoryStep ==
  /\ HistoryKept
  /\ \A m \in Missions : missions'[m] # NoMission => Sound(m, missions'[m])

LEMMA UnchangedHistory ==
  ASSUME TypeOK, HistoryInv, UNCHANGED missions
  PROVE  HistoryStep
BY DEF TypeOK, HistoryInv, HistoryStep, HistoryKept

LEMMA ExistsMission ==
  ASSUME TypeOK, NEW c \in Calls
  PROVE  /\ Exists(c) <=> Mission(c) # NoMission
         /\ Exists(c) => Mission(c) \in MissionRow
<1>1. Mission(c) \in MissionRow \cup {NoMission}
  BY BodyType DEF TypeOK, Mission
<1> QED BY <1>1, MissionTypes DEF Exists

(* A mission is replaced by one that grew out of it.                        *)
LEMMA StoreStep ==
  ASSUME TypeOK, HistoryInv, NEW c \in Calls, NEW row2 \in MissionRow, Store(c, row2),
         Sound(Body(c).mission, row2),
         Exists(c) => /\ row2.actor = Mission(c).actor /\ row2.mode = Mission(c).mode
                      /\ \A key : HasKey(Mission(c), key) => HasKey(row2, key)
  PROVE  HistoryStep
<1> DEFINE n == Body(c).mission
<1>1. /\ missions' \in [Missions -> MissionRow \cup {NoMission}]
      /\ missions'[n] = row2 /\ \A m \in Missions : m # n => missions'[m] = missions[m]
  BY StoreTypes
<1>2. row2 # NoMission /\ Mission(c) = missions[n] /\ n \in Missions
  BY MissionTypes, BodyType DEF Mission
<1>3. missions[n] # NoMission => Exists(c)
  BY <1>2, ExistsMission
<1> HIDE DEF n
<1>4. Sound(n, row2)
  BY DEF n
<1> QED BY <1>1, <1>2, <1>3, <1>4 DEF HistoryStep, HistoryKept, HistoryInv

LEMMA StaysAsked ==
  ASSUME TypeOK, HistoryKept, body' = body, NEW c \in Calls, HasAsked(c)
  PROVE  HasAsked(c)'
<1> DEFINE n == Body(c).mission
<1> DEFINE key == EventKey("user", Turn(c, ""), 0, "")
<1>1. n \in Missions /\ Mission(c) = missions[n] /\ Mission(c)' = missions'[n] /\ Body(c)' = Body(c)
  BY BodyType DEF Mission, Body
<1>2. missions[n] # NoMission
  BY <1>1, ExistsMission DEF HasAsked
<1>3. HasKey(missions[n], key) /\ missions[n].actor = Body(c).actor /\ missions[n].mode = Body(c).mode
  BY <1>1 DEF HasAsked, Owns
<1>4. /\ missions'[n] # NoMission /\ missions'[n] \in MissionRow \cup {NoMission}
      /\ missions'[n].actor = missions[n].actor /\ missions'[n].mode = missions[n].mode
      /\ HasKey(missions'[n], key)
  BY <1>1, <1>2, <1>3 DEF HistoryKept
<1>5. missions'[n].version > 0
  BY <1>4, MissionTypes
<1> HIDE DEF n
<1>6. Exists(c)' /\ Owns(c)'
  BY <1>1, <1>3, <1>4, <1>5 DEF Exists, Owns
<1>7. key' = key
  BY DEF Turn
<1> QED BY <1>1, <1>4, <1>6, <1>7 DEF HasAsked

LEMMA EntryOfRoute ==
  ASSUME TypeOK, NEW c \in Calls
  PROVE  /\ Body(c).route = "LIGHT" => Entry(c) = "light"
         /\ Body(c).route = "DATAHUB" => Entry(c) = "datahub"
         /\ Body(c).route = "MARKET" => Entry(c) = "market"
         /\ Body(c).route = "GOVERNED" => Entry(c) = "find"
         /\ Body(c).route = "TASK" => Entry(c) = "agent"
         /\ Entry(c) \in {"light", "datahub", "market", "find", "agent"}
<1>1. /\ Body(c).route = "LIGHT" => Entry(c) = "light"
      /\ Body(c).route = "DATAHUB" => Entry(c) = "datahub"
      /\ Body(c).route = "MARKET" => Entry(c) = "market"
      /\ Body(c).route = "GOVERNED" => Entry(c) = "find"
      /\ Body(c).route = "TASK" => Entry(c) = "agent"
  BY DEF Entry
<1>2. Body(c).route \in {"LIGHT", "DATAHUB", "MARKET", "GOVERNED", "TASK"}
  BY BodyType
<1> QED BY <1>1, <1>2

(* What is left alone by a step of one call.                                *)
Others(c) == /\ call' \in [Calls -> CallRow]
             /\ \A d \in Calls : d # c => call'[d] = call[d]
KeepsFound(c) == /\ call'[c].run = call[c].run /\ call'[c].sources = call[c].sources
                 /\ call'[c].request = call[c].request

LEMMA AcceptStep ==
  ASSUME TypeOK, HistoryInv, NEW c \in Calls, NEW row \in MissionRow,
         Sound(Body(c).mission, row), row.actor = Body(c).actor, row.mode = Body(c).mode,
         Exists(c) => row = Mission(c), Accept(c, row), body' = body
  PROVE  /\ HistoryStep /\ HasAsked(c)'
         /\ Others(c) /\ KeepsFound(c) /\ call'[c].pc = Entry(c) /\ call'[c].round = call[c].round
         /\ missions'[Body(c).mission].artifacts = row.artifacts
         /\ \A m \in Missions : m # Body(c).mission => missions'[m] = missions[m]
<1> DEFINE row2 == PreparedFor(c, row)
<1> DEFINE n == Body(c).mission
<1>1. Store(c, row2) /\ Goto(c, Entry(c))
  BY Zenon DEF Accept, PreparedFor
<1> HIDE DEF row2
<1>2. row2 = PreparedFor(c, row)
  BY DEF row2
<1>3. /\ row2 \in MissionRow /\ Sound(Body(c).mission, row2)
      /\ row2.actor = row.actor /\ row2.mode = row.mode /\ row2.artifacts = row.artifacts
      /\ HasKey(row2, EventKey("user", Turn(c, ""), 0, ""))
      /\ \A key : HasKey(row, key) => HasKey(row2, key)
  BY <1>2, PreparedSound
<1>4. HistoryStep
  BY <1>1, <1>3, StoreStep
<1>5. /\ missions'[n] = row2 /\ \A m \in Missions : m # n => missions'[m] = missions[m]
  BY <1>1, <1>3, StoreTypes
<1>6. Entry(c) \in Working
  BY EntryOfRoute DEF Working, Governing
<1>7. Others(c) /\ KeepsFound(c) /\ call'[c].pc = Entry(c) /\ call'[c].round = call[c].round
  BY <1>1, <1>6, GotoTypes DEF Others, KeepsFound
<1>8. HasAsked(c)'
  <2>1. Mission(c)' = row2 /\ Body(c)' = Body(c)
    BY <1>5 DEF Mission, Body
  <2>2. Exists(c)' /\ Owns(c)'
    BY <1>3, <2>1, MissionTypes DEF Exists, Owns
  <2>3. EventKey("user", Turn(c, ""), 0, "")' = EventKey("user", Turn(c, ""), 0, "")
    BY DEF Turn
  <2> QED BY <1>3, <2>1, <2>2, <2>3 DEF HasAsked
<1> QED BY <1>3, <1>4, <1>5, <1>7, <1>8

(* _prepare_mission.                                                        *)
LEMMA PrepareStep ==
  ASSUME TypeOK, HistoryInv, NEW c \in Calls, PrepareMission(c) \/ CreateMission(c)
  PROVE  /\ HistoryStep /\ Others(c) /\ KeepsFound(c) /\ call'[c].round = call[c].round
         /\ call[c].pc \in {"idle", "create"}
         /\ \/ call'[c].pc \in {"create", "failed"}
            \/ call'[c].pc = Entry(c) /\ HasAsked(c)'
         /\ \A m \in Missions : missions'[m] # missions[m] =>
              \/ missions[m] # NoMission /\ missions'[m].artifacts = missions[m].artifacts
              \/ missions'[m].artifacts = {}
<1> DEFINE n == Body(c).mission
<1>1. body' = body /\ call[c].pc \in {"idle", "create"}
  BY DEF PrepareMission, CreateMission, Sent
<1>2. Mission(c) = missions[n] /\ n \in Missions
  BY BodyType DEF Mission
<1>3. CASE UNCHANGED missions /\ (Goto(c, "create") \/ Goto(c, "failed"))
  BY <1>1, <1>3, UnchangedHistory, GotoTypes DEF Others, KeepsFound
<1>4. CASE Exists(c) /\ Owns(c) /\ Accept(c, Mission(c))
  <2>1. Mission(c) \in MissionRow /\ Mission(c) # NoMission
    BY <1>4, ExistsMission
  <2>2. Sound(n, Mission(c))
    BY <1>2, <2>1 DEF HistoryInv
  <2>3. Mission(c).actor = Body(c).actor /\ Mission(c).mode = Body(c).mode
    BY <1>4 DEF Owns
  <2>4. /\ HistoryStep /\ HasAsked(c)'
        /\ Others(c) /\ KeepsFound(c) /\ call'[c].pc = Entry(c) /\ call'[c].round = call[c].round
        /\ missions'[n].artifacts = Mission(c).artifacts
        /\ \A m \in Missions : m # n => missions'[m] = missions[m]
    BY <1>1, <1>4, <2>1, <2>2, <2>3, AcceptStep
  <2> QED BY <1>1, <1>2, <2>1, <2>4
<1>5. CASE ~Exists(c) /\ Accept(c, Created(Body(c).actor, Body(c).mode))
  <2> DEFINE row == Created(Body(c).actor, Body(c).mode)
  <2>1. row \in MissionRow /\ Sound(n, row) /\ row.actor = Body(c).actor /\ row.mode = Body(c).mode
    BY BodyType, CreatedSound
  <2>2. row.artifacts = {}
    BY DEF Created
  <2>3. Accept(c, row) /\ ~Exists(c)
    BY <1>5
  <2> HIDE DEF row
  <2>4. /\ HistoryStep /\ HasAsked(c)'
        /\ Others(c) /\ KeepsFound(c) /\ call'[c].pc = Entry(c) /\ call'[c].round = call[c].round
        /\ missions'[n].artifacts = row.artifacts
        /\ \A m \in Missions : m # n => missions'[m] = missions[m]
    BY <1>1, <2>1, <2>3, AcceptStep
  <2> QED BY <1>1, <1>2, <2>2, <2>4
<1> QED BY <1>3, <1>4, <1>5 DEF PrepareMission, CreateMission

LEMMA AfterTurnType ==
  ASSUME TypeOK, NEW c \in Calls, NEW k \in CallRow, NEW k2, k2 = AfterTurn(c, k)
  PROVE  /\ k2 \in CallRow /\ k2.run = k.run /\ k2.sources = k.sources /\ k2.request = k.request
         /\ k2.turn = k.turn
         /\ \/ k2.pc = "artifact" /\ Body(c).route = "GOVERNED" /\ k2.round = k.round
            \/ k2.pc = "done" /\ k2.round = k.round
            \/ k2.pc \in {"agent", "find"} /\ Body(c).route = "TASK" /\ k.turn # "snowflake"
<1> DEFINE ready == k.ready \/ k.answer.ready
<1> DEFINE told == [k EXCEPT !.ready = ready]
<1>1. k.answer \in TurnOutput /\ k.round \in 0 .. 2
  BY DEF CallRow
<1>2. ready \in BOOLEAN
  OBVIOUS
<1>3. /\ Body(c).route = "GOVERNED" => k2 = [k EXCEPT !.pc = "artifact"]
      /\ Body(c).route # "GOVERNED" /\ (Body(c).route # "TASK" \/ k.turn = "snowflake") =>
           k2 = [k EXCEPT !.pc = "done"]
      /\ Body(c).route = "TASK" /\ k.turn # "snowflake" =>
           \/ k2 = [told EXCEPT !.pc = "agent", !.round = @ + 1] /\ k.round < 2
           \/ k2 = [told EXCEPT !.pc = Enriching(c, told)]
  BY Zenon DEF AfterTurn
<1> HIDE DEF ready
<1>4. told \in CallRow /\ told.run = k.run /\ told.sources = k.sources /\ told.request = k.request
      /\ told.turn = k.turn /\ told.round = k.round
  BY <1>2 DEF CallRow
<1>5. Enriching(c, told) \in {"find", "done"}
  BY Zenon DEF Enriching
<1>6. {"artifact", "done", "agent", "find"} \subseteq Working \cup {"done"}
  BY DEF Working, Governing
<1> HIDE DEF told
<1>7. CASE Body(c).route = "GOVERNED"
  BY <1>3, <1>6, <1>7 DEF CallRow
<1>8. CASE Body(c).route # "GOVERNED" /\ (Body(c).route # "TASK" \/ k.turn = "snowflake")
  BY <1>3, <1>6, <1>8 DEF CallRow
<1>9. ASSUME Body(c).route = "TASK", k.turn # "snowflake",
             k2 = [told EXCEPT !.pc = "agent", !.round = @ + 1], k.round < 2
      PROVE  /\ k2 \in CallRow /\ k2.run = k.run /\ k2.sources = k.sources /\ k2.request = k.request
             /\ k2.turn = k.turn /\ k2.pc = "agent"
  <2>1. k.round + 1 \in 0 .. 2
    BY <1>1, <1>9
  <2> DEFINE next == k.round + 1
  <2>2. k2 = [told EXCEPT !.pc = "agent", !.round = next]
    BY <1>4, <1>9
  <2>3. next \in 0 .. 2
    BY <2>1
  <2> HIDE DEF next
  <2> QED BY <1>4, <1>6, <2>2, <2>3 DEF CallRow
<1>10. ASSUME Body(c).route = "TASK", k.turn # "snowflake",
              k2 = [told EXCEPT !.pc = Enriching(c, told)]
       PROVE  /\ k2 \in CallRow /\ k2.run = k.run /\ k2.sources = k.sources /\ k2.request = k.request
              /\ k2.turn = k.turn /\ k2.pc \in {"find", "done"} /\ k2.round = k.round
  BY <1>4, <1>5, <1>6, <1>10 DEF CallRow
<1> QED BY <1>3, <1>7, <1>8, <1>9, <1>10

LEMMA PersistStep ==
  ASSUME TypeOK, HistoryInv, NEW c \in Calls, HasAsked(c), PersistTurn(c)
  PROVE  /\ HistoryStep /\ Others(c) /\ KeepsFound(c) /\ call'[c].turn = call[c].turn
         /\ \/ call'[c].pc = "artifact" /\ Body(c).route = "GOVERNED" /\ call'[c].round = call[c].round
            \/ call'[c].pc \in {"done", "failed"} /\ call'[c].round = call[c].round
            \/ /\ call'[c].pc \in {"agent", "find"}
               /\ \/ Body(c).route = "TASK" /\ call[c].turn # "snowflake"
                  \/ /\ call'[c].pc = "find" /\ call[c].round > 0 /\ call'[c].round = call[c].round
                     /\ ~(Body(c).route = "TASK" /\ call[c].turn = "snowflake")
         /\ \A m \in Missions : missions'[m] # missions[m] =>
              /\ missions[m] # NoMission
              /\ missions'[m].artifacts = missions[m].artifacts \cup StoredArtifacts(call[c].answer)
<1> DEFINE n == Body(c).mission
<1> DEFINE k == call[c]
<1>1. k \in CallRow /\ k.answer \in TurnOutput /\ k.turn \in Suffixes /\ k.round \in 0 .. 2
  BY DEF TypeOK, CallRow
<1>2. PICK es : /\ es = TurnEvents(Turn(c, k.turn), k.answer)
                /\ IF Persistable(Mission(c), es, k.answer)
                   THEN Store(c, Persisted(Mission(c), es, k.answer)) /\ Set(c, AfterTurn(c, k))
                   ELSE TurnFails(c) /\ UNCHANGED missions
                /\ UNCHANGED <<ledger, body, process, created>>
  BY DEF PersistTurn
<1>3. Mission(c) = missions[n] /\ n \in Missions /\ Mission(c) \in MissionRow /\ missions[n] # NoMission
  BY BodyType, ExistsMission DEF Mission, HasAsked
<1>4. Sound(n, Mission(c))
  BY <1>3 DEF HistoryInv
<1>5. Turn(c, k.turn) \in Turns /\ Asked(Mission(c), Turn(c, k.turn))
  <2>1. Turn(c, k.turn) \in Turns /\ Turn(c, k.turn)[1] = c[1]
    BY <1>1, TurnType
  <2>2. << Turn(c, k.turn)[1], "" >> = Turn(c, "")
    BY <2>1 DEF Turn
  <2> QED BY <2>1, <2>2 DEF HasAsked, Asked
<1> HIDE DEF k
<1>6. CASE Persistable(Mission(c), es, k.answer)
  <2> DEFINE row2 == Persisted(Mission(c), es, k.answer)
  <2> DEFINE k2 == AfterTurn(c, k)
  <2>1. Store(c, row2) /\ Set(c, k2)
    BY <1>2, <1>6
  <2>2. /\ row2 \in MissionRow /\ Sound(n, row2)
        /\ row2.actor = Mission(c).actor /\ row2.mode = Mission(c).mode
        /\ row2.artifacts = Mission(c).artifacts \cup StoredArtifacts(k.answer)
        /\ \A key : HasKey(Mission(c), key) => HasKey(row2, key)
    BY <1>1, <1>2, <1>3, <1>4, <1>5, <1>6, PersistedSound
  <2>3. /\ k2 \in CallRow /\ k2.run = k.run /\ k2.sources = k.sources /\ k2.request = k.request
        /\ k2.turn = k.turn
        /\ \/ k2.pc = "artifact" /\ Body(c).route = "GOVERNED" /\ k2.round = k.round
           \/ k2.pc = "done" /\ k2.round = k.round
           \/ k2.pc \in {"agent", "find"} /\ Body(c).route = "TASK" /\ k.turn # "snowflake"
    BY <1>1, AfterTurnType
  <2> HIDE DEF row2, k2
  <2>4. HistoryStep
    BY <2>1, <2>2, StoreStep
  <2>5. /\ missions'[n] = row2 /\ \A m \in Missions : m # n => missions'[m] = missions[m]
    BY <2>1, <2>2, StoreTypes
  <2>6. Others(c) /\ call'[c] = k2
    BY <2>1, <2>3, SetTypes DEF Others
  <2> QED BY <1>3, <2>2, <2>3, <2>4, <2>5, <2>6 DEF KeepsFound, k
<1>7. CASE ~Persistable(Mission(c), es, k.answer)
  <2>1. TurnFails(c) /\ UNCHANGED missions
    BY <1>2, <1>7
  <2>2. HistoryStep
    BY <2>1, UnchangedHistory
  <2>3. Enriching(c, k) \in {"find", "done"}
    BY Zenon DEF Enriching
  <2>4. PICK pc : /\ Goto(c, pc)
                  /\ \/ pc \in {"done", "failed"}
                     \/ pc = "find" /\ k.round > 0 /\ ~(Body(c).route = "TASK" /\ k.turn = "snowflake")
    BY <2>1, <2>3 DEF TurnFails, k
  <2>5. pc \in Working \cup {"done", "failed"}
    BY <2>4 DEF Working, Governing
  <2>6. Others(c) /\ KeepsFound(c) /\ call'[c].pc = pc /\ call'[c].turn = k.turn
        /\ call'[c] = [call[c] EXCEPT !.pc = pc]
    BY <2>4, <2>5, GotoTypes DEF Others, KeepsFound, k
  <2>7. call'[c].round = k.round
    BY <1>1, <2>6 DEF CallRow, k
  <2> QED BY <2>1, <2>2, <2>4, <2>6, <2>7 DEF k
<1> QED BY <1>6, <1>7

(* A step of a call that leaves the ledger alone.                           *)
MovesTo(c) ==
  /\ Others(c) /\ KeepsFound(c)
  /\ call'[c].round = call[c].round \/ Body(c).route = "TASK"
  /\ \/ call'[c].pc \in {"done", "failed"}
     \/ call[c].pc \in {"idle", "create"} /\ call'[c].pc \in {"create", Entry(c)}
     \/ /\ call[c].pc \in {"light", "datahub", "market", "running"}
        /\ call'[c].pc = "persist" /\ call'[c].turn # "snowflake"
     \/ call[c].pc = "agent" /\ call'[c].pc = "running"
     \/ call[c].pc = "running" /\ call'[c].pc \in {"running", "find"}
     \/ /\ call[c].pc = "persist" /\ call'[c].turn = call[c].turn
        /\ \/ call'[c].pc = "artifact" /\ Body(c).route = "GOVERNED"
           \/ /\ call'[c].pc \in {"agent", "find"}
              /\ Body(c).route = "TASK" /\ call[c].turn # "snowflake"
           \/ /\ call'[c].pc = "find" /\ call[c].round > 0
              /\ ~(Body(c).route = "TASK" /\ call[c].turn = "snowflake")
     \/ call[c].pc = "decided" /\ call'[c].pc = "artifact"
     \/ call[c].pc \in {"decided", "artifact"} /\ call'[c].pc = "persist" /\ call'[c].turn = "snowflake"

LEMMA GotoMoves ==
  ASSUME TypeOK, NEW c \in Calls, NEW pc \in Working \cup {"create", "done", "failed"}, Goto(c, pc)
  PROVE  /\ Others(c) /\ KeepsFound(c) /\ call'[c].pc = pc /\ call'[c].round = call[c].round
         /\ call'[c].turn = call[c].turn
BY GotoTypes DEF Others, KeepsFound

LEMMA AnswerMoves ==
  ASSUME TypeOK, NEW c \in Calls, NEW suffix \in Suffixes, NEW answer \in TurnOutput,
         Answer(c, suffix, answer)
  PROVE  /\ Others(c) /\ KeepsFound(c) /\ call'[c].pc = "persist" /\ call'[c].turn = suffix
         /\ call'[c].round = call[c].round
BY AnswerTypes DEF Others, KeepsFound

(* The answers that the service gives itself.                               *)
LEMMA OwnAnswerTypes ==
  ASSUME TypeOK
  PROVE  /\ [NoAnswer EXCEPT !.state = "ORIENTING", !.stop_reason = "LIGHTWEIGHT_REPLY"] \in TurnOutput
         /\ [NoAnswer EXCEPT !.state = "SYNTHESIZING", !.tools = <<"evaluate_datahub_fit">>,
               !.stop_reason = "DATAHUB_FIT_DECISION_READY",
               !.artifacts = {[kind |-> "cited_decision", authority |-> "VERIFIED",
                               sources |-> {"datahub"}, run |-> ProofRunId, by |-> RootAgent]}] \in TurnOutput
         /\ [NoAnswer EXCEPT !.message = Published \cup discovered, !.state = "SYNTHESIZING",
               !.tools = <<"search_published_products">>,
               !.stop_reason = "SIRA_MARKETPLACE_CANDIDATES_READY",
               !.artifacts = {[kind |-> "candidate_set", authority |-> "OBSERVED",
                               sources |-> discovered, run |-> <<>>, by |-> RootAgent]}] \in TurnOutput
         /\ Governed \in TurnOutput
<1>1. NoAnswer \in TurnOutput
  BY OutputTypes
<1>2. ASSUME NEW state \in Text, NEW reason \in Text
      PROVE  [NoAnswer EXCEPT !.state = state, !.stop_reason = reason] \in TurnOutput
  BY <1>1 DEF TurnOutput
<1>3. ASSUME NEW state \in Text, NEW reason \in Text, NEW tools \in Seq(Text)
      PROVE  [NoAnswer EXCEPT !.state = state, !.tools = tools, !.stop_reason = reason] \in TurnOutput
  BY <1>1 DEF TurnOutput
<1>4. ASSUME NEW state \in Text, NEW reason \in Text, NEW tools \in Seq(Text),
             NEW artifacts \in SUBSET AnswerArtifact
      PROVE  [NoAnswer EXCEPT !.state = state, !.tools = tools, !.stop_reason = reason,
                              !.artifacts = artifacts] \in TurnOutput
  BY <1>1 DEF TurnOutput
<1>5. ASSUME NEW state \in Text, NEW reason \in Text, NEW tools \in Seq(Text),
             NEW artifacts \in SUBSET AnswerArtifact, NEW message \in SUBSET Refs
      PROVE  [NoAnswer EXCEPT !.message = message, !.state = state, !.tools = tools,
                              !.stop_reason = reason, !.artifacts = artifacts] \in TurnOutput
  BY <1>1 DEF TurnOutput
<1>6. Published \cup discovered \in SUBSET Refs /\ discovered \in SUBSET Refs /\ "datahub" \in Refs
  BY WorkspaceAssumption DEF TypeOK
<1>7. /\ {[kind |-> "cited_decision", authority |-> "VERIFIED", sources |-> {"datahub"},
           run |-> ProofRunId, by |-> RootAgent]}
         \in SUBSET AnswerArtifact
      /\ {[kind |-> "candidate_set", authority |-> "OBSERVED", sources |-> discovered, run |-> <<>>, by |-> RootAgent]}
         \in SUBSET AnswerArtifact
  BY <1>6 DEF AnswerArtifact, Text
<1>8. /\ <<"evaluate_datahub_fit">> \in Seq(Text) /\ <<"search_published_products">> \in Seq(Text)
      /\ <<"evaluate_cited_decision">> \in Seq(Text)
  BY DEF Text
<1>9. {"DATAHUB_FIT_DECISION_READY", "SIRA_MARKETPLACE_CANDIDATES_READY", "ORIENTING",
       "LIGHTWEIGHT_REPLY", "SYNTHESIZING", "GOVERNED_DECISION_READY"} \subseteq Text
  BY DEF Text
<1>10. [NoAnswer EXCEPT !.state = "ORIENTING", !.stop_reason = "LIGHTWEIGHT_REPLY"] \in TurnOutput
  BY <1>2, <1>9
<1>11. Governed \in TurnOutput
  BY <1>3, <1>8, <1>9 DEF Governed
<1>12. [NoAnswer EXCEPT !.state = "SYNTHESIZING", !.tools = <<"evaluate_datahub_fit">>,
          !.stop_reason = "DATAHUB_FIT_DECISION_READY",
          !.artifacts = {[kind |-> "cited_decision", authority |-> "VERIFIED",
                          sources |-> {"datahub"}, run |-> ProofRunId, by |-> RootAgent]}] \in TurnOutput
  BY <1>4, <1>7, <1>8, <1>9
<1>13. [NoAnswer EXCEPT !.message = Published \cup discovered, !.state = "SYNTHESIZING",
          !.tools = <<"search_published_products">>,
          !.stop_reason = "SIRA_MARKETPLACE_CANDIDATES_READY",
          !.artifacts = {[kind |-> "candidate_set", authority |-> "OBSERVED",
                          sources |-> discovered, run |-> <<>>, by |-> RootAgent]}] \in TurnOutput
  BY <1>5, <1>6, <1>7, <1>8, <1>9
<1> QED BY <1>10, <1>11, <1>12, <1>13

(* The steps outside the repository and Snowflake.                          *)
Quiet(c) ==
  \/ LightweightReply(c) \/ DatahubFit(c) \/ MarketplaceDiscovery(c) \/ StartAgent(c)
  \/ AgentAnswers(c) \/ AgentRefused(c) \/ AgentUnavailable(c) \/ DecisionFails(c) \/ Decided(c)

LEMMA QuietMoves ==
  ASSUME TypeOK, NEW c \in Calls, Quiet(c)
  PROVE  /\ MovesTo(c) /\ UNCHANGED <<ledger, body, missions, created>>
         /\ call[c].pc \in Working /\ call'[c].pc # "create"
         /\ refresh' \in SUBSET Calls /\ discovered' = discovered /\ backup' \in BOOLEAN
         /\ restarts' = restarts
<1>0. UNCHANGED <<ledger, body, missions, created>> /\ discovered' = discovered /\ restarts' = restarts
  BY DEF Quiet, LightweightReply, DatahubFit, MarketplaceDiscovery, StartAgent, AgentAnswers,
         AgentRefused, AgentUnavailable, DecisionFails, Decided, process
<1>1. refresh' \in SUBSET Calls /\ backup' \in BOOLEAN
  <2>1. refresh \in SUBSET Calls /\ backup \in BOOLEAN
    BY DEF TypeOK
  <2>2. /\ UNCHANGED refresh \/ refresh' = refresh \cup {c}
        /\ UNCHANGED backup \/ backup' = TRUE
    BY DEF Quiet, LightweightReply, DatahubFit, MarketplaceDiscovery, StartAgent, AgentAnswers,
           AgentRefused, AgentUnavailable, DecisionFails, Decided, process
  <2> QED BY <2>1, <2>2
<1>2. {"done", "failed", "running", "find", "artifact", "persist"} \subseteq Working \cup {"create", "done", "failed"}
  BY DEF Working, Governing
<1>3. call[c] \in CallRow /\ call[c].round \in 0 .. 2
  BY DEF TypeOK, CallRow
<1>4. ASSUME AgentFails(c), call[c].pc = "running" PROVE MovesTo(c) /\ call'[c].pc # "create"
  <2>1. Enriching(c, call[c]) \in {"find", "done"}
    BY Zenon DEF Enriching
  <2>2. PICK to \in {"find", "done", "failed"} : Goto(c, to)
    BY <1>4, <2>1 DEF AgentFails
  <2>3. /\ Others(c) /\ KeepsFound(c) /\ call'[c].pc = to /\ call'[c].round = call[c].round
    BY <1>2, <2>2, GotoMoves
  <2> QED BY <1>4, <2>2, <2>3 DEF MovesTo
<1>5. CASE LightweightReply(c)
  <2>1. "" \in Suffixes /\ "" # "snowflake"
    BY DEF Suffixes
  <2>2. /\ Others(c) /\ KeepsFound(c) /\ call'[c].pc = "persist" /\ call'[c].turn = ""
        /\ call'[c].round = call[c].round
    BY <1>5, <2>1, OwnAnswerTypes, AnswerMoves DEF LightweightReply
  <2> QED BY <1>0, <1>1, <1>5, <2>1, <2>2 DEF LightweightReply, MovesTo, Working
<1>6. CASE DatahubFit(c)
  <2>1. "datahub-fit" \in Suffixes /\ "datahub-fit" # "snowflake"
    BY DEF Suffixes
  <2>2. ASSUME Goto(c, "failed") PROVE MovesTo(c) /\ call'[c].pc # "create"
    BY <1>2, <2>2, GotoMoves DEF MovesTo
  <2>3. ASSUME ~Goto(c, "failed")
        PROVE  /\ Others(c) /\ KeepsFound(c) /\ call'[c].pc = "persist" /\ call'[c].turn = "datahub-fit"
               /\ call'[c].round = call[c].round
    BY <1>6, <2>1, <2>3, OwnAnswerTypes, AnswerMoves DEF DatahubFit
  <2> QED BY <1>0, <1>1, <1>6, <2>1, <2>2, <2>3 DEF DatahubFit, MovesTo, Working
<1>7. CASE MarketplaceDiscovery(c)
  <2>1. "marketplace-discovery" \in Suffixes /\ "marketplace-discovery" # "snowflake"
    BY DEF Suffixes
  <2>2. /\ Others(c) /\ KeepsFound(c) /\ call'[c].pc = "persist" /\ call'[c].turn = "marketplace-discovery"
        /\ call'[c].round = call[c].round
    BY <1>7, <2>1, OwnAnswerTypes, AnswerMoves DEF MarketplaceDiscovery
  <2> QED BY <1>0, <1>1, <1>7, <2>1, <2>2 DEF MarketplaceDiscovery, MovesTo, Working
<1>8. CASE StartAgent(c)
  <2> DEFINE k == [call[c] EXCEPT !.pc = "running", !.key = SelectKey(c)]
  <2>1. SelectKey(c) \in {"sira", "primary", "backup"}
    BY DEF SelectKey
  <2>2. /\ k \in CallRow /\ k.pc = "running" /\ k.run = call[c].run /\ k.sources = call[c].sources
        /\ k.request = call[c].request /\ k.round = call[c].round
    BY <1>3, <2>1 DEF CallRow, Working
  <2>3. Set(c, k) /\ call[c].pc = "agent"
    BY <1>8 DEF StartAgent
  <2> HIDE DEF k
  <2>4. Others(c) /\ call'[c] = k
    BY <2>2, <2>3, SetTypes DEF Others
  <2> QED BY <1>0, <1>1, <2>2, <2>3, <2>4 DEF MovesTo, KeepsFound, Working
<1>9. CASE AgentAnswers(c)
  <2>1. Suffix(call[c].round) \in Suffixes /\ Suffix(call[c].round) # "snowflake"
    BY <1>3, SuffixType
  <2>2. PICK a \in Outputs : Answer(c, Suffix(call[c].round), a)
    BY <1>9 DEF AgentAnswers
  <2>3. a \in TurnOutput
    BY OutputTypes
  <2>4. /\ Others(c) /\ KeepsFound(c) /\ call'[c].pc = "persist"
        /\ call'[c].turn = Suffix(call[c].round) /\ call'[c].round = call[c].round
    BY <2>1, <2>2, <2>3, AnswerMoves
  <2> QED BY <1>0, <1>1, <1>9, <2>1, <2>4 DEF AgentAnswers, MovesTo, Working
<1>10. CASE AgentRefused(c)
  <2>1. CASE AgentFails(c)
    BY <1>0, <1>1, <1>4, <1>10, <2>1 DEF AgentRefused, Working
  <2>2. CASE Set(c, [call[c] EXCEPT !.key = "backup"])
    <3> DEFINE k == [call[c] EXCEPT !.key = "backup"]
    <3>1. /\ k \in CallRow /\ k.pc = call[c].pc /\ k.run = call[c].run /\ k.sources = call[c].sources
          /\ k.request = call[c].request /\ k.round = call[c].round
      BY <1>3 DEF CallRow
    <3> HIDE DEF k
    <3>2. Others(c) /\ call'[c] = k
      BY <2>2, <3>1, SetTypes DEF Others, k
    <3> QED BY <1>0, <1>1, <1>10, <3>1, <3>2 DEF AgentRefused, MovesTo, KeepsFound, Working
  <2> QED BY <1>10, <2>1, <2>2 DEF AgentRefused
<1>11. CASE AgentUnavailable(c)
  BY <1>0, <1>1, <1>4, <1>11 DEF AgentUnavailable, Working
<1>12. CASE DecisionFails(c)
  <2>1. PICK to \in {"done", "failed"} : Goto(c, to)
    BY <1>12 DEF DecisionFails
  <2>2. /\ Others(c) /\ KeepsFound(c) /\ call'[c].pc = to /\ call'[c].round = call[c].round
    BY <1>2, <2>1, GotoMoves
  <2> QED BY <1>0, <1>1, <1>12, <2>1, <2>2 DEF DecisionFails, MovesTo, Working
<1>13. CASE Decided(c)
  <2>1. "snowflake" \in Suffixes
    BY DEF Suffixes
  <2>2. ASSUME Goto(c, "artifact") PROVE MovesTo(c) /\ call'[c].pc # "create"
    <3>1. /\ Others(c) /\ KeepsFound(c) /\ call'[c].pc = "artifact" /\ call'[c].round = call[c].round
      BY <1>2, <2>2, GotoMoves
    <3> QED BY <1>13, <3>1 DEF Decided, MovesTo
  <2>3. ASSUME Answer(c, "snowflake", Governed) PROVE MovesTo(c) /\ call'[c].pc # "create"
    <3>1. /\ Others(c) /\ KeepsFound(c) /\ call'[c].pc = "persist" /\ call'[c].turn = "snowflake"
          /\ call'[c].round = call[c].round
      BY <2>1, <2>3, OwnAnswerTypes, AnswerMoves
    <3> QED BY <1>13, <3>1 DEF Decided, MovesTo
  <2>4. Goto(c, "artifact") \/ Answer(c, "snowflake", Governed)
    BY <1>13 DEF Decided
  <2> QED BY <1>0, <1>1, <1>13, <2>2, <2>3, <2>4 DEF Decided, Working
<1> QED BY <1>5, <1>6, <1>7, <1>8, <1>9, <1>10, <1>11, <1>12, <1>13 DEF Quiet

(* The artifact of a governed decision: the mission gains it and nothing    *)
(* else.                                                                    *)
LEMMA ArtifactStep ==
  ASSUME TypeOK, HistoryInv, NEW c \in Calls, HasAsked(c), PersistSnowflakeArtifact(c)
  PROVE  /\ HistoryStep /\ MovesTo(c) /\ UNCHANGED <<ledger, body, process, created>>
         /\ call[c].pc = "artifact" /\ call'[c].pc # "create"
         /\ missions[Body(c).mission] # NoMission
         /\ missions'[Body(c).mission].artifacts
            = missions[Body(c).mission].artifacts \cup {CitedDecision(c)}
         /\ \A m \in Missions : m # Body(c).mission => missions'[m] = missions[m]
<1> DEFINE n == Body(c).mission
<1> DEFINE row2 == WithArtifacts(Mission(c), {CitedDecision(c)})
<1>1. /\ Mission(c) = missions[n] /\ n \in Missions /\ Mission(c) \in MissionRow
      /\ missions[n] # NoMission
  BY BodyType, ExistsMission DEF Mission, HasAsked
<1>2. Sound(n, Mission(c))
  BY <1>1 DEF HistoryInv
<1>3. /\ row2 \in MissionRow /\ row2.events = Mission(c).events
      /\ row2.actor = Mission(c).actor /\ row2.mode = Mission(c).mode
      /\ row2.artifacts = Mission(c).artifacts \cup {CitedDecision(c)}
      /\ row2.version = Mission(c).version /\ row2.turns_left = Mission(c).turns_left
      /\ row2.checkpoint = Mission(c).checkpoint /\ row2.checkpoints = Mission(c).checkpoints
  <2>1. call[c].sources \in SUBSET Range(Citations) /\ call[c].run \in Calls \cup {<<>>}
    BY DEF TypeOK, CallRow
  <2>2. CitedDecision(c) \in ArtifactRow
    BY <2>1 DEF CitedDecision, ArtifactRow, Writers, Text
  <2> QED BY <1>1, <2>2 DEF WithArtifacts, MissionRow
<1>4. Store(c, row2) /\ call[c].pc = "artifact" /\ UNCHANGED <<ledger, body, process, created>>
  BY DEF PersistSnowflakeArtifact
<1> HIDE DEF row2
<1>5. Sound(n, row2) /\ \A key : HasKey(Mission(c), key) => HasKey(row2, key)
  <2>1. /\ Ordered(row2) /\ Whole(row2) /\ Own(n, row2)
        /\ \A key : HasKey(row2, key) <=> HasKey(Mission(c), key)
        /\ DecisionsIn(row2) = DecisionsIn(Mission(c)) /\ DecidedBy(row2, created)
    BY <1>2, <1>3, SameEvents DEF Sound
  <2>2. Counted(row2)
    BY <1>2, <1>3, <2>1 DEF Sound, Counted
  <2> QED BY <2>1, <2>2 DEF Sound
<1>6. HistoryStep
  BY <1>3, <1>4, <1>5, StoreStep
<1>7. missions'[n] = row2 /\ \A m \in Missions : m # n => missions'[m] = missions[m]
  BY <1>3, <1>4, StoreTypes
<1>8. MovesTo(c) /\ call'[c].pc # "create"
  <2>1. "snowflake" \in Suffixes /\ "done" \in Working \cup {"create", "done", "failed"}
    BY DEF Suffixes
  <2>2. ASSUME Goto(c, "done") PROVE MovesTo(c) /\ call'[c].pc # "create"
    <3>1. /\ Others(c) /\ KeepsFound(c) /\ call'[c].pc = "done" /\ call'[c].round = call[c].round
      BY <2>1, <2>2, GotoMoves
    <3> QED BY <3>1 DEF MovesTo
  <2>3. ASSUME Answer(c, "snowflake", Governed) PROVE MovesTo(c) /\ call'[c].pc # "create"
    <3>1. /\ Others(c) /\ KeepsFound(c) /\ call'[c].pc = "persist" /\ call'[c].turn = "snowflake"
          /\ call'[c].round = call[c].round
      BY <2>1, <2>3, OwnAnswerTypes, AnswerMoves
    <3> QED BY <1>4, <3>1 DEF MovesTo
  <2> QED BY <2>2, <2>3 DEF PersistSnowflakeArtifact
<1> QED BY <1>1, <1>3, <1>4, <1>6, <1>7, <1>8

-----------------------------------------------------------------------------
(* create_decision.                                                         *)
LEMMA RequestTypes ==
  ASSUME TypeOK, NEW key
  PROVE  PriorRequests(key) \subseteq Calls
         /\ \A q \in PriorRequests(key) : \E x \in requests : x.id = q /\ x.key = key
BY DEF TypeOK, PriorRequests

(* What each step does to the call and to the tables.                       *)
LEMMA FindStep ==
  ASSUME TypeOK, NEW c \in Calls, Find(c, Body(c).mission)
  PROVE  /\ Others(c) /\ UNCHANGED ledger /\ call[c].pc = "find"
         /\ call'[c].run = call[c].run /\ call'[c].sources = call[c].sources
         /\ call'[c].round = call[c].round /\ call'[c].turn = call[c].turn
         /\ \/ call'[c].pc = "insert"
            \/ /\ call'[c].pc = "procedure"
               /\ \E q \in requests : q.id = call'[c].request /\ q.key = Body(c).mission
<1> DEFINE key == Body(c).mission
<1>1. call[c] \in CallRow /\ {"insert", "procedure"} \subseteq Working
  BY DEF TypeOK, Working, Governing
<1>2. call[c].pc = "find" /\ UNCHANGED ledger
  BY DEF Find
<1>3. CASE Set(c, [call[c] EXCEPT !.pc = "insert"])
  <2> DEFINE k == [call[c] EXCEPT !.pc = "insert"]
  <2>1. /\ k \in CallRow /\ k.pc = "insert" /\ k.run = call[c].run /\ k.sources = call[c].sources
        /\ k.round = call[c].round /\ k.turn = call[c].turn
    BY <1>1 DEF CallRow
  <2>2. Set(c, k)
    BY <1>3
  <2> HIDE DEF k
  <2>3. Others(c) /\ call'[c] = k
    BY <2>1, <2>2, SetTypes DEF Others
  <2> QED BY <1>2, <2>1, <2>3
<1>4. ASSUME NEW q \in PriorRequests(key), Set(c, [call[c] EXCEPT !.pc = "procedure", !.request = q])
      PROVE  /\ Others(c) /\ call'[c].run = call[c].run /\ call'[c].sources = call[c].sources
             /\ call'[c].round = call[c].round /\ call'[c].turn = call[c].turn
             /\ call'[c].pc = "procedure"
             /\ \E x \in requests : x.id = call'[c].request /\ x.key = key
  <2> DEFINE k == [call[c] EXCEPT !.pc = "procedure", !.request = q]
  <2>1. q \in Calls /\ \E x \in requests : x.id = q /\ x.key = key
    BY RequestTypes
  <2>2. /\ k \in CallRow /\ k.pc = "procedure" /\ k.run = call[c].run /\ k.sources = call[c].sources
        /\ k.round = call[c].round /\ k.turn = call[c].turn /\ k.request = q
    BY <1>1, <2>1 DEF CallRow
  <2>3. Set(c, k)
    BY <1>4
  <2> HIDE DEF k
  <2>4. Others(c) /\ call'[c] = k
    BY <2>2, <2>3, SetTypes DEF Others
  <2> QED BY <2>1, <2>2, <2>4
<1> QED BY <1>2, <1>3, <1>4 DEF Find

LEMMA InsertStep ==
  ASSUME TypeOK, NEW c \in Calls, Insert(c, Body(c).mission)
  PROVE  /\ Others(c) /\ UNCHANGED <<runs, citations>> /\ call[c].pc = "insert"
         /\ requests' \in SUBSET [id : Calls, key : Missions] /\ requests \subseteq requests'
         /\ call'[c].run = call[c].run /\ call'[c].sources = call[c].sources
         /\ call'[c].round = call[c].round /\ call'[c].turn = call[c].turn
         /\ call'[c].pc = "procedure"
         /\ \E q \in requests' : q.id = call'[c].request /\ q.key = Body(c).mission
<1> DEFINE key == Body(c).mission
<1> DEFINE k == [call[c] EXCEPT !.pc = "procedure", !.request = c]
<1>1. call[c] \in CallRow /\ "procedure" \in Working
  BY DEF TypeOK, Working, Governing
<1>2. /\ k \in CallRow /\ k.pc = "procedure" /\ k.run = call[c].run /\ k.sources = call[c].sources
      /\ k.round = call[c].round /\ k.turn = call[c].turn /\ k.request = c
  BY <1>1 DEF CallRow
<1>3. /\ Set(c, k) /\ requests' = requests \cup {[id |-> c, key |-> key]}
      /\ UNCHANGED <<runs, citations>> /\ call[c].pc = "insert"
  BY DEF Insert
<1> HIDE DEF k
<1>4. Others(c) /\ call'[c] = k
  BY <1>2, <1>3, SetTypes DEF Others
<1>5. requests' \in SUBSET [id : Calls, key : Missions] /\ requests \subseteq requests'
      /\ \E q \in requests' : q.id = c /\ q.key = key
  <2>1. key \in Missions
    BY BodyType
  <2> DEFINE q == [id |-> c, key |-> key]
  <2>2. q \in [id : Calls, key : Missions] /\ q.id = c /\ q.key = key
    BY <2>1
  <2>3. requests' = requests \cup {q}
    BY <1>3
  <2> HIDE DEF q
  <2> QED BY <2>2, <2>3 DEF TypeOK
<1> QED BY <1>2, <1>3, <1>4, <1>5

LEMMA RunType ==
  ASSUME TypeOK
  PROVE  \A i \in DOMAIN runs : runs[i].id \in Calls /\ runs[i].request \in Calls
<1> DEFINE S == [id : Calls, request : Calls]
<1>1. \A x \in S : x.id \in Calls /\ x.request \in Calls
  OBVIOUS
<1>2. runs \in Seq(S)
  BY DEF TypeOK
<1> HIDE DEF S
<1>3. DOMAIN runs = 1 .. Len(runs) /\ \A i \in 1 .. Len(runs) : runs[i] \in S
  BY <1>2
<1> QED BY <1>1, <1>3

LEMMA ProcedureStep ==
  ASSUME TypeOK, NEW c \in Calls, Procedure(c)
  PROVE  /\ Others(c) /\ UNCHANGED ledger /\ call[c].pc = "procedure"
         /\ call'[c].sources = call[c].sources /\ call'[c].request = call[c].request
         /\ call'[c].round = call[c].round /\ call'[c].turn = call[c].turn
         /\ \/ call'[c].pc = "run" /\ call'[c].run = call[c].run
            \/ /\ call'[c].pc = "hydrate"
               /\ \E i \in DOMAIN runs :
                    runs[i].request = call[c].request /\ call'[c].run = runs[i].id
<1>1. call[c] \in CallRow /\ {"run", "hydrate"} \subseteq Working
  BY DEF TypeOK, Working, Governing
<1>2. call[c].pc = "procedure" /\ UNCHANGED ledger
  BY DEF Procedure
<1>3. CASE Goto(c, "run")
  <2>1. "run" \in Working \cup {"create", "done", "failed"}
    BY <1>1
  <2>2. /\ Others(c) /\ KeepsFound(c) /\ call'[c].pc = "run" /\ call'[c].round = call[c].round
        /\ call'[c].turn = call[c].turn
    BY <1>3, <2>1, GotoMoves
  <2> QED BY <1>2, <2>2 DEF KeepsFound
<1>4. ASSUME NEW i \in DOMAIN runs, Newest(i, call[c].request),
             Set(c, [call[c] EXCEPT !.pc = "hydrate", !.run = runs[i].id])
      PROVE  /\ Others(c) /\ call'[c].sources = call[c].sources /\ call'[c].request = call[c].request
             /\ call'[c].round = call[c].round /\ call'[c].turn = call[c].turn
             /\ call'[c].pc = "hydrate" /\ call'[c].run = runs[i].id
             /\ runs[i].request = call[c].request
  <2> DEFINE run == runs[i].id
  <2> DEFINE k == [call[c] EXCEPT !.pc = "hydrate", !.run = run]
  <2>1. run \in Calls /\ runs[i].request = call[c].request
    <3>1. i \in RunsOf(call[c].request)
      BY <1>4 DEF Newest
    <3> QED BY <1>4, <3>1, RunType DEF RunsOf
  <2>2. Set(c, k)
    BY <1>4
  <2> HIDE DEF run
  <2>3. /\ k \in CallRow /\ k.pc = "hydrate" /\ k.run = run /\ k.sources = call[c].sources
        /\ k.round = call[c].round /\ k.turn = call[c].turn /\ k.request = call[c].request
    BY <1>1, <2>1 DEF CallRow
  <2> HIDE DEF k
  <2>4. Others(c) /\ call'[c] = k
    BY <2>2, <2>3, SetTypes DEF Others
  <2> QED BY <2>1, <2>3, <2>4 DEF run
<1> QED BY <1>2, <1>3, <1>4 DEF Procedure

LEMMA RunStep ==
  ASSUME TypeOK, NEW c \in Calls, Run(c), call[c].request \in Calls
  PROVE  /\ Others(c) /\ UNCHANGED <<requests, citations>> /\ call[c].pc = "run"
         /\ runs' \in Seq([id : Calls, request : Calls])
         /\ Len(runs') = Len(runs) + 1 /\ \A i \in 1 .. Len(runs) : runs'[i] = runs[i]
         /\ runs'[Len(runs) + 1] = [id |-> c, request |-> call[c].request]
         /\ call'[c].sources = call[c].sources /\ call'[c].request = call[c].request
         /\ call'[c].round = call[c].round /\ call'[c].turn = call[c].turn
         /\ call'[c].pc = "cite" /\ call'[c].run = c
<1> DEFINE k == [call[c] EXCEPT !.pc = "cite", !.run = c]
<1> DEFINE row == [id |-> c, request |-> call[c].request]
<1>1. call[c] \in CallRow /\ "cite" \in Working
  BY DEF TypeOK, Working, Governing
<1>2. /\ k \in CallRow /\ k.pc = "cite" /\ k.run = c /\ k.sources = call[c].sources
      /\ k.round = call[c].round /\ k.turn = call[c].turn /\ k.request = call[c].request
  BY <1>1 DEF CallRow
<1>3. /\ Set(c, k) /\ runs' = Append(runs, row)
      /\ UNCHANGED <<requests, citations>> /\ call[c].pc = "run"
  BY DEF Run
<1>4. row \in [id : Calls, request : Calls] /\ runs \in Seq([id : Calls, request : Calls])
  BY DEF TypeOK
<1> HIDE DEF k, row
<1>5. Others(c) /\ call'[c] = k
  BY <1>2, <1>3, SetTypes DEF Others
<1>6. /\ runs' \in Seq([id : Calls, request : Calls])
      /\ Len(runs') = Len(runs) + 1 /\ \A i \in 1 .. Len(runs) : runs'[i] = runs[i]
      /\ runs'[Len(runs) + 1] = row
  BY <1>3, <1>4
<1> QED BY <1>2, <1>3, <1>5, <1>6 DEF row

LEMMA CitationsType ==
  /\ Len(Citations) \in Nat /\ DOMAIN Citations = 1 .. Len(Citations)
  /\ \A i \in 1 .. Len(Citations) : Citations[i] \in Range(Citations)
  /\ Range(Citations) = {Citations[i] : i \in 1 .. Len(Citations)}
  /\ \A i, j \in 1 .. Len(Citations) : Citations[i] = Citations[j] => i = j
<1>1. Citations \in Seq(Range(Citations)) /\ IsInjective(Citations)
  BY WorkspaceAssumption
<1>2. Len(Citations) \in Nat /\ DOMAIN Citations = 1 .. Len(Citations)
  BY <1>1
<1>3. \A i, j \in DOMAIN Citations : Citations[i] = Citations[j] => i = j
  BY <1>1 DEF IsInjective
<1> QED BY <1>2, <1>3 DEF Range

LEMMA CiteStep ==
  ASSUME TypeOK, NEW c \in Calls, Cite(c), call[c].run = c,
         NEW n \in 0 .. Len(Citations), CitesUpTo(c, n)
  PROVE  /\ Others(c) /\ UNCHANGED <<requests, runs>> /\ call[c].pc = "cite"
         /\ citations' \in SUBSET [run : Calls, source : Range(Citations)]
         /\ citations \subseteq citations' /\ \A y \in citations' : y \in citations \/ y.run = c
         /\ KeepsFound(c) /\ call'[c].round = call[c].round /\ call'[c].turn = call[c].turn
         /\ \/ call'[c].pc = "hydrate" /\ UNCHANGED citations /\ n = Len(Citations)
            \/ call'[c].pc = "cite" /\ n + 1 \in 0 .. Len(Citations) /\ CitesUpTo(c, n + 1)'
<1>1. call[c] \in CallRow /\ "hydrate" \in Working
  BY DEF TypeOK, Working, Governing
<1>2. /\ call[c].pc = "cite" /\ UNCHANGED <<requests, runs>>
      /\ IF n = Len(Citations)
         THEN Set(c, [call[c] EXCEPT !.pc = "hydrate"]) /\ UNCHANGED citations
         ELSE /\ citations' = citations \cup {[run |-> c, source |-> Citations[n + 1]]}
              /\ UNCHANGED call
  BY DEF Cite, CitesUpTo
<1>3. CASE n = Len(Citations)
  <2> DEFINE k == [call[c] EXCEPT !.pc = "hydrate"]
  <2>1. /\ k \in CallRow /\ k.pc = "hydrate" /\ k.run = call[c].run /\ k.sources = call[c].sources
        /\ k.round = call[c].round /\ k.turn = call[c].turn /\ k.request = call[c].request
    BY <1>1 DEF CallRow
  <2>2. Set(c, k) /\ UNCHANGED citations
    BY <1>2, <1>3
  <2> HIDE DEF k
  <2>3. Others(c) /\ call'[c] = k
    BY <2>1, <2>2, SetTypes DEF Others
  <2> QED BY <1>2, <1>3, <2>1, <2>2, <2>3 DEF KeepsFound, TypeOK
<1>4. CASE n # Len(Citations)
  <2> DEFINE y == [run |-> c, source |-> Citations[n + 1]]
  <2>1. n \in Nat /\ n + 1 \in 0 .. Len(Citations) /\ n + 1 \in 1 .. Len(Citations)
    <3> DEFINE size == Len(Citations)
    <3>1. size \in Nat /\ n \in 0 .. size /\ n # size
      BY <1>4, CitationsType
    <3> HIDE DEF size
    <3>2. n \in Nat /\ n + 1 \in 0 .. size /\ n + 1 \in 1 .. size
      BY <3>1
    <3> QED BY <3>2 DEF size
  <2>2. y \in [run : Calls, source : Range(Citations)] /\ y.run = c /\ y.source = Citations[n + 1]
    BY <2>1, CitationsType
  <2>3. citations' = citations \cup {y} /\ UNCHANGED call
    BY <1>2, <1>4
  <2> HIDE DEF y
  <2>4. /\ citations' \in SUBSET [run : Calls, source : Range(Citations)]
        /\ citations \subseteq citations' /\ \A z \in citations' : z \in citations \/ z.run = c
    BY <2>2, <2>3 DEF TypeOK
  <2>5. CitedOf(c)' = CitedOf(c) \cup {Citations[n + 1]}
    BY <2>2, <2>3 DEF CitedOf
  <2>6. Citations[n + 1] \notin CitedOf(c)
    <3>1. \A i \in 1 .. n : i \in 1 .. Len(Citations) /\ i # n + 1
      BY <2>1, CitationsType
    <3>2. \A i \in 1 .. n : Citations[i] # Citations[n + 1]
      BY <2>1, <3>1, CitationsType
    <3> QED BY <3>2 DEF CitesUpTo
  <2>7. CitedOf(c)' = {Citations[i] : i \in 1 .. n + 1}
    <3>1. CitedOf(c) = {Citations[i] : i \in 1 .. n}
      BY DEF CitesUpTo
    <3>2. \A i : i \in 1 .. n + 1 <=> i \in 1 .. n \/ i = n + 1
      BY <2>1
    <3> QED BY <2>5, <3>1, <3>2
  <2>8. IsFiniteSet(CitedOf(c)') /\ Cardinality(CitedOf(c)') = n + 1
    <3>1. IsFiniteSet(CitedOf(c)) /\ Cardinality(CitedOf(c)) = n
      BY DEF CitesUpTo
    <3> QED BY <2>5, <2>6, <3>1, FS_AddElement
  <2>9. CitesUpTo(c, n + 1)'
    BY <2>7, <2>8 DEF CitesUpTo
  <2>10. Others(c) /\ KeepsFound(c) /\ call'[c] = call[c]
    BY <2>3 DEF Others, KeepsFound, TypeOK
  <2> QED BY <1>2, <2>1, <2>4, <2>9, <2>10
<1> QED BY <1>3, <1>4

LEMMA HydrateStep ==
  ASSUME TypeOK, NEW c \in Calls, Hydrate(c)
  PROVE  /\ Others(c) /\ UNCHANGED ledger /\ call[c].pc = "hydrate"
         /\ call'[c].run = call[c].run /\ call'[c].request = call[c].request
         /\ call'[c].round = call[c].round /\ call'[c].turn = call[c].turn
         /\ call'[c].pc = "decided" /\ call'[c].sources = CitedOf(call[c].run)
<1> DEFINE cited == CitedOf(call[c].run)
<1> DEFINE k == [call[c] EXCEPT !.pc = "decided", !.sources = cited]
<1>1. call[c] \in CallRow /\ "decided" \in Working
  BY DEF TypeOK, Working
<1>2. cited \in SUBSET Range(Citations)
  BY DEF CitedOf, TypeOK
<1>3. Set(c, k) /\ UNCHANGED ledger /\ call[c].pc = "hydrate"
  BY DEF Hydrate
<1> HIDE DEF cited
<1>4. /\ k \in CallRow /\ k.pc = "decided" /\ k.run = call[c].run /\ k.sources = cited
      /\ k.round = call[c].round /\ k.turn = call[c].turn /\ k.request = call[c].request
  BY <1>1, <1>2 DEF CallRow
<1> HIDE DEF k
<1>5. Others(c) /\ call'[c] = k
  BY <1>3, <1>4, SetTypes DEF Others
<1> QED BY <1>3, <1>4, <1>5 DEF cited

-----------------------------------------------------------------------------
(* What the invariants of the calls need from a step.                       *)

(* The ledger only grows, and a run once chosen stays.                      *)
Grows ==
  /\ body' = body /\ requests \subseteq requests' /\ citations \subseteq citations'
  /\ created \subseteq created'
  /\ \A i \in DOMAIN runs : i \in DOMAIN runs' /\ runs'[i] = runs[i]
  /\ \A d \in Calls : call[d].run # <<>> => call'[d].run = call[d].run

LEMMA RecordedStays ==
  ASSUME Grows, NEW run, NEW m, Recorded(run, m)
  PROVE  Recorded(run, m)'
<1>1. PICK i \in DOMAIN runs, q \in requests :
        runs[i].id = run /\ q.id = runs[i].request /\ q.key = m
  BY DEF Recorded
<1>2. i \in DOMAIN runs' /\ runs'[i] = runs[i] /\ q \in requests'
  BY <1>1 DEF Grows
<1> QED BY <1>1, <1>2 DEF Recorded

LEMMA CitedGrows ==
  ASSUME TypeOK', citations \subseteq citations', NEW run
  PROVE  CitedOf(run) \subseteq CitedOf(run)' /\ CitedOf(run)' \subseteq Range(Citations)
BY DEF CitedOf, TypeOK

(* A call that does not move keeps what it relies on.                       *)
LEMMA StillRelies ==
  ASSUME TypeOK', Grows, NEW d \in Calls, call'[d] = call[d],
         \A y \in citations' : y \in citations \/ y.run # d,
         RoutedBy(d), Undecided(d), Relies(d)
  PROVE  RoutedBy(d)' /\ Undecided(d)' /\ Relies(d)'
<1>1. Body(d)' = Body(d)
  BY DEF Body, Grows
<1>2. RoutedBy(d)' /\ Undecided(d)'
  BY <1>1 DEF RoutedBy, Undecided
<1>3. CitedOf(d)' = CitedOf(d)
  BY DEF CitedOf, Grows
<1>4. \A n : CitesUpTo(d, n) => CitesUpTo(d, n)'
  BY <1>3 DEF CitesUpTo
<1>5. \A q \in requests : q \in requests'
  BY DEF Grows
<1>6. Recorded(call[d].run, Body(d).mission) => Recorded(call[d].run, Body(d).mission)'
  <2> SUFFICES ASSUME NEW run, NEW m, run = call[d].run, m = Body(d).mission, Recorded(run, m)
               PROVE  Recorded(call[d].run, Body(d).mission)'
    OBVIOUS
  <2>1. Recorded(run, m)'
    BY RecordedStays
  <2>2. call'[d].run = run /\ Body(d)'.mission = m
    BY <1>1
  <2> QED BY <2>1, <2>2 DEF Recorded
<1>8. call[d].sources \subseteq CitedOf(call[d].run) => call'[d].sources \subseteq CitedOf(call[d].run)'
  BY DEF CitedOf, Grows
<1>10. Found(d) => Found(d)'
  BY <1>1, <1>6, <1>8 DEF Found
<1> QED BY <1>1, <1>2, <1>3, <1>4, <1>5, <1>6, <1>10 DEF Relies

(* A step of a call that leaves the ledger alone.                           *)
LEMMA MoveGrows ==
  ASSUME TypeOK, NEW c \in Calls, UNCHANGED <<ledger, body, created>>, MovesTo(c)
  PROVE  /\ Grows /\ call'[c].run = call[c].run /\ call'[c].sources = call[c].sources
         /\ \A d \in Calls : d # c => call'[d] = call[d]
<1>1. \A d \in Calls : call'[d].run = call[d].run
  BY DEF MovesTo, Others, KeepsFound
<1>2. \A i \in DOMAIN runs : i \in DOMAIN runs' /\ runs'[i] = runs[i]
  BY DEF ledger
<1> QED BY <1>1, <1>2 DEF Grows, ledger, MovesTo, Others, KeepsFound

LEMMA MoveRelies ==
  ASSUME TypeOK, TypeOK', NEW c \in Calls, UNCHANGED <<ledger, body, created>>, MovesTo(c),
         RoutedBy(c), Undecided(c), Relies(c)
  PROVE  RoutedBy(c)' /\ Undecided(c)' /\ Relies(c)'
<1>1. Body(c)' = Body(c)
  BY DEF Body
<1>2. /\ call'[c].run = call[c].run /\ call'[c].sources = call[c].sources
      /\ call'[c].request = call[c].request
      /\ call'[c].round = call[c].round \/ Body(c).route = "TASK"
  BY DEF MovesTo, KeepsFound
<1>3. /\ Entry(c) \in {"light", "datahub", "market", "find", "agent"}
      /\ Body(c).route \in {"LIGHT", "DATAHUB", "MARKET", "GOVERNED", "TASK"}
      /\ Entry(c) = "light" => Body(c).route = "LIGHT"
      /\ Entry(c) = "datahub" => Body(c).route = "DATAHUB"
      /\ Entry(c) = "market" => Body(c).route = "MARKET"
      /\ Entry(c) = "agent" => Body(c).route = "TASK"
  BY EntryOfRoute, BodyType
<1>4. Found(c) => Found(c)'
  <2>1. CitedOf(call[c].run)' = CitedOf(call[c].run)
    BY <1>2 DEF CitedOf, ledger
  <2>2. Recorded(call[c].run, Body(c).mission) => Recorded(call[c].run, Body(c).mission)'
    BY <1>1, <1>2 DEF Recorded, ledger
  <2> QED BY <1>1, <1>2, <2>1, <2>2 DEF Found
<1>5. RoutedBy(c)'
  <2>1. call'[c].round > 0 => Body(c).route = "TASK"
    BY <1>2 DEF RoutedBy
  <2> QED BY <1>1, <1>3, <2>1 DEF RoutedBy, MovesTo
<1>6. Undecided(c)'
  BY <1>2, <1>3 DEF Undecided, RoutedBy, MovesTo
<1>7. Relies(c)'
  <2>1. call'[c].pc \notin {"procedure", "run", "cite", "hydrate"}
    BY <1>3 DEF MovesTo
  <2>2. call'[c].pc \in {"decided", "artifact"} \/ (call'[c].pc = "persist" /\ call'[c].turn = "snowflake")
          => Found(c)
    BY <1>3 DEF MovesTo, Relies, RoutedBy
  <2> QED BY <1>4, <2>1, <2>2 DEF Relies
<1> QED BY <1>5, <1>6, <1>7

(* What a step of create_decision leaves behind.                            *)
Decides(c) ==
  /\ TypeOK' /\ Grows /\ Others(c) /\ RunInv'
  /\ \A y \in citations' : y \in citations \/ y.run = c
  /\ RoutedBy(c)' /\ Undecided(c)' /\ Relies(c)'

LEMMA DecideRoutes ==
  ASSUME NEW c \in Calls, RoutedBy(c), body' = body, call'[c].round = call[c].round,
         call'[c].pc \in Governing \cup {"decided"}
  PROVE  RoutedBy(c)'
<1>1. Body(c)' = Body(c)
  BY DEF Body
<1> QED BY <1>1 DEF RoutedBy, Governing

(* The call alone changes, up to the choice of its run.                     *)
LEMMA DecideGrows ==
  ASSUME TypeOK, RunInv, NEW c \in Calls, Others(c), body' = body, created' = created,
         requests \subseteq requests', UNCHANGED <<runs, citations>>,
         call[c].run # <<>> => call'[c].run = call[c].run
  PROVE  Grows /\ RunInv'
<1>1. \A d \in Calls : call[d].run # <<>> => call'[d].run = call[d].run
  BY DEF Others
<1>2. \A i \in DOMAIN runs : i \in DOMAIN runs' /\ runs'[i] = runs[i]
  OBVIOUS
<1>3. Grows
  BY <1>1, <1>2 DEF Grows
<1>4. \A i \in DOMAIN runs : runs[i].id \in Calls /\ runs[i].id # <<>>
  BY RunType, CallParts
<1>5. \A y \in citations : y.run \in Calls /\ y.run # <<>>
  BY CallParts DEF TypeOK
<1> QED BY <1>1, <1>3, <1>4, <1>5 DEF RunInv

LEMMA FindDecides ==
  ASSUME TypeOK, RunInv, NEW c \in Calls, RoutedBy(c), Undecided(c), Relies(c),
         Find(c, Body(c).mission), UNCHANGED <<body, missions, process, created>>
  PROVE  Decides(c)
<1>1. /\ Others(c) /\ UNCHANGED ledger /\ call[c].pc = "find"
      /\ call'[c].run = call[c].run /\ call'[c].sources = call[c].sources
      /\ call'[c].round = call[c].round /\ call'[c].turn = call[c].turn
      /\ \/ call'[c].pc = "insert"
         \/ /\ call'[c].pc = "procedure"
            /\ \E q \in requests : q.id = call'[c].request /\ q.key = Body(c).mission
  BY FindStep
<1>2. TypeOK'
  BY <1>1 DEF TypeOK, Others, ledger, process
<1>3. Grows /\ RunInv'
  BY <1>1, DecideGrows DEF ledger
<1>4. RoutedBy(c)'
  BY <1>1, DecideRoutes DEF Governing
<1>5. Undecided(c)'
  BY <1>1 DEF Undecided
<1>6. Relies(c)'
  <2>1. Body(c)' = Body(c) /\ requests' = requests
    BY <1>1 DEF Body, ledger
  <2> QED BY <1>1, <2>1 DEF Relies
<1> QED BY <1>1, <1>2, <1>3, <1>4, <1>5, <1>6 DEF Decides, ledger

LEMMA InsertDecides ==
  ASSUME TypeOK, RunInv, NEW c \in Calls, RoutedBy(c), Undecided(c), Relies(c),
         Insert(c, Body(c).mission), UNCHANGED <<body, missions, process, created>>
  PROVE  Decides(c)
<1>1. /\ Others(c) /\ UNCHANGED <<runs, citations>> /\ call[c].pc = "insert"
      /\ requests' \in SUBSET [id : Calls, key : Missions] /\ requests \subseteq requests'
      /\ call'[c].run = call[c].run /\ call'[c].sources = call[c].sources
      /\ call'[c].round = call[c].round /\ call'[c].turn = call[c].turn
      /\ call'[c].pc = "procedure"
      /\ \E q \in requests' : q.id = call'[c].request /\ q.key = Body(c).mission
  BY InsertStep
<1>2. TypeOK'
  BY <1>1 DEF TypeOK, Others, process
<1>3. Grows /\ RunInv'
  BY <1>1, DecideGrows
<1>4. RoutedBy(c)'
  BY <1>1, DecideRoutes DEF Governing
<1>5. Undecided(c)'
  BY <1>1 DEF Undecided
<1>6. Relies(c)'
  <2>1. Body(c)' = Body(c)
    BY DEF Body
  <2> QED BY <1>1, <2>1 DEF Relies
<1> QED BY <1>1, <1>2, <1>3, <1>4, <1>5, <1>6 DEF Decides

LEMMA ProcedureDecides ==
  ASSUME TypeOK, RunInv, NEW c \in Calls, RoutedBy(c), Undecided(c), Relies(c),
         Procedure(c), UNCHANGED <<body, missions, process, created>>
  PROVE  Decides(c)
<1>1. /\ Others(c) /\ UNCHANGED ledger /\ call[c].pc = "procedure"
      /\ call'[c].sources = call[c].sources /\ call'[c].request = call[c].request
      /\ call'[c].round = call[c].round /\ call'[c].turn = call[c].turn
      /\ \/ call'[c].pc = "run" /\ call'[c].run = call[c].run
         \/ /\ call'[c].pc = "hydrate"
            /\ \E i \in DOMAIN runs :
                 runs[i].request = call[c].request /\ call'[c].run = runs[i].id
  BY ProcedureStep
<1>2. TypeOK'
  BY <1>1 DEF TypeOK, Others, ledger, process
<1>3. call[c].run = <<>>
  BY <1>1 DEF Undecided
<1>4. Grows /\ RunInv'
  BY <1>1, <1>3, DecideGrows DEF ledger
<1>5. RoutedBy(c)'
  BY <1>1, DecideRoutes DEF Governing
<1>6. Undecided(c)'
  BY <1>1, <1>3 DEF Undecided
<1>7. Body(c)' = Body(c) /\ requests' = requests /\ runs' = runs
  BY <1>1 DEF Body, ledger
<1>8. PICK q \in requests : q.id = call[c].request /\ q.key = Body(c).mission
  BY <1>1 DEF Relies
<1>9. ASSUME call'[c].pc = "hydrate",
             NEW i \in DOMAIN runs, runs[i].request = call[c].request, call'[c].run = runs[i].id
      PROVE  /\ call'[c].run # <<>> /\ call'[c].run # c
             /\ Recorded(call[c].run, Body(c).mission)'
  <2>1. runs[i].id \in Calls /\ runs[i].id # <<>> /\ call[runs[i].id].run = runs[i].id
    BY <1>9, RunType, CallParts DEF RunInv
  <2> QED BY <1>3, <1>7, <1>8, <1>9, <2>1 DEF Recorded
<1>10. Relies(c)'
  <2>1. CASE call'[c].pc = "run"
    BY <1>1, <1>7, <1>8, <2>1 DEF Relies
  <2>2. CASE call'[c].pc = "hydrate"
    BY <1>1, <1>9, <2>2 DEF Relies
  <2> QED BY <1>1, <2>1, <2>2
<1> QED BY <1>1, <1>2, <1>4, <1>5, <1>6, <1>10 DEF Decides, ledger

LEMMA RunDecides ==
  ASSUME TypeOK, RunInv, NEW c \in Calls, RoutedBy(c), Undecided(c), Relies(c),
         Run(c), UNCHANGED <<body, missions, process, created>>
  PROVE  Decides(c)
<1>1. PICK q \in requests : q.id = call[c].request /\ q.key = Body(c).mission
  BY DEF Relies, Run
<1>2. call[c].request \in Calls
  BY <1>1 DEF TypeOK
<1>3. /\ Others(c) /\ UNCHANGED <<requests, citations>> /\ call[c].pc = "run"
      /\ runs' \in Seq([id : Calls, request : Calls])
      /\ Len(runs') = Len(runs) + 1 /\ \A i \in 1 .. Len(runs) : runs'[i] = runs[i]
      /\ runs'[Len(runs) + 1] = [id |-> c, request |-> call[c].request]
      /\ call'[c].sources = call[c].sources /\ call'[c].request = call[c].request
      /\ call'[c].round = call[c].round /\ call'[c].turn = call[c].turn
      /\ call'[c].pc = "cite" /\ call'[c].run = c
  BY <1>2, RunStep
<1>4. TypeOK'
  BY <1>3 DEF TypeOK, Others, process
<1>5. call[c].run = <<>>
  BY <1>3 DEF Undecided
<1>6. \A d \in Calls : call[d].run # <<>> => call'[d].run = call[d].run
  BY <1>3, <1>5 DEF Others
<1>7. /\ DOMAIN runs = 1 .. Len(runs) /\ Len(runs) \in Nat
      /\ DOMAIN runs' = 1 .. Len(runs) + 1
  <2> DEFINE S == [id : Calls, request : Calls]
  <2>1. runs \in Seq(S) /\ runs' \in Seq(S) /\ Len(runs') = Len(runs) + 1
    BY <1>3 DEF TypeOK
  <2> HIDE DEF S
  <2> QED BY <2>1
<1>8. \A i \in DOMAIN runs : i \in DOMAIN runs' /\ runs'[i] = runs[i]
  BY <1>3, <1>7
<1>9. Grows
  BY <1>3, <1>6, <1>8 DEF Grows
<1>10. RunInv'
  <2>1. \A i \in DOMAIN runs : runs[i].id \in Calls /\ runs[i].id # <<>>
    BY RunType, CallParts
  <2>2. \A y \in citations : y.run \in Calls /\ y.run # <<>>
    BY CallParts DEF TypeOK
  <2>3. \A i \in DOMAIN runs' : i \in DOMAIN runs \/ i = Len(runs) + 1
    BY <1>7
  <2>4. \A i \in DOMAIN runs' : call'[runs'[i].id].run = runs'[i].id
    BY <1>3, <1>6, <1>8, <2>1, <2>3 DEF RunInv
  <2>5. \A y \in citations' : call'[y.run].run = y.run
    BY <1>3, <1>6, <2>2 DEF RunInv
  <2> QED BY <2>4, <2>5 DEF RunInv
<1>11. RoutedBy(c)'
  BY <1>3, DecideRoutes DEF Governing
<1>12. Undecided(c)'
  BY <1>3 DEF Undecided
<1>13. Relies(c)'
  <2>1. CitedOf(c)' = {}
    <3>1. \A y \in citations : y.run # c
      BY <1>5, CallParts DEF RunInv
    <3> QED BY <1>3, <3>1 DEF CitedOf
  <2>2. 0 \in 0 .. Len(Citations) /\ CitesUpTo(c, 0)'
    BY <2>1, CitationsType, FS_EmptySet DEF CitesUpTo
  <2>3. Recorded(call[c].run, Body(c).mission)'
    <3>1. Len(runs) + 1 \in DOMAIN runs' /\ Body(c)' = Body(c) /\ requests' = requests
      BY <1>3, <1>7 DEF Body
    <3> QED BY <1>1, <1>3, <3>1 DEF Recorded
  <2>4. c # <<>>
    BY CallParts
  <2> QED BY <1>3, <2>2, <2>3, <2>4 DEF Relies
<1> QED BY <1>3, <1>4, <1>9, <1>10, <1>11, <1>12, <1>13 DEF Decides

LEMMA CiteDecides ==
  ASSUME TypeOK, RunInv, NEW c \in Calls, RoutedBy(c), Undecided(c), Relies(c),
         Cite(c), UNCHANGED <<body, missions, process, created>>
  PROVE  Decides(c)
<1>1. call[c].pc = "cite" /\ call[c].run = c
  BY DEF Relies, Cite
<1>2. PICK n \in 0 .. Len(Citations) : CitesUpTo(c, n)
  BY <1>1 DEF Relies
<1>3. /\ Others(c) /\ UNCHANGED <<requests, runs>> /\ call[c].pc = "cite"
      /\ citations' \in SUBSET [run : Calls, source : Range(Citations)]
      /\ citations \subseteq citations' /\ \A y \in citations' : y \in citations \/ y.run = c
      /\ KeepsFound(c) /\ call'[c].round = call[c].round /\ call'[c].turn = call[c].turn
      /\ \/ call'[c].pc = "hydrate" /\ UNCHANGED citations /\ n = Len(Citations)
         \/ call'[c].pc = "cite" /\ n + 1 \in 0 .. Len(Citations) /\ CitesUpTo(c, n + 1)'
  BY <1>1, <1>2, CiteStep
<1>4. TypeOK'
  BY <1>3 DEF TypeOK, Others, process
<1>5. \A d \in Calls : call'[d].run = call[d].run
  BY <1>3 DEF Others, KeepsFound
<1>6. \A i \in DOMAIN runs : i \in DOMAIN runs' /\ runs'[i] = runs[i]
  BY <1>3
<1>7. Grows
  BY <1>3, <1>5, <1>6 DEF Grows
<1>8. RunInv'
  <2>1. \A i \in DOMAIN runs : runs[i].id \in Calls
    BY RunType
  <2>2. \A y \in citations' : y.run \in Calls
    BY <1>3
  <2>3. \A i \in DOMAIN runs' : call'[runs'[i].id].run = runs'[i].id
    BY <1>3, <1>5, <2>1 DEF RunInv
  <2>4. \A y \in citations' : call'[y.run].run = y.run
    BY <1>1, <1>3, <1>5, <2>2 DEF RunInv
  <2> QED BY <2>3, <2>4 DEF RunInv
<1>9. RoutedBy(c)'
  BY <1>3, DecideRoutes DEF Governing
<1>10. Undecided(c)'
  BY <1>3 DEF Undecided
<1>11. call'[c].run = c /\ c # <<>>
  BY <1>1, <1>5, CallParts
<1>12. Recorded(call[c].run, Body(c).mission)'
  <2>1. Recorded(c, Body(c).mission) /\ Body(c)' = Body(c)
    BY <1>1 DEF Relies, Body
  <2> QED BY <1>3, <1>11, <2>1 DEF Recorded
<1>13. Relies(c)'
  <2>1. CASE call'[c].pc = "cite"
    <3>1. n + 1 \in 0 .. Len(Citations) /\ CitesUpTo(c, n + 1)'
      BY <1>3, <2>1
    <3> QED BY <1>11, <1>12, <2>1, <3>1 DEF Relies
  <2>2. CASE call'[c].pc = "hydrate"
    <3>1. n = Len(Citations) /\ UNCHANGED citations
      BY <1>3, <2>2
    <3>2. CitedOf(c)' = Range(Citations)
      BY <1>2, <3>1, CitationsType DEF CitesUpTo, CitedOf
    <3> QED BY <1>11, <1>12, <2>2, <3>2 DEF Relies
  <2> QED BY <1>3, <2>1, <2>2
<1> QED BY <1>3, <1>4, <1>7, <1>8, <1>9, <1>10, <1>13 DEF Decides

LEMMA HydrateDecides ==
  ASSUME TypeOK, RunInv, NEW c \in Calls, RoutedBy(c), Undecided(c), Relies(c),
         Hydrate(c), UNCHANGED <<body, missions, process, created>>
  PROVE  Decides(c)
<1>1. /\ Others(c) /\ UNCHANGED ledger /\ call[c].pc = "hydrate"
      /\ call'[c].run = call[c].run /\ call'[c].request = call[c].request
      /\ call'[c].round = call[c].round /\ call'[c].turn = call[c].turn
      /\ call'[c].pc = "decided" /\ call'[c].sources = CitedOf(call[c].run)
  BY HydrateStep
<1>2. TypeOK'
  BY <1>1 DEF TypeOK, Others, ledger, process
<1>3. Grows /\ RunInv'
  BY <1>1, DecideGrows DEF ledger
<1>4. RoutedBy(c)'
  BY <1>1, DecideRoutes
<1>5. Undecided(c)'
  BY <1>1 DEF Undecided
<1>6. Found(c)'
  <2>1. Recorded(call[c].run, Body(c).mission) /\ call[c].run # <<>>
    BY <1>1 DEF Relies
  <2>2. call[c].run = c => CitedOf(call[c].run) = Range(Citations)
    BY <1>1 DEF Relies
  <2>3. Recorded(call[c].run, Body(c).mission)'
    BY <1>1, <2>1 DEF Recorded, Body, ledger
  <2>4. call'[c].sources \subseteq CitedOf(call[c].run)'
    BY <1>1 DEF CitedOf, ledger
  <2> QED BY <1>1, <2>1, <2>2, <2>3, <2>4 DEF Found
<1>7. Relies(c)'
  BY <1>1, <1>6 DEF Relies
<1> QED BY <1>1, <1>2, <1>3, <1>4, <1>5, <1>7 DEF Decides, ledger

LEMMA DecidingStep ==
  ASSUME TypeOK, RunInv, NEW c \in Calls, RoutedBy(c), Undecided(c), Relies(c), Deciding(c)
  PROVE  Decides(c)
BY FindDecides, InsertDecides, ProcedureDecides, RunDecides, CiteDecides, HydrateDecides
   DEF Deciding, CreateDecision

-----------------------------------------------------------------------------
(* The artifacts.                                                           *)

(* What VerifiedIsRecorded asks of one artifact.                            *)
Attested(m, a) ==
  a.authority \in {"OBSERVED", "VERIFIED"} =>
    /\ a.by = "snowflake-decision-plane" =>
         /\ a.sources \subseteq CitedOf(a.run)
         /\ Recorded(a.run, m)
         /\ a.sources # Range(Citations) => TookOverRun(a.run)
    /\ a.by = "authority-kernel" =>
         \E d \in created : /\ a.sources = {d} /\ Origin[d].mission = m
                            /\ HasKey(missions[m], DecisionCreated(d).key)
    /\ a.by = RootAgent => a.sources # {}

AllAttested ==
  \A m \in Missions : missions[m] # NoMission => \A a \in missions[m].artifacts : Attested(m, a)

LEMMA AttestedAll == TypeOK => (VerifiedIsRecorded <=> AllAttested)
<1> SUFFICES ASSUME TypeOK PROVE VerifiedIsRecorded <=> AllAttested
  OBVIOUS
<1>1. \A m \in Missions : missions[m] # NoMission <=> m \in Stored
  BY MissionTypes DEF TypeOK, Stored
<1>2. \A m \in Missions : \A run :
        Recorded(run, m) <=>
          \E r \in Range(runs), q \in requests : r.id = run /\ q.id = r.request /\ q.key = m
  BY DEF Recorded, Range
<1>3. Stored \subseteq Missions
  BY DEF Stored
<1>4. \A m \in Missions : missions[m] # NoMission =>
        \A a \in missions[m].artifacts : a.by \in Writers
  BY DEF TypeOK, MissionRow, ArtifactRow
<1>5. \A by \in Writers : \/ by = "snowflake-decision-plane" \/ by = "authority-kernel"
                          \/ /\ by = RootAgent /\ by # "snowflake-decision-plane"
                             /\ by # "authority-kernel"
  BY DEF Writers, RootAgent
<1>6. "snowflake-decision-plane" # RootAgent /\ "authority-kernel" # RootAgent
  BY DEF RootAgent
<1> QED BY <1>1, <1>2, <1>3, <1>4, <1>5, <1>6 DEF VerifiedIsRecorded, AllAttested, Attested

(* A step adds artifacts of the agent, the decision that a call found, or   *)
(* the proposal of a purchase request created with it.                      *)
Adds ==
  \A m \in Missions : missions'[m] # NoMission => \A a \in missions'[m].artifacts :
    \/ missions[m] # NoMission /\ a \in missions[m].artifacts
    \/ a.by = RootAgent /\ (a.authority \in {"OBSERVED", "VERIFIED"} => a.sources # {})
    \/ \E c \in Calls : m = Body(c).mission /\ a = CitedDecision(c) /\ Found(c)
    \/ \E d \in created' : /\ a = PurchaseProposal(d) /\ Origin[d].mission = m
                           /\ HasKey(missions'[m], DecisionCreated(d).key)

LEMMA VerifiedStep ==
  ASSUME TypeOK, TypeOK', VerifiedIsRecorded, Grows, HistoryKept, Adds
  PROVE  VerifiedIsRecorded'
<1>0. /\ RootAgent # "snowflake-decision-plane" /\ RootAgent # "authority-kernel"
      /\ "snowflake-decision-plane" # "authority-kernel"
  BY DEF RootAgent
<1>1. ASSUME NEW m \in Missions, missions[m] # NoMission, NEW a, Attested(m, a),
             a.authority \in {"OBSERVED", "VERIFIED"}
      PROVE  Attested(m, a)'
  <2>1. ASSUME a.by = "snowflake-decision-plane"
        PROVE  /\ a.sources \subseteq CitedOf(a.run)' /\ Recorded(a.run, m)'
               /\ a.sources # Range(Citations) => TookOverRun(a.run)'
    <3>1. /\ a.sources \subseteq CitedOf(a.run) /\ Recorded(a.run, m)
          /\ a.sources # Range(Citations) => TookOverRun(a.run)
      BY <1>1, <2>1 DEF Attested
    <3>2. a.run \in Calls /\ a.run # <<>>
      BY <3>1, RunType, CallParts DEF Recorded
    <3>3. CitedOf(a.run) \subseteq CitedOf(a.run)' /\ Recorded(a.run, m)'
      BY <3>1, CitedGrows, RecordedStays DEF Grows
    <3>4. \A c \in Calls : call[c].run = a.run => call'[c].run = a.run
      BY <3>2 DEF Grows
    <3> QED BY <3>1, <3>3, <3>4 DEF TookOverRun
  <2>2. ASSUME a.by = "authority-kernel"
        PROVE  \E d \in created' : /\ a.sources = {d} /\ Origin[d].mission = m
                                   /\ HasKey(missions'[m], DecisionCreated(d).key)
    <3>1. PICK d \in created : /\ a.sources = {d} /\ Origin[d].mission = m
                               /\ HasKey(missions[m], DecisionCreated(d).key)
      BY <1>1, <2>2 DEF Attested
    <3>2. d \in created' /\ HasKey(missions'[m], DecisionCreated(d).key)
      BY <1>1, <3>1 DEF Grows, HistoryKept
    <3> QED BY <3>1, <3>2
  <2>3. a.by = RootAgent => a.sources # {}
    BY <1>1 DEF Attested
  <2> QED BY <2>1, <2>2, <2>3 DEF Attested
<1>2. ASSUME NEW c \in Calls, NEW a, a = CitedDecision(c), Found(c), NEW m, m = Body(c).mission
      PROVE  Attested(m, a)'
  <2>1. a.sources = call[c].sources /\ a.run = call[c].run /\ a.by = "snowflake-decision-plane"
    BY <1>2 DEF CitedDecision
  <2>2. a.run # <<>> /\ Recorded(a.run, m) /\ a.sources \subseteq CitedOf(a.run)
        /\ (a.run = c => a.sources = Range(Citations))
    BY <1>2, <2>1 DEF Found, Recorded, CitedOf
  <2>3. CitedOf(a.run) \subseteq CitedOf(a.run)'
    BY CitedGrows DEF Grows
  <2>4. Recorded(a.run, m)'
    BY <2>2, RecordedStays
  <2>5. call'[c].run = a.run
    BY <2>1, <2>2 DEF Grows
  <2>6. a.sources # Range(Citations) => TookOverRun(a.run)'
    BY <2>2, <2>5 DEF TookOverRun
  <2> QED BY <1>0, <2>1, <2>2, <2>3, <2>4, <2>6 DEF Attested
<1>3. ASSUME NEW m, NEW a, a.by = RootAgent,
             a.authority \in {"OBSERVED", "VERIFIED"} => a.sources # {}
      PROVE  Attested(m, a)'
  BY <1>0, <1>3 DEF Attested
<1>4. ASSUME NEW m, NEW d \in created', NEW a, a = PurchaseProposal(d), Origin[d].mission = m,
             HasKey(missions'[m], DecisionCreated(d).key)
      PROVE  Attested(m, a)'
  <2>1. a.by = "authority-kernel" /\ a.sources = {d}
    BY <1>4 DEF PurchaseProposal
  <2> QED BY <1>0, <1>4, <2>1 DEF Attested
<1>5. \A m \in Missions : missions[m] # NoMission => \A a \in missions[m].artifacts : Attested(m, a)
  BY AttestedAll DEF AllAttested
<1>6. ASSUME NEW m \in Missions, missions'[m] # NoMission, NEW a \in missions'[m].artifacts
      PROVE  Attested(m, a)'
  <2>1. CASE missions[m] # NoMission /\ a \in missions[m].artifacts
    <3>1. CASE a.authority \in {"OBSERVED", "VERIFIED"}
      BY <1>1, <1>5, <2>1, <3>1
    <3>2. CASE a.authority \notin {"OBSERVED", "VERIFIED"}
      BY <3>2 DEF Attested
    <3> QED BY <3>1, <3>2
  <2>2. CASE a.by = RootAgent /\ (a.authority \in {"OBSERVED", "VERIFIED"} => a.sources # {})
    BY <1>3, <2>2
  <2>3. CASE \E c \in Calls : m = Body(c).mission /\ a = CitedDecision(c) /\ Found(c)
    BY <1>2, <2>3
  <2>4. CASE \E d \in created' : /\ a = PurchaseProposal(d) /\ Origin[d].mission = m
                                 /\ HasKey(missions'[m], DecisionCreated(d).key)
    BY <1>4, <2>4
  <2> QED BY <1>6, <2>1, <2>2, <2>3, <2>4 DEF Adds
<1>7. AllAttested'
  BY <1>6 DEF AllAttested
<1>8. TypeOK' => (VerifiedIsRecorded' <=> AllAttested')
  BY AttestedAll, PTL
<1> QED BY <1>7, <1>8

-----------------------------------------------------------------------------
(* The inductive invariant.                                                 *)

(* What every step of Next shows, for the invariant to hold after it.       *)
LEMMA InvariantAfter ==
  ASSUME IInv, TypeOK', Grows, HistoryKept, HistoryInv', RunInv', Adds,
         \A d \in Calls : RoutedBy(d)' /\ Undecided(d)' /\ Relies(d)',
         \A d \in Calls : call'[d].pc \in Working => HasAsked(d) \/ HasAsked(d)'
  PROVE  IInv'
<1>1. AskedInv'
  <2>1. ASSUME NEW d \in Calls, HasAsked(d) PROVE HasAsked(d)'
    BY <2>1, StaysAsked DEF IInv, Grows
  <2> QED BY <2>1 DEF AskedInv
<1>2. CallInv'
  BY DEF CallInv
<1>3. VerifiedIsRecorded'
  BY VerifiedStep DEF IInv
<1> QED BY <1>1, <1>2, <1>3 DEF IInv

(* What is sound stays so when more purchase requests are there.            *)
LEMMA HistoryAfter ==
  ASSUME Grows, HistoryStep
  PROVE  HistoryKept /\ HistoryInv'
<1>1. HistoryKept /\ \A m \in Missions : missions'[m] # NoMission => Sound(m, missions'[m])
  BY DEF HistoryStep
<1>2. ASSUME NEW m \in Missions, missions'[m] # NoMission
      PROVE  Sound(m, missions[m])'
  <2>1. Sound(m, missions'[m])
    BY <1>1, <1>2
  <2>2. DecidedBy(missions'[m], created')
    BY <2>1 DEF Sound, DecidedBy, Grows
  <2>3. Own(m, missions[m])'
    BY <2>1 DEF Sound, Own, Grows
  <2> QED BY <2>1, <2>2, <2>3 DEF Sound
<1> QED BY <1>1, <1>2 DEF HistoryInv

LEMMA NothingAdded ==
  ASSUME TypeOK, UNCHANGED missions
  PROVE  Adds
BY DEF Adds

(* A step of one call, given what it does to the call itself.               *)
LEMMA CallStep ==
  ASSUME IInv, TypeOK', Grows, HistoryStep, RunInv', Adds, NEW c \in Calls,
         \A d \in Calls : d # c => call'[d] = call[d],
         \A y \in citations' : y \in citations \/ y.run = c,
         RoutedBy(c)' /\ Undecided(c)' /\ Relies(c)',
         call'[c].pc \in Working => HasAsked(c) \/ HasAsked(c)'
  PROVE  IInv'
<1>1. ASSUME NEW d \in Calls PROVE RoutedBy(d)' /\ Undecided(d)' /\ Relies(d)'
  <2>1. CASE d = c
    BY <2>1 DEF RoutedBy, Undecided, Relies, Found, Recorded, CitesUpTo, CitedOf, Body
  <2>2. CASE d # c
    <3>1. call'[d] = call[d] /\ \A y \in citations' : y \in citations \/ y.run # d
      BY <2>2
    <3>2. RoutedBy(d) /\ Undecided(d) /\ Relies(d)
      BY DEF IInv, CallInv
    <3> QED BY <3>1, <3>2, StillRelies
  <2> QED BY <2>1, <2>2
<1>2. ASSUME NEW d \in Calls, call'[d].pc \in Working PROVE HasAsked(d) \/ HasAsked(d)'
  <2>1. CASE d = c
    BY <1>2, <2>1 DEF HasAsked, Exists, Owns, Mission, Body, Turn
  <2>2. CASE d # c
    BY <1>2, <2>2 DEF IInv, AskedInv
  <2> QED BY <2>1, <2>2
<1> QED BY <1>1, <1>2, HistoryAfter, InvariantAfter

(* The steps that leave the ledger alone.                                   *)
LEMMA MoveStep ==
  ASSUME IInv, NEW c \in Calls, TypeOK', UNCHANGED <<ledger, body, created>>, MovesTo(c), HistoryStep, Adds,
         call'[c].pc \in Working => HasAsked(c) \/ HasAsked(c)'
  PROVE  IInv'
<1>1. TypeOK /\ RunInv /\ RoutedBy(c) /\ Undecided(c) /\ Relies(c)
  BY DEF IInv, CallInv
<1>2. /\ Grows /\ call'[c].run = call[c].run /\ call'[c].sources = call[c].sources
      /\ \A d \in Calls : d # c => call'[d] = call[d]
  BY <1>1, MoveGrows
<1>3. RunInv'
  BY <1>1, <1>2, DecideGrows DEF MovesTo, ledger
<1>4. RoutedBy(c)' /\ Undecided(c)' /\ Relies(c)'
  BY <1>1, MoveRelies
<1>5. \A y \in citations' : y \in citations \/ y.run = c
  BY DEF ledger
<1> QED BY <1>2, <1>3, <1>4, <1>5, CallStep

(* _prepare_mission.                                                        *)
LEMMA PrepareKeeps ==
  ASSUME IInv, NEW c \in Calls, PrepareMission(c) \/ CreateMission(c)
  PROVE  IInv'
<1>1. /\ HistoryStep /\ Others(c) /\ KeepsFound(c) /\ call'[c].round = call[c].round
      /\ call[c].pc \in {"idle", "create"}
      /\ \/ call'[c].pc \in {"create", "failed"}
         \/ call'[c].pc = Entry(c) /\ HasAsked(c)'
      /\ \A m \in Missions : missions'[m] # missions[m] =>
           \/ missions[m] # NoMission /\ missions'[m].artifacts = missions[m].artifacts
           \/ missions'[m].artifacts = {}
  BY PrepareStep DEF IInv
<1>2. UNCHANGED <<ledger, body, created>> /\ UNCHANGED process
  BY DEF PrepareMission, CreateMission
<1>3. TypeOK'
  BY <1>1, <1>2 DEF IInv, TypeOK, HistoryStep, HistoryKept, Others, ledger, process
<1>4. MovesTo(c)
  BY <1>1 DEF MovesTo
<1>5. Adds
  BY <1>1 DEF Adds
<1>6. call'[c].pc \in Working => HasAsked(c)'
  BY <1>1 DEF Working, Governing
<1> QED BY <1>1, <1>2, <1>3, <1>4, <1>5, <1>6, MoveStep

LEMMA QuietKeeps ==
  ASSUME IInv, NEW c \in Calls, Quiet(c)
  PROVE  IInv'
<1>1. /\ MovesTo(c) /\ UNCHANGED <<ledger, body, missions, created>>
      /\ call[c].pc \in Working /\ call'[c].pc # "create"
      /\ refresh' \in SUBSET Calls /\ discovered' = discovered /\ backup' \in BOOLEAN
      /\ restarts' = restarts
  BY QuietMoves DEF IInv
<1>2. TypeOK'
  BY <1>1 DEF IInv, TypeOK, MovesTo, Others, ledger
<1>3. HistoryStep /\ Adds
  BY <1>1, UnchangedHistory, NothingAdded DEF IInv
<1>4. HasAsked(c)
  BY <1>1 DEF IInv, AskedInv
<1> QED BY <1>1, <1>2, <1>3, <1>4, MoveStep

(* _persist_turn.                                                           *)
LEMMA PersistKeeps ==
  ASSUME IInv, NEW c \in Calls, PersistTurn(c)
  PROVE  IInv'
<1>1. call[c].pc = "persist" /\ UNCHANGED <<ledger, body, created>> /\ UNCHANGED process
  BY DEF PersistTurn
<1>2. HasAsked(c)
  BY <1>1 DEF IInv, AskedInv, Working
<1>3. /\ HistoryStep /\ Others(c) /\ KeepsFound(c) /\ call'[c].turn = call[c].turn
      /\ \/ call'[c].pc = "artifact" /\ Body(c).route = "GOVERNED" /\ call'[c].round = call[c].round
         \/ call'[c].pc \in {"done", "failed"} /\ call'[c].round = call[c].round
         \/ /\ call'[c].pc \in {"agent", "find"}
            /\ \/ Body(c).route = "TASK" /\ call[c].turn # "snowflake"
               \/ /\ call'[c].pc = "find" /\ call[c].round > 0 /\ call'[c].round = call[c].round
                  /\ ~(Body(c).route = "TASK" /\ call[c].turn = "snowflake")
      /\ \A m \in Missions : missions'[m] # missions[m] =>
           /\ missions[m] # NoMission
           /\ missions'[m].artifacts = missions[m].artifacts \cup StoredArtifacts(call[c].answer)
  BY <1>2, PersistStep DEF IInv
<1>4. TypeOK'
  BY <1>1, <1>3 DEF IInv, TypeOK, HistoryStep, HistoryKept, Others, ledger, process
<1>5. MovesTo(c)
  BY <1>1, <1>3 DEF MovesTo
<1>6. Adds
  <2>1. call[c].answer \in TurnOutput
    BY DEF IInv, TypeOK, CallRow
  <2>2. \A a \in StoredArtifacts(call[c].answer) :
          a.by = RootAgent /\ (a.authority \in {"OBSERVED", "VERIFIED"} => a.sources # {})
    BY <2>1, StoredTypes
  <2> QED BY <1>3, <2>2 DEF Adds
<1> QED BY <1>1, <1>2, <1>3, <1>4, <1>5, <1>6, MoveStep

(* _persist_snowflake_artifact.                                             *)
LEMMA ArtifactKeeps ==
  ASSUME IInv, NEW c \in Calls, PersistSnowflakeArtifact(c)
  PROVE  IInv'
<1>1. HasAsked(c) /\ Found(c)
  BY DEF PersistSnowflakeArtifact, IInv, AskedInv, CallInv, Relies, Working
<1>2. /\ HistoryStep /\ MovesTo(c) /\ UNCHANGED <<ledger, body, process, created>>
      /\ missions[Body(c).mission] # NoMission
      /\ missions'[Body(c).mission].artifacts
         = missions[Body(c).mission].artifacts \cup {CitedDecision(c)}
      /\ \A m \in Missions : m # Body(c).mission => missions'[m] = missions[m]
  BY <1>1, ArtifactStep DEF IInv
<1>3. TypeOK'
  BY <1>2 DEF IInv, TypeOK, HistoryStep, HistoryKept, MovesTo, Others, ledger, process
<1>4. Adds
  BY <1>1, <1>2 DEF Adds
<1> QED BY <1>1, <1>2, <1>3, <1>4, MoveStep

(* create_decision.                                                         *)
LEMMA DecidingKeeps ==
  ASSUME IInv, NEW c \in Calls, Deciding(c)
  PROVE  IInv'
<1>1. Decides(c)
  BY DecidingStep DEF IInv, CallInv
<1>2. UNCHANGED missions
  BY DEF Deciding
<1>3. HistoryStep /\ Adds
  BY <1>2, UnchangedHistory, NothingAdded DEF IInv
<1>4. HasAsked(c)
  BY DEF Deciding, CreateDecision, Find, Insert, Procedure, Run, Cite, Hydrate, IInv, AskedInv,
         Working, Governing
<1> QED BY <1>1, <1>3, <1>4, CallStep DEF Decides, Others

(* _refresh_marketplace_supply, and stuttering.                             *)
LEMMA RefreshKeeps ==
  ASSUME IInv, UNCHANGED <<ledger, body, missions, call, created>>, refresh' \in SUBSET Calls,
         discovered' \in SUBSET Refs, backup' \in BOOLEAN, restarts' \in Nat
  PROVE  IInv'
<1>1. TypeOK'
  BY DEF IInv, TypeOK, ledger
<1>2. Grows
  BY DEF Grows, ledger
<1>3. HistoryStep /\ Adds
  BY UnchangedHistory, NothingAdded DEF IInv
<1>4. RunInv'
  BY DEF IInv, RunInv, ledger
<1>5. \A d \in Calls : RoutedBy(d)' /\ Undecided(d)' /\ Relies(d)'
  BY <1>1, <1>2, StillRelies DEF IInv, CallInv, ledger
<1> QED BY <1>1, <1>2, <1>3, <1>4, <1>5, HistoryAfter, InvariantAfter DEF IInv, AskedInv

LEMMA RestartKeeps ==
  ASSUME IInv, Restart
  PROVE  IInv'
<1>1. /\ UNCHANGED <<ledger, body, missions, created>> /\ restarts' = restarts + 1
      /\ refresh' = {} /\ discovered' = {} /\ backup' = FALSE
  BY DEF Restart
<1>2. ASSUME NEW d \in Calls
      PROVE  /\ call'[d] \in CallRow /\ call'[d].run = call[d].run /\ call'[d].round = call[d].round
             /\ call'[d].pc = "failed" \/ call'[d] = call[d]
  <2>1. call[d] \in CallRow
    BY DEF IInv, TypeOK
  <2>2. call'[d] = IF InFlight(d) THEN [call[d] EXCEPT !.pc = "failed"] ELSE call[d]
    BY DEF Restart
  <2> QED BY <2>1, <2>2 DEF CallRow
<1>3. call' \in [Calls -> CallRow]
  <2>1. call' = [d \in Calls |-> call'[d]]
    BY DEF Restart
  <2> QED BY <1>2, <2>1
<1>4. TypeOK'
  <2>1. restarts' \in Nat
    BY <1>1 DEF IInv, TypeOK
  <2> QED BY <1>1, <1>3, <2>1 DEF IInv, TypeOK, ledger
<1>5. Grows
  BY <1>1, <1>2 DEF Grows, ledger
<1>6. HistoryStep /\ Adds
  BY <1>1, UnchangedHistory, NothingAdded DEF IInv
<1>7. RunInv'
  <2>1. \A i \in DOMAIN runs : runs[i].id \in Calls
    BY RunType DEF IInv
  <2>2. \A y \in citations : y.run \in Calls
    BY DEF IInv, TypeOK
  <2> QED BY <1>1, <1>2, <2>1, <2>2 DEF IInv, RunInv, ledger
<1>8. ASSUME NEW d \in Calls PROVE RoutedBy(d)' /\ Undecided(d)' /\ Relies(d)'
  <2>0. RoutedBy(d) /\ Undecided(d) /\ Relies(d)
    BY DEF IInv, CallInv
  <2>1. CASE call'[d].pc = "failed"
    <3>1. Body(d)' = Body(d)
      BY <1>1 DEF Body
    <3> QED BY <1>2, <2>0, <2>1, <3>1 DEF RoutedBy, Undecided, Relies
  <2>2. CASE call'[d] = call[d]
    BY <1>1, <1>4, <1>5, <2>0, <2>2, StillRelies DEF ledger
  <2> QED BY <1>2, <2>1, <2>2
<1>9. \A d \in Calls : call'[d].pc \in Working => HasAsked(d)
  <2>1. "failed" \notin Working
    BY DEF Working, Governing
  <2> QED BY <1>2, <2>1 DEF IInv, AskedInv
<1> QED BY <1>4, <1>5, <1>6, <1>7, <1>8, <1>9, HistoryAfter, InvariantAfter

(* create_purchase_request.                                                 *)
LEMMA ProposalKeeps ==
  ASSUME IInv, NEW d \in Decisions, CreatePurchaseRequest(d)
  PROVE  IInv'
<1> DEFINE m == Origin[d].mission
           row == missions[m]
           row2 == Proposed(row, d)
<1>1. /\ m \in Missions /\ d \notin created /\ row.version > 0
      /\ missions' = [missions EXCEPT ![m] = row2] /\ created' = created \cup {d}
      /\ UNCHANGED <<ledger, body, call, process>>
  BY WorkspaceAssumption DEF CreatePurchaseRequest
<1>2. row \in MissionRow /\ row # NoMission /\ Sound(m, row)
  BY <1>1, MissionTypes DEF IInv, TypeOK, HistoryInv
<1> HIDE DEF row2
<1>3. /\ row2 \in MissionRow
      /\ Ordered(row2) /\ Whole(row2) /\ Own(m, row2) /\ Counted(row2)
      /\ DecidedBy(row2, created \cup {d})
      /\ row2.actor = row.actor /\ row2.mode = row.mode
      /\ row2.artifacts = row.artifacts \cup {PurchaseProposal(d)}
      /\ HasKey(row2, DecisionCreated(d).key)
      /\ \A key : HasKey(row, key) => HasKey(row2, key)
  BY <1>1, <1>2, ProposedSound DEF row2
<1>4. /\ missions' \in [Missions -> MissionRow \cup {NoMission}] /\ missions'[m] = row2
      /\ \A n \in Missions : n # m => missions'[n] = missions[n]
  BY <1>1, <1>3 DEF IInv, TypeOK
<1>5. row2 # NoMission
  BY <1>3, MissionTypes
<1>6. TypeOK'
  BY <1>1, <1>4 DEF IInv, TypeOK, ledger, process
<1>7. Grows
  BY <1>1 DEF Grows, ledger
<1> HIDE DEF m
<1>8. HistoryKept
  BY <1>2, <1>3, <1>4, <1>5 DEF HistoryKept
<1>9. ASSUME NEW n \in Missions, missions'[n] # NoMission
      PROVE  Sound(n, missions[n])'
  <2>1. CASE n = m
    <3>1. Own(n, missions[n])'
      BY <1>1, <1>3, <1>4, <2>1 DEF Own
    <3> QED BY <1>1, <1>3, <1>4, <2>1, <3>1 DEF Sound
  <2>2. CASE n # m
    <3>1. missions'[n] = missions[n] /\ Sound(n, missions[n])
      BY <1>4, <1>9, <2>2 DEF IInv, HistoryInv
    <3>2. Own(n, missions[n])' /\ DecidedBy(missions[n], created')
      BY <1>1, <3>1 DEF Sound, Own, DecidedBy
    <3> QED BY <3>1, <3>2 DEF Sound
  <2> QED BY <2>1, <2>2
<1>10. HistoryInv'
  BY <1>9 DEF HistoryInv
<1>11. Adds
  <2>1. d \in created' /\ m = Origin[d].mission
    BY <1>1 DEF m
  <2> QED BY <1>2, <1>3, <1>4, <2>1 DEF Adds
<1>12. RunInv'
  BY <1>1 DEF IInv, RunInv, ledger
<1>13. \A c \in Calls : RoutedBy(c)' /\ Undecided(c)' /\ Relies(c)'
  BY <1>1, <1>6, <1>7, StillRelies DEF IInv, CallInv, ledger
<1>14. \A c \in Calls : call'[c].pc \in Working => HasAsked(c)
  BY <1>1 DEF IInv, AskedInv
<1> QED BY <1>6, <1>7, <1>8, <1>10, <1>11, <1>12, <1>13, <1>14, InvariantAfter

LEMMA InvariantInit == Init => IInv
<1> SUFFICES ASSUME Init PROVE IInv
  OBVIOUS
<1>1. \A c \in Calls : call[c] = NotSent
  BY DEF Init
<1>2. NotSent \in CallRow
  BY OutputTypes DEF NotSent, CallRow, Suffixes
<1>3. /\ missions \in [Missions -> MissionRow \cup {NoMission}]
      /\ \A m \in Missions : missions[m] = NoMission
  BY DEF Init
<1>4. TypeOK
  <2>1. call \in [Calls -> CallRow]
    BY <1>2 DEF Init
  <2>2. runs \in Seq([id : Calls, request : Calls])
    BY DEF Init, LedgerInit
  <2> QED BY <1>3, <2>1, <2>2 DEF TypeOK, Init, LedgerInit
<1>5. HistoryInv
  BY <1>3 DEF HistoryInv
<1>6. NotSent.pc = "idle" /\ NotSent.run = <<>> /\ NotSent.round = 0
  BY DEF NotSent
<1>7. AskedInv /\ CallInv
  <2>1. "idle" \notin Working
    BY DEF Working, Governing
  <2> QED BY <1>1, <1>6, <2>1 DEF AskedInv, CallInv, RoutedBy, Undecided, Relies
<1>8. RunInv
  BY DEF RunInv, Init, LedgerInit
<1>9. VerifiedIsRecorded
  BY <1>3, <1>4, AttestedAll DEF AllAttested
<1> QED BY <1>4, <1>5, <1>7, <1>8, <1>9 DEF IInv

LEMMA InvariantNext == IInv /\ [Next]_vars => IInv'
<1> SUFFICES ASSUME IInv, [Next]_vars PROVE IInv'
  OBVIOUS
<1>1. CASE UNCHANGED vars
  BY <1>1, RefreshKeeps DEF vars, process, IInv, TypeOK
<1>2. CASE Restart
  BY <1>2, RestartKeeps
<1>3. ASSUME NEW c \in Calls, RefreshMarketplaceSupply(c) PROVE IInv'
  <2>1. /\ UNCHANGED <<ledger, body, missions, call, created>> /\ backup' = backup /\ restarts' = restarts
        /\ refresh' = refresh \ {c}
        /\ \/ \E found \in Discoveries :
                discovered' = discovered \cup NewListings(found, Published \cup discovered)
           \/ UNCHANGED discovered
    BY <1>3 DEF RefreshMarketplaceSupply
  <2>2. \A found \in Discoveries : \A known : NewListings(found, known) \subseteq Refs
    <3>1. \A found \in Discoveries : found \in Seq(Refs)
      BY WorkspaceAssumption
    <3>2. \A found \in Discoveries : \A i \in DOMAIN found : found[i] \in Refs
      BY <3>1
    <3> QED BY <3>2 DEF NewListings
  <2>3. refresh \in SUBSET Calls /\ discovered \in SUBSET Refs /\ backup \in BOOLEAN /\ restarts \in Nat
    BY DEF IInv, TypeOK
  <2> QED BY <2>1, <2>2, <2>3, RefreshKeeps
<1>4. ASSUME NEW c \in Calls, PrepareMission(c) \/ CreateMission(c) PROVE IInv'
  BY <1>4, PrepareKeeps
<1>5. ASSUME NEW c \in Calls, Quiet(c) PROVE IInv'
  BY <1>5, QuietKeeps
<1>6. ASSUME NEW c \in Calls, PersistTurn(c) PROVE IInv'
  BY <1>6, PersistKeeps
<1>7. ASSUME NEW c \in Calls, PersistSnowflakeArtifact(c) PROVE IInv'
  BY <1>7, ArtifactKeeps
<1>8. ASSUME NEW c \in Calls, Deciding(c) PROVE IInv'
  BY <1>8, DecidingKeeps
<1>9. ASSUME NEW d \in Decisions, CreatePurchaseRequest(d) PROVE IInv'
  BY <1>9, ProposalKeeps
<1> QED BY <1>1, <1>2, <1>3, <1>4, <1>5, <1>6, <1>7, <1>8, <1>9 DEF Next, Step, Quiet

(* A sound row is a conversation that its checkpoint covers.                *)
LEMMA SoundHistory == TypeOK /\ HistoryInv => HistorySound
<1> SUFFICES ASSUME TypeOK, HistoryInv, NEW m \in Stored
             PROVE  LET row == missions[m]
                        es == row.events
                    IN /\ \A i, j \in DOMAIN es : es[i].key = es[j].key => i = j
                       /\ \A i \in DOMAIN es : Kind(m, i) \in TurnKinds =>
                            \E j \in 1 .. i - 1 : Kind(m, j) = "user" /\ TurnOf(m, j)[1] = TurnOf(m, i)[1]
                       /\ \A i \in DOMAIN es : Kind(m, i) = "tool" => TurnOf(m, i - 1) = TurnOf(m, i)
                       /\ \A i \in DOMAIN es : Kind(m, i) = "agent" =>
                            \E j \in 1 .. i - 1 : Kind(m, j) = "assistant" /\ TurnOf(m, j) = TurnOf(m, i)
                       /\ \A i \in DOMAIN es : Kind(m, i) = "user" =>
                            LET b == body[TurnOf(m, i)[1]]
                            IN b.mission = m /\ b.actor = missions[m].actor /\ b.mode = missions[m].mode
                       /\ \A i \in DOMAIN row.events : Kind(m, i) \in TurnKinds => i <= row.checkpoint
                       /\ \A i \in DecisionsOf(m) : i <= row.checkpoint /\ i \in row.checkpoints
                       /\ row.version = 1 + Cardinality(row.checkpoints \ DecisionsOf(m))
                       /\ row.turns_left = IF row.version > Budget THEN 0 ELSE Budget + 1 - row.version
  BY DEF HistorySound, ConversationSound, CheckpointCoversTurns
<1>1. m \in Missions /\ missions[m] # NoMission
  BY MissionTypes DEF Stored
<1>2. Ordered(missions[m]) /\ Own(m, missions[m]) /\ Counted(missions[m])
  BY <1>1 DEF HistoryInv, Sound
<1> DEFINE es == missions[m].events
<1>3. \A i \in DOMAIN es : Kind(m, i) \in TurnKinds =>
        \E j \in 1 .. i - 1 : Kind(m, j) = "user" /\ TurnOf(m, j)[1] = TurnOf(m, i)[1]
  <2> SUFFICES ASSUME NEW i \in DOMAIN es, Kind(m, i) \in TurnKinds
               PROVE  \E j \in 1 .. i - 1 : Kind(m, j) = "user" /\ TurnOf(m, j)[1] = TurnOf(m, i)[1]
    OBVIOUS
  <2> DEFINE turn == <<es[i].key.turn[1], "">>
  <2>1. turn[1] = es[i].key.turn[1]
    OBVIOUS
  <2>2. \E j \in 1 .. i - 1 : es[j].key = EventKey("user", turn, 0, "")
    BY <1>2 DEF Ordered, Kind
  <2> HIDE DEF turn
  <2>3. PICK j \in 1 .. i - 1 : es[j].key = EventKey("user", turn, 0, "")
    BY <2>2
  <2> DEFINE key == es[j].key
  <2>4. key = EventKey("user", turn, 0, "")
    BY <2>3
  <2> HIDE DEF key
  <2>5. key.kind = "user" /\ key.turn = turn
    BY <2>4 DEF EventKey
  <2>6. Kind(m, j) = "user" /\ TurnOf(m, j) = turn /\ TurnOf(m, i) = es[i].key.turn
    BY <2>5 DEF key, Kind, TurnOf
  <2> QED BY <2>1, <2>3, <2>6
<1>4. \A i \in DOMAIN es : Kind(m, i) = "tool" => TurnOf(m, i - 1) = TurnOf(m, i)
  BY <1>2 DEF Ordered, Kind, TurnOf
<1>5. \A i \in DOMAIN es : Kind(m, i) = "agent" =>
        \E j \in 1 .. i - 1 : Kind(m, j) = "assistant" /\ TurnOf(m, j) = TurnOf(m, i)
  <2> SUFFICES ASSUME NEW i \in DOMAIN es, Kind(m, i) = "agent"
               PROVE  \E j \in 1 .. i - 1 : Kind(m, j) = "assistant" /\ TurnOf(m, j) = TurnOf(m, i)
    OBVIOUS
  <2> DEFINE turn == es[i].key.turn
  <2>1. \E j \in 1 .. i - 1 : es[j].key = EventKey("assistant", turn, 0, "")
    BY <1>2 DEF Ordered, Kind
  <2> HIDE DEF turn
  <2>2. PICK j \in 1 .. i - 1 : es[j].key = EventKey("assistant", turn, 0, "")
    BY <2>1
  <2> DEFINE key == es[j].key
  <2>3. key = EventKey("assistant", turn, 0, "")
    BY <2>2
  <2> HIDE DEF key
  <2>4. key.kind = "assistant" /\ key.turn = turn
    BY <2>3 DEF EventKey
  <2>5. Kind(m, j) = "assistant" /\ TurnOf(m, j) = TurnOf(m, i)
    BY <2>4 DEF key, turn, Kind, TurnOf
  <2> QED BY <2>2, <2>5
<1>6. \A i, j \in DOMAIN es : es[i].key = es[j].key => i = j
  BY <1>2 DEF Ordered
<1>7. \A i \in DOMAIN es : Kind(m, i) = "user" =>
        LET b == body[TurnOf(m, i)[1]]
        IN b.mission = m /\ b.actor = missions[m].actor /\ b.mode = missions[m].mode
  BY <1>2 DEF Own, Kind, TurnOf
<1>8. /\ \A i \in DOMAIN es : Kind(m, i) \in TurnKinds => i <= missions[m].checkpoint
      /\ \A i \in DecisionsOf(m) : i <= missions[m].checkpoint /\ i \in missions[m].checkpoints
      /\ missions[m].version = 1 + Cardinality(missions[m].checkpoints \ DecisionsOf(m))
      /\ missions[m].turns_left
         = IF missions[m].version > Budget THEN 0 ELSE Budget + 1 - missions[m].version
  <2>1. DecisionsOf(m) = DecisionsIn(missions[m])
    BY DEF DecisionsOf, DecisionsIn, Kind
  <2> QED BY <1>2, <2>1 DEF Counted, Kind
<1> QED BY <1>3, <1>4, <1>5, <1>6, <1>7, <1>8

LEMMA InvariantAlways == Spec => []IInv
BY InvariantInit, InvariantNext, PTL DEF Spec

(* The rows of the missions, of the Snowflake tables and of the calls stay  *)
(* in their domains (WorkspaceService.chat, create_decision).               *)
THEOREM WorkspaceTypes == Spec => []TypeOK
<1>1. IInv => TypeOK
  BY DEF IInv
<1> QED BY <1>1, InvariantAlways, PTL

(* append_event and checkpoint, by _persist_turn and create_purchase_request *)
(* alike: whatever calls, retries and restarts overlap, a mission's history  *)
(* reads as a conversation of its own actor, its checkpoint covers the turns *)
(* and the decisions in it, and version and budget count the turns alone.    *)
THEOREM HistoryStaysSound == Spec => []HistorySound
<1>1. IInv => HistorySound
  BY SoundHistory DEF IInv
<1> QED BY <1>1, InvariantAlways, PTL

(* The artifacts that claim authority: a governed decision cites a run of   *)
(* the mission's request, nothing that the run did not record, and all of   *)
(* it unless the run was taken over from another call                       *)
(* (_persist_snowflake_artifact); a proposal is of a purchase request       *)
(* created from the mission (create_purchase_request); an artifact of a     *)
(* turn has sources (_persist_turn).                                        *)
THEOREM VerifiedStaysRecorded == Spec => []VerifiedIsRecorded
<1>1. IInv => VerifiedIsRecorded
  BY DEF IInv
<1> QED BY <1>1, InvariantAlways, PTL

-----------------------------------------------------------------------------
(* The catalogue.                                                           *)
LEMMA NewListingsApart ==
  ASSUME NEW S, NEW listings \in Seq(S), NEW known
  PROVE  \A p, q \in NewListings(listings, known) :
           /\ \A l \in known : Domain[l] # Domain[p]
           /\ Domain[p] = Domain[q] => p = q
<1> SUFFICES ASSUME NEW p \in NewListings(listings, known), NEW q \in NewListings(listings, known)
             PROVE  /\ \A l \in known : Domain[l] # Domain[p]
                    /\ Domain[p] = Domain[q] => p = q
  OBVIOUS
<1>1. PICK i \in DOMAIN listings :
        p = listings[i] /\ \A l \in known \cup {listings[k] : k \in 1 .. i - 1} : Domain[l] # Domain[listings[i]]
  BY DEF NewListings
<1>2. PICK j \in DOMAIN listings :
        q = listings[j] /\ \A l \in known \cup {listings[k] : k \in 1 .. j - 1} : Domain[l] # Domain[listings[j]]
  BY DEF NewListings
<1>3. i \in Nat \ {0} /\ j \in Nat \ {0}
  OBVIOUS
<1>4. CASE i < j
  BY <1>1, <1>2, <1>3, <1>4
<1>5. CASE j < i
  BY <1>1, <1>2, <1>3, <1>5
<1>6. CASE i = j
  BY <1>1, <1>2, <1>6
<1> QED BY <1>3, <1>4, <1>5, <1>6

(* Every step keeps one listing per domain: only a refresh adds any.        *)
LEMMA ListingsStep ==
  ASSUME OneListingPerDomain, [Next]_vars
  PROVE  OneListingPerDomain'
<1>1. \/ UNCHANGED discovered \/ discovered' = {}
      \/ \E found \in Discoveries :
           discovered' = discovered \cup NewListings(found, Published \cup discovered)
  BY DEF Next, Step, vars, process, PrepareMission, CreateMission, LightweightReply, DatahubFit,
         MarketplaceDiscovery, StartAgent, AgentAnswers, AgentRefused, AgentUnavailable, PersistTurn,
         Deciding, DecisionFails, Decided, PersistSnowflakeArtifact, CreatePurchaseRequest, Restart,
         RefreshMarketplaceSupply
<1>2. CASE UNCHANGED discovered
  BY <1>2 DEF OneListingPerDomain
<1>3. CASE discovered' = {}
  BY <1>3, WorkspaceAssumption DEF OneListingPerDomain
<1>4. ASSUME NEW found \in Discoveries,
             discovered' = discovered \cup NewListings(found, Published \cup discovered)
      PROVE  OneListingPerDomain'
  <2>1. found \in Seq(Refs)
    BY WorkspaceAssumption
  <2>2. \A p, q \in NewListings(found, Published \cup discovered) :
           /\ \A l \in Published \cup discovered : Domain[l] # Domain[p]
           /\ Domain[p] = Domain[q] => p = q
    BY <2>1, NewListingsApart
  <2> QED BY <1>4, <2>2 DEF OneListingPerDomain
<1> QED BY <1>1, <1>2, <1>3, <1>4

(* _refresh_marketplace_supply: the catalogue has one listing per domain,   *)
(* for any answers of the researcher and any number of refreshes.           *)
THEOREM DomainsListedOnce == Spec => []OneListingPerDomain
<1>1. Init => OneListingPerDomain
  BY WorkspaceAssumption DEF Init, OneListingPerDomain
<1> QED BY <1>1, ListingsStep, PTL DEF Spec
=============================================================================
