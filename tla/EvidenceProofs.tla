--------------------------- MODULE EvidenceProofs ---------------------------
(***************************************************************************)
(* Publication of Product Evidence for every set of callers and sources    *)
(* and any number of revisions, reviews and Pack versions: what is         *)
(* published was reviewed as it is, by somebody else (but for an operator  *)
(* who approved a revision of their own), nothing changes under review,    *)
(* and the seller page offers what the handlers accept.                    *)
(***************************************************************************)
EXTENDS SellerEvidence, TLAPS

People == {c.actor : c \in Callers} \cup {Owner, NoActor}
DraftStates == Editable \cup {"IN_REVIEW", "PUBLISH_READY", "PUBLISHED"}
Verdicts == {"APPROVE", "REQUEST_CHANGES", "REJECT"}
Validations == {"CONFLICT", "HAS_GAPS", "VALID"}
RevisionRows == [content : Content, author : People, frozen : BOOLEAN]
SubmissionRows == [revision : Nat, content : Content, by : People,
                   decision : Verdicts \cup {"PENDING"}, reviewer : People]
PackRows == [content : Content, evidence : SUBSET Sources, by : People, superseded : Nat]

(* The domains of the rows.                                                 *)
TypeOK ==
  /\ unclaimed \in [state : {"UNCLAIMED", "CLAIM_PENDING"}, owner : People]
  /\ product \in [state : DraftStates, owner : {Owner}, pack : Nat]
  /\ draft \in [state : DraftStates, editor : {Owner}, revision : Nat,
                validation : Validations]
  /\ revisions \in Seq(RevisionRows)
  /\ evidence \in SUBSET Sources /\ aged \in SUBSET Sources
  /\ submissions \in Seq(SubmissionRows)
  /\ packs \in Seq(PackRows)
  /\ suspensions \in SUBSET Nat
  /\ idem \in SUBSET Keys /\ served \in [Keys -> Nat]

(* What was submitted was valid, and what was approved was approved by      *)
(* somebody who neither submitted it nor edits the draft.                   *)
SubmissionsSound ==
  \A i \in 1..Len(submissions) :
    /\ submissions[i].revision \in 1..Len(revisions)
    /\ submissions[i].content.complete /\ ~submissions[i].content.conflict
    /\ submissions[i].content.refs \subseteq evidence
    /\ submissions[i].decision = "APPROVE" =>
         submissions[i].reviewer \notin {submissions[i].by, draft.editor}

(* The product points at its newest Pack version.                           *)
PackIsNewest == product.pack = Len(packs) /\ Len(packs) > 0

(* Who writes a revision edits the draft or is a platform operator.         *)
Operators == {c.actor : c \in {o \in Callers : o.role = "PLATFORM_OPERATOR"}}
AuthorsMayEdit == \A i \in 1..Len(revisions) : revisions[i].author \in Operators \cup {Owner}

(* PackWasReviewed without the author of the revision, which AuthorsMayEdit  *)
(* adds.                                                                    *)
PackApproved ==
  \A id \in 2..Len(packs) :
    /\ packs[id].content.complete /\ ~packs[id].content.conflict
    /\ packs[id].evidence = packs[id].content.refs
    /\ \E i \in DOMAIN submissions :
         /\ submissions[i].content = packs[id].content /\ submissions[i].decision = "APPROVE"
         /\ submissions[i].reviewer \notin {submissions[i].by, draft.editor}

EvidenceInv ==
  /\ Len(revisions) > 0
  /\ SubmissionsSound /\ PackIsNewest /\ ReviewBound /\ PackApproved /\ PacksAreChain

-----------------------------------------------------------------------------
LEMMA CallerTypes ==
  ASSUME NEW c \in Callers
  PROVE  /\ c.actor \in People
         /\ c.role \in {"SELLER_EDITOR", "SELLER_REVIEWER", "PLATFORM_OPERATOR"}
BY SellerAssumption DEF People

LEMMA ValidationType == \A content : Validation(content) \in Validations
BY DEF Validation, Validations

LEMMA OneRow == ASSUME NEW S, NEW e \in S PROVE <<e>> \in Seq(S)
OBVIOUS

(* A row of a sequence is replaced by another of its type.                  *)
LEMMA ReplacedRow ==
  ASSUME NEW S, NEW s \in Seq(S), NEW i \in 1..Len(s), NEW e \in S
  PROVE  /\ [s EXCEPT ![i] = e] \in Seq(S)
         /\ Len([s EXCEPT ![i] = e]) = Len(s)
         /\ \A j \in 1..Len(s) : [s EXCEPT ![i] = e][j] = IF j = i THEN e ELSE s[j]
OBVIOUS

LEMMA AddedRow ==
  ASSUME NEW S, NEW s \in Seq(S), NEW e \in S
  PROVE  /\ Append(s, e) \in Seq(S)
         /\ Len(Append(s, e)) = Len(s) + 1
         /\ Append(s, e)[Len(s) + 1] = e
         /\ \A j \in 1..Len(s) : Append(s, e)[j] = s[j]
OBVIOUS

(* complete_idempotency in the transaction of an operation.                 *)
LEMMA CompleteTypes ==
  ASSUME TypeOK, NEW k \in Keys \cup {Once}, Complete(k)
  PROVE  idem' \in SUBSET Keys /\ served' \in [Keys -> Nat]
<1>1. CASE k = Once
  BY <1>1 DEF Complete, idem_vars, TypeOK
<1>2. CASE k # Once
  <2>1. k \in Keys /\ idem' = idem \cup {k} /\ served' = [served EXCEPT ![k] = @ + 1]
    BY <1>2 DEF Complete
  <2> QED BY <2>1 DEF TypeOK
<1> QED BY <1>1, <1>2

LEMMA InitTypes == Init => TypeOK
<1> SUFFICES ASSUME Init PROVE TypeOK
  OBVIOUS
<1> USE DEF Init, SeededProduct, SeededDraft, SeededPack
<1>1. /\ OldSource \in Sources /\ Owner \in People /\ NoActor \in People
      /\ SeededContent \in Content
      /\ [complete |-> FALSE, conflict |-> FALSE, refs |-> {}] \in Content
  BY SellerAssumption DEF People, SeededContent, Content
<1>2. Revision(SeededContent, Owner) \in RevisionRows
  BY <1>1 DEF Revision, RevisionRows
<1>3. revisions \in Seq(RevisionRows) /\ submissions \in Seq(SubmissionRows)
  BY <1>2
<1>4. packs \in Seq(PackRows)
  <2> DEFINE row == [content |-> [complete |-> FALSE, conflict |-> FALSE, refs |-> {}],
                     evidence |-> {}, by |-> NoActor, superseded |-> None]
  <2>1. row \in PackRows
    BY <1>1 DEF PackRows, None
  <2>2. packs = <<row>>
    OBVIOUS
  <2> HIDE DEF row
  <2> QED BY <2>1, <2>2, OneRow
<1>5. idem \in SUBSET Keys /\ served \in [Keys -> Nat]
  BY DEF IdemInit
<1>6. product \in [state : DraftStates, owner : {Owner}, pack : Nat]
  BY DEF DraftStates, Editable
<1>7. draft \in [state : DraftStates, editor : {Owner}, revision : Nat,
                validation : Validations]
  BY DEF DraftStates, Editable, Validations
<1>8. unclaimed \in [state : {"UNCLAIMED", "CLAIM_PENDING"}, owner : People]
  BY <1>1
<1>9. evidence \in SUBSET Sources /\ aged \in SUBSET Sources /\ suspensions \in SUBSET Nat
  BY <1>1
<1> QED BY <1>3, <1>4, <1>5, <1>6, <1>7, <1>8, <1>9 DEF TypeOK

(* The rows behind a position of each table.                                *)
LEMMA RowTypes ==
  ASSUME TypeOK
  PROVE  /\ Len(revisions) \in Nat /\ DOMAIN revisions = 1..Len(revisions)
         /\ \A i \in 1..Len(revisions) : revisions[i] \in RevisionRows
         /\ Len(submissions) \in Nat /\ DOMAIN submissions = 1..Len(submissions)
         /\ submissions # <<>> <=> Len(submissions) > 0
         /\ \A i \in 1..Len(submissions) : submissions[i] \in SubmissionRows
         /\ Len(packs) \in Nat /\ DOMAIN packs = 1..Len(packs)
         /\ \A i \in 1..Len(packs) : packs[i] \in PackRows
<1>1. revisions \in Seq(RevisionRows) /\ submissions \in Seq(SubmissionRows)
      /\ packs \in Seq(PackRows)
  BY DEF TypeOK
<1> QED BY <1>1

(* Every step stays in the domains, given that the draft is at a revision   *)
(* and the product at a Pack version that exist.                            *)
LEMMA NextTypes == TypeOK /\ EvidenceInv /\ [Next]_vars => TypeOK'
<1> SUFFICES ASSUME TypeOK, EvidenceInv, [Next]_vars PROVE TypeOK'
  OBVIOUS
<1>0. /\ draft.revision = Len(revisions) /\ draft.revision \in 1..Len(revisions)
      /\ Len(revisions) \in Nat /\ Len(packs) \in Nat /\ product.pack = Len(packs)
      /\ \A i \in DOMAIN revisions : revisions[i].content \in Content
  BY RowTypes DEF EvidenceInv, ReviewBound, PackIsNewest, RevisionRows
<1>1. ASSUME NEW c \in Callers, NEW k \in Keys \cup {Once},
             NEW r \in {"SELLER_EDITOR", "SELLER_REVIEWER"}, claim_product(c, k, r)
      PROVE  TypeOK'
  <2>1. unclaimed' \in [state : {"UNCLAIMED", "CLAIM_PENDING"}, owner : People]
    BY <1>1, CallerTypes DEF claim_product
  <2> QED BY <1>1, <2>1, CompleteTypes DEF claim_product, TypeOK
<1>2. ASSUME NEW c \in Callers, NEW k \in Keys \cup {Once}, NEW base,
             NEW content \in Content, patch_draft(c, k, base, content)
      PROVE  TypeOK'
  <2>1. Revision(content, c.actor) \in RevisionRows
    BY CallerTypes DEF Revision, RevisionRows
  <2>2. revisions' \in Seq(RevisionRows)
    BY <1>2, <2>1, AddedRow DEF patch_draft, TypeOK
  <2>3. draft' \in [state : DraftStates, editor : {Owner}, revision : Nat,
                   validation : Validations]
    <3> DEFINE v == Validation(content)
    <3>1. v \in Validations
      BY ValidationType
    <3>2. draft' = [draft EXCEPT !.revision = @ + 1, !.state = "SELLER_DRAFT", !.validation = v]
      BY <1>2 DEF patch_draft
    <3> HIDE DEF v
    <3>3. draft.revision + 1 \in Nat /\ "SELLER_DRAFT" \in DraftStates
      BY DEF TypeOK, DraftStates, Editable
    <3> QED BY <3>1, <3>2, <3>3 DEF TypeOK
  <2>4. product' \in [state : DraftStates, owner : {Owner}, pack : Nat]
    BY <1>2 DEF patch_draft, TypeOK, DraftStates, Editable
  <2> QED BY <1>2, <2>2, <2>3, <2>4, CompleteTypes DEF patch_draft, TypeOK
<1>3. ASSUME NEW c \in Callers, NEW k \in Keys \cup {Once}, NEW s \in Sources,
             attach_evidence(c, k, s)
      PROVE  TypeOK'
  BY <1>3, CompleteTypes DEF attach_evidence, TypeOK
<1>4. ASSUME NEW c \in Callers, NEW k \in Keys \cup {Once}, NEW hash, submit_review(c, k, hash)
      PROVE  TypeOK'
  <2>1. /\ draft' \in [state : DraftStates, editor : {Owner}, revision : Nat,
                       validation : Validations]
        /\ product' \in [state : DraftStates, owner : {Owner}, pack : Nat]
    BY <1>4, ValidationType DEF submit_review, TypeOK, DraftStates, Editable, Validations
  <2>2. Submission(c) \in SubmissionRows
    BY <1>0, CallerTypes DEF Submission, SubmissionRows, Current, TypeOK, People
  <2>3. submissions' \in Seq(SubmissionRows)
    <3> DEFINE row == Submission(c)
    <3>1. submissions' = submissions \/ submissions' = Append(submissions, row)
      BY <1>4 DEF submit_review
    <3>2. row \in SubmissionRows /\ submissions \in Seq(SubmissionRows)
      BY <2>2 DEF TypeOK
    <3> HIDE DEF row
    <3>3. Append(submissions, row) \in Seq(SubmissionRows)
      BY <3>2, AddedRow
    <3> QED BY <3>1, <3>2, <3>3
  <2>4. revisions' \in Seq(RevisionRows)
    <3>1. [revisions EXCEPT ![draft.revision].frozen = TRUE]
            = [revisions EXCEPT ![draft.revision] = [revisions[draft.revision] EXCEPT !.frozen = TRUE]]
      BY <1>0 DEF TypeOK
    <3>2. [revisions[draft.revision] EXCEPT !.frozen = TRUE] \in RevisionRows
      BY <1>0, RowTypes DEF RevisionRows
    <3>3. [revisions EXCEPT ![draft.revision].frozen = TRUE] \in Seq(RevisionRows)
      BY <1>0, <3>1, <3>2, ReplacedRow DEF TypeOK
    <3> QED BY <1>4, <3>3 DEF submit_review, TypeOK
  <2>5. idem' \in SUBSET Keys /\ served' \in [Keys -> Nat]
    BY <1>4, CompleteTypes DEF submit_review, idem_vars, TypeOK
  <2> QED BY <1>4, <2>1, <2>3, <2>4, <2>5 DEF submit_review, TypeOK
<1>5. ASSUME NEW c \in Callers, NEW k \in Keys \cup {Once}, NEW hash, NEW d \in Verdicts,
             review_decision(c, k, hash, d)
      PROVE  TypeOK'
  <2>1. /\ draft' \in [state : DraftStates, editor : {Owner}, revision : Nat,
                       validation : Validations]
        /\ product' \in [state : DraftStates, owner : {Owner}, pack : Nat]
    BY <1>5 DEF review_decision, SetDraftState, TypeOK, DraftStates, Editable
  <2>2. submissions' \in Seq(SubmissionRows)
    <3> DEFINE n == Len(submissions)
               row == [submissions[n] EXCEPT !.decision = d, !.reviewer = c.actor]
    <3>1. n \in 1..n
      BY <1>0, <1>5 DEF review_decision, Reviewable, TypeOK
    <3>2. row \in SubmissionRows
      BY <3>1, CallerTypes, RowTypes DEF SubmissionRows
    <3>3. submissions' = [submissions EXCEPT ![n] = row]
      BY <1>5 DEF review_decision
    <3> HIDE DEF row
    <3> QED BY <3>1, <3>2, <3>3, ReplacedRow DEF TypeOK
  <2> QED BY <1>5, <2>1, <2>2, CompleteTypes DEF review_decision, TypeOK
<1>6. ASSUME NEW c \in Callers, NEW k \in Keys \cup {Once}, NEW hash \in Content,
             publish(c, k, hash)
      PROVE  TypeOK'
  <2>1. /\ draft' \in [state : DraftStates, editor : {Owner}, revision : Nat,
                       validation : Validations]
        /\ product' \in [state : DraftStates, owner : {Owner}, pack : Nat]
    <3>1. Len(packs) + 1 \in Nat
      BY <1>0
    <3> QED BY <1>6, <3>1 DEF publish, TypeOK, DraftStates
  <2>2. Pack(hash, c.actor) \in PackRows
    BY CallerTypes DEF Pack, PackRows, TypeOK, None
  <2>3. SupersededPacks(Len(packs) + 1) \in Seq(PackRows)
    <3>1. CASE product.pack = None
      BY <3>1 DEF SupersededPacks, TypeOK
    <3>2. CASE product.pack # None
      <4> DEFINE row == [packs[product.pack] EXCEPT !.superseded = Len(packs) + 1]
      <4>1. product.pack \in 1..Len(packs)
        BY <1>0, <3>2 DEF None
      <4>2. row \in PackRows
        BY <1>0, <4>1, RowTypes DEF PackRows
      <4>3. SupersededPacks(Len(packs) + 1) = [packs EXCEPT ![product.pack] = row]
        BY <3>2, <4>1 DEF SupersededPacks, TypeOK
      <4> HIDE DEF row
      <4>4. [packs EXCEPT ![product.pack] = row] \in Seq(PackRows)
        BY <4>1, <4>2, ReplacedRow DEF TypeOK
      <4> QED BY <4>3, <4>4
    <3> QED BY <3>1, <3>2
  <2>4. packs' \in Seq(PackRows)
    BY <1>6, <2>2, <2>3, AddedRow DEF publish
  <2> QED BY <1>6, <2>1, <2>4, CompleteTypes DEF publish, TypeOK
<1>7. ASSUME NEW c \in Callers, NEW k \in Keys \cup {Once}, NEW id, suspend(c, k, id)
      PROVE  TypeOK'
  <2>1. suspensions' \in SUBSET Nat
    <3>1. id \in Nat
      BY <1>7, RowTypes DEF suspend
    <3> QED BY <1>7, <3>1 DEF suspend, TypeOK
  <2> QED BY <1>7, <2>1, CompleteTypes DEF suspend, TypeOK
<1>8. ASSUME NEW s \in Sources, Age(s) PROVE TypeOK'
  BY <1>8 DEF Age, TypeOK, idem_vars
<1>9. CASE UNCHANGED vars
  BY <1>9 DEF vars, seller_vars, idem_vars, TypeOK
<1> QED BY <1>0, <1>1, <1>2, <1>3, <1>4, <1>5, <1>6, <1>7, <1>8, <1>9 DEF Next, Verdicts

-----------------------------------------------------------------------------
(* claim_product, attach_evidence, suspend and the clock touch neither the  *)
(* draft nor what was published, and take no evidence away.                 *)
LEMMA FrameKeepsEvidence ==
  ASSUME EvidenceInv, UNCHANGED <<product, draft, revisions, submissions, packs>>,
         evidence \subseteq evidence'
  PROVE  EvidenceInv'
BY DEF EvidenceInv, SubmissionsSound, PackIsNewest, ReviewBound, Current, PackApproved,
   PacksAreChain

(* patch_draft: no submission is of the new revision.                       *)
LEMMA PatchKeepsEvidence ==
  ASSUME TypeOK, TypeOK', EvidenceInv, NEW c, NEW k, NEW base, NEW content \in Content,
         patch_draft(c, k, base, content)
  PROVE  EvidenceInv'
<1>1. /\ UNCHANGED <<evidence, submissions, packs>>
      /\ draft'.revision = draft.revision + 1 /\ draft'.state = "SELLER_DRAFT"
      /\ draft'.editor = draft.editor
      /\ product'.state = "SELLER_DRAFT" /\ product'.pack = product.pack
      /\ Len(revisions') = Len(revisions) + 1
  BY DEF patch_draft, TypeOK
<1>2. /\ draft.revision = Len(revisions) /\ Len(revisions) \in Nat /\ Len(submissions) \in Nat
      /\ submissions # <<>> => Len(submissions) \in 1..Len(submissions)
      /\ \A i \in 1..Len(submissions) : submissions[i].revision \in Nat
  BY RowTypes DEF EvidenceInv, ReviewBound, SubmissionRows
<1>3. SubmissionsSound'
  BY <1>1, <1>2 DEF EvidenceInv, SubmissionsSound
<1>4. ReviewBound'
  <2>1. submissions # <<>> => Last(submissions).revision < draft'.revision
    BY <1>1, <1>2 DEF EvidenceInv, SubmissionsSound, Last
  <2>2. submissions # <<>> => Last(submissions)'.revision # draft'.revision
    BY <1>1, <1>2, <2>1 DEF Last
  <2> QED BY <1>1, <1>2, <2>2 DEF ReviewBound
<1>5. PackIsNewest' /\ PackApproved' /\ PacksAreChain'
  BY <1>1 DEF EvidenceInv, PackIsNewest, PackApproved, PacksAreChain
<1> QED BY <1>1, <1>2, <1>3, <1>4, <1>5 DEF EvidenceInv

(* submit_review: a refused one leaves the submissions, an accepted one     *)
(* adds the current revision, valid and frozen.                             *)
LEMMA SubmitKeepsEvidence ==
  ASSUME TypeOK, TypeOK', EvidenceInv, NEW c \in Callers, NEW k, NEW hash,
         submit_review(c, k, hash)
  PROVE  EvidenceInv'
<1>0. /\ draft.revision = Len(revisions) /\ draft.revision \in 1..Len(revisions)
      /\ Len(revisions) \in Nat /\ Len(submissions) \in Nat
      /\ draft.state \in Editable /\ hash = revisions[draft.revision].content
  BY RowTypes DEF EvidenceInv, ReviewBound, submit_review, EditableBy, Current
<1>1. CASE Validation(hash) # "VALID"
  <2>1. /\ UNCHANGED <<evidence, submissions, packs, revisions>>
        /\ draft'.revision = draft.revision /\ draft'.state = "VALIDATION_CONFLICT"
        /\ draft'.editor = draft.editor
        /\ product'.state = "VALIDATION_CONFLICT" /\ product'.pack = product.pack
    BY <1>1 DEF submit_review, TypeOK
  <2>2. SubmissionsSound' /\ PackIsNewest' /\ PackApproved' /\ PacksAreChain'
    BY <2>1 DEF EvidenceInv, SubmissionsSound, PackIsNewest, PackApproved, PacksAreChain
  <2>3. ReviewBound'
    BY <1>0, <2>1 DEF EvidenceInv, ReviewBound, Current, Editable
  <2> QED BY <2>1, <2>2, <2>3 DEF EvidenceInv
<1>2. CASE Validation(hash) = "VALID"
  <2> DEFINE n == Len(submissions) + 1
             row == Submission(c)
  <2>1. /\ UNCHANGED <<evidence, packs>>
        /\ draft'.revision = draft.revision /\ draft'.state = "IN_REVIEW"
        /\ draft'.editor = draft.editor
        /\ product'.state = "IN_REVIEW" /\ product'.pack = product.pack
        /\ submissions' = Append(submissions, row)
    BY <1>2 DEF submit_review, TypeOK
  <2>2. /\ Len(revisions') = Len(revisions) /\ revisions'[draft.revision].frozen
        /\ revisions'[draft.revision].content = hash
    <3> DEFINE rev == [revisions[draft.revision] EXCEPT !.frozen = TRUE]
    <3>1. revisions' = [revisions EXCEPT ![draft.revision] = rev]
      BY <1>0, <1>2 DEF submit_review, TypeOK
    <3>2. rev \in RevisionRows /\ rev.frozen /\ rev.content = hash
      BY <1>0, RowTypes DEF RevisionRows
    <3> HIDE DEF rev
    <3>3. /\ Len([revisions EXCEPT ![draft.revision] = rev]) = Len(revisions)
          /\ [revisions EXCEPT ![draft.revision] = rev][draft.revision] = rev
      BY <1>0, <3>2, ReplacedRow DEF TypeOK
    <3> QED BY <3>1, <3>2, <3>3
  <2>3. /\ row.revision = draft.revision /\ row.content = hash
        /\ row.decision = "PENDING"
    BY <1>0 DEF Submission, Current
  <2>4. /\ Len(submissions') = n /\ submissions'[n] = row
        /\ \A i \in 1..Len(submissions) : submissions'[i] = submissions[i]
        /\ submissions' # <<>> /\ n \in Nat
        /\ \A i \in 1..n : i \in 1..Len(submissions) \/ i = n
        /\ \A i \in 1..Len(submissions) : i \in 1..n
        /\ DOMAIN submissions' = 1..n /\ DOMAIN submissions = 1..Len(submissions)
    <3> HIDE DEF row
    <3> QED BY <1>0, <2>1, RowTypes DEF TypeOK
  <2>5. hash.complete /\ ~hash.conflict /\ hash.refs \subseteq evidence
    <3>1. hash \in Content
      BY <1>0, RowTypes DEF RevisionRows
    <3> QED BY <1>2, <3>1 DEF Validation, Content
  <2> HIDE DEF row, n
  <2>6. SubmissionsSound'
    BY <1>0, <2>1, <2>2, <2>3, <2>4, <2>5 DEF EvidenceInv, SubmissionsSound
  <2>7. ReviewBound'
    BY <1>0, <2>1, <2>2, <2>3, <2>4 DEF ReviewBound, Current, Last
  <2>8. PackApproved'
    BY <2>1, <2>4 DEF EvidenceInv, PackApproved
  <2>9. PackIsNewest' /\ PacksAreChain'
    BY <2>1 DEF EvidenceInv, PackIsNewest, PacksAreChain
  <2> QED BY <1>0, <2>2, <2>6, <2>7, <2>8, <2>9 DEF EvidenceInv
<1> QED BY <1>1, <1>2

(* review_decision: the one undecided submission is decided by somebody     *)
(* else; those approved before are left alone.                              *)
LEMMA ReviewKeepsEvidence ==
  ASSUME TypeOK, TypeOK', EvidenceInv, NEW c \in Callers, NEW k, NEW hash,
         NEW d \in Verdicts, review_decision(c, k, hash, d)
  PROVE  EvidenceInv'
<1> DEFINE n == Len(submissions)
           row == [submissions[n] EXCEPT !.decision = d, !.reviewer = c.actor]
<1>0. n \in Nat /\ n \in 1..n /\ submissions \in Seq(SubmissionRows)
      /\ DOMAIN submissions = 1..n
  BY RowTypes DEF review_decision, Reviewable, TypeOK
<1>1. /\ row \in SubmissionRows /\ row.revision = submissions[n].revision
      /\ row.content = submissions[n].content /\ row.by = submissions[n].by
      /\ row.decision = d /\ row.reviewer = c.actor
  BY <1>0, RowTypes, CallerTypes DEF SubmissionRows
<1>2. /\ UNCHANGED <<evidence, packs, revisions>>
      /\ draft'.revision = draft.revision /\ draft'.editor = draft.editor
      /\ draft'.state = IF d = "APPROVE" THEN "PUBLISH_READY" ELSE "CHANGES_REQUESTED"
      /\ product'.state = draft'.state /\ product'.pack = product.pack
  BY DEF review_decision, SetDraftState, TypeOK
<1>3. submissions' = [submissions EXCEPT ![n] = row]
  BY DEF review_decision
<1>4. /\ draft.state = "IN_REVIEW" /\ submissions[n].decision = "PENDING"
      /\ c.actor \notin {draft.editor, submissions[n].by}
  BY DEF review_decision, Reviewable, Separate, Last
<1> HIDE DEF row
<1>5. /\ Len(submissions') = n /\ submissions'[n] = row /\ DOMAIN submissions' = 1..n
      /\ \A i \in 1..n : i # n => submissions'[i] = submissions[i]
      /\ submissions' # <<>>
  <2> DEFINE decided == [submissions EXCEPT ![n] = row]
  <2>1. /\ decided \in Seq(SubmissionRows) /\ Len(decided) = n
        /\ \A i \in 1..n : decided[i] = IF i = n THEN row ELSE submissions[i]
    BY <1>0, <1>1, ReplacedRow
  <2>2. submissions' = decided
    BY <1>3
  <2> HIDE DEF decided, n
  <2>3. DOMAIN decided = 1..n /\ decided # <<>>
    BY <1>0, <2>1
  <2> QED BY <1>0, <2>1, <2>2, <2>3
<1> HIDE DEF n
<1>6. SubmissionsSound'
  <2>1. \A i \in 1..n : /\ submissions[i].revision \in 1..Len(revisions)
                        /\ submissions[i].content.complete /\ ~submissions[i].content.conflict
                        /\ submissions[i].content.refs \subseteq evidence
                        /\ submissions[i].decision = "APPROVE" =>
                             submissions[i].reviewer \notin {submissions[i].by, draft.editor}
    BY DEF EvidenceInv, SubmissionsSound, n
  <2> QED BY <1>0, <1>1, <1>2, <1>4, <1>5, <2>1 DEF SubmissionsSound
<1>7. ReviewBound'
  <2>1. /\ submissions[n].revision = draft.revision /\ revisions[draft.revision].frozen
        /\ submissions[n].content = revisions[draft.revision].content
        /\ draft.revision = Len(revisions)
    BY <1>4 DEF EvidenceInv, ReviewBound, Current, Last, n
  <2> QED BY <1>1, <1>2, <1>5, <2>1 DEF ReviewBound, Current, Last, Verdicts
<1>8. PackApproved'
  <2>1. \A i \in 1..n : submissions[i].decision = "APPROVE" => submissions'[i] = submissions[i]
    BY <1>4, <1>5
  <2> QED BY <1>0, <1>2, <1>5, <2>1 DEF EvidenceInv, PackApproved
<1>9. PackIsNewest' /\ PacksAreChain'
  BY <1>2 DEF EvidenceInv, PackIsNewest, PacksAreChain
<1> QED BY <1>2, <1>6, <1>7, <1>8, <1>9 DEF EvidenceInv

(* publish: the newest Pack version is the revision that was approved, with *)
(* all its evidence, and the one before it points at it.                    *)
LEMMA PublishKeepsEvidence ==
  ASSUME TypeOK, TypeOK', EvidenceInv, NEW c \in Callers, NEW k, NEW hash \in Content,
         publish(c, k, hash)
  PROVE  EvidenceInv'
<1> DEFINE n == Len(packs)
           older == [packs[n] EXCEPT !.superseded = n + 1]
           row == Pack(hash, c.actor)
<1>0. /\ n \in Nat /\ n \in 1..n /\ product.pack = n /\ packs \in Seq(PackRows)
      /\ DOMAIN packs = 1..n
  BY RowTypes DEF EvidenceInv, PackIsNewest, TypeOK
<1>1. /\ UNCHANGED <<evidence, submissions, revisions>>
      /\ draft'.revision = draft.revision /\ draft'.editor = draft.editor
      /\ draft'.state = "PUBLISHED" /\ product'.state = "PUBLISHED" /\ product'.pack = n + 1
  BY DEF publish, TypeOK
<1>2. /\ row \in PackRows /\ row.content = hash /\ row.superseded = None
      /\ row.evidence = hash.refs \cap evidence
  BY CallerTypes DEF Pack, PackRows, TypeOK, None
<1>3. /\ older \in PackRows /\ older.content = packs[n].content
      /\ older.evidence = packs[n].evidence /\ older.superseded = n + 1
  <2>1. packs[n] \in PackRows /\ n + 1 \in Nat
    BY <1>0, RowTypes
  <2> HIDE DEF n
  <2> QED BY <2>1 DEF PackRows
<1>4. packs' = Append([packs EXCEPT ![n] = older], row)
  <2>1. product.pack # None
    BY <1>0 DEF None
  <2>2. packs' = Append([packs EXCEPT ![n].superseded = n + 1], row)
    BY <1>0, <2>1 DEF publish, SupersededPacks
  <2>3. [packs EXCEPT ![n].superseded = n + 1] = [packs EXCEPT ![n] = older]
    BY <1>0
  <2> QED BY <2>2, <2>3
<1>5. draft.state = "PUBLISH_READY" /\ hash = revisions[draft.revision].content
  BY DEF publish, Publishable, Current
<1> HIDE DEF older, row
<1>6. /\ Len(packs') = n + 1 /\ DOMAIN packs' = 1..(n + 1)
      /\ packs'[n + 1] = row /\ packs'[n] = older
      /\ \A i \in 1..n : i # n => packs'[i] = packs[i]
  <2> DEFINE mid == [packs EXCEPT ![n] = older]
  <2>1. /\ mid \in Seq(PackRows) /\ Len(mid) = n
        /\ \A i \in 1..n : mid[i] = IF i = n THEN older ELSE packs[i]
    BY <1>0, <1>3, ReplacedRow
  <2> HIDE DEF mid
  <2>2. /\ Append(mid, row) \in Seq(PackRows) /\ Len(Append(mid, row)) = n + 1
        /\ Append(mid, row)[n + 1] = row
        /\ \A i \in 1..n : Append(mid, row)[i] = mid[i]
    BY <1>2, <2>1, AddedRow
  <2>3. packs' = Append(mid, row)
    BY <1>4 DEF mid
  <2> DEFINE new == Append(mid, row)
  <2>4. new \in Seq(PackRows) /\ Len(new) = n + 1 /\ packs' = new
        /\ new[n + 1] = row /\ \A i \in 1..n : new[i] = mid[i]
    BY <2>2, <2>3
  <2> HIDE DEF new, n
  <2>5. DOMAIN new = 1..(n + 1)
    BY <2>4
  <2> QED BY <1>0, <2>1, <2>4, <2>5
<1>7. /\ submissions # <<>> /\ Len(submissions) \in DOMAIN submissions
      /\ submissions[Len(submissions)].content = hash
      /\ submissions[Len(submissions)].decision = "APPROVE"
      /\ hash.complete /\ ~hash.conflict /\ hash.refs \subseteq evidence
      /\ submissions[Len(submissions)].reviewer
           \notin {submissions[Len(submissions)].by, draft.editor}
  BY <1>5, RowTypes DEF EvidenceInv, ReviewBound, Current, Last, SubmissionsSound
<1> HIDE DEF n
<1>8. SubmissionsSound'
  BY <1>1 DEF EvidenceInv, SubmissionsSound
<1>9. ReviewBound'
  BY <1>1, <1>5 DEF EvidenceInv, ReviewBound, Current
<1>10. PackApproved'
  <2> SUFFICES ASSUME NEW id \in 2..(n + 1)
               PROVE  /\ packs'[id].content.complete /\ ~packs'[id].content.conflict
                      /\ packs'[id].evidence = packs'[id].content.refs
                      /\ \E i \in DOMAIN submissions :
                           /\ submissions[i].content = packs'[id].content
                           /\ submissions[i].decision = "APPROVE"
                           /\ submissions[i].reviewer \notin {submissions[i].by, draft.editor}
    BY <1>1, <1>6 DEF PackApproved
  <2>1. CASE id = n + 1
    BY <1>2, <1>6, <1>7, <2>1
  <2>2. CASE id # n + 1
    <3>1. id \in 2..n /\ id \in 1..n
      BY <1>0, <2>2
    <3>2. packs'[id].content = packs[id].content /\ packs'[id].evidence = packs[id].evidence
      BY <1>3, <1>6, <3>1
    <3> QED BY <3>1, <3>2 DEF EvidenceInv, PackApproved, n
  <2> QED BY <2>1, <2>2
<1>11. PacksAreChain'
  <2> SUFFICES ASSUME NEW id \in 1..(n + 1)
               PROVE  packs'[id].superseded = IF id = n + 1 THEN None ELSE id + 1
    BY <1>1, <1>6 DEF PacksAreChain
  <2>1. CASE id = n + 1
    BY <1>2, <1>6, <2>1
  <2>2. CASE id = n
    BY <1>0, <1>3, <1>6, <2>2
  <2>3. CASE id # n /\ id # n + 1
    BY <1>0, <1>6, <2>3 DEF EvidenceInv, PacksAreChain
  <2> QED BY <2>1, <2>2, <2>3
<1>12. PackIsNewest'
  BY <1>0, <1>1, <1>6 DEF PackIsNewest
<1> QED BY <1>1, <1>8, <1>9, <1>10, <1>11, <1>12 DEF EvidenceInv

(* Every step keeps EvidenceInv.                                            *)
LEMMA NextEvidence == TypeOK /\ EvidenceInv /\ [Next]_vars => EvidenceInv'
<1> SUFFICES ASSUME TypeOK, EvidenceInv, [Next]_vars PROVE EvidenceInv'
  OBVIOUS
<1>0. TypeOK' /\ \A i \in DOMAIN revisions : revisions[i].content \in Content
  BY NextTypes, RowTypes DEF RevisionRows
<1>1. ASSUME NEW c \in Callers, NEW k \in Keys \cup {Once}, NEW r, claim_product(c, k, r)
      PROVE  EvidenceInv'
  BY <1>1, FrameKeepsEvidence DEF claim_product
<1>2. ASSUME NEW c \in Callers, NEW k \in Keys \cup {Once}, NEW s, attach_evidence(c, k, s)
      PROVE  EvidenceInv'
  BY <1>2, FrameKeepsEvidence DEF attach_evidence
<1>3. ASSUME NEW c \in Callers, NEW k \in Keys \cup {Once}, NEW id, suspend(c, k, id)
      PROVE  EvidenceInv'
  BY <1>3, FrameKeepsEvidence DEF suspend
<1>4. ASSUME NEW s \in Sources, Age(s) PROVE EvidenceInv'
  BY <1>4, FrameKeepsEvidence DEF Age
<1>5. CASE UNCHANGED vars
  BY <1>5, FrameKeepsEvidence DEF vars, seller_vars
<1> QED BY <1>0, <1>1, <1>2, <1>3, <1>4, <1>5, PatchKeepsEvidence, SubmitKeepsEvidence,
           ReviewKeepsEvidence, PublishKeepsEvidence DEF Next, Verdicts

LEMMA InitEvidence == Init => EvidenceInv
<1> SUFFICES ASSUME Init PROVE EvidenceInv
  OBVIOUS
<1>1. /\ Len(revisions) = 1 /\ Len(packs) = 1 /\ submissions = <<>> /\ Len(submissions) = 0
      /\ DOMAIN packs = {1} /\ packs[1].superseded = None
      /\ draft.revision = 1 /\ draft.state = "SELLER_DRAFT"
      /\ product.state = "SELLER_DRAFT" /\ product.pack = 1
  BY DEF Init, SeededProduct, SeededDraft, SeededPack
<1>2. SubmissionsSound /\ PackIsNewest /\ ReviewBound
  BY <1>1 DEF SubmissionsSound, PackIsNewest, ReviewBound
<1>3. PackApproved /\ PacksAreChain
  BY <1>1 DEF PackApproved, PacksAreChain
<1> QED BY <1>1, <1>2, <1>3 DEF EvidenceInv

(* Draft, revisions, submissions and Pack versions stay in their domains,   *)
(* for every set of callers and sources.                                    *)
THEOREM EvidenceTypes == Spec => []TypeOK
BY InitTypes, InitEvidence, NextTypes, NextEvidence, PTL DEF Spec

(* Every step keeps AuthorsMayEdit: patch_draft is the only one that writes  *)
(* an author, and submit_review freezes a revision without changing it.     *)
LEMMA NextAuthors == TypeOK /\ EvidenceInv /\ AuthorsMayEdit /\ [Next]_vars => AuthorsMayEdit'
<1> SUFFICES ASSUME TypeOK, EvidenceInv, AuthorsMayEdit, [Next]_vars PROVE AuthorsMayEdit'
  OBVIOUS
<1>0. /\ draft.revision \in 1..Len(revisions) /\ Len(revisions) \in Nat
      /\ revisions \in Seq(RevisionRows)
      /\ \A i \in 1..Len(revisions) : revisions[i] \in RevisionRows
  BY RowTypes DEF EvidenceInv, ReviewBound, TypeOK
<1>1. CASE UNCHANGED revisions
  BY <1>1 DEF AuthorsMayEdit
<1>2. ASSUME NEW c \in Callers, NEW k \in Keys \cup {Once}, NEW base, NEW content \in Content,
             patch_draft(c, k, base, content)
      PROVE  AuthorsMayEdit'
  <2> DEFINE row == Revision(content, c.actor)
  <2>1. row \in RevisionRows /\ row.author = c.actor
    BY CallerTypes DEF Revision, RevisionRows
  <2>2. c.actor \in Operators \cup {Owner}
    BY <1>2, SellerAssumption DEF patch_draft, EditableBy, Editing, Reviewing, Access, TypeOK,
       Operators
  <2>3. revisions' = Append(revisions, row)
    BY <1>2 DEF patch_draft
  <2> HIDE DEF row
  <2>4. /\ Len(revisions') = Len(revisions) + 1 /\ revisions'[Len(revisions) + 1] = row
        /\ \A i \in 1..Len(revisions) : revisions'[i] = revisions[i]
    BY <1>0, <2>1, <2>3
  <2> QED BY <1>0, <2>1, <2>2, <2>4 DEF AuthorsMayEdit
<1>3. ASSUME NEW c \in Callers, NEW k \in Keys \cup {Once}, NEW hash, submit_review(c, k, hash)
      PROVE  AuthorsMayEdit'
  <2>1. CASE UNCHANGED revisions
    BY <1>1, <2>1
  <2>2. CASE revisions' = [revisions EXCEPT ![draft.revision].frozen = TRUE]
    <3> DEFINE rev == [revisions[draft.revision] EXCEPT !.frozen = TRUE]
    <3>1. rev \in RevisionRows /\ rev.author = revisions[draft.revision].author
      BY <1>0 DEF RevisionRows
    <3>2. revisions' = [revisions EXCEPT ![draft.revision] = rev]
      BY <1>0, <2>2
    <3> HIDE DEF rev
    <3>3. /\ Len(revisions') = Len(revisions)
          /\ \A i \in 1..Len(revisions) :
               revisions'[i] = IF i = draft.revision THEN rev ELSE revisions[i]
      BY <1>0, <3>1, <3>2, ReplacedRow
    <3> QED BY <1>0, <3>1, <3>3 DEF AuthorsMayEdit
  <2> QED BY <1>3, <2>1, <2>2 DEF submit_review
<1> QED BY <1>1, <1>2, <1>3 DEF Next, claim_product, attach_evidence, review_decision, publish,
           suspend, Age, vars, seller_vars

LEMMA InitAuthors == Init => AuthorsMayEdit
BY DEF Init, SeededDraft, Revision, AuthorsMayEdit

(* publish: for any number of revisions, reviews and versions, a published  *)
(* Pack is a revision that was valid when submitted and approved by         *)
(* somebody who neither edits nor submitted it and who did not write it,    *)
(* unless they are a platform operator, with all its evidence, and the      *)
(* versions form one chain.                                                 *)
THEOREM PublicationIsSound == Spec => []PublicationSound
<1>1. ASSUME TypeOK, EvidenceInv, AuthorsMayEdit PROVE PackWasReviewed
  <2>1. ASSUME NEW i \in DOMAIN submissions, submissions[i].reviewer # draft.editor
        PROVE  submissions[i].reviewer # AuthorOf(i) \/ OperatorApprovedOwn(i)
    <3>1. submissions[i].revision \in 1..Len(revisions) /\ draft.editor = Owner
      BY <1>1, <2>1, RowTypes DEF EvidenceInv, SubmissionsSound, TypeOK
    <3>2. AuthorOf(i) \in Operators \cup {Owner}
      BY <1>1, <3>1 DEF AuthorsMayEdit, AuthorOf
    <3> QED BY <2>1, <3>1, <3>2 DEF OperatorApprovedOwn, Operators
  <2> QED BY <1>1, <2>1 DEF EvidenceInv, PackApproved, PackWasReviewed
<1>2. TypeOK /\ EvidenceInv /\ AuthorsMayEdit => PublicationSound
  BY <1>1 DEF EvidenceInv, PublicationSound
<1> QED BY <1>2, InitTypes, InitEvidence, InitAuthors, NextTypes, NextEvidence, NextAuthors,
           PTL DEF Spec

-----------------------------------------------------------------------------
(* patch_draft, attach_evidence: no step changes a revision or its evidence *)
(* while a reviewer or the publication stands before it.                    *)
THEOREM NothingChangesUnderReview == Spec => FrozenUnderReview
<1> DEFINE Frozen == draft.state \in {"IN_REVIEW", "PUBLISH_READY"}
<1>1. ASSUME Frozen, [Next]_vars PROVE UNCHANGED <<revisions, evidence>>
  <2>1. \A c : ~EditableBy(c)
    BY <1>1 DEF EditableBy, Editable
  <2>2. ASSUME NEW c \in Callers, NEW k \in Keys \cup {Once}, NEW base, NEW content,
               patch_draft(c, k, base, content)
        PROVE  FALSE
    BY <2>1, <2>2 DEF patch_draft
  <2>3. ASSUME NEW c \in Callers, NEW k \in Keys \cup {Once}, NEW s, attach_evidence(c, k, s)
        PROVE  FALSE
    BY <2>1, <2>3 DEF attach_evidence, Attachable
  <2>4. ASSUME NEW c \in Callers, NEW k \in Keys \cup {Once}, NEW hash, submit_review(c, k, hash)
        PROVE  FALSE
    BY <2>1, <2>4 DEF submit_review
  <2>5. ASSUME NEW c, NEW k, NEW x, NEW d,
               \/ claim_product(c, k, x) \/ review_decision(c, k, x, d) \/ publish(c, k, x)
               \/ suspend(c, k, x) \/ Age(x)
        PROVE  UNCHANGED <<revisions, evidence>>
    BY <2>5 DEF claim_product, review_decision, publish, suspend, Age
  <2>6. CASE UNCHANGED vars
    BY <2>6 DEF vars, seller_vars
  <2> QED BY <1>1, <2>2, <2>3, <2>4, <2>5, <2>6 DEF Next
<1>2. [Next]_vars => [Frozen => UNCHANGED <<revisions, evidence>>]_vars
  BY <1>1
<1> QED BY <1>2, PTL DEF Spec, FrozenUnderReview

(* get_product_view: in every reachable state the actions and capabilities  *)
(* shown to a caller are those the handlers accept from it.                 *)
THEOREM ViewIsTrue == Spec => []ViewMatchesHandlers
<1>1. ASSUME TypeOK, EvidenceInv PROVE ViewMatchesHandlers
  <2> SUFFICES ASSUME NEW c \in Callers
               PROVE  /\ "EDIT_PRODUCT_EVIDENCE" \in Actions(c) <=> EditableBy(c)
                      /\ "PUBLISH_PRODUCT_EVIDENCE" \in Actions(c) <=> Publishable(c, Current.content)
                      /\ Reviewable(c, Current.content) => "REVIEW_PRODUCT_EVIDENCE" \in Actions(c)
                      /\ EditableBy(c) => {"EDIT_CLAIMS", "ADD_EVIDENCE", "SUBMIT_REVIEW"}
                                            \subseteq Capabilities(c)
                      /\ Publishable(c, Current.content) => "PUBLISH" \in Capabilities(c)
                      /\ Reviewable(c, Current.content) => "APPROVE_REVIEW" \in Capabilities(c)
    BY DEF ViewMatchesHandlers
  <2>1. c.role \in {"SELLER_EDITOR", "SELLER_REVIEWER", "PLATFORM_OPERATOR"}
    BY CallerTypes
  <2>2. "EDIT_PRODUCT_EVIDENCE" \in Actions(c) <=> EditableBy(c)
    BY <2>1 DEF Actions, EditActions, ReviewActions, EditableBy, Access, Editing, Reviewing
  <2>3. "PUBLISH_PRODUCT_EVIDENCE" \in Actions(c) <=>
          c.role \in Reviewing /\ draft.state = "PUBLISH_READY"
    BY DEF Actions, EditActions, ReviewActions
  <2>4. draft.state = "PUBLISH_READY" =>
          submissions # <<>> /\ Last(submissions).decision = "APPROVE"
    BY <1>1 DEF EvidenceInv, ReviewBound
  <2>5. Publishable(c, Current.content) <=> c.role \in Reviewing /\ draft.state = "PUBLISH_READY"
    BY <2>4 DEF Publishable
  <2>6. Reviewable(c, Current.content) => "REVIEW_PRODUCT_EVIDENCE" \in Actions(c)
    BY DEF Reviewable, Actions, ReviewActions
  <2>7. CASE c.role = "PLATFORM_OPERATOR"
    <3>1. OperatorCapabilities \subseteq Capabilities(c)
      BY <2>7 DEF Capabilities
    <3> QED BY <2>2, <2>3, <2>5, <2>6, <3>1 DEF OperatorCapabilities
  <2>8. CASE c.role = "SELLER_EDITOR"
    <3>1. EditableBy(c) => {"EDIT_CLAIMS", "ADD_EVIDENCE", "SUBMIT_REVIEW"} \subseteq Capabilities(c)
      BY <2>8 DEF EditableBy, Access, Reviewing, Capabilities
    <3>2. ~Publishable(c, Current.content) /\ ~Reviewable(c, Current.content)
      BY <2>8 DEF Publishable, Reviewable, Reviewing
    <3> QED BY <2>2, <2>3, <2>5, <2>6, <3>1, <3>2
  <2>9. CASE c.role = "SELLER_REVIEWER"
    <3>1. ~EditableBy(c)
      BY <2>9 DEF EditableBy, Editing
    <3>2. draft.state = "PUBLISH_READY" => "PUBLISH" \in Capabilities(c)
      BY <2>9 DEF Capabilities
    <3>3. draft.state = "IN_REVIEW" => "APPROVE_REVIEW" \in Capabilities(c)
      BY <2>9 DEF Capabilities
    <3> QED BY <2>2, <2>3, <2>5, <2>6, <3>1, <3>2, <3>3 DEF Reviewable
  <2> QED BY <2>1, <2>7, <2>8, <2>9
<1> QED BY <1>1, InitTypes, InitEvidence, NextTypes, NextEvidence, PTL DEF Spec

-----------------------------------------------------------------------------
(* A key is completed only by an operation that found no record of it.      *)
LEMMA CompleteKeepsKeys ==
  ASSUME TypeOK, KeyServedOnce, NEW k \in Keys \cup {Once}, NEW held,
         Claimable(k, held), Complete(k)
  PROVE  KeyServedOnce'
<1>1. CASE k = Once
  BY <1>1 DEF Complete, idem_vars, KeyServedOnce
<1>2. CASE k # Once
  <2>1. k \in Keys /\ idem' = idem \cup {k} /\ served' = [served EXCEPT ![k] = @ + 1]
        /\ k \notin idem
    BY <1>2 DEF Complete, Claimable
  <2>2. served[k] = 0
    BY <2>1 DEF KeyServedOnce
  <2> QED BY <2>1, <2>2 DEF KeyServedOnce, TypeOK
<1> QED BY <1>1, <1>2

(* claim_idempotency: however often a client repeats a key, one seller      *)
(* operation commits under it; a refused submission commits none.           *)
THEOREM SellerKeyServedOnce == Spec => []KeyServedOnce
<1>1. Init => KeyServedOnce
  BY DEF Init, IdemInit, KeyServedOnce
<1>2. ASSUME TypeOK, KeyServedOnce, [Next]_vars PROVE KeyServedOnce'
  <2>1. ASSUME UNCHANGED idem_vars PROVE KeyServedOnce'
    BY <1>2, <2>1 DEF idem_vars, KeyServedOnce
  <2>2. ASSUME NEW c, NEW k \in Keys \cup {Once}, NEW x, NEW y,
               \/ claim_product(c, k, x) \/ patch_draft(c, k, x, y) \/ attach_evidence(c, k, x)
               \/ review_decision(c, k, x, y) \/ publish(c, k, x) \/ suspend(c, k, x)
        PROVE  KeyServedOnce'
    <3>1. Claimable(k, {}) /\ Complete(k)
      BY <2>2 DEF claim_product, patch_draft, attach_evidence, review_decision, publish, suspend
    <3> QED BY <1>2, <3>1, CompleteKeepsKeys
  <2>3. ASSUME NEW c, NEW k \in Keys \cup {Once}, NEW hash, submit_review(c, k, hash)
        PROVE  KeyServedOnce'
    BY <1>2, <2>1, <2>3, CompleteKeepsKeys DEF submit_review
  <2>4. ASSUME NEW s, Age(s) PROVE KeyServedOnce'
    BY <2>1, <2>4 DEF Age
  <2>5. CASE UNCHANGED vars
    BY <2>1, <2>5 DEF vars
  <2> QED BY <1>2, <2>2, <2>3, <2>4, <2>5 DEF Next
<1> QED BY <1>1, <1>2, InitTypes, InitEvidence, NextTypes, NextEvidence, PTL DEF Spec
=============================================================================
