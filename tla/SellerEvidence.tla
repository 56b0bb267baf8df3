--------------------------- MODULE SellerEvidence ---------------------------
(***************************************************************************)
(* SellerEvidenceService: the Product Evidence draft of one product, its   *)
(* revisions, attached evidence, reviews and published Pack versions, and  *)
(* a second product that nobody has claimed.  Every operation locks the    *)
(* draft row first, so the operations of one draft run one at a time.      *)
(*                                                                         *)
(* A revision is abstracted to what validation and publication read of it: *)
(* whether its claims are complete and free of conflicts, and the evidence *)
(* it refers to.  revision_hash is the content itself.                     *)
(***************************************************************************)
EXTENDS Idempotency, Sequences, SequencesExt

CONSTANTS Callers,      \* identities: an actor and the role _seller_role gives it
          Owner,        \* the actor that owns the product and edits its draft
          Sources,      \* evidence sources a seller may attach
          OldSource,    \* the source of the seeded draft, more than a year old
          MaxRevisions, \* bound on revisions of the draft
          MaxReviews    \* bound on submissions of the draft

ASSUME SellerAssumption ==
  /\ \A c \in Callers :
       c.role \in {"SELLER_EDITOR", "SELLER_REVIEWER", "PLATFORM_OPERATOR"}
  /\ OldSource \in Sources
  /\ MaxRevisions \in Nat /\ MaxReviews \in Nat

VARIABLES unclaimed,   \* a product without an owner
          product,     \* state, owner and current Pack version
          draft,       \* the draft row
          revisions,   \* SellerPackDraftRevision rows, oldest first
          evidence,    \* sources with an attachment on the draft
          aged,        \* sources whose observed_at is more than 365 days ago
          submissions, \* SellerReviewSubmission rows with their decision
          packs,       \* SellerPackVersion rows, oldest first
          suspensions  \* Pack versions with a suspension row

seller_vars == <<unclaimed, product, draft, revisions, evidence, aged, submissions,
                 packs, suspensions>>
vars == <<seller_vars, idem_vars>>

None == 0
NoActor == "none"
Editing == {"SELLER_EDITOR", "PLATFORM_OPERATOR"}
Reviewing == {"SELLER_REVIEWER", "PLATFORM_OPERATOR"}
Editable == {"SELLER_DRAFT", "VALIDATION_CONFLICT", "CHANGES_REQUESTED"}

Content == [complete: BOOLEAN, conflict: BOOLEAN, refs: SUBSET Sources]

\* _require_product_access
Access(c) == c.role \in Reviewing \/ product.owner = c.actor

\* _validate_revision, with the clock of the call.
Validation(content) ==
  CASE content.conflict -> "CONFLICT"
    [] ~content.conflict /\ (~content.complete \/ \E s \in content.refs :
                               s \notin evidence \/ s \in aged) -> "HAS_GAPS"
    [] OTHER -> "VALID"

Current == revisions[draft.revision]
SetDraftState(s) ==
  /\ draft' = [draft EXCEPT !.state = s]
  /\ product' = [product EXCEPT !.state = s]

-----------------------------------------------------------------------------
\* Claims of a product

claim_product(c, k, requested) ==
  /\ requested \in {"SELLER_EDITOR", "SELLER_REVIEWER"}
  /\ c.role = "PLATFORM_OPERATOR" \/ requested = c.role
  /\ Claimable(k, {}) /\ unclaimed.state \in {"UNCLAIMED", "CLAIM_DENIED"}
  /\ unclaimed' = [state |-> "CLAIM_PENDING", owner |-> c.actor]
  /\ Complete(k)
  /\ UNCHANGED <<product, draft, revisions, evidence, aged, submissions, packs, suspensions>>

-----------------------------------------------------------------------------
\* Revisions and evidence

Revision(content, actor) == [content |-> content, author |-> actor, frozen |-> FALSE]

\* uq_seller_draft_hash and _validate_evidence_links
NewContent(content) ==
  /\ \A i \in DOMAIN revisions : revisions[i].content # content
  /\ content.refs \subseteq evidence

\* The guards of patch_draft and submit_review on caller and state.
EditableBy(c) == c.role \in Editing /\ Access(c) /\ draft.state \in Editable

patch_draft(c, k, base, content) ==
  /\ EditableBy(c) /\ Claimable(k, {})
  /\ base = draft.revision /\ NewContent(content)
  /\ revisions' = Append(revisions, Revision(content, c.actor))
  /\ draft' = [draft EXCEPT !.revision = @ + 1, !.state = "SELLER_DRAFT",
                            !.validation = Validation(content)]
  /\ product' = [product EXCEPT !.state = "SELLER_DRAFT"]
  /\ Complete(k)
  /\ UNCHANGED <<unclaimed, evidence, aged, submissions, packs, suspensions>>

\* Mutant: evidence may be attached while a revision is frozen.
AttachableAlways(c) == c.role \in Editing /\ Access(c)

Attachable(c) == EditableBy(c)

\* An attached source answers with its attachment, one with other metadata
\* with SELLER_EVIDENCE_SOURCE_CONFLICT.
attach_evidence(c, k, s) ==
  /\ Attachable(c) /\ Claimable(k, {})
  /\ evidence' = evidence \cup {s}
  /\ Complete(k)
  /\ UNCHANGED <<unclaimed, product, draft, revisions, aged, submissions, packs, suspensions>>

\* Time passes: an attachment becomes stale.
Age(s) ==
  /\ s \in evidence \ aged
  /\ aged' = aged \cup {s}
  /\ UNCHANGED <<unclaimed, product, draft, revisions, evidence, submissions, packs,
                 suspensions, idem_vars>>

-----------------------------------------------------------------------------
\* Review

Submission(c) == [revision |-> draft.revision, content |-> Current.content, by |-> c.actor,
                  decision |-> "PENDING", reviewer |-> NoActor]

\* uq_seller_review_submission
FirstSubmission(content) ==
  \A i \in DOMAIN submissions : submissions[i].content # content

\* The refused submission commits the conflict but leaves its idempotency
\* record STARTED, so a retry validates again.
submit_review(c, k, hash) ==
  /\ EditableBy(c) /\ Claimable(k, {}) /\ hash = Current.content
  /\ \/ /\ Validation(hash) # "VALID"
        /\ draft' = [draft EXCEPT !.state = "VALIDATION_CONFLICT", !.validation = Validation(hash)]
        /\ product' = [product EXCEPT !.state = "VALIDATION_CONFLICT"]
        /\ UNCHANGED <<revisions, submissions, idem_vars>>
     \/ /\ Validation(hash) = "VALID" /\ FirstSubmission(hash)
        /\ submissions' = Append(submissions, Submission(c))
        /\ revisions' = [revisions EXCEPT ![draft.revision].frozen = TRUE]
        /\ draft' = [draft EXCEPT !.state = "IN_REVIEW", !.validation = "VALID"]
        /\ product' = [product EXCEPT !.state = "IN_REVIEW"]
        /\ Complete(k)
  /\ UNCHANGED <<unclaimed, evidence, aged, packs, suspensions>>

\* Mutant: only the editor of the draft is kept from reviewing.
SubmitterMayReview(c, submission) == c.actor # draft.editor

Separate(c, submission) == c.actor \notin {draft.editor, submission.by}

Reviewable(c, hash) ==
  /\ c.role \in Reviewing /\ draft.state = "IN_REVIEW" /\ hash = Current.content
  /\ submissions # <<>> /\ Last(submissions).decision = "PENDING"
  /\ Separate(c, Last(submissions))

review_decision(c, k, hash, decision) ==
  /\ Reviewable(c, hash) /\ Claimable(k, {})
  /\ submissions' = [submissions EXCEPT ![Len(submissions)] =
                       [@ EXCEPT !.decision = decision, !.reviewer = c.actor]]
  /\ SetDraftState(IF decision = "APPROVE" THEN "PUBLISH_READY" ELSE "CHANGES_REQUESTED")
  /\ Complete(k)
  /\ UNCHANGED <<unclaimed, revisions, evidence, aged, packs, suspensions>>

-----------------------------------------------------------------------------
\* Publication

\* _published_payload, _create_exports and the adapter event are made of the
\* revision and of the attachments it refers to.
Pack(content, actor) == [content |-> content, evidence |-> content.refs \cap evidence,
                         by |-> actor, superseded |-> None]

SupersededPacks(id) ==
  IF product.pack = None THEN packs ELSE [packs EXCEPT ![product.pack].superseded = id]

Publishable(c, hash) ==
  /\ c.role \in Reviewing /\ draft.state = "PUBLISH_READY" /\ hash = Current.content
  /\ submissions # <<>> /\ Last(submissions).decision = "APPROVE"

publish(c, k, hash) ==
  LET id == Len(packs) + 1 IN
  /\ Publishable(c, hash) /\ Claimable(k, {})
  /\ packs' = Append(SupersededPacks(id), Pack(hash, c.actor))
  /\ product' = [product EXCEPT !.state = "PUBLISHED", !.pack = id]
  /\ draft' = [draft EXCEPT !.state = "PUBLISHED"]
  /\ Complete(k)
  /\ UNCHANGED <<unclaimed, revisions, evidence, aged, submissions, suspensions>>

\* A suspension is a row of its own; the Pack and its exports stay served.
suspend(c, k, id) ==
  /\ c.role \in Reviewing /\ Claimable(k, {}) /\ id \in DOMAIN packs
  /\ suspensions' = suspensions \cup {id}
  /\ Complete(k)
  /\ UNCHANGED <<unclaimed, product, draft, revisions, evidence, aged, submissions, packs>>

-----------------------------------------------------------------------------
\* get_product_view: what the seller page offers a caller

\* Mutant: the page offers an edit to the owner in every state.
OffersFrozenEdit(c) ==
  IF c.role = "PLATFORM_OPERATOR" \/ (c.role = "SELLER_EDITOR" /\ product.owner = c.actor)
  THEN {"EDIT_PRODUCT_EVIDENCE", "SUBMIT_REVIEW"} ELSE {}

EditActions(c) ==
  IF /\ c.role = "PLATFORM_OPERATOR" \/ (c.role = "SELLER_EDITOR" /\ product.owner = c.actor)
     /\ draft.state \in Editable
  THEN {"EDIT_PRODUCT_EVIDENCE", "SUBMIT_REVIEW"} ELSE {}

ReviewActions(c) ==
  IF c.role \notin Reviewing THEN {}
  ELSE CASE draft.state = "IN_REVIEW" -> {"REVIEW_PRODUCT_EVIDENCE"}
         [] draft.state = "PUBLISH_READY" -> {"PUBLISH_PRODUCT_EVIDENCE"}
         [] OTHER -> {}

Actions(c) == EditActions(c) \cup ReviewActions(c)

OperatorCapabilities ==
  {"CLAIM_PRODUCT", "VIEW_OWN_DRAFT", "EDIT_CLAIMS", "ADD_EVIDENCE", "SUBMIT_REVIEW",
   "REQUEST_CHANGES", "APPROVE_REVIEW", "REJECT_REVIEW", "PUBLISH", "SUSPEND"}

Capabilities(c) ==
  {"VIEW_ACTIVITY_METRICS"} \cup (IF product.pack # None THEN {"EXPORT"} ELSE {}) \cup
  CASE c.role = "PLATFORM_OPERATOR" -> OperatorCapabilities
    [] c.role = "SELLER_EDITOR" /\ product.owner = c.actor ->
         {"VIEW_OWN_DRAFT"} \cup IF draft.state \in Editable
                                THEN {"EDIT_CLAIMS", "ADD_EVIDENCE", "SUBMIT_REVIEW"} ELSE {}
    [] c.role = "SELLER_REVIEWER" ->
         (IF draft.state = "IN_REVIEW"
          THEN {"REQUEST_CHANGES", "APPROVE_REVIEW", "REJECT_REVIEW"} ELSE {})
         \cup (IF draft.state = "PUBLISH_READY" THEN {"PUBLISH"} ELSE {})
         \cup (IF product.pack # None THEN {"SUSPEND"} ELSE {})
    [] OTHER -> {}

-----------------------------------------------------------------------------
(***************************************************************************)
(* The rows _ensure_demo seeds: a draft on stale evidence without a        *)
(* retention claim, based on the first Pack version.                       *)
(***************************************************************************)
SeededContent == [complete |-> FALSE, conflict |-> FALSE, refs |-> {OldSource}]
SeededProduct ==
  /\ product = [state |-> "SELLER_DRAFT", owner |-> Owner, pack |-> 1]
  /\ unclaimed = [state |-> "UNCLAIMED", owner |-> NoActor]
SeededDraft ==
  /\ draft = [state |-> "SELLER_DRAFT", editor |-> Owner, revision |-> 1,
              validation |-> "HAS_GAPS"]
  /\ revisions = <<Revision(SeededContent, Owner)>>
  /\ evidence = {OldSource} /\ aged = {OldSource}
SeededPack ==
  packs = <<[content |-> [complete |-> FALSE, conflict |-> FALSE, refs |-> {}],
             evidence |-> {}, by |-> NoActor, superseded |-> None]>>

Init ==
  /\ SeededProduct /\ SeededDraft /\ SeededPack
  /\ submissions = <<>> /\ suspensions = {}
  /\ IdemInit

Next ==
  \/ \E c \in Callers, k \in Keys \cup {Once} :
       \/ \E r \in {"SELLER_EDITOR", "SELLER_REVIEWER"} : claim_product(c, k, r)
       \/ /\ Len(revisions) < MaxRevisions
          /\ \E base \in 1..MaxRevisions, content \in Content : patch_draft(c, k, base, content)
       \/ \E s \in Sources : attach_evidence(c, k, s)
       \/ /\ Len(submissions) < MaxReviews
          /\ \E i \in DOMAIN revisions : submit_review(c, k, revisions[i].content)
       \/ \E i \in DOMAIN revisions, d \in {"APPROVE", "REQUEST_CHANGES", "REJECT"} :
            review_decision(c, k, revisions[i].content, d)
       \/ \E i \in DOMAIN revisions : publish(c, k, revisions[i].content)
       \/ \E id \in DOMAIN packs : suspend(c, k, id)
  \/ \E s \in Sources : Age(s)

Spec == Init /\ [][Next]_vars

-----------------------------------------------------------------------------
\* review_decision, publish: the draft is under review exactly while its newest
\* submission is of the current, frozen revision and undecided, and ready
\* exactly while that submission is approved and unpublished; product and
\* draft show the same state.
ReviewBound ==
  LET bound == submissions # <<>> /\ Last(submissions).revision = draft.revision
               /\ Last(submissions).content = Current.content /\ Current.frozen IN
  /\ product.state = draft.state /\ draft.revision = Len(revisions)
  /\ draft.state = "IN_REVIEW" <=> bound /\ Last(submissions).decision = "PENDING"
  /\ draft.state \in {"PUBLISH_READY", "PUBLISHED"}
       <=> bound /\ Last(submissions).decision = "APPROVE"

\* The author of the revision that submission i is of.
AuthorOf(i) == revisions[submissions[i].revision].author

\* The exception: a platform operator writes a revision with patch_draft, the
\* owner submits it, and review_decision, which compares the reviewer with the
\* draft's editor and the submitter but not with the revision's author, lets
\* the operator approve it.
OperatorApprovedOwn(i) ==
  /\ submissions[i].reviewer = AuthorOf(i)
  /\ \E c \in Callers : c.actor = AuthorOf(i) /\ c.role = "PLATFORM_OPERATOR"

\* publish: a Pack version after the seeded one is a revision that was valid
\* when it was submitted and that was approved by an actor who is neither the
\* editor of the draft nor its submitter nor its author, except for a platform
\* operator who approved a revision of their own that somebody else submitted;
\* its payload carries every source it refers to.
PackWasReviewed ==
  \A id \in 2..Len(packs) :
    /\ packs[id].content.complete /\ ~packs[id].content.conflict
    /\ packs[id].evidence = packs[id].content.refs
    /\ \E i \in DOMAIN submissions :
         /\ submissions[i].content = packs[id].content /\ submissions[i].decision = "APPROVE"
         /\ submissions[i].reviewer \notin {submissions[i].by, draft.editor}
         /\ submissions[i].reviewer # AuthorOf(i) \/ OperatorApprovedOwn(i)

\* publish, _current_pack: Pack versions form one chain that ends in the
\* current one.
PacksAreChain ==
  \A id \in DOMAIN packs :
    packs[id].superseded = IF id = product.pack THEN None ELSE id + 1

\* What is published was reviewed as it is, by somebody else but for the
\* operator's exception, and succeeds what it replaced.
PublicationSound == ReviewBound /\ PackWasReviewed /\ PacksAreChain

\* patch_draft, attach_evidence: what a reviewer decides on stays what was
\* submitted, revision and evidence, until the decision is published or sent
\* back.
FrozenUnderReview ==
  [][draft.state \in {"IN_REVIEW", "PUBLISH_READY"} =>
       UNCHANGED <<revisions, evidence>>]_vars

\* get_product_view: the actions and capabilities the page offers are those the
\* handlers accept.  A review may be offered to the submitter, whom
\* review_decision refuses, but everyone it accepts is offered it.
ViewMatchesHandlers ==
  \A c \in Callers :
    /\ "EDIT_PRODUCT_EVIDENCE" \in Actions(c) <=> EditableBy(c)
    /\ "PUBLISH_PRODUCT_EVIDENCE" \in Actions(c) <=> Publishable(c, Current.content)
    /\ Reviewable(c, Current.content) => "REVIEW_PRODUCT_EVIDENCE" \in Actions(c)
    /\ EditableBy(c) => {"EDIT_CLAIMS", "ADD_EVIDENCE", "SUBMIT_REVIEW"} \subseteq Capabilities(c)
    /\ Publishable(c, Current.content) => "PUBLISH" \in Capabilities(c)
    /\ Reviewable(c, Current.content) => "APPROVE_REVIEW" \in Capabilities(c)
=============================================================================
