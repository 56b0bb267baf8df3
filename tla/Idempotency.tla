---------------------------- MODULE Idempotency ----------------------------
(***************************************************************************)
(* claim_idempotency and complete_idempotency of the workflow repository.  *)
(* A record is inserted, completed and committed in the transaction of the *)
(* operation it protects, so a committed record is COMPLETED and an        *)
(* aborted operation leaves none.  Two overlapping calls meet in the       *)
(* unique index: the second waits until the first ends and then reads its  *)
(* record.  A call with a key nobody retries is a call with Once.          *)
(***************************************************************************)
EXTENDS Naturals

CONSTANTS Keys,      \* keys that a client sends more than once
          Once       \* any key that is sent once

ASSUME KeysAssumption == Once \notin Keys

VARIABLES idem,      \* keys with a COMPLETED IdempotencyRecord
          served     \* history: how often an operation committed under a key

idem_vars == <<idem, served>>

IdemInit == idem = {} /\ served = [k \in Keys |-> 0]

\* Mutant: a completed record does not stop the operation.
ClaimableAgain(k, held) == k \notin held

\* The operation runs: no record yet, and no open transaction holds the key.
\* A record of the same request is replayed, one of another is refused with
\* IDEMPOTENCY_CONFLICT; both leave every row as it is.
Claimable(k, held) == k \notin held /\ k \notin idem

Complete(k) ==
  IF k = Once THEN UNCHANGED idem_vars
  ELSE idem' = idem \cup {k} /\ served' = [served EXCEPT ![k] = @ + 1]

\* A key that a client retries commits one operation, whatever overlaps it.
KeyServedOnce == \A k \in Keys : served[k] = IF k \in idem THEN 1 ELSE 0
=============================================================================
