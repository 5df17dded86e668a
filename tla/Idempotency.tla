---------------------------- MODULE Idempotency -----------------------------
(***************************************************************************)
(* broka.reliability.idempotency: MemoryIdempotencyStore.  Its methods do  *)
(* not await under their lock, so each is one step.  A record has no       *)
(* owner: complete and release act on whatever claim the key has by then.  *)
(* Every method treats an expired record as absent and claim purges before *)
(* it looks at the capacity, so a record is deleted when it expires: when  *)
(* purge_expired or get delete it cannot be told.  The operators are used  *)
(* by the consumers of RemoteEngine.                                       *)
(***************************************************************************)
EXTENDS Naturals, FiniteSets

CONSTANTS
  Messages,    \* keys, one for each message
  MaxRecords   \* max_entries

ASSUME IdempotencyAssumption == IsFiniteSet(Messages) /\ MaxRecords \in Nat \ {0}

VARIABLE claim \* status of the record of each key

StoreInit == claim = [k \in Messages |-> "none"]

StoreTypeOK == claim \in [Messages -> {"none", "processing", "completed"}]

\* The records of other keys leave no room.
Full(k) == Cardinality({j \in Messages \ {k} : claim[j] # "none"}) >= MaxRecords

\* Faulty variant, for mutation: a claim in progress is handed out again.
ClaimableTwice(k) == claim[k] # "completed"

Claimable(k) == claim[k] = "none"

\* claim returns True.
Claim(k) ==
  /\ Claimable(k)
  /\ ~Full(k)
  /\ claim' = [claim EXCEPT ![k] = "processing"]

\* claim raises OverflowError.
Overflow(k) == Claimable(k) /\ Full(k) /\ UNCHANGED claim

\* complete; it raises when the record is gone.
Complete(k) ==
  /\ claim[k] # "none"
  /\ claim' = [claim EXCEPT ![k] = "completed"]

\* release, of a claim that is not completed
Release(k) == claim' = IF claim[k] = "processing" THEN [claim EXCEPT ![k] = "none"] ELSE claim

\* The ttl of the claim, or of the completed record, is over.
Expire(k) ==
  /\ claim[k] # "none"
  /\ claim' = [claim EXCEPT ![k] = "none"]

=============================================================================
