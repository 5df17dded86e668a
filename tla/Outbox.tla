------------------------------- MODULE Outbox -------------------------------
(***************************************************************************)
(* broka.reliability.outbox: MemoryOutboxStore and the OutboxDispatchers   *)
(* that lease records from it, publish them and settle them.               *)
(*                                                                         *)
(* The store methods never await under their lock, so each is one step.  A *)
(* dispatcher is suspended only while it publishes; leases lapse, other    *)
(* dispatchers lease, and records are purged meanwhile.  The clock is      *)
(* abstracted to what it decides: whether a record is due and whether a    *)
(* lease has lapsed.  A lease_id is fresh for every lease, and so is the   *)
(* number of the attempt, which stands for it here.  The order in which    *)
(* lease picks due records and a batch is served is left open.             *)
(***************************************************************************)
EXTENDS Naturals, FiniteSets

CONSTANTS
  Messages,      \* records the application may store
  Dispatchers,
  Idle,          \* a dispatcher that publishes nothing
  MaxEntries,    \* max_entries of the store
  BatchSize,     \* batch_size
  MaxAttempts,   \* max_attempts
  MaxFaults      \* bound: cancellations, crashes, leases outlived by their holder

Tokens == Messages \X Nat

ASSUME OutboxAssumption ==
  /\ IsFiniteSet(Messages)
  /\ Idle \notin Tokens
  /\ MaxEntries \in Nat \ {0}
  /\ BatchSize \in Nat \ {0}
  /\ MaxAttempts \in Nat \ {0}
  /\ MaxFaults \in Nat

VARIABLES
  status,     \* status of each record
  attempts,   \* attempts of each record, and the token of its latest lease
  due,        \* available_at <= now
  late,       \* tokens whose leased_until has passed
  pc,         \* where each dispatcher is
  batch,      \* leased records a dispatcher has still to settle, as <<id, token>>
  current,    \* the one it publishes
  sent,       \* history: tokens under which the transport accepted the record
  faults      \* number of faults so far

vars == <<status, attempts, due, late, pc, batch, current, sent, faults>>

Statuses == {"absent", "pending", "leased", "published", "failed", "dead_lettered", "purged"}

Waiting == {"pending", "failed"}

Stored == {m \in Messages : status[m] \notin {"absent", "purged"}}

Lapsed(m) == status[m] = "leased" /\ attempts[m] \in late[m]

Least(a, b) == IF a < b THEN a ELSE b

-----------------------------------------------------------------------------
(* The store                                                               *)

\* available_at is now, or in the future
Add(m) ==
  /\ status[m] = "absent"
  /\ Cardinality(Stored) < MaxEntries
  /\ status' = [status EXCEPT ![m] = "pending"]
  /\ \E d \in BOOLEAN : due' = [due EXCEPT ![m] = d]
  /\ UNCHANGED <<attempts, late, pc, batch, current, sent, faults>>

\* _require_lease_locked: leased, and with the lease_id of this dispatcher
RequireLease(token) == status[token[1]] = "leased" /\ attempts[token[1]] = token[2]

\* Faulty variant, for mutation: lapsed leases are not recovered.
UnrecoveredCandidates == {m \in Messages : status[m] \in Waiting /\ due[m]}

\* Records that lease may hand out, once it has recovered the lapsed leases.
Candidates == {m \in Messages : (status[m] \in Waiting \/ Lapsed(m)) /\ due[m]}

PurgePublished(S) ==
  /\ S # {}
  /\ \A m \in S : status[m] = "published"
  /\ status' = [m \in Messages |-> IF m \in S THEN "purged" ELSE status[m]]
  /\ UNCHANGED <<attempts, due, late, pc, batch, current, sent, faults>>

\* The retry delay, or the application's delay, is over.
BecomesDue(m) ==
  /\ status[m] \in Waiting
  /\ ~due[m]
  /\ due' = [due EXCEPT ![m] = TRUE]
  /\ UNCHANGED <<status, attempts, late, pc, batch, current, sent, faults>>

-----------------------------------------------------------------------------
(* dispatch_once and run                                                   *)

\* lease, up to the first publish of the batch
LeaseBatch(d) ==
  /\ pc[d] = "ready"
  /\ \E chosen \in SUBSET Candidates :
       /\ chosen # {}
       /\ Cardinality(chosen) = Least(BatchSize, Cardinality(Candidates))
       /\ status' = [m \in Messages |-> IF m \in chosen THEN "leased"
                                        ELSE IF Lapsed(m) THEN "failed" ELSE status[m]]
       /\ attempts' = [m \in Messages |-> IF m \in chosen THEN attempts[m] + 1
                                                          ELSE attempts[m]]
       /\ LET tokens == {<<m, attempts[m] + 1>> : m \in chosen}
          IN  /\ batch' = [batch EXCEPT ![d] = tokens]
              /\ \E t \in tokens : current' = [current EXCEPT ![d] = t]
  /\ pc' = [pc EXCEPT ![d] = "publishing"]
  /\ UNCHANGED <<due, late, sent, faults>>

\* The loop goes on with the rest of the batch.
Advance(d) ==
  LET rest == batch[d] \ {current[d]}
  IN  /\ batch' = [batch EXCEPT ![d] = rest]
      /\ IF rest = {}
           THEN /\ current' = [current EXCEPT ![d] = Idle]
                /\ pc' = [pc EXCEPT ![d] = "ready"]
           ELSE /\ \E t \in rest : current' = [current EXCEPT ![d] = t]
                /\ UNCHANGED pc

\* An exception leaves dispatch_once and run; the leases of the batch remain.
Abandon(d) ==
  /\ batch' = [batch EXCEPT ![d] = {}]
  /\ current' = [current EXCEPT ![d] = Idle]
  /\ pc' = [pc EXCEPT ![d] = "stopped"]

\* mark_published or mark_failed, which raise when the lease is lost
Settle(d, newStatus) ==
  IF RequireLease(current[d])
    THEN status' = [status EXCEPT ![current[d][1]] = newStatus] /\ Advance(d)
    ELSE UNCHANGED status /\ Abandon(d)

\* The transport accepts the record while publish is awaited.
Send(d) ==
  /\ pc[d] = "publishing"
  /\ LET m == current[d][1]
         k == current[d][2]
     IN  /\ k \notin sent[m]
         /\ sent' = [sent EXCEPT ![m] = @ \cup {k}]
  /\ UNCHANGED <<status, attempts, due, late, pc, batch, current, faults>>

Published(d) ==
  /\ pc[d] = "publishing"
  /\ current[d][2] \in sent[current[d][1]]
  /\ Settle(d, "published")
  /\ UNCHANGED <<attempts, due, late, sent, faults>>

\* Faulty variant, for mutation: the attempt is compared with its successor.
PublishFailsEarly(d) ==
  /\ pc[d] = "publishing"
  /\ LET m == current[d][1]
         terminal == current[d][2] + 1 >= MaxAttempts
     IN  /\ Settle(d, IF terminal THEN "dead_lettered" ELSE "failed")
         /\ \E delayed \in BOOLEAN :
              due' = IF ~terminal /\ delayed /\ RequireLease(current[d])
                       THEN [due EXCEPT ![m] = FALSE] ELSE due
  /\ UNCHANGED <<attempts, late, sent, faults>>

\* publish raises, before or after the transport has accepted the record.
PublishFails(d) ==
  /\ pc[d] = "publishing"
  /\ LET m == current[d][1]
         terminal == current[d][2] >= MaxAttempts
     IN  /\ Settle(d, IF terminal THEN "dead_lettered" ELSE "failed")
         /\ \E delayed \in BOOLEAN :
              due' = IF ~terminal /\ delayed /\ RequireLease(current[d])
                       THEN [due EXCEPT ![m] = FALSE] ELSE due
  /\ UNCHANGED <<attempts, late, sent, faults>>

\* The dispatcher is cancelled in publish: retry_at is now.
Cancel(d) ==
  /\ pc[d] = "publishing"
  /\ faults < MaxFaults
  /\ status' = IF RequireLease(current[d])
                 THEN [status EXCEPT ![current[d][1]] = "failed"] ELSE status
  /\ Abandon(d)
  /\ faults' = faults + 1
  /\ UNCHANGED <<attempts, due, late, sent>>

\* run returns when its stop event is set.
Stop(d) ==
  /\ pc[d] = "ready"
  /\ pc' = [pc EXCEPT ![d] = "stopped"]
  /\ UNCHANGED <<status, attempts, due, late, batch, current, sent, faults>>

\* The supervisor, or the application, runs it again.
Restart(d) ==
  /\ pc[d] = "stopped"
  /\ pc' = [pc EXCEPT ![d] = "ready"]
  /\ UNCHANGED <<status, attempts, due, late, batch, current, sent, faults>>

-----------------------------------------------------------------------------
(* The environment                                                         *)

Crash(d) ==
  /\ pc[d] = "publishing"
  /\ faults < MaxFaults
  /\ Abandon(d)
  /\ faults' = faults + 1
  /\ UNCHANGED <<status, attempts, due, late, sent>>

Held(m) == \E d \in Dispatchers : <<m, attempts[m]>> \in batch[d]

\* leased_until passes: a fault when the holder is still at work.
Lapse(m) ==
  /\ status[m] = "leased"
  /\ ~Lapsed(m)
  /\ late' = [late EXCEPT ![m] = @ \cup {attempts[m]}]
  /\ IF Held(m)
       THEN faults < MaxFaults /\ faults' = faults + 1
       ELSE UNCHANGED faults
  /\ UNCHANGED <<status, attempts, due, pc, batch, current, sent>>

-----------------------------------------------------------------------------
Init ==
  /\ status = [m \in Messages |-> "absent"]
  /\ attempts = [m \in Messages |-> 0]
  /\ due = [m \in Messages |-> FALSE]
  /\ late = [m \in Messages |-> {}]
  /\ pc = [d \in Dispatchers |-> "ready"]
  /\ batch = [d \in Dispatchers |-> {}]
  /\ current = [d \in Dispatchers |-> Idle]
  /\ sent = [m \in Messages |-> {}]
  /\ faults = 0

PublishEnds(d) == Published(d) \/ PublishFails(d)

Dispatch(d) == LeaseBatch(d) \/ Send(d) \/ PublishEnds(d)

Next ==
  \/ \E m \in Messages : Add(m) \/ BecomesDue(m) \/ Lapse(m)
  \/ \E d \in Dispatchers : Dispatch(d) \/ Cancel(d) \/ Crash(d) \/ Stop(d) \/ Restart(d)
  \/ \E S \in SUBSET Messages : PurgePublished(S)

Spec == Init /\ [][Next]_vars

(***************************************************************************)
(* Time passes, run leases again after its idle delay, and publish returns *)
(* or raises.                                                              *)
(***************************************************************************)
Fairness ==
  /\ \A m \in Messages : WF_vars(BecomesDue(m)) /\ WF_vars(Lapse(m))
  /\ \A d \in Dispatchers : WF_vars(LeaseBatch(d)) /\ WF_vars(PublishEnds(d))

FairSpec == Spec /\ Fairness

-----------------------------------------------------------------------------
(* Properties                                                              *)

TypeOK ==
  /\ status \in [Messages -> Statuses]
  /\ attempts \in [Messages -> Nat]
  /\ due \in [Messages -> BOOLEAN]
  /\ late \in [Messages -> SUBSET Nat]
  /\ pc \in [Dispatchers -> {"ready", "publishing", "stopped"}]
  /\ batch \in [Dispatchers -> SUBSET Tokens]
  /\ current \in [Dispatchers -> Tokens \cup {Idle}]
  /\ sent \in [Messages -> SUBSET Nat]
  /\ faults \in 0..MaxFaults
  /\ \A d \in Dispatchers : IF pc[d] = "publishing" THEN current[d] \in batch[d]
                                                    ELSE batch[d] = {}

(* "Atomic leasing": two dispatchers work on the same record only after    *)
(* the lease of the earlier one has lapsed under it.                       *)
OneHolderPerLease ==
  \A d, e \in Dispatchers : \A t \in batch[d], u \in batch[e] :
    d # e /\ t[1] = u[1] => t[2] \in late[t[1]] \/ u[2] \in late[u[1]]

(* "Ownership checks": a dispatcher whose lease has not lapsed can always  *)
(* settle its record, so it never loses the rest of its batch to an        *)
(* ownership error while it is on time.                                    *)
PunctualHolderSettles ==
  \A d \in Dispatchers : \A t \in batch[d] : t[2] \notin late[t[1]] => RequireLease(t)

(* The fate of a record, as the application sees it.                       *)
FateOf(s) == CASE s = "absent" -> "absent"
               [] s \in Waiting \cup {"leased"} -> "kept"
               [] s = "published" -> "delivered"
               [] s = "dead_lettered" -> "given_up"
               [] s = "purged" -> "forgotten"

Fate == [m \in Messages |-> FateOf(status[m])]

Contract == INSTANCE OutboxContract WITH fate <- Fate, tries <- attempts, sent <- sent

(* The store and its dispatchers implement the outbox contract: published  *)
(* means sent, dead-lettered means tried max_attempts times, a settled     *)
(* record is never revised by a dispatcher that comes late, and one lease  *)
(* sends at most once.                                                     *)
ImplementsContract == Contract!Spec

Settled(m) == status[m] \in {"published", "dead_lettered", "purged"}

(* No record is forgotten: once faults stop and one dispatcher keeps       *)
(* running, every stored record is published or dead-lettered, including   *)
(* those whose dispatcher crashed or lost the rest of its batch.           *)
EveryRecordSettles ==
  (\E d \in Dispatchers : <>[](pc[d] # "stopped"))
    => \A m \in Messages : (m \in Stored) ~> Settled(m)

(* No record falls between the store and its dispatchers: one that is not  *)
(* settled is for the next lease, waits for its delay, or has a lease that *)
(* is settled or lapses.  A lease that has lapsed is recovered only if the *)
(* record is due, and nothing makes a leased record due.                   *)
NothingIsForgotten ==
  \A m \in Stored : ~Settled(m) =>
    m \in Candidates \/ (status[m] \in Waiting /\ ~due[m]) \/ (status[m] = "leased" /\ ~Lapsed(m))

=============================================================================
