---------------------------- MODULE OutboxProofs ----------------------------
(***************************************************************************)
(* Machine-checked facts about Outbox for every set of records and of      *)
(* dispatchers, every batch size, attempt limit and number of faults: the  *)
(* exclusivity of leases, that the store and its dispatchers implement     *)
(* OutboxContract, and that no record is forgotten.                        *)
(***************************************************************************)
EXTENDS Outbox, TLAPS

(* A token in the hands of a dispatcher comes from a lease of the record.  *)
HeldTokens ==
  \A d \in Dispatchers : \A t \in batch[d] : t[2] \in 1..attempts[t[1]]

(* No two dispatchers hold the same token: lease makes a fresh one.        *)
DisjointBatches ==
  \A d, e \in Dispatchers : d # e => batch[d] \cap batch[e] = {}

(* Only the record being published can have been sent under its token.     *)
UnsentAhead ==
  \A d \in Dispatchers : \A t \in batch[d] : t # current[d] => t[2] \notin sent[t[1]]

(* A record is sent only under tokens it has had.                          *)
SentTokens == \A m \in Messages : sent[m] \subseteq 1..attempts[m]

(* The strengthening that makes lease exclusivity inductive: a holder that *)
(* is on time has the record's latest token and the record is leased, and  *)
(* tokens are never shared nor reused.                                     *)
IInv ==
  /\ TypeOK
  /\ PunctualHolderSettles
  /\ HeldTokens
  /\ DisjointBatches
  /\ UnsentAhead
  /\ SentTokens

-----------------------------------------------------------------------------
LEMMA InitIInv == Init => IInv
BY OutboxAssumption DEF Init, IInv, TypeOK, PunctualHolderSettles, HeldTokens, DisjointBatches,
  UnsentAhead, SentTokens, Statuses

(* lease: the chosen records are waiting or lapsed, so whoever still holds *)
(* one is late, and the new tokens are larger than all tokens in use.      *)
LEMMA LeaseStep ==
  ASSUME IInv, NEW d \in Dispatchers, LeaseBatch(d)
  PROVE  IInv'
<1>. USE DEF IInv
<1>1. PICK chosen \in SUBSET Candidates :
        /\ chosen # {}
        /\ status' = [m \in Messages |-> IF m \in chosen THEN "leased"
                                         ELSE IF Lapsed(m) THEN "failed" ELSE status[m]]
        /\ attempts' = [m \in Messages |-> IF m \in chosen THEN attempts[m] + 1
                                                           ELSE attempts[m]]
        /\ batch' = [batch EXCEPT ![d] = {<<m, attempts[m] + 1>> : m \in chosen}]
        /\ \E t \in {<<m, attempts[m] + 1>> : m \in chosen} :
             current' = [current EXCEPT ![d] = t]
  BY DEF LeaseBatch
<1>. DEFINE tokens == {<<m, attempts[m] + 1>> : m \in chosen}
<1>2. /\ pc' = [pc EXCEPT ![d] = "publishing"]
      /\ pc[d] = "ready"
      /\ UNCHANGED <<due, late, sent, faults>>
  BY DEF LeaseBatch
<1>3. chosen \subseteq Messages /\ attempts \in [Messages -> Nat]
  BY DEF Candidates, TypeOK
<1>4. \A m \in chosen : status[m] \in Waiting \/ Lapsed(m)
  BY DEF Candidates
<1>5. tokens \subseteq Tokens
  BY <1>3 DEF Tokens
<1>6. batch' \in [Dispatchers -> SUBSET Tokens]
  BY <1>1, <1>5 DEF TypeOK
<1>7. \A e \in Dispatchers : batch'[e] = IF e = d THEN tokens ELSE batch[e]
  BY <1>1 DEF TypeOK
<1>8. \A m \in Messages : attempts'[m] = IF m \in chosen THEN attempts[m] + 1 ELSE attempts[m]
  BY <1>1
<1>9. PICK t \in tokens : current' = [current EXCEPT ![d] = t]
  BY <1>1
<1>10. TypeOK'
  <2>1. status' \in [Messages -> Statuses]
    BY <1>1 DEF TypeOK, Statuses
  <2>2. attempts' \in [Messages -> Nat]
    BY <1>1, <1>3
  <2>3. current' \in [Dispatchers -> Tokens \cup {Idle}]
    BY <1>5, <1>9 DEF TypeOK
  <2>4. pc' \in [Dispatchers -> {"ready", "publishing", "stopped"}]
    BY <1>2 DEF TypeOK
  <2>5. \A e \in Dispatchers : IF pc'[e] = "publishing" THEN current'[e] \in batch'[e]
                                                       ELSE batch'[e] = {}
    BY <1>2, <1>7, <1>9 DEF TypeOK
  <2>. QED
    BY <1>2, <1>6, <2>1, <2>2, <2>3, <2>4, <2>5 DEF TypeOK
<1>11. \A e \in Dispatchers : \A u \in batch[e] :
         /\ u \in Tokens
         /\ u[1] \in Messages
         /\ u[2] \in 1..attempts[u[1]]
  BY DEF TypeOK, HeldTokens, Tokens
<1>12. HeldTokens'
  <2>1. \A u \in tokens : u[2] \in 1..attempts'[u[1]]
    BY <1>3, <1>8
  <2>2. ASSUME NEW e \in Dispatchers, NEW u \in batch[e]
        PROVE  u[2] \in 1..attempts'[u[1]]
    <3>1. u[1] \in Messages /\ u[2] \in 1..attempts[u[1]] /\ attempts[u[1]] \in Nat
      BY <1>3, <1>11
    <3>2. attempts'[u[1]] \in {attempts[u[1]], attempts[u[1]] + 1}
      BY <1>8, <3>1
    <3>. QED
      BY <3>1, <3>2
  <2>. QED
    BY <1>7, <2>1, <2>2 DEF HeldTokens
<1>13. PunctualHolderSettles'
  <2>. SUFFICES ASSUME NEW e \in Dispatchers, NEW u \in batch'[e], u[2] \notin late[u[1]]
                PROVE  status'[u[1]] = "leased" /\ attempts'[u[1]] = u[2]
    BY <1>2 DEF PunctualHolderSettles, RequireLease
  <2>1. CASE e = d
    <3>1. u \in tokens
      BY <1>7, <2>1, Zenon
    <3>2. PICK m \in chosen : u = <<m, attempts[m] + 1>>
      BY <3>1
    <3>3. status'[m] = "leased" /\ attempts'[m] = attempts[m] + 1
      BY <1>1, <1>3, <1>8
    <3>. QED
      BY <3>2, <3>3
  <2>2. CASE e # d
    <3>1. u \in batch[e] /\ u[1] \in Messages
      BY <1>7, <1>11, <2>2
    <3>2. status[u[1]] = "leased" /\ attempts[u[1]] = u[2]
      BY <3>1 DEF PunctualHolderSettles, RequireLease
    <3>3. ~Lapsed(u[1])
      BY <3>2 DEF Lapsed
    <3>4. u[1] \notin chosen
      BY <1>4, <3>2, <3>3 DEF Waiting
    <3>. QED
      BY <1>1, <3>1, <3>2, <3>3, <3>4
  <2>. QED
    BY <2>1, <2>2
<1>14. DisjointBatches'
  <2>1. \A e \in Dispatchers : batch[e] \cap tokens = {}
    BY <1>3, <1>11
  <2>. QED
    BY <1>7, <2>1 DEF DisjointBatches
<1>15. UnsentAhead'
  <2>1. \A u \in tokens : u[2] \notin sent[u[1]]
    BY <1>3 DEF SentTokens
  <2>2. \A e \in Dispatchers : e # d => current'[e] = current[e]
    BY <1>9 DEF TypeOK
  <2>. QED
    BY <1>2, <1>7, <2>1, <2>2 DEF UnsentAhead
<1>16. SentTokens'
  BY <1>2, <1>3, <1>8 DEF SentTokens
<1>. QED
  BY <1>10, <1>12, <1>13, <1>14, <1>15, <1>16

(* What Advance and Abandon do to the dispatchers: the one that moves      *)
(* keeps a part of its batch, without the record it leaves.                *)
LEMMA MoveOn ==
  ASSUME IInv, NEW d \in Dispatchers, pc[d] = "publishing", Advance(d) \/ Abandon(d)
  PROVE  /\ batch' \in [Dispatchers -> SUBSET Tokens]
         /\ current' \in [Dispatchers -> Tokens \cup {Idle}]
         /\ pc' \in [Dispatchers -> {"ready", "publishing", "stopped"}]
         /\ \A e \in Dispatchers : IF pc'[e] = "publishing" THEN current'[e] \in batch'[e]
                                                            ELSE batch'[e] = {}
         /\ \A e \in Dispatchers : batch'[e] \subseteq batch[e]
         /\ current[d] \in batch[d] \ batch'[d]
         /\ \A e \in Dispatchers : e # d => current'[e] = current[e]
<1>. USE DEF IInv, TypeOK
<1>1. CASE Abandon(d)
  BY <1>1 DEF Abandon
<1>2. CASE Advance(d)
  <2>. DEFINE rest == batch[d] \ {current[d]}
  <2>1. batch' = [batch EXCEPT ![d] = rest]
    BY <1>2 DEF Advance
  <2>2. CASE rest = {}
    BY <1>2, <2>1, <2>2 DEF Advance
  <2>3. CASE rest # {}
    <3>1. PICK t \in rest : current' = [current EXCEPT ![d] = t]
      BY <1>2, <2>3 DEF Advance
    <3>2. pc' = pc
      BY <1>2, <2>3 DEF Advance
    <3>. QED
      BY <2>1, <3>1, <3>2
  <2>. QED
    BY <2>2, <2>3
<1>. QED
  BY <1>1, <1>2

(* Settling or abandoning a record: only its own record changes its        *)
(* status, and nobody else who is on time holds that record.               *)
LEMMA SettleStep ==
  ASSUME IInv, NEW d \in Dispatchers, pc[d] = "publishing",
         NEW s \in Statuses,
         Advance(d) \/ Abandon(d),
         \/ UNCHANGED status
         \/ RequireLease(current[d]) /\ status' = [status EXCEPT ![current[d][1]] = s],
         UNCHANGED <<attempts, late, sent>>,
         due' \in [Messages -> BOOLEAN],
         faults' \in 0..MaxFaults
  PROVE  IInv'
<1>. USE DEF IInv
<1>1. /\ batch' \in [Dispatchers -> SUBSET Tokens]
      /\ current' \in [Dispatchers -> Tokens \cup {Idle}]
      /\ pc' \in [Dispatchers -> {"ready", "publishing", "stopped"}]
      /\ \A e \in Dispatchers : IF pc'[e] = "publishing" THEN current'[e] \in batch'[e]
                                                         ELSE batch'[e] = {}
  BY MoveOn
<1>2. /\ \A e \in Dispatchers : batch'[e] \subseteq batch[e]
      /\ current[d] \in batch[d] \ batch'[d]
      /\ \A e \in Dispatchers : e # d => current'[e] = current[e]
  BY MoveOn
<1>3. TypeOK'
  <2>1. status' \in [Messages -> Statuses]
    BY DEF TypeOK
  <2>. QED
    BY <1>1, <2>1 DEF TypeOK
<1>4. PunctualHolderSettles'
  <2>. SUFFICES ASSUME NEW e \in Dispatchers, NEW u \in batch'[e], u[2] \notin late[u[1]]
                PROVE  status'[u[1]] = "leased" /\ attempts[u[1]] = u[2]
    BY DEF PunctualHolderSettles, RequireLease
  <2>1. u \in batch[e] /\ u \in Tokens
    BY <1>2 DEF TypeOK
  <2>2. status[u[1]] = "leased" /\ attempts[u[1]] = u[2]
    BY <2>1 DEF PunctualHolderSettles, RequireLease
  <2>3. u # current[d]
    BY <1>2, <2>1 DEF DisjointBatches
  <2>4. current[d] \in Tokens
    BY <1>2 DEF TypeOK
  <2>5. RequireLease(current[d]) => u[1] # current[d][1]
    BY <2>1, <2>2, <2>3, <2>4 DEF RequireLease, Tokens
  <2>. QED
    BY <2>1, <2>2, <2>4, <2>5 DEF TypeOK, Tokens
<1>5. HeldTokens'
  BY <1>2 DEF HeldTokens
<1>6. DisjointBatches'
  BY <1>2 DEF DisjointBatches
<1>7. UnsentAhead'
  <2>. SUFFICES ASSUME NEW e \in Dispatchers, NEW u \in batch'[e], u # current'[e]
                PROVE  u[2] \notin sent[u[1]]
    BY DEF UnsentAhead
  <2>1. u \in batch[e]
    BY <1>2
  <2>2. CASE e = d
    BY <1>2, <2>1, <2>2 DEF UnsentAhead
  <2>3. CASE e # d
    BY <1>2, <2>1, <2>3 DEF UnsentAhead
  <2>. QED
    BY <2>2, <2>3
<1>8. SentTokens'
  BY DEF SentTokens
<1>. QED
  BY <1>3, <1>4, <1>5, <1>6, <1>7, <1>8

(* publish succeeded, failed or was cancelled, or the dispatcher died.     *)
LEMMA PublishStep ==
  ASSUME IInv, NEW d \in Dispatchers,
         Published(d) \/ PublishFails(d) \/ Cancel(d) \/ Crash(d)
  PROVE  IInv'
<1>. USE DEF IInv
<1>1. pc[d] = "publishing" /\ UNCHANGED <<attempts, late, sent>>
  BY DEF Published, PublishFails, Cancel, Crash
<1>2. due' \in [Messages -> BOOLEAN]
  BY DEF Published, PublishFails, Cancel, Crash, TypeOK
<1>3. faults' \in 0..MaxFaults
  BY OutboxAssumption DEF Published, PublishFails, Cancel, Crash, TypeOK
<1>4. /\ Advance(d) \/ Abandon(d)
      /\ \E s \in Statuses :
           \/ UNCHANGED status
           \/ RequireLease(current[d]) /\ status' = [status EXCEPT ![current[d][1]] = s]
  BY DEF Published, PublishFails, Cancel, Crash, Settle, Statuses
<1>. QED
  BY <1>1, <1>2, <1>3, <1>4, SettleStep

(* The transport accepts the record that is being published: its token is  *)
(* no other dispatcher's, so nothing else becomes sent.                    *)
LEMMA SendStep ==
  ASSUME IInv, NEW d \in Dispatchers, Send(d)
  PROVE  IInv'
<1>. USE DEF IInv
<1>1. current[d] \in batch[d] /\ current[d] \in Tokens
  BY DEF Send, TypeOK
<1>. DEFINE m == current[d][1]
            k == current[d][2]
<1>2. m \in Messages /\ k \in Nat /\ k \in 1..attempts[m]
  BY <1>1 DEF Tokens, HeldTokens
<1>3. /\ sent' = [sent EXCEPT ![m] = @ \cup {k}]
      /\ UNCHANGED <<status, attempts, due, late, pc, batch, current, faults>>
  BY DEF Send
<1>4. TypeOK'
  BY <1>2, <1>3 DEF TypeOK
<1>5. UnsentAhead'
  <2>. SUFFICES ASSUME NEW e \in Dispatchers, NEW u \in batch[e], u # current[e]
                PROVE  u[2] \notin sent'[u[1]]
    BY <1>3 DEF UnsentAhead
  <2>1. u \in Tokens /\ u[2] \notin sent[u[1]]
    BY DEF UnsentAhead, TypeOK
  <2>2. u # current[d]
    BY <1>1 DEF DisjointBatches
  <2>3. u[1] # m \/ u[2] # k
    BY <1>1, <2>1, <2>2 DEF Tokens
  <2>. QED
    BY <1>2, <1>3, <2>1, <2>3 DEF TypeOK, Tokens
<1>6. SentTokens'
  BY <1>2, <1>3 DEF SentTokens, TypeOK
<1>7. PunctualHolderSettles' /\ HeldTokens' /\ DisjointBatches'
  BY <1>3 DEF PunctualHolderSettles, HeldTokens, DisjointBatches, RequireLease
<1>. QED
  BY <1>4, <1>5, <1>6, <1>7

(* Steps that touch no lease: adding, purging, time, stopping, restarting. *)
LEMMA StoreStep ==
  ASSUME IInv,
         \/ \E m \in Messages : Add(m) \/ BecomesDue(m)
         \/ \E S \in SUBSET Messages : PurgePublished(S)
  PROVE  IInv'
<1>. USE DEF IInv
<1>1. /\ UNCHANGED <<attempts, late, pc, batch, current, sent, faults>>
      /\ status' \in [Messages -> Statuses]
      /\ due' \in [Messages -> BOOLEAN]
      /\ \A m \in Messages : status[m] = "leased" => status'[m] = "leased"
  <2>1. CASE \E m \in Messages : Add(m)
    BY <2>1 DEF Add, TypeOK, Statuses
  <2>2. CASE \E m \in Messages : BecomesDue(m)
    BY <2>2 DEF BecomesDue, TypeOK
  <2>3. CASE \E S \in SUBSET Messages : PurgePublished(S)
    BY <2>3 DEF PurgePublished, TypeOK, Statuses
  <2>. QED
    BY <2>1, <2>2, <2>3
<1>2. TypeOK'
  BY <1>1 DEF TypeOK
<1>3. PunctualHolderSettles'
  <2>1. \A d \in Dispatchers : \A t \in batch[d] : t[1] \in Messages
    BY DEF TypeOK, Tokens
  <2>. QED
    BY <1>1, <2>1 DEF PunctualHolderSettles, RequireLease
<1>. QED
  BY <1>1, <1>2, <1>3 DEF HeldTokens, DisjointBatches, UnsentAhead, SentTokens

LEMMA StopStep ==
  ASSUME IInv, NEW d \in Dispatchers, Stop(d) \/ Restart(d)
  PROVE  IInv'
BY DEF IInv, Stop, Restart, TypeOK, PunctualHolderSettles, HeldTokens, DisjointBatches,
  UnsentAhead, SentTokens, RequireLease

LEMMA LapseStep ==
  ASSUME IInv, NEW m \in Messages, Lapse(m)
  PROVE  IInv'
<1>. USE DEF IInv
<1>1. /\ late' = [late EXCEPT ![m] = @ \cup {attempts[m]}]
      /\ UNCHANGED <<status, attempts, due, pc, batch, current, sent>>
  BY DEF Lapse
<1>2. faults' \in 0..MaxFaults
  BY OutboxAssumption DEF Lapse, TypeOK
<1>3. TypeOK'
  BY <1>1, <1>2 DEF TypeOK
<1>4. \A n \in Messages : late[n] \subseteq late'[n]
  BY <1>1 DEF TypeOK
<1>5. PunctualHolderSettles'
  <2>1. \A d \in Dispatchers : \A t \in batch[d] : t[1] \in Messages
    BY DEF TypeOK, Tokens
  <2>. QED
    BY <1>1, <1>4, <2>1 DEF PunctualHolderSettles, RequireLease
<1>. QED
  BY <1>1, <1>3, <1>5 DEF HeldTokens, DisjointBatches, UnsentAhead, SentTokens

LEMMA NextIInv == IInv /\ [Next]_vars => IInv'
<1>. SUFFICES ASSUME IInv, [Next]_vars PROVE IInv'
  OBVIOUS
<1>1. CASE \E m \in Messages : Add(m) \/ BecomesDue(m) \/ Lapse(m)
  BY <1>1, StoreStep, LapseStep
<1>2. CASE \E S \in SUBSET Messages : PurgePublished(S)
  BY <1>2, StoreStep
<1>3. CASE \E d \in Dispatchers : Dispatch(d)
  BY <1>3, LeaseStep, SendStep, PublishStep DEF Dispatch, PublishEnds
<1>4. CASE \E d \in Dispatchers : Cancel(d) \/ Crash(d)
  BY <1>4, PublishStep
<1>5. CASE \E d \in Dispatchers : Stop(d) \/ Restart(d)
  BY <1>5, StopStep
<1>6. CASE UNCHANGED vars
  BY <1>6 DEF vars, IInv, TypeOK, PunctualHolderSettles, HeldTokens, DisjointBatches,
    UnsentAhead, SentTokens, RequireLease
<1>. QED
  BY <1>1, <1>2, <1>3, <1>4, <1>5, <1>6 DEF Next

LEMMA Invariance == Spec => []IInv
BY InitIInv, NextIInv, PTL DEF Spec

-----------------------------------------------------------------------------
(* outbox.py keeps its types, and a dispatcher holds leases exactly while  *)
(* it is inside dispatch_once.                                             *)
THEOREM TypeCorrect == Spec => []TypeOK
<1>1. IInv => TypeOK
  BY DEF IInv
<1>. QED
  BY <1>1, Invariance, PTL

(* _require_lease_locked never turns away a dispatcher on time.            *)
THEOREM PunctualHoldersSettle == Spec => []PunctualHolderSettles
<1>1. IInv => PunctualHolderSettles
  BY DEF IInv
<1>. QED
  BY <1>1, Invariance, PTL

(* lease is exclusive: two dispatchers on the same record means that one   *)
(* of their leases has lapsed.                                             *)
THEOREM LeasesAreExclusive == Spec => []OneHolderPerLease
<1>1. IInv => OneHolderPerLease
  <2>. SUFFICES ASSUME IInv, NEW d \in Dispatchers, NEW e \in Dispatchers,
                       NEW t \in batch[d], NEW u \in batch[e], d # e, t[1] = u[1],
                       t[2] \notin late[t[1]], u[2] \notin late[u[1]]
                PROVE  FALSE
    BY DEF OneHolderPerLease
  <2>1. t \in Tokens /\ u \in Tokens
    BY DEF IInv, TypeOK
  <2>2. t[2] = attempts[t[1]] /\ u[2] = attempts[u[1]]
    BY DEF IInv, PunctualHolderSettles, RequireLease
  <2>3. t = u
    BY <2>1, <2>2 DEF Tokens
  <2>. QED
    BY <2>3 DEF IInv, DisjointBatches
<1>. QED
  BY <1>1, Invariance, PTL

-----------------------------------------------------------------------------
(* The refinement: every status has its fate ...                           *)
LEMMA Fates ==
  /\ FateOf("absent") = "absent"
  /\ \A s \in Waiting \cup {"leased"} : FateOf(s) = "kept"
  /\ FateOf("published") = "delivered"
  /\ FateOf("dead_lettered") = "given_up"
  /\ FateOf("purged") = "forgotten"
<1>1. FateOf("absent") = "absent"
  BY DEF FateOf, Waiting
<1>2. FateOf("pending") = "kept" /\ FateOf("failed") = "kept" /\ FateOf("leased") = "kept"
  BY DEF FateOf, Waiting
<1>3. FateOf("published") = "delivered"
  BY DEF FateOf, Waiting
<1>4. FateOf("dead_lettered") = "given_up"
  BY DEF FateOf, Waiting
<1>5. FateOf("purged") = "forgotten"
  BY DEF FateOf, Waiting
<1>. QED
  BY <1>1, <1>2, <1>3, <1>4, <1>5 DEF Waiting

(* ... and a step that changes one status changes one fate.                *)
LEMMA OneFate ==
  ASSUME TypeOK, NEW m \in Messages, NEW s, status' = [status EXCEPT ![m] = s]
  PROVE  Fate' = [Fate EXCEPT ![m] = FateOf(s)]
<1>1. \A n \in Messages : status'[n] = IF n = m THEN s ELSE status[n]
  BY DEF TypeOK
<1>2. Fate' = [n \in Messages |-> IF n = m THEN FateOf(s) ELSE FateOf(status[n])]
  <2>1. \A n \in Messages : FateOf(status'[n]) = IF n = m THEN FateOf(s) ELSE FateOf(status[n])
    BY <1>1
  <2>. QED
    BY <2>1 DEF Fate
<1>3. [Fate EXCEPT ![m] = FateOf(s)] =
        [n \in Messages |-> IF n = m THEN FateOf(s) ELSE FateOf(status[n])]
  BY DEF Fate
<1>. QED
  BY <1>2, <1>3

(* lease is a try of the records it chooses.                               *)
LEMMA LeaseTries ==
  ASSUME IInv, NEW d \in Dispatchers, LeaseBatch(d)
  PROVE  Contract!Next
<1>1. PICK chosen \in SUBSET Candidates :
        /\ status' = [m \in Messages |-> IF m \in chosen THEN "leased"
                                         ELSE IF Lapsed(m) THEN "failed" ELSE status[m]]
        /\ attempts' = [m \in Messages |-> IF m \in chosen THEN attempts[m] + 1
                                                           ELSE attempts[m]]
  BY DEF LeaseBatch
<1>2. chosen \in SUBSET Messages
  BY DEF Candidates
<1>3. \A m \in chosen : status[m] \in Waiting \cup {"leased"}
  BY DEF Candidates, Lapsed
<1>4. \A m \in chosen : Fate[m] = "kept"
  BY <1>2, <1>3, Fates DEF Fate
<1>5. \A m \in Messages : FateOf(status'[m]) = FateOf(status[m])
  <2>. SUFFICES ASSUME NEW m \in Messages PROVE FateOf(status'[m]) = FateOf(status[m])
    OBVIOUS
  <2>1. CASE m \in chosen
    BY <1>1, <1>3, <2>1, Fates
  <2>2. CASE m \notin chosen /\ Lapsed(m)
    <3>1. status'[m] = "failed" /\ status[m] = "leased"
      BY <1>1, <2>2 DEF Lapsed
    <3>2. "failed" \in Waiting
      BY DEF Waiting
    <3>. QED
      BY <3>1, <3>2, Fates
  <2>3. CASE m \notin chosen /\ ~Lapsed(m)
    BY <1>1, <2>3
  <2>. QED
    BY <2>1, <2>2, <2>3
<1>6. Fate' = Fate
  BY <1>5 DEF Fate
<1>7. UNCHANGED sent
  BY DEF LeaseBatch
<1>8. Contract!Try(chosen)
  BY <1>1, <1>4, <1>6, <1>7 DEF Contract!Try
<1>. QED
  BY <1>2, <1>8 DEF Contract!Next

(* A dispatcher that settles its record confirms it, gives it up, or       *)
(* leaves it kept.                                                         *)
LEMMA SettleRefines ==
  ASSUME IInv, NEW d \in Dispatchers, pc[d] = "publishing",
         RequireLease(current[d]), NEW s \in Statuses,
         status' = [status EXCEPT ![current[d][1]] = s],
         UNCHANGED <<attempts, sent>>,
         \/ s = "published" /\ current[d][2] \in sent[current[d][1]]
         \/ s = "dead_lettered" /\ current[d][2] >= MaxAttempts
         \/ s = "failed"
  PROVE  [Contract!Next]_Contract!vars
<1>. DEFINE m == current[d][1]
<1>1. current[d] \in Tokens /\ m \in Messages
  BY DEF IInv, TypeOK, Tokens
<1>2. status[m] = "leased" /\ attempts[m] = current[d][2]
  BY DEF RequireLease
<1>3. Fate[m] = "kept"
  BY <1>1, <1>2, Fates DEF Fate
<1>4. Fate' = [Fate EXCEPT ![m] = FateOf(s)]
  BY <1>1, OneFate DEF IInv
<1>5. CASE s = "published" /\ current[d][2] \in sent[m]
  <2>1. Contract!Confirm(m)
    BY <1>3, <1>4, <1>5, Fates DEF Contract!Confirm
  <2>. QED
    BY <1>1, <2>1 DEF Contract!Next
<1>6. CASE s = "dead_lettered" /\ current[d][2] >= MaxAttempts
  <2>1. Contract!GiveUp(m)
    BY <1>2, <1>3, <1>4, <1>6, Fates DEF Contract!GiveUp
  <2>. QED
    BY <1>1, <2>1 DEF Contract!Next
<1>7. CASE s = "failed"
  <2>1. FateOf(s) = Fate[m]
    BY <1>3, <1>7, Fates DEF Waiting
  <2>2. Fate' = Fate
    BY <1>1, <1>4, <2>1 DEF Fate
  <2>. QED
    BY <2>2 DEF Contract!vars
<1>. QED
  BY <1>5, <1>6, <1>7

LEMMA PublishRefines ==
  ASSUME IInv, NEW d \in Dispatchers,
         Published(d) \/ PublishFails(d) \/ Cancel(d) \/ Crash(d)
  PROVE  [Contract!Next]_Contract!vars
<1>. DEFINE m == current[d][1]
<1>1. pc[d] = "publishing" /\ UNCHANGED <<attempts, sent>>
  BY DEF Published, PublishFails, Cancel, Crash
<1>2. \/ UNCHANGED status
      \/ /\ RequireLease(current[d])
         /\ \E s \in Statuses :
              /\ status' = [status EXCEPT ![m] = s]
              /\ \/ s = "published" /\ current[d][2] \in sent[m]
                 \/ s = "dead_lettered" /\ current[d][2] >= MaxAttempts
                 \/ s = "failed"
  BY DEF Published, PublishFails, Cancel, Crash, Settle, Statuses
<1>3. CASE UNCHANGED status
  BY <1>1, <1>3 DEF Contract!vars, Fate
<1>. QED
  BY <1>1, <1>2, <1>3, SettleRefines

LEMMA SendRefines ==
  ASSUME IInv, NEW d \in Dispatchers, Send(d)
  PROVE  Contract!Next
<1>. DEFINE m == current[d][1]
            k == current[d][2]
<1>1. current[d] \in batch[d] /\ m \in Messages
  BY DEF Send, IInv, TypeOK, Tokens
<1>2. k \in 1..attempts[m]
  BY <1>1 DEF IInv, HeldTokens
<1>3. Contract!Send(m, k)
  BY <1>2 DEF Send, Contract!Send, Fate
<1>. QED
  BY <1>1, <1>2, <1>3 DEF Contract!Next

LEMMA StoreRefines ==
  ASSUME IInv,
         \/ \E m \in Messages : Add(m) \/ BecomesDue(m)
         \/ \E S \in SUBSET Messages : PurgePublished(S)
  PROVE  [Contract!Next]_Contract!vars
<1>1. ASSUME NEW m \in Messages, Add(m)
      PROVE  Contract!Keep(m)
  <2>1. Fate' = [Fate EXCEPT ![m] = FateOf("pending")]
    BY <1>1, OneFate DEF Add, IInv
  <2>2. FateOf("pending") = "kept"
    BY Fates DEF Waiting
  <2>. QED
    BY <1>1, <2>1, <2>2, Fates DEF Contract!Keep, Add, Fate
<1>2. ASSUME NEW m \in Messages, BecomesDue(m)
      PROVE  UNCHANGED Contract!vars
  BY <1>2 DEF BecomesDue, Contract!vars, Fate
<1>3. ASSUME NEW S \in SUBSET Messages, PurgePublished(S)
      PROVE  Contract!Forget(S)
  <2>1. \A m \in S : Fate[m] = "delivered"
    BY <1>3, Fates DEF PurgePublished, Fate
  <2>2. \A m \in Messages : status'[m] = IF m \in S THEN "purged" ELSE status[m]
    BY <1>3 DEF PurgePublished
  <2>3. Fate' = [m \in Messages |-> IF m \in S THEN "forgotten" ELSE Fate[m]]
    BY <2>2, Fates DEF Fate
  <2>. QED
    BY <1>3, <2>1, <2>3 DEF PurgePublished, Contract!Forget
<1>. QED
  BY <1>1, <1>2, <1>3 DEF Contract!Next

LEMMA InitRefines == Init => Contract!Init
<1>. SUFFICES ASSUME Init PROVE Contract!Init
  OBVIOUS
<1>1. Fate = [m \in Messages |-> "absent"]
  BY Fates DEF Init, Fate
<1>. QED
  BY <1>1 DEF Init, Contract!Init

LEMMA NextRefines == IInv /\ [Next]_vars => [Contract!Next]_Contract!vars
<1>. SUFFICES ASSUME IInv, [Next]_vars PROVE [Contract!Next]_Contract!vars
  OBVIOUS
<1>1. CASE \E m \in Messages : Add(m) \/ BecomesDue(m)
  BY <1>1, StoreRefines
<1>2. CASE \E S \in SUBSET Messages : PurgePublished(S)
  BY <1>2, StoreRefines
<1>3. CASE \E m \in Messages : Lapse(m)
  BY <1>3 DEF Lapse, Contract!vars, Fate
<1>4. CASE \E d \in Dispatchers : Dispatch(d)
  BY <1>4, LeaseTries, SendRefines, PublishRefines DEF Dispatch, PublishEnds
<1>5. CASE \E d \in Dispatchers : Cancel(d) \/ Crash(d)
  BY <1>5, PublishRefines
<1>6. CASE \E d \in Dispatchers : Stop(d) \/ Restart(d)
  BY <1>6 DEF Stop, Restart, Contract!vars, Fate
<1>7. CASE UNCHANGED vars
  BY <1>7 DEF vars, Contract!vars, Fate
<1>. QED
  BY <1>1, <1>2, <1>3, <1>4, <1>5, <1>6, <1>7 DEF Next

(* MemoryOutboxStore and its dispatchers keep the promise of the outbox:   *)
(* published means sent, given up means tried max_attempts times, settled  *)
(* is final, and a lease sends at most once.                               *)
THEOREM OutboxImplementsContract == Spec => ImplementsContract
BY InitRefines, NextRefines, Invariance, PTL DEF Spec, ImplementsContract, Contract!Spec

-----------------------------------------------------------------------------
(* Nothing is forgotten: what is leased was due, and only mark_failed      *)
(* postpones a record, which gives its lease back.                         *)

LeasedIsDue ==
  /\ due \in [Messages -> BOOLEAN]
  /\ \A m \in Messages : status[m] = "leased" => due[m]

LEMMA LeasedIsDueNext ==
  ASSUME IInv, LeasedIsDue, [Next]_vars
  PROVE  LeasedIsDue'
<1>. USE DEF LeasedIsDue
<1>0. /\ status \in [Messages -> Statuses]
      /\ \A d \in Dispatchers : pc[d] = "publishing" => current[d][1] \in Messages
  BY DEF IInv, TypeOK, Tokens
<1>1. ASSUME NEW m \in Messages, Add(m) \/ BecomesDue(m) \/ Lapse(m)
      PROVE  LeasedIsDue'
  BY <1>0, <1>1 DEF Add, BecomesDue, Lapse, Waiting
<1>2. ASSUME NEW d \in Dispatchers, LeaseBatch(d)
      PROVE  LeasedIsDue'
  <2>1. PICK chosen \in SUBSET Candidates :
          status' = [m \in Messages |-> IF m \in chosen THEN "leased"
                                        ELSE IF Lapsed(m) THEN "failed" ELSE status[m]]
    BY <1>2 DEF LeaseBatch
  <2>2. \A m \in chosen : due[m]
    BY DEF Candidates
  <2>. QED
    BY <1>2, <2>1, <2>2 DEF LeaseBatch
<1>3. ASSUME NEW d \in Dispatchers, Send(d) \/ Crash(d) \/ Stop(d) \/ Restart(d)
      PROVE  LeasedIsDue'
  BY <1>3 DEF Send, Crash, Stop, Restart
<1>4. ASSUME NEW d \in Dispatchers, Published(d) \/ Cancel(d)
      PROVE  LeasedIsDue'
  <2>1. /\ status' = status \/ \E s \in {"published", "failed"} :
                                 status' = [status EXCEPT ![current[d][1]] = s]
        /\ due' = due
    BY <1>4 DEF Published, Cancel, Settle
  <2>. QED
    BY <1>0, <2>1
<1>5. ASSUME NEW d \in Dispatchers, PublishFails(d)
      PROVE  LeasedIsDue'
  <2>. DEFINE n == current[d][1]
  <2>1. n \in Messages
    BY <1>0, <1>5 DEF PublishFails
  <2>2. \/ due' = due
        \/ RequireLease(current[d]) /\ due' = [due EXCEPT ![n] = FALSE]
    BY <1>5 DEF PublishFails
  <2>3. IF RequireLease(current[d])
          THEN \E s \in {"dead_lettered", "failed"} : status' = [status EXCEPT ![n] = s]
          ELSE status' = status
    BY <1>5 DEF PublishFails, Settle
  <2>4. \A m \in Messages : status'[m] = "leased" =>
          status[m] = "leased" /\ (RequireLease(current[d]) => m # n)
    BY <1>0, <2>1, <2>3
  <2>5. due' \in [Messages -> BOOLEAN]
    BY <2>1, <2>2
  <2>6. \A m \in Messages : (RequireLease(current[d]) => m # n) => due'[m] = due[m]
    BY <2>1, <2>2
  <2>. QED
    BY <2>4, <2>5, <2>6
<1>6. ASSUME NEW S \in SUBSET Messages, PurgePublished(S)
      PROVE  LeasedIsDue'
  BY <1>0, <1>6 DEF PurgePublished
<1>7. CASE UNCHANGED vars
  BY <1>7 DEF vars
<1>. QED
  BY <1>1, <1>2, <1>3, <1>4, <1>5, <1>6, <1>7 DEF Next, Dispatch, PublishEnds

(* Whatever crashes, cancellations and lapsed leases do, a stored record   *)
(* that is not settled is always on its way: lease will take it, its delay *)
(* passes, or it has a lease that is settled or lapses.                    *)
THEOREM NoRecordIsForgotten == Spec => []NothingIsForgotten
<1>1. Init => LeasedIsDue
  BY DEF Init, LeasedIsDue
<1>2. IInv /\ LeasedIsDue /\ [Next]_vars => LeasedIsDue'
  BY LeasedIsDueNext
<1>3. IInv /\ LeasedIsDue => NothingIsForgotten
  <2>. SUFFICES ASSUME IInv, LeasedIsDue, NEW m \in Stored, ~Settled(m)
                PROVE  \/ m \in Candidates
                       \/ status[m] \in Waiting /\ ~due[m]
                       \/ status[m] = "leased" /\ ~Lapsed(m)
    BY DEF NothingIsForgotten
  <2>1. m \in Messages /\ status[m] \in Waiting \cup {"leased"}
    BY DEF IInv, TypeOK, Statuses, Stored, Settled, Waiting
  <2>. QED
    BY <2>1 DEF LeasedIsDue, Candidates, Lapsed
<1>. QED
  BY <1>1, <1>2, <1>3, Invariance, PTL DEF Spec
=============================================================================
