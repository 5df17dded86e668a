-------------------------- MODULE DeadLetterProofs --------------------------
(* Safety of DeadLetter, for all sets of records and calls and all limits. *)
EXTENDS DeadLetter, TLAPS

Serving(c, r) == Publishing(c) /\ snapshot[c].id = r

\* What a call reads before publish is a record that may be replayed.
ReadsReplayable ==
  \A c \in Calls : Publishing(c) => snapshot[c].status \in {"active", "quarantined", "archived"}

\* The counter of an undisturbed record counts its publishes, but for the one in flight.
Counted(r) ==
  /\ \A c, d \in Calls : Serving(c, r) /\ Serving(d, r) => c = d
  /\ status[r] = "absent" =>
       begun[r] = 0 /\ accepted[r] = 0 /\ count[r] = 0 /\ \A c \in Calls : ~Serving(c, r)
  /\ \A c \in Calls : Serving(c, r) =>
       /\ accepted[r] = 0
       /\ r \in Stored => /\ snapshot[c].count = count[r]
                          /\ snapshot[c].failures = failures[r]
                          /\ begun[r] = count[r] + 1
  /\ r \in Stored /\ (\A c \in Calls : ~Serving(c, r)) => begun[r] = count[r]
  /\ r \in Stored /\ status[r] # "replayed" => accepted[r] = 0
  /\ accepted[r] <= 1
  /\ begun[r] <= MaxReplayAttempts
  /\ failures[r] <= count[r]

UndisturbedAreCounted == \A r \in Records \ disturbed : Counted(r)

IInv == TypeOK /\ ReadsReplayable /\ ReplayedWasAccepted /\ UndisturbedAreCounted

Replayable == {"active", "quarantined", "archived"}

(* What a step outside of publish may do to a record: nothing, capture it, *)
(* move it among the replayable states, or delete it.                      *)
Administered(r) ==
  \/ status'[r] = status[r] /\ count'[r] = count[r] /\ failures'[r] = failures[r]
  \/ /\ status[r] = "absent" /\ status'[r] = "active"
     /\ count'[r] = count[r] /\ failures'[r] = failures[r]
  \/ /\ status[r] \in Replayable /\ status'[r] \in Replayable
     /\ count'[r] = count[r] /\ failures'[r] = failures[r]
  \/ r \in Stored /\ status'[r] = "purged" /\ count'[r] = 0 /\ failures'[r] = 0

-----------------------------------------------------------------------------
LEMMA InitIInv == Init => IInv
BY DeadLetterAssumption DEF Init, IInv, TypeOK, ReadsReplayable, ReplayedWasAccepted,
  UndisturbedAreCounted, Counted, Serving, Publishing, Stored, Statuses, Keywords, Ages

(* Types do not depend on the rest of the invariant.                       *)
LEMMA TypeStep == TypeOK /\ [Next]_vars => TypeOK'
<1>. SUFFICES ASSUME TypeOK, [Next]_vars
              PROVE  TypeOK'
  OBVIOUS
<1>. USE DeadLetterAssumption DEF TypeOK, Statuses, Ages, Publishing, records, history
<1>1. CASE UNCHANGED vars
  BY <1>1 DEF vars
<1>2. ASSUME NEW r \in Records, Capture(r)
      PROVE  TypeOK'
  BY <1>2 DEF Capture
<1>3. ASSUME NEW r \in Records, Quarantine(r)
      PROVE  TypeOK'
  BY <1>3 DEF Quarantine
<1>4. ASSUME NEW r \in Records, Release(r)
      PROVE  TypeOK'
  BY <1>4 DEF Release
<1>5. ASSUME NEW r \in Records, Archive(r)
      PROVE  TypeOK'
  BY <1>5 DEF Archive
<1>6. ASSUME NEW r \in Records, GrowOlder(r)
      PROVE  TypeOK'
  BY <1>6 DEF GrowOlder
<1>7. ASSUME NEW S \in SUBSET Records, Purge(S)
      PROVE  TypeOK'
  BY <1>7 DEF Purge, Forget
<1>8. ASSUME ApplyRetention
      PROVE  TypeOK'
  BY <1>8 DEF ApplyRetention, Forget
<1>9. ASSUME NEW c \in Calls, ReplaySelected(c)
      PROVE  TypeOK'
  <2>1. PICK S \in SUBSET Records, o \in Options :
          /\ todo' = [todo EXCEPT ![c] = S]
          /\ options' = [options EXCEPT ![c] = o]
    BY <1>9 DEF ReplaySelected
  <2>2. todo' \in [Calls -> SUBSET Records] /\ options' \in [Calls -> SUBSET Keywords]
    BY <2>1
  <2>3. ~Publishing(c)
    BY <1>9 DEF ReplaySelected, Idle
  <2>. QED
    BY <1>9, <2>1, <2>2, <2>3 DEF ReplaySelected
<1>10. ASSUME NEW c \in Calls, ReplayAll(c)
       PROVE  TypeOK'
  <2>1. PICK S \in SUBSET Records, o \in Options :
          /\ todo' = [todo EXCEPT ![c] = S]
          /\ options' = [options EXCEPT ![c] = o \cap {"dry_run"}]
    BY <1>10 DEF ReplayAll
  <2>2. todo' \in [Calls -> SUBSET Records] /\ options' \in [Calls -> SUBSET Keywords]
    BY <2>1
  <2>3. ~Publishing(c)
    BY <1>10 DEF ReplayAll, Idle
  <2>. QED
    BY <1>10, <2>1, <2>2, <2>3 DEF ReplayAll
<1>11. ASSUME NEW c \in Calls, NEW r \in Records, Missing(c, r)
       PROVE  TypeOK'
  BY <1>11 DEF Missing, Next1, Raise, Leave
<1>12. ASSUME NEW c \in Calls, NEW r \in Records, Skip(c, r)
       PROVE  TypeOK'
  BY <1>12 DEF Skip, Next1, Done, Leave
<1>13. ASSUME NEW c \in Calls, NEW r \in Records, GiveUp(c, r)
       PROVE  TypeOK'
  BY <1>13 DEF GiveUp, Next1, Done, Leave
<1>14. ASSUME NEW c \in Calls, NEW r \in Records, Undecodable(c, r)
       PROVE  TypeOK'
  BY <1>14 DEF Undecodable, MayPublish, Next1, Raise, Leave
<1>15. ASSUME NEW c \in Calls, NEW r \in Records, Publish(c, r)
       PROVE  TypeOK'
  <2>. DEFINE s == [id |-> r, status |-> status[r], count |-> count[r],
                    failures |-> failures[r]]
  <2>1. s \in Snapshots /\ s # NoSnapshot /\ s.id \in todo[c] /\ s.count < MaxReplayAttempts
    BY <1>15 DEF Publish, MayPublish, Next1, Exhausted, Snapshots
  <2>2. snapshot' = [snapshot EXCEPT ![c] = s]
    BY <1>15 DEF Publish
  <2>3. begun' \in [Records -> Nat] /\ disturbed' \subseteq Records
    BY <1>15 DEF Publish
  <2>4. UNCHANGED <<status, count, failures, age, todo, options, accepted, faults>>
    BY <1>15 DEF Publish
  <2>. QED
    BY <2>1, <2>2, <2>3, <2>4
<1>16. ASSUME NEW c \in Calls, Succeed(c)
       PROVE  TypeOK'
  <2>1. snapshot[c] \in Snapshots /\ snapshot[c].id \in Records
        /\ snapshot[c].count + 1 \in 0..MaxReplayAttempts /\ snapshot[c].failures \in Nat
    BY <1>16 DEF Succeed, Snapshots
  <2>2. /\ status' \in [Records -> Statuses]
        /\ count' \in [Records -> 0..MaxReplayAttempts]
        /\ failures' \in [Records -> Nat]
    BY <1>16, <2>1 DEF Succeed, Update
  <2>3. /\ todo' \in [Calls -> SUBSET Records]
        /\ options' \in [Calls -> SUBSET Keywords]
        /\ \A d \in Calls \ {c} : todo'[d] = todo[d]
    BY <1>16, <2>1 DEF Succeed, Update, Done, Raise, Leave
  <2>4. /\ snapshot' = [snapshot EXCEPT ![c] = NoSnapshot]
        /\ accepted' \in [Records -> Nat]
        /\ UNCHANGED <<age, begun, disturbed, faults>>
    BY <1>16, <2>1 DEF Succeed
  <2>. QED
    BY <2>2, <2>3, <2>4
<1>17. ASSUME NEW c \in Calls, Fail(c)
       PROVE  TypeOK'
  BY <1>17 DEF Fail, Update, Done, Raise, Leave, Snapshots, StatusAfterFailure
<1>18. ASSUME NEW c \in Calls, Cancel(c)
       PROVE  TypeOK'
  BY <1>18 DEF Cancel, Raise, Leave, Snapshots
<1>. QED
  BY <1>1, <1>2, <1>3, <1>4, <1>5, <1>6, <1>7, <1>8, <1>9, <1>10, <1>11, <1>12, <1>13,
     <1>14, <1>15, <1>16, <1>17, <1>18 DEF Next, Manage, Replay, Serve

(* Steps that leave the publishes alone.                                   *)
LEMMA AdministrationStep ==
  ASSUME IInv, TypeOK', UNCHANGED <<snapshot, history>>,
         \A r \in Records : Administered(r)
  PROVE  IInv'
<1>1. ReadsReplayable'
  BY DEF IInv, ReadsReplayable, Publishing
<1>2. ReplayedWasAccepted'
  BY DEF IInv, ReplayedWasAccepted, Administered, Replayable, history
<1>3. ASSUME NEW r \in Records \ disturbed
      PROVE  Counted(r)'
  <2>1. Counted(r) /\ Administered(r)
    BY DEF IInv, UndisturbedAreCounted
  <2>2. /\ begun'[r] = begun[r] /\ accepted'[r] = accepted[r] /\ snapshot' = snapshot
        /\ count[r] \in Nat /\ begun[r] \in Nat /\ accepted[r] \in Nat /\ failures[r] \in Nat
    BY DEF history, IInv, TypeOK
  <2>3. \A c \in Calls : Serving(c, r)' <=> Serving(c, r)
    BY <2>2 DEF Serving, Publishing
  <2>4. r \in Stored <=> status[r] \notin {"absent", "purged"}
    BY DEF Stored
  <2>5. (r \in Stored)' <=> status'[r] \notin {"absent", "purged"}
    BY DEF Stored
  <2>. QED
    BY <2>1, <2>2, <2>3, <2>4, <2>5 DEF Counted, Administered, Replayable
<1>. QED
  BY <1>1, <1>2, <1>3 DEF IInv, UndisturbedAreCounted, history

(* A publish begins: unless the record is disturbed, it is the only one.   *)
LEMMA PublishStep ==
  ASSUME IInv, TypeOK', NEW c \in Calls, NEW r \in Records, Publish(c, r)
  PROVE  IInv'
<1>. DEFINE s == [id |-> r, status |-> status[r], count |-> count[r], failures |-> failures[r]]
<1>1. /\ snapshot' = [snapshot EXCEPT ![c] = s]
      /\ begun' = [begun EXCEPT ![r] = @ + 1]
      /\ UNCHANGED <<status, count, failures, accepted>>
  BY DEF Publish, records
<1>2. /\ ~Publishing(c) /\ r \in Stored /\ status[r] \in Replayable
      /\ count[r] < MaxReplayAttempts
  <2>1. status[r] \in Statuses /\ count[r] \in Nat /\ MaxReplayAttempts \in Nat
    BY DeadLetterAssumption DEF IInv, TypeOK
  <2>2. /\ ~Publishing(c) /\ r \in Stored
        /\ status[r] # "replayed" /\ ~(count[r] >= MaxReplayAttempts)
    BY DEF Publish, MayPublish, Next1, Skipped, Exhausted
  <2>. QED
    BY <2>1, <2>2 DEF Stored, Statuses, Replayable
<1>3. s # NoSnapshot
  BY <1>2, DeadLetterAssumption DEF IInv, TypeOK, Snapshots
<1>4. \A d \in Calls, q \in Records :
        Serving(d, q)' <=> IF d = c THEN q = r ELSE Serving(d, q)
  BY <1>1, <1>3 DEF IInv, TypeOK, Serving, Publishing
<1>5. ReadsReplayable'
  BY <1>1, <1>2 DEF IInv, TypeOK, ReadsReplayable, Publishing, Replayable
<1>6. ReplayedWasAccepted'
  BY <1>1 DEF IInv, ReplayedWasAccepted
<1>7. ASSUME NEW q \in Records \ disturbed'
      PROVE  Counted(q)'
  <2>1. Counted(q)
    BY DEF Publish, IInv, UndisturbedAreCounted
  <2>2. /\ status'[q] = status[q] /\ count'[q] = count[q] /\ failures'[q] = failures[q]
        /\ accepted'[q] = accepted[q] /\ (q \in Stored)' = (q \in Stored)
    BY <1>1 DEF Stored
  <2>3. /\ count[q] \in Nat /\ begun[q] \in Nat /\ accepted[q] \in Nat /\ failures[q] \in Nat
        /\ MaxReplayAttempts \in Nat
    BY DeadLetterAssumption DEF IInv, TypeOK
  <2>4. CASE q = r
    <3>1. \A d \in Calls : ~Serving(d, r)
      BY <2>4, Zenon DEF Publish, Serving
    <3>2. \A d \in Calls : Serving(d, r)' => d = c
      BY <1>4, <3>1
    <3>3. begun'[r] = begun[r] + 1 /\ snapshot'[c] = s
      BY <1>1 DEF IInv, TypeOK
    <3>4. begun[r] = count[r]
      BY <1>2, <2>1, <2>4, <3>1, Zenon DEF Counted
    <3>5. accepted[r] = 0 /\ failures[r] <= count[r]
      BY <1>2, <2>1, <2>4 DEF Counted, Replayable
    <3>6. begun'[r] = count'[r] + 1 /\ begun'[r] <= MaxReplayAttempts
      BY <1>2, <2>2, <2>3, <2>4, <3>3, <3>4
    <3>7. /\ \A d, e \in Calls : Serving(d, r)' /\ Serving(e, r)' => d = e
          /\ \A d \in Calls : Serving(d, r)' => snapshot'[d].count = count'[r]
                                              /\ snapshot'[d].failures = failures'[r]
      BY <2>2, <2>4, <3>2, <3>3
    <3>8. status'[r] \in Replayable /\ accepted'[r] = 0 /\ failures'[r] <= count'[r]
      BY <1>2, <2>2, <2>4, <3>5
    <3>9. Serving(c, r)'
      BY <1>4
    <3>. QED
      BY <2>4, <3>6, <3>7, <3>8, <3>9 DEF Counted, Replayable
  <2>5. CASE q # r
    <3>1. \A d \in Calls : Serving(d, q)' <=> Serving(d, q)
      BY <1>2, <1>4, <2>5 DEF Serving
    <3>2. begun'[q] = begun[q] /\ \A d \in Calls : Serving(d, q) => snapshot'[d] = snapshot[d]
      BY <1>1, <1>2, <2>5 DEF IInv, TypeOK, Serving
    <3>. QED
      BY <2>1, <2>2, <2>3, <3>1, <3>2 DEF Counted
  <2>. QED
    BY <2>4, <2>5
<1>. QED
  BY <1>5, <1>6, <1>7 DEF IInv, UndisturbedAreCounted

(* A publish ends for call c: what becomes of the record it served follows *)
(* from its snapshot, which is up to date if the record is undisturbed.    *)
LEMMA SettleStep ==
  ASSUME IInv, TypeOK', NEW c \in Calls, Publishing(c),
         snapshot' = [snapshot EXCEPT ![c] = NoSnapshot],
         begun' = begun, disturbed \subseteq disturbed',
         \A r \in Records \ {snapshot[c].id} :
            /\ status'[r] = status[r] /\ count'[r] = count[r] /\ failures'[r] = failures[r]
            /\ accepted'[r] = accepted[r],
         accepted[snapshot[c].id] <= accepted'[snapshot[c].id],
         status'[snapshot[c].id] = "replayed" /\ status[snapshot[c].id] # "replayed"
            => accepted'[snapshot[c].id] > 0,
         snapshot[c].id \notin disturbed' =>
            LET r == snapshot[c].id
            IN  \/ /\ r \in Stored /\ count'[r] = count[r] + 1 /\ failures'[r] = failures[r]
                   /\ status'[r] = "replayed" /\ accepted'[r] = accepted[r] + 1
                \/ /\ r \in Stored /\ count'[r] = count[r] + 1
                   /\ failures'[r] = failures[r] + 1
                   /\ status'[r] \in Replayable /\ accepted'[r] = accepted[r]
                \/ /\ r \notin Stored /\ status'[r] = status[r]
                   /\ count'[r] = count[r] /\ failures'[r] = failures[r]
                   /\ accepted'[r] \in {accepted[r], accepted[r] + 1}
  PROVE  IInv'
<1>. DEFINE i == snapshot[c].id
<1>1. i \in Records
  BY DEF IInv, TypeOK, Publishing, Snapshots
<1>2. \A d \in Calls, r \in Records : Serving(d, r)' <=> d # c /\ Serving(d, r)
  BY DEF IInv, TypeOK, Serving, Publishing
<1>3. \A d \in Calls : d # c => snapshot'[d] = snapshot[d]
  BY DEF IInv, TypeOK
<1>4. ReadsReplayable'
  BY DEF IInv, TypeOK, ReadsReplayable, Publishing
<1>5. ReplayedWasAccepted'
  <2>. SUFFICES ASSUME NEW r \in Records, status'[r] = "replayed"
                PROVE  accepted'[r] > 0
    BY DEF ReplayedWasAccepted
  <2>. accepted[r] \in Nat /\ accepted'[r] \in Nat
    BY DEF IInv, TypeOK
  <2>1. status[r] = "replayed" => accepted[r] > 0
    BY DEF IInv, ReplayedWasAccepted
  <2>. QED
    BY <2>1
<1>6. ASSUME NEW r \in Records \ disturbed'
      PROVE  Counted(r)'
  <2>1. Counted(r)
    BY DEF IInv, UndisturbedAreCounted
  <2>2. /\ count[r] \in Nat /\ begun[r] \in Nat /\ accepted[r] \in Nat /\ failures[r] \in Nat
        /\ MaxReplayAttempts \in Nat
    BY DeadLetterAssumption DEF IInv, TypeOK
  <2>3. (r \in Stored <=> status[r] \notin {"absent", "purged"})
        /\ ((r \in Stored)' <=> status'[r] \notin {"absent", "purged"})
    BY DEF Stored
  <2>4. CASE r # i
    <3>1. \A d \in Calls : /\ Serving(d, r)' <=> Serving(d, r)
                           /\ Serving(d, r) => snapshot'[d] = snapshot[d]
      BY <1>2, <1>3, <2>4 DEF Serving
    <3>2. /\ status'[r] = status[r] /\ count'[r] = count[r] /\ failures'[r] = failures[r]
          /\ accepted'[r] = accepted[r] /\ begun'[r] = begun[r]
      BY <2>4
    <3>. QED
      BY <2>1, <2>2, <2>3, <3>1, <3>2 DEF Counted
  <2>5. CASE r = i
    <3>1. Serving(c, r)
      BY <2>5 DEF Serving
    <3>2. \A d \in Calls : ~Serving(d, r)'
      BY <1>2, <2>1, <3>1 DEF Counted
    <3>3. /\ accepted[r] = 0 /\ status[r] # "absent" /\ begun[r] <= MaxReplayAttempts
          /\ failures[r] <= count[r]
          /\ r \in Stored => begun[r] = count[r] + 1
      BY <2>1, <3>1 DEF Counted
    <3>4. CASE r \in Stored
      <4>1. /\ begun'[r] = count'[r] /\ accepted'[r] <= 1 /\ begun'[r] <= MaxReplayAttempts
            /\ failures'[r] <= count'[r] /\ status'[r] # "absent"
            /\ status'[r] # "replayed" => accepted'[r] = 0
        BY <2>2, <2>5, <3>3, <3>4 DEF Replayable
      <4>. QED
        BY <3>2, <4>1 DEF Counted
    <3>5. CASE r \notin Stored
      <4>1. /\ accepted'[r] <= 1 /\ begun'[r] <= MaxReplayAttempts
            /\ failures'[r] <= count'[r] /\ status'[r] # "absent" /\ (r \notin Stored)'
        BY <2>2, <2>3, <2>5, <3>3, <3>5
      <4>. QED
        BY <3>2, <4>1 DEF Counted
    <3>. QED
      BY <3>4, <3>5
  <2>. QED
    BY <2>4, <2>5
<1>. QED
  BY <1>4, <1>5, <1>6 DEF IInv, UndisturbedAreCounted

LEMMA SucceedStep ==
  ASSUME IInv, TypeOK', NEW c \in Calls, Succeed(c)
  PROVE  IInv'
<1>1. snapshot[c].id \in Records
  BY DEF Succeed, IInv, TypeOK, Publishing, Snapshots
<1>2. /\ Publishing(c) /\ snapshot' = [snapshot EXCEPT ![c] = NoSnapshot]
      /\ begun' = begun /\ disturbed' = disturbed
  BY DEF Succeed
<1>3. /\ \A r \in Records \ {snapshot[c].id} : accepted'[r] = accepted[r]
      /\ accepted'[snapshot[c].id] = accepted[snapshot[c].id] + 1
      /\ accepted[snapshot[c].id] \in Nat
  BY <1>1 DEF Succeed, IInv, TypeOK
<1>4. \A r \in Records \ {snapshot[c].id} :
        status'[r] = status[r] /\ count'[r] = count[r] /\ failures'[r] = failures[r]
  BY <1>1 DEF Succeed, Update, IInv, TypeOK, records
<1>5. ASSUME snapshot[c].id \notin disturbed
      PROVE  LET r == snapshot[c].id
             IN  \/ /\ r \in Stored /\ count'[r] = count[r] + 1 /\ failures'[r] = failures[r]
                    /\ status'[r] = "replayed"
                 \/ /\ r \notin Stored /\ status'[r] = status[r]
                    /\ count'[r] = count[r] /\ failures'[r] = failures[r]
  <2>1. Serving(c, snapshot[c].id) /\ Counted(snapshot[c].id)
    BY <1>1, <1>2, <1>5 DEF Serving, IInv, UndisturbedAreCounted
  <2>2. CASE snapshot[c].id \in Stored
    <3>1. snapshot[c].count = count[snapshot[c].id] /\ snapshot[c].failures = failures[snapshot[c].id]
      BY <2>1, <2>2, Zenon DEF Counted
    <3>. QED
      BY <1>1, <2>2, <3>1 DEF Succeed, Update, IInv, TypeOK
  <2>3. CASE snapshot[c].id \notin Stored
    BY <2>3 DEF Succeed, Update, records
  <2>. QED
    BY <2>2, <2>3
<1>6. accepted[snapshot[c].id] <= accepted'[snapshot[c].id] /\ accepted'[snapshot[c].id] > 0
  BY <1>3
<1>7. snapshot[c].id \notin disturbed' =>
        LET r == snapshot[c].id
        IN  \/ /\ r \in Stored /\ count'[r] = count[r] + 1 /\ failures'[r] = failures[r]
               /\ status'[r] = "replayed" /\ accepted'[r] = accepted[r] + 1
            \/ /\ r \notin Stored /\ status'[r] = status[r]
               /\ count'[r] = count[r] /\ failures'[r] = failures[r]
               /\ accepted'[r] \in {accepted[r], accepted[r] + 1}
  BY <1>2, <1>3, <1>5
<1>. QED
  BY <1>1, <1>2, <1>3, <1>4, <1>6, <1>7, SettleStep

LEMMA FailStep ==
  ASSUME IInv, TypeOK', NEW c \in Calls, Fail(c)
  PROVE  IInv'
<1>1. snapshot[c].id \in Records
  BY DEF Fail, IInv, TypeOK, Publishing, Snapshots
<1>2. /\ Publishing(c) /\ snapshot' = [snapshot EXCEPT ![c] = NoSnapshot]
      /\ begun' = begun /\ disturbed \subseteq disturbed'
  BY DEF Fail
<1>3. /\ \A r \in Records \ {snapshot[c].id} : accepted'[r] = accepted[r]
      /\ accepted[snapshot[c].id] <= accepted'[snapshot[c].id]
      /\ snapshot[c].id \notin disturbed' =>
           accepted'[snapshot[c].id] = accepted[snapshot[c].id]
  BY <1>1 DEF Fail, IInv, TypeOK
<1>4. \A r \in Records \ {snapshot[c].id} :
        status'[r] = status[r] /\ count'[r] = count[r] /\ failures'[r] = failures[r]
  BY <1>1 DEF Fail, Update, IInv, TypeOK, records
<1>5. StatusAfterFailure(snapshot[c]) \in Replayable
  BY <1>2 DEF IInv, ReadsReplayable, StatusAfterFailure, Replayable
<1>6. status'[snapshot[c].id] # status[snapshot[c].id]
        => status'[snapshot[c].id] \in Replayable
  BY <1>1, <1>5 DEF Fail, Update, IInv, TypeOK, records
<1>7. ASSUME snapshot[c].id \notin disturbed
      PROVE  LET r == snapshot[c].id
             IN  \/ /\ r \in Stored /\ count'[r] = count[r] + 1
                    /\ failures'[r] = failures[r] + 1 /\ status'[r] \in Replayable
                 \/ /\ r \notin Stored /\ status'[r] = status[r]
                    /\ count'[r] = count[r] /\ failures'[r] = failures[r]
  <2>1. Serving(c, snapshot[c].id) /\ Counted(snapshot[c].id)
    BY <1>1, <1>2, <1>7 DEF Serving, IInv, UndisturbedAreCounted
  <2>2. CASE snapshot[c].id \in Stored
    <3>1. snapshot[c].count = count[snapshot[c].id] /\ snapshot[c].failures = failures[snapshot[c].id]
      BY <2>1, <2>2, Zenon DEF Counted
    <3>. QED
      BY <1>1, <1>5, <2>2, <3>1 DEF Fail, Update, IInv, TypeOK
  <2>3. CASE snapshot[c].id \notin Stored
    BY <2>3 DEF Fail, Update, records
  <2>. QED
    BY <2>2, <2>3
<1>. QED
  <2>1. status'[snapshot[c].id] = "replayed" => status[snapshot[c].id] = "replayed"
    BY <1>6 DEF Replayable
  <2>. QED
    BY <1>1, <1>2, <1>3, <1>4, <1>7, <2>1, SettleStep

LEMMA CancelStep ==
  ASSUME IInv, TypeOK', NEW c \in Calls, Cancel(c)
  PROVE  IInv'
<1>1. UNCHANGED <<status, count, failures, begun>>
  BY DEF Cancel, records
<1>2. CASE Publishing(c)
  <2>1. snapshot[c].id \in Records
    BY <1>2 DEF IInv, TypeOK, Publishing, Snapshots
  <2>2. PICK a \in {0, 1} : accepted' = [accepted EXCEPT ![snapshot[c].id] = @ + a]
    BY <1>2 DEF Cancel
  <2>3. /\ snapshot' = [snapshot EXCEPT ![c] = NoSnapshot]
        /\ disturbed' = disturbed \cup {snapshot[c].id}
    BY <1>2 DEF Cancel
  <2>4. /\ accepted[snapshot[c].id] <= accepted'[snapshot[c].id]
        /\ \A r \in Records \ {snapshot[c].id} : accepted'[r] = accepted[r]
    BY <2>1, <2>2 DEF IInv, TypeOK
  <2>. QED
    BY <1>1, <1>2, <2>1, <2>3, <2>4, SettleStep
<1>3. CASE ~Publishing(c)
  <2>1. snapshot' = snapshot /\ accepted' = accepted /\ disturbed' = disturbed
    BY <1>3 DEF Cancel, Publishing, IInv, TypeOK
  <2>2. ReadsReplayable' /\ ReplayedWasAccepted'
    BY <1>1, <2>1 DEF IInv, ReadsReplayable, Publishing, ReplayedWasAccepted
  <2>3. \A r \in Records : Counted(r)' <=> Counted(r)
    BY <1>1, <2>1 DEF Counted, Serving, Publishing, Stored
  <2>. QED
    BY <2>1, <2>2, <2>3 DEF IInv, UndisturbedAreCounted
<1>. QED
  BY <1>2, <1>3

LEMMA NextStep == IInv /\ [Next]_vars => IInv'
<1>. SUFFICES ASSUME IInv, [Next]_vars
              PROVE  IInv'
  OBVIOUS
<1>0. TypeOK' /\ TypeOK
  BY TypeStep DEF IInv
<1>. USE DEF history, records, Administered, Replayable
<1>1. CASE UNCHANGED vars
  BY <1>0, <1>1, AdministrationStep DEF vars
<1>2. ASSUME NEW r \in Records, Capture(r)
      PROVE  IInv'
  BY <1>0, <1>2, AdministrationStep DEF Capture, TypeOK
<1>3. ASSUME NEW r \in Records, Quarantine(r)
      PROVE  IInv'
  BY <1>0, <1>3, AdministrationStep DEF Quarantine, TypeOK, Statuses, Stored
<1>4. ASSUME NEW r \in Records, Release(r)
      PROVE  IInv'
  BY <1>0, <1>4, AdministrationStep DEF Release, TypeOK
<1>5. ASSUME NEW r \in Records, Archive(r)
      PROVE  IInv'
  BY <1>0, <1>5, AdministrationStep DEF Archive, TypeOK, Statuses, Stored
<1>6. ASSUME NEW r \in Records, GrowOlder(r)
      PROVE  IInv'
  BY <1>0, <1>6, AdministrationStep DEF GrowOlder
<1>7. ASSUME NEW S \in SUBSET Records, Purge(S)
      PROVE  IInv'
  BY <1>0, <1>7, AdministrationStep DEF Purge, Forget
<1>8. CASE ApplyRetention
  BY <1>0, <1>8, AdministrationStep DEF ApplyRetention, Forget
<1>9. ASSUME NEW c \in Calls, ReplaySelected(c) \/ ReplayAll(c)
      PROVE  IInv'
  BY <1>0, <1>9, AdministrationStep DEF ReplaySelected, ReplayAll
<1>10. ASSUME NEW c \in Calls, NEW r \in Records,
              Missing(c, r) \/ Skip(c, r) \/ Undecodable(c, r)
       PROVE  IInv'
  BY <1>0, <1>10, AdministrationStep DEF Missing, Skip, Undecodable
<1>11. ASSUME NEW c \in Calls, NEW r \in Records, GiveUp(c, r)
       PROVE  IInv'
  <2>1. /\ status' = [status EXCEPT ![r] = "quarantined"]
        /\ UNCHANGED <<count, failures, snapshot, history>>
    BY <1>11 DEF GiveUp
  <2>2. status[r] \in Replayable
    BY <1>0, <1>11 DEF GiveUp, Skipped, Stored, TypeOK, Statuses
  <2>. QED
    BY <1>0, <2>1, <2>2, AdministrationStep DEF TypeOK
<1>12. ASSUME NEW c \in Calls, NEW r \in Records, Publish(c, r)
       PROVE  IInv'
  BY <1>0, <1>12, PublishStep
<1>13. ASSUME NEW c \in Calls, Succeed(c)
       PROVE  IInv'
  BY <1>0, <1>13, SucceedStep
<1>14. ASSUME NEW c \in Calls, Fail(c)
       PROVE  IInv'
  BY <1>0, <1>14, FailStep
<1>15. ASSUME NEW c \in Calls, Cancel(c)
       PROVE  IInv'
  BY <1>0, <1>15, CancelStep
<1>. QED
  BY <1>1, <1>2, <1>3, <1>4, <1>5, <1>6, <1>7, <1>8, <1>9, <1>10, <1>11, <1>12, <1>13,
     <1>14, <1>15 DEF Next, Manage, Replay, Serve

THEOREM Invariance == Spec => []IInv
BY InitIInv, NextStep, PTL DEF Spec

-----------------------------------------------------------------------------
(* Types, for every set of records and of calls and every limit.           *)
THEOREM TypeCorrect == Spec => []TypeOK
<1>1. IInv => TypeOK
  BY DEF IInv
<1>. QED
  BY <1>1, Invariance, PTL

(* The mark of a successful replay is never written for a message that the *)
(* transport did not accept, in spite of stale writes (ReplayManager).     *)
THEOREM MarksAreTrue == Spec => []ReplayedWasAccepted
<1>1. IInv => ReplayedWasAccepted
  BY DEF IInv
<1>. QED
  BY <1>1, Invariance, PTL

(* A record whose publishes neither overlap nor end in doubt is accepted   *)
(* by the transport at most once (ReplayManager.replay).                   *)
THEOREM UndisturbedIsReplayedOnce == Spec => []ReplayedOnce
<1>1. IInv => ReplayedOnce
  BY DEF IInv, UndisturbedAreCounted, Counted, ReplayedOnce
<1>. QED
  BY <1>1, Invariance, PTL

(* max_replay_attempts bounds the publishes of such a record.              *)
THEOREM CapIsKept == Spec => []AttemptsAreCapped
<1>1. IInv => AttemptsAreCapped
  BY DEF IInv, UndisturbedAreCounted, Counted, AttemptsAreCapped
<1>. QED
  BY <1>1, Invariance, PTL

(* No outcome of a replay releases a record that nobody touched meanwhile. *)
THEOREM OnlyReleaseReleases == Spec => ReplayDoesNotRelease
<1>1. IInv /\ [Next]_vars =>
        [\A c \in Calls :
           Ends(c) /\ status[snapshot[c].id] = snapshot[c].status
             => LET r == snapshot[c].id
                IN  status'[r] \in {status[r], "quarantined", "replayed"}]_vars
  <2>. SUFFICES ASSUME IInv, Next, NEW c \in Calls, Ends(c),
                       status[snapshot[c].id] = snapshot[c].status
                PROVE  status'[snapshot[c].id] \in {status[snapshot[c].id], "quarantined", "replayed"}
    BY DEF vars
  <2>. DEFINE i == snapshot[c].id
  <2>1. i \in Records /\ snapshot[c] # NoSnapshot /\ snapshot'[c] = NoSnapshot
        /\ status \in [Records -> Statuses] /\ snapshot \in [Calls -> Snapshots \cup {NoSnapshot}]
    BY DEF Ends, IInv, TypeOK, Publishing, Snapshots
  <2>2. CASE UNCHANGED snapshot
    BY <2>1, <2>2
  <2>3. ASSUME NEW d \in Calls, Succeed(d)
        PROVE  status'[i] \in {status[i], "quarantined", "replayed"}
    BY <2>1, <2>3 DEF Succeed, Update, records
  <2>4. ASSUME NEW d \in Calls, Fail(d)
        PROVE  status'[i] \in {status[i], "quarantined", "replayed"}
    <3>1. d = c
      BY <2>1, <2>4 DEF Fail
    <3>. QED
      BY <2>1, <2>4, <3>1 DEF Fail, Update, records, StatusAfterFailure
  <2>5. ASSUME NEW d \in Calls, Cancel(d)
        PROVE  status'[i] \in {status[i], "quarantined", "replayed"}
    BY <2>5 DEF Cancel, records
  <2>6. ASSUME NEW d \in Calls, NEW r \in Records, Publish(d, r)
        PROVE  status'[i] \in {status[i], "quarantined", "replayed"}
    BY <2>6 DEF Publish, records
  <2>7. Next => \/ UNCHANGED snapshot
                \/ \E d \in Calls : Succeed(d) \/ Fail(d) \/ Cancel(d)
                                    \/ \E r \in Records : Publish(d, r)
    BY DEF Next, Manage, Capture, Quarantine, Release, Archive, GrowOlder, Purge,
       ApplyRetention, Replay, ReplaySelected, ReplayAll, Serve, Missing, Skip, GiveUp, Undecodable
  <2>. QED
    BY <2>2, <2>3, <2>4, <2>5, <2>6, <2>7
<1>. QED
  BY <1>1, Invariance, PTL DEF Spec, ReplayDoesNotRelease
=============================================================================
