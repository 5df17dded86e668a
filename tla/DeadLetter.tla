----------------------------- MODULE DeadLetter -----------------------------
(***************************************************************************)
(* broka.deadletter: the bounded MemoryDeadLetterStore, the                *)
(* DeadLetterManager that administers its records, and the replay calls of *)
(* ReplayManager.                                                          *)
(*                                                                         *)
(* No method of the store awaits under its lock, so every operation of the *)
(* manager reads and writes in one step.  A replay reads its record, is    *)
(* suspended in publish, and then writes the record back from what it had  *)
(* read: other replays and the manager run meanwhile.  A call that is      *)
(* refused before it changes anything is left out.  The batch is served in *)
(* any order, and ages are abstracted to the windows they fall in.         *)
(***************************************************************************)
EXTENDS Naturals, FiniteSets

CONSTANTS
  Records,             \* ids of failures that may be captured
  Calls,               \* concurrent calls of replay, replay_selected, replay_all
  NoSnapshot,          \* a call that is not in publish
  Options,             \* keyword arguments a call may be given
  MaxEntries,          \* max_entries of the store
  MaxReplayAttempts,   \* max_replay_attempts
  MaxReplayBatch,      \* max_replay_batch
  FailuresToQuarantine,\* quarantine_after_replay_failures
  MaxFaults            \* bound: cancelled publishes, and failures after acceptance

Statuses == {"absent", "active", "quarantined", "archived", "replayed", "purged"}

Keywords == {"dry_run", "include_quarantined", "include_archived"}

Snapshots == [id : Records, status : Statuses, count : Nat, failures : Nat]

ASSUME DeadLetterAssumption ==
  /\ IsFiniteSet(Records)
  /\ NoSnapshot \notin Snapshots
  /\ Options \subseteq SUBSET Keywords
  /\ MaxEntries \in Nat \ {0}
  /\ MaxReplayAttempts \in Nat \ {0}
  /\ MaxReplayBatch \in Nat \ {0}
  /\ FailuresToQuarantine \in Nat \ {0}
  /\ MaxFaults \in Nat

VARIABLES
  status,     \* status of each record; absent and purged records are not stored
  count,      \* replay_count
  failures,   \* replay_failures
  age,        \* window of retention each record is in
  todo,       \* ids a call has still to serve
  options,    \* keyword arguments of the call
  snapshot,   \* the record the call read before publish
  begun,      \* history: publishes begun for the record
  accepted,   \* history: publishes the transport accepted
  disturbed,  \* history: records with overlapping, cancelled or ambiguous publishes
  faults      \* number of faults so far

records == <<status, count, failures>>
history == <<begun, accepted, disturbed, faults>>
vars == <<status, count, failures, age, todo, options, snapshot,
          begun, accepted, disturbed, faults>>

Ages == {"fresh", "stale", "expired"}

Stored == {r \in Records : status[r] \notin {"absent", "purged"}}

-----------------------------------------------------------------------------
(* The manager                                                             *)

Capture(r) ==
  /\ status[r] = "absent"
  /\ Cardinality(Stored) < MaxEntries
  /\ status' = [status EXCEPT ![r] = "active"]
  /\ UNCHANGED <<count, failures, age, todo, options, snapshot, history>>

Quarantine(r) ==
  /\ r \in Stored
  /\ status[r] # "replayed"
  /\ status' = [status EXCEPT ![r] = "quarantined"]
  /\ UNCHANGED <<count, failures, age, todo, options, snapshot, history>>

Release(r) ==
  /\ status[r] = "quarantined"
  /\ status' = [status EXCEPT ![r] = "active"]
  /\ UNCHANGED <<count, failures, age, todo, options, snapshot, history>>

Archive(r) ==
  /\ r \in Stored
  /\ status[r] # "replayed"
  /\ status' = [status EXCEPT ![r] = "archived"]
  /\ UNCHANGED <<count, failures, age, todo, options, snapshot, history>>

\* What is left of the records when those of S are deleted.
Forget(S) ==
  /\ count' = [r \in Records |-> IF r \in S THEN 0 ELSE count[r]]
  /\ failures' = [r \in Records |-> IF r \in S THEN 0 ELSE failures[r]]
  /\ age' = [r \in Records |-> IF r \in S THEN "fresh" ELSE age[r]]

Purge(S) ==
  /\ S # {}
  /\ S \subseteq Stored
  /\ status' = [r \in Records |-> IF r \in S THEN "purged" ELSE status[r]]
  /\ Forget(S)
  /\ UNCHANGED <<todo, options, snapshot, history>>

\* apply_retention: expired records go, stale ones that still matter are archived
ApplyRetention ==
  LET expired == {r \in Stored : age[r] = "expired"}
      stale == {r \in Stored : age[r] = "stale" /\ status[r] \in {"active", "quarantined"}}
  IN  /\ status' = [r \in Records |-> IF r \in expired THEN "purged"
                                      ELSE IF r \in stale THEN "archived" ELSE status[r]]
      /\ Forget(expired)
      /\ UNCHANGED <<todo, options, snapshot, history>>

GrowOlder(r) ==
  /\ r \in Stored
  /\ \/ age[r] = "fresh" /\ age' = [age EXCEPT ![r] = "stale"]
     \/ age[r] = "stale" /\ age' = [age EXCEPT ![r] = "expired"]
  /\ UNCHANGED <<records, todo, options, snapshot, history>>

-----------------------------------------------------------------------------
(* Replay                                                                  *)

Idle(c) == todo[c] = {}

Publishing(c) == snapshot[c] # NoSnapshot

\* replay and replay_selected; a dry run of several records needs no confirmation
ReplaySelected(c) ==
  /\ Idle(c)
  /\ \E S \in SUBSET Records, o \in Options :
       /\ S # {}
       /\ Cardinality(S) <= MaxReplayBatch
       /\ todo' = [todo EXCEPT ![c] = S]
       /\ options' = [options EXCEPT ![c] = o]
  /\ UNCHANGED <<records, age, snapshot, history>>

\* replay_all: the active records, as many as a batch holds
ReplayAll(c) ==
  /\ Idle(c)
  /\ \E S \in SUBSET {r \in Records : status[r] = "active"}, o \in Options :
       /\ S # {}
       /\ Cardinality(S) <= MaxReplayBatch
       /\ todo' = [todo EXCEPT ![c] = S]
       /\ options' = [options EXCEPT ![c] = o \cap {"dry_run"}]
  /\ UNCHANGED <<records, age, snapshot, history>>

Next1(c, r) == ~Publishing(c) /\ r \in todo[c]

\* What the call has still to serve; its arguments go when it returns.
Leave(c, rest) ==
  /\ todo' = [todo EXCEPT ![c] = rest]
  /\ options' = [options EXCEPT ![c] = IF rest = {} THEN {} ELSE @]

\* The call raises, and gives up the rest of its batch.
Raise(c) == Leave(c, {})

Done(c, r) == Leave(c, todo[c] \ {r})

\* Faulty variant, for mutation: include_quarantined lets everything in.
SkippedUnlessIncluded(c, r) ==
  \/ status[r] = "quarantined" /\ "include_quarantined" \notin options[c]
  \/ status[r] = "archived" /\ "include_archived" \notin options[c]
  \/ status[r] = "replayed" /\ "include_archived" \notin options[c]

Skipped(c, r) ==
  \/ status[r] = "replayed"
  \/ status[r] = "quarantined" /\ "include_quarantined" \notin options[c]
  \/ status[r] = "archived" /\ "include_archived" \notin options[c]

Exhausted(r) == count[r] >= MaxReplayAttempts

\* The record is gone: DeadLetterError.
Missing(c, r) ==
  /\ Next1(c, r)
  /\ r \notin Stored
  /\ Raise(c)
  /\ UNCHANGED <<records, age, snapshot, history>>

Skip(c, r) ==
  /\ Next1(c, r)
  /\ r \in Stored
  /\ Skipped(c, r) \/ (~Exhausted(r) /\ "dry_run" \in options[c])
  /\ Done(c, r)
  /\ UNCHANGED <<records, age, snapshot, history>>

\* The attempt cap is reached: quarantine, in a dry run too.
GiveUp(c, r) ==
  /\ Next1(c, r)
  /\ r \in Stored
  /\ ~Skipped(c, r)
  /\ Exhausted(r)
  /\ Done(c, r)
  /\ status' = [status EXCEPT ![r] = "quarantined"]
  /\ UNCHANGED <<count, failures, age, snapshot, history>>

MayPublish(c, r) ==
  /\ Next1(c, r)
  /\ r \in Stored
  /\ ~Skipped(c, r)
  /\ ~Exhausted(r)
  /\ "dry_run" \notin options[c]

\* No decoder, or one that raises.
Undecodable(c, r) ==
  /\ MayPublish(c, r)
  /\ Raise(c)
  /\ UNCHANGED <<records, age, snapshot, history>>

Publish(c, r) ==
  /\ MayPublish(c, r)
  /\ snapshot' = [snapshot EXCEPT ![c] = [id |-> r, status |-> status[r],
                                          count |-> count[r], failures |-> failures[r]]]
  /\ begun' = [begun EXCEPT ![r] = @ + 1]
  /\ disturbed' = IF \E other \in Calls : Publishing(other) /\ snapshot[other].id = r
                  THEN disturbed \cup {r} ELSE disturbed
  /\ UNCHANGED <<records, age, todo, options, accepted, faults>>

\* Faulty variant, for mutation: failed replays are not counted.
UpdateUncounted(c, newStatus, newFailures) ==
  LET r == snapshot[c].id
  IN  IF r \in Stored
      THEN /\ status' = [status EXCEPT ![r] = newStatus]
           /\ count' = [count EXCEPT ![r] = IF newStatus = "replayed" THEN @ + 1 ELSE @]
           /\ failures' = [failures EXCEPT ![r] = newFailures]
           /\ Done(c, r)
      ELSE Raise(c) /\ UNCHANGED records

\* store.update: the record as it was read, with the outcome; KeyError if it is gone
Update(c, newStatus, newFailures) ==
  LET r == snapshot[c].id
  IN  IF r \in Stored
      THEN /\ status' = [status EXCEPT ![r] = newStatus]
           /\ count' = [count EXCEPT ![r] = snapshot[c].count + 1]
           /\ failures' = [failures EXCEPT ![r] = newFailures]
           /\ Done(c, r)
      ELSE Raise(c) /\ UNCHANGED records

Succeed(c) ==
  /\ Publishing(c)
  /\ Update(c, "replayed", snapshot[c].failures)
  /\ accepted' = [accepted EXCEPT ![snapshot[c].id] = @ + 1]
  /\ snapshot' = [snapshot EXCEPT ![c] = NoSnapshot]
  /\ UNCHANGED <<age, begun, disturbed, faults>>

StatusAfterFailure(s) ==
  IF s.failures + 1 >= FailuresToQuarantine THEN "quarantined" ELSE s.status

\* publish raises; the transport may have accepted the message all the same
Fail(c) ==
  /\ Publishing(c)
  /\ Update(c, StatusAfterFailure(snapshot[c]), snapshot[c].failures + 1)
  /\ \/ UNCHANGED <<accepted, disturbed, faults>>
     \/ /\ faults < MaxFaults
        /\ faults' = faults + 1
        /\ accepted' = [accepted EXCEPT ![snapshot[c].id] = @ + 1]
        /\ disturbed' = disturbed \cup {snapshot[c].id}
  /\ snapshot' = [snapshot EXCEPT ![c] = NoSnapshot]
  /\ UNCHANGED <<age, begun>>

\* CancelledError, in publish or in the pause between two records: nothing is written
Cancel(c) ==
  /\ ~Idle(c)
  /\ faults < MaxFaults
  /\ faults' = faults + 1
  /\ Raise(c)
  /\ \/ /\ Publishing(c)
        /\ \E a \in {0, 1} : accepted' = [accepted EXCEPT ![snapshot[c].id] = @ + a]
        /\ disturbed' = disturbed \cup {snapshot[c].id}
     \/ /\ ~Publishing(c)
        /\ UNCHANGED <<accepted, disturbed>>
  /\ snapshot' = [snapshot EXCEPT ![c] = NoSnapshot]
  /\ UNCHANGED <<records, age, begun>>

-----------------------------------------------------------------------------

Init ==
  /\ status = [r \in Records |-> "absent"]
  /\ count = [r \in Records |-> 0]
  /\ failures = [r \in Records |-> 0]
  /\ age = [r \in Records |-> "fresh"]
  /\ todo = [c \in Calls |-> {}]
  /\ options = [c \in Calls |-> {}]
  /\ snapshot = [c \in Calls |-> NoSnapshot]
  /\ begun = [r \in Records |-> 0]
  /\ accepted = [r \in Records |-> 0]
  /\ disturbed = {}
  /\ faults = 0

Manage ==
  \/ \E r \in Records :
       Capture(r) \/ Quarantine(r) \/ Release(r) \/ Archive(r) \/ GrowOlder(r)
  \/ \E S \in SUBSET Records : Purge(S)
  \/ ApplyRetention

Serve(c) ==
  \/ \E r \in Records :
       Missing(c, r) \/ Skip(c, r) \/ GiveUp(c, r) \/ Undecodable(c, r) \/ Publish(c, r)
  \/ Succeed(c)
  \/ Fail(c)

Replay(c) == ReplaySelected(c) \/ ReplayAll(c) \/ Serve(c) \/ Cancel(c)

Next == Manage \/ \E c \in Calls : Replay(c)

Spec == Init /\ [][Next]_vars

-----------------------------------------------------------------------------
(* Properties                                                              *)

\* Types of the records and of the replay calls; a call in publish serves a record
\* of its batch that it read below the attempt cap.
TypeOK ==
  /\ status \in [Records -> Statuses]
  /\ count \in [Records -> 0..MaxReplayAttempts]
  /\ failures \in [Records -> Nat]
  /\ age \in [Records -> Ages]
  /\ todo \in [Calls -> SUBSET Records]
  /\ options \in [Calls -> SUBSET Keywords]
  /\ snapshot \in [Calls -> Snapshots \cup {NoSnapshot}]
  /\ \A c \in Calls : Publishing(c) => snapshot[c].id \in todo[c]
                                       /\ snapshot[c].count < MaxReplayAttempts
  /\ begun \in [Records -> Nat]
  /\ accepted \in [Records -> Nat]
  /\ disturbed \subseteq Records
  /\ faults \in 0..MaxFaults

\* A record is marked replayed only if the transport accepted it, whatever stale
\* copies of it other replays write back (ReplayManager.replay).
ReplayedWasAccepted == \A r \in Records : status[r] = "replayed" => accepted[r] > 0

\* Unless publishes of the record overlapped, were cancelled or failed after the
\* transport accepted it, a dead letter is replayed once, however the manager
\* quarantines, releases, archives or purges it meanwhile (ReplayManager.replay).
ReplayedOnce == \A r \in Records \ disturbed : accepted[r] <= 1

\* Under the same conditions max_replay_attempts bounds the publishes themselves, not
\* only the counter, and the counter is not below the failures it includes.
AttemptsAreCapped ==
  \A r \in Records \ disturbed :
    begun[r] <= MaxReplayAttempts /\ failures[r] <= count[r]

Ends(c) == Publishing(c) /\ snapshot'[c] = NoSnapshot

\* The outcome of a replay whose record was left alone meanwhile never lets a
\* quarantined or archived record out: only release does (ReplayManager.replay).
ReplayDoesNotRelease ==
  [][\A c \in Calls :
       Ends(c) /\ status[snapshot[c].id] = snapshot[c].status
         => LET r == snapshot[c].id
            IN  status'[r] \in {status[r], "quarantined", "replayed"}]_vars

\* "a replayed record cannot be quarantined" (DeadLetterManager.quarantine): says the
\* error of the manager; the replay calls write to the same records.
ReplayedIsNotQuarantined ==
  [][\A r \in Records : status[r] = "replayed" => (status'[r] # "quarantined")]_vars
=============================================================================
