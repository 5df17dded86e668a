---------------------------- MODULE DjangoOutbox ----------------------------
(***************************************************************************)
(* broka.integrations.django.outbox: DjangoModelOutboxStore under the      *)
(* OutboxDispatchers of several processes.                                 *)
(*                                                                         *)
(* Each process makes its store calls one after the other in a thread of   *)
(* its own, which goes on when the dispatcher that awaits it is cancelled. *)
(* lease is a transaction: it locks the rows whose lease has lapsed and    *)
(* the ones it picks, and other statements on a locked row wait for its    *)
(* end.  Every other call is one statement.  As in Outbox the clock is     *)
(* what it decides, the number of an attempt stands for its lease_id, and  *)
(* the order in which due rows are picked is left open.                    *)
(***************************************************************************)
EXTENDS Naturals, FiniteSets

CONSTANTS
  Messages,
  Dispatchers,   \* one for each process
  Suspects,      \* rows that may turn out not to decode
  Nothing,
  BatchSize,
  MaxAttempts,
  MaxFaults      \* bound: cancellations, crashes, database errors, leases outlived

ASSUME DjangoAssumption ==
  /\ BatchSize \in Nat \ {0} /\ MaxAttempts \in Nat \ {0} /\ MaxFaults \in Nat

VARIABLES
  skipLocked,    \* has_select_for_update_skip_locked
  poison,        \* rows whose payload the codec does not decode
  status,        \* of each row, as committed
  attempts,
  due,           \* available_at <= now
  late,          \* tokens whose leased_until has passed
  pc,            \* of each dispatcher: "ready", "leasing", "publishing", "settling",
                 \* "cancelling" or "stopped"
  batch,         \* tokens <<row, lease>> it has still to settle
  current,       \* the one it publishes
  tx,            \* rows locked by its transaction: [lapsed, chosen], or Nothing
  stmt,          \* the update its thread has to run: [token, to, delayed], or Nothing
  sent,          \* history: tokens under which the transport accepted the row
  faults

vars == <<skipLocked, poison, status, attempts, due, late, pc, batch, current, tx, stmt, sent,
          faults>>
rowVars == <<status, attempts, due, late>>
workVars == <<pc, batch, current>>
fixed == <<skipLocked, poison>>

Waiting == {"pending", "failed"}
Kept == Waiting \cup {"leased"}
Stored == {m \in Messages : status[m] \notin {"absent", "purged"}}

Fault == faults < MaxFaults /\ faults' = faults + 1

Lapsed(m) == status[m] = "leased" /\ attempts[m] \in late[m]

Locked(d) == IF tx[d] = Nothing THEN {} ELSE tx[d].lapsed \cup tx[d].chosen

LockedByOthers(d) == UNION {Locked(e) : e \in Dispatchers \ {d}}

Least(a, b) == IF a < b THEN a ELSE b

-----------------------------------------------------------------------------
(* Rows                                                                    *)

\* The application's transaction with add_in_transaction commits.
AddInTransaction(m) ==
  /\ status[m] = "absent"
  /\ status' = [status EXCEPT ![m] = "pending"]
  /\ \E d \in BOOLEAN : due' = [due EXCEPT ![m] = d]
  /\ UNCHANGED <<fixed, attempts, late, workVars, tx, stmt, sent, faults>>

BecomesDue(m) ==
  /\ status[m] \in Waiting /\ ~due[m]
  /\ due' = [due EXCEPT ![m] = TRUE]
  /\ UNCHANGED <<fixed, status, attempts, late, workVars, tx, stmt, sent, faults>>

Held(m) == \E d \in Dispatchers : <<m, attempts[m]>> \in batch[d]

\* leased_until passes: a fault when the holder is still at work.
Lapse(m) ==
  /\ status[m] = "leased" /\ ~Lapsed(m)
  /\ late' = [late EXCEPT ![m] = @ \cup {attempts[m]}]
  /\ IF Held(m) THEN Fault ELSE UNCHANGED faults
  /\ UNCHANGED <<fixed, status, attempts, due, workVars, tx, stmt, sent>>

PurgePublished(S) ==
  /\ S # {} /\ \A m \in S : status[m] = "published"
  /\ status' = [m \in Messages |-> IF m \in S THEN "purged" ELSE status[m]]
  /\ UNCHANGED <<fixed, attempts, due, late, workVars, tx, stmt, sent, faults>>

-----------------------------------------------------------------------------
(* The dispatcher, between its calls of the store                          *)

\* An exception leaves dispatch_once; leases and the statement of the thread remain.
Abandon(d) ==
  /\ batch' = [batch EXCEPT ![d] = {}]
  /\ current' = [current EXCEPT ![d] = Nothing]
  /\ pc' = [pc EXCEPT ![d] = "stopped"]

\* The loop goes on with one of the tokens.
Serve(d, tokens) ==
  /\ batch' = [batch EXCEPT ![d] = tokens]
  /\ IF tokens = {}
       THEN current' = [current EXCEPT ![d] = Nothing] /\ pc' = [pc EXCEPT ![d] = "ready"]
       ELSE /\ \E t \in tokens : current' = [current EXCEPT ![d] = t]
            /\ pc' = [pc EXCEPT ![d] = "publishing"]

\* outbox_publisher: the broker accepts the message while publish is awaited.
Send(d) ==
  /\ pc[d] = "publishing"
  /\ current[d][2] \notin sent[current[d][1]]
  /\ sent' = [sent EXCEPT ![current[d][1]] = @ \cup {current[d][2]}]
  /\ UNCHANGED <<fixed, rowVars, workVars, tx, stmt, faults>>

\* mark_published or mark_failed is called.
Mark(d, where, to, delayed) ==
  /\ stmt' = [stmt EXCEPT ![d] = [token |-> current[d], to |-> to, delayed |-> delayed]]
  /\ pc' = [pc EXCEPT ![d] = where]
  /\ UNCHANGED <<fixed, rowVars, batch, current, tx, sent>>

PublishReturns(d) ==
  /\ pc[d] = "publishing" /\ current[d][2] \in sent[current[d][1]]
  /\ Mark(d, "settling", "published", FALSE)
  /\ UNCHANGED faults

PublishRaises(d) ==
  /\ pc[d] = "publishing"
  /\ \E delayed \in BOOLEAN :
       IF current[d][2] >= MaxAttempts
         THEN Mark(d, "settling", "dead_lettered", FALSE)
         ELSE Mark(d, "settling", "failed", delayed)
  /\ UNCHANGED faults

CancelPublish(d) ==
  /\ pc[d] = "publishing"
  /\ Fault
  /\ Mark(d, "cancelling", "failed", FALSE)

\* Cancelled while it awaits the thread.
CancelCall(d) ==
  /\ pc[d] \in {"leasing", "settling", "cancelling"}
  /\ Fault
  /\ Abandon(d)
  /\ UNCHANGED <<fixed, rowVars, tx, stmt, sent>>

\* run ends when its stop event is set.
Stop(d) ==
  /\ pc[d] = "ready"
  /\ pc' = [pc EXCEPT ![d] = "stopped"]
  /\ UNCHANGED <<fixed, rowVars, batch, current, tx, stmt, sent, faults>>

Restart(d) ==
  /\ pc[d] = "stopped"
  /\ pc' = [pc EXCEPT ![d] = "ready"]
  /\ UNCHANGED <<fixed, rowVars, batch, current, tx, stmt, sent, faults>>

\* The process dies: the database rolls its transaction back.
Crash(d) ==
  /\ pc[d] # "stopped"
  /\ Fault
  /\ Abandon(d)
  /\ tx' = [tx EXCEPT ![d] = Nothing] /\ stmt' = [stmt EXCEPT ![d] = Nothing]
  /\ UNCHANGED <<fixed, rowVars, sent>>

-----------------------------------------------------------------------------
(* The thread                                                              *)

\* Faulty variant, for mutation: the query does not lock the rows.
VisibleRows(d) == Messages

\* Rows that the query does not skip.
FreeRows(d) == Messages \ LockedByOthers(d)

\* Faulty variant, for mutation: lapsed leases are not failed first.
NotRecovered == {}

Expired == {m \in Messages : Lapsed(m)}

\* _lease_sync up to its query: the update waits for the rows it fails, and
\* without SKIP LOCKED the query waits for the other transactions.
BeginLease(d) ==
  /\ pc[d] = "ready" /\ tx[d] = Nothing /\ stmt[d] = Nothing
  /\ Expired \cap LockedByOthers(d) = {}
  /\ skipLocked \/ \A e \in Dispatchers \ {d} : tx[e] = Nothing
  /\ LET rows == {m \in FreeRows(d) : (status[m] \in Waiting \/ m \in Expired) /\ due[m]}
     IN  \E chosen \in SUBSET rows :
           /\ chosen # {} /\ Cardinality(chosen) = Least(BatchSize, Cardinality(rows))
           /\ tx' = [tx EXCEPT ![d] = [lapsed |-> Expired, chosen |-> chosen]]
  /\ pc' = [pc EXCEPT ![d] = "leasing"]
  /\ UNCHANGED <<fixed, rowVars, batch, current, stmt, sent, faults>>

\* The transaction commits, and if the dispatcher still waits it gets the rows.
CommitLease(d) ==
  /\ tx[d] # Nothing
  /\ tx[d].chosen \cap poison = {}
  /\ LET chosen == tx[d].chosen
     IN  /\ status' = [m \in Messages |-> IF m \in chosen THEN "leased"
                                          ELSE IF m \in tx[d].lapsed THEN "failed" ELSE status[m]]
         /\ attempts' = [m \in Messages |-> IF m \in chosen THEN attempts[m] + 1
                                            ELSE attempts[m]]
         /\ IF pc[d] = "leasing" THEN Serve(d, {<<m, attempts[m] + 1>> : m \in chosen})
            ELSE UNCHANGED workVars
  /\ tx' = [tx EXCEPT ![d] = Nothing]
  /\ UNCHANGED <<fixed, due, late, stmt, sent, faults>>

\* A row does not decode, or the database raises: all of it is rolled back.
RollBackLease(d) ==
  /\ tx[d] # Nothing
  /\ IF tx[d].chosen \cap poison # {} THEN UNCHANGED faults ELSE Fault
  /\ IF pc[d] = "leasing" THEN Abandon(d) ELSE UNCHANGED workVars
  /\ tx' = [tx EXCEPT ![d] = Nothing]
  /\ UNCHANGED <<fixed, rowVars, stmt, sent>>

\* Faulty variant, for mutation: the row is found by its key alone.
OwnedByKey(token) == status[token[1]] \notin {"absent", "purged"}

\* The filter of mark_published and mark_failed.
Owned(token) == status[token[1]] = "leased" /\ attempts[token[1]] = token[2]

\* The update runs; one that changes no row raises.
RunStatement(d) ==
  /\ stmt[d] # Nothing
  /\ stmt[d].token[1] \notin LockedByOthers(d)
  /\ LET m == stmt[d].token[1]
         found == Owned(stmt[d].token)
     IN  /\ status' = IF found THEN [status EXCEPT ![m] = stmt[d].to] ELSE status
         /\ due' = IF found /\ stmt[d].delayed THEN [due EXCEPT ![m] = FALSE] ELSE due
         /\ CASE pc[d] = "settling" /\ found -> Serve(d, batch[d] \ {current[d]})
              [] pc[d] = "cancelling" \/ (pc[d] = "settling" /\ ~found) -> Abandon(d)
              [] pc[d] \in {"stopped", "ready"} -> UNCHANGED workVars
  /\ stmt' = [stmt EXCEPT ![d] = Nothing]
  /\ UNCHANGED <<fixed, attempts, late, tx, sent, faults>>

-----------------------------------------------------------------------------
Init ==
  /\ skipLocked \in BOOLEAN /\ poison \in SUBSET Suspects
  /\ status = [m \in Messages |-> "absent"] /\ attempts = [m \in Messages |-> 0]
  /\ due = [m \in Messages |-> FALSE] /\ late = [m \in Messages |-> {}]
  /\ pc = [d \in Dispatchers |-> "ready"] /\ batch = [d \in Dispatchers |-> {}]
  /\ current = [d \in Dispatchers |-> Nothing] /\ tx = [d \in Dispatchers |-> Nothing]
  /\ stmt = [d \in Dispatchers |-> Nothing]
  /\ sent = [m \in Messages |-> {}] /\ faults = 0

EndLease(d) == CommitLease(d) \/ RollBackLease(d)
EndPublish(d) == PublishReturns(d) \/ PublishRaises(d)

Next ==
  \/ \E m \in Messages : AddInTransaction(m) \/ BecomesDue(m) \/ Lapse(m)
  \/ \E S \in SUBSET Messages : PurgePublished(S)
  \/ \E d \in Dispatchers :
       \/ BeginLease(d) \/ EndLease(d) \/ Send(d) \/ EndPublish(d) \/ RunStatement(d)
       \/ CancelPublish(d) \/ CancelCall(d) \/ Stop(d) \/ Restart(d) \/ Crash(d)

Spec == Init /\ [][Next]_vars

(***************************************************************************)
(* Time passes, run leases again after its idle delay, publish returns or  *)
(* raises, and the database serves every statement and transaction.        *)
(***************************************************************************)
Fairness ==
  /\ \A m \in Messages : WF_vars(BecomesDue(m)) /\ WF_vars(Lapse(m))
  /\ \A d \in Dispatchers : /\ WF_vars(BeginLease(d)) /\ WF_vars(EndLease(d))
                            /\ WF_vars(EndPublish(d)) /\ WF_vars(RunStatement(d))

FairSpec == Spec /\ Fairness

-----------------------------------------------------------------------------
(* Properties                                                              *)

(* Leasing is exclusive although it takes several statements and calls     *)
(* outlive their dispatcher: transactions lock different rows, two         *)
(* dispatchers work on the same row only after the lease of one has lapsed *)
(* under it, and a dispatcher that is on time can settle all of its batch. *)
LeasesExclude ==
  /\ \A d, e \in Dispatchers : d # e =>
       /\ Locked(d) \cap Locked(e) = {}
       /\ \A t \in batch[d], u \in batch[e] :
            t[1] = u[1] => t[2] \in late[t[1]] \/ u[2] \in late[u[1]]
  /\ \A d \in Dispatchers :
       /\ \A t \in batch[d] : t[2] \notin late[t[1]] => Owned(t)
       /\ current[d] # Nothing => current[d] \in batch[d]
       /\ Locked(d) \subseteq {m \in Messages : status[m] \in Kept}

(* The fate of a row, as the application sees it.                          *)
FateOf(s) == CASE s = "absent" -> "absent"
               [] s \in Kept -> "kept"
               [] s = "published" -> "delivered"
               [] s = "dead_lettered" -> "given_up"
               [] s = "purged" -> "forgotten"

Fate == [m \in Messages |-> FateOf(status[m])]

Contract == INSTANCE OutboxContract WITH fate <- Fate, tries <- attempts, sent <- sent

(* The Django store keeps the contract of the outbox: a statement that its *)
(* dispatcher no longer waits for, or that runs after its lease lapsed,    *)
(* never revises the fate of a row.                                        *)
KeepsContract == Contract!Spec

(* Once faults stop and one dispatcher keeps running, every row is         *)
(* published or dead-lettered, including those leased by a call whose      *)
(* dispatcher was cancelled: unless a row that does not decode is stored,  *)
(* which fails every batch it is part of.                                  *)
RowsSettle ==
  (\E d \in Dispatchers : <>[](pc[d] # "stopped"))
    => \A m \in Messages :
         (m \in Stored) ~> (\/ status[m] \in {"published", "dead_lettered", "purged"}
                            \/ poison \cap Stored # {})

(* No row is forgotten and no thread waits in a circle: a leased row is    *)
(* due, so it is in the next query once its lease has lapsed, although     *)
(* statements that postpone rows run late and while others choose; and     *)
(* the thread whose statement waits for a row has no row locked itself.    *)
RowsGoOn ==
  /\ \A m \in Stored : status[m] \in Kept => status[m] \in Waiting \/ due[m]
  /\ \A d \in Dispatchers : stmt[d] # Nothing => Locked(d) = {}

=============================================================================
