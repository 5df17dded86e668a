------------------------------ MODULE Consume -------------------------------
(***************************************************************************)
(* One message on its way through Broker._consume: the Delivery state      *)
(* machine, the handler with its retries and its concurrent parts, the     *)
(* dead-letter path, the acknowledgement adapter of the engine, and what   *)
(* the engine does with the message afterwards.                            *)
(*                                                                         *)
(* A step runs from one await that can suspend to the next.  The handler   *)
(* is structured: it returns or raises when none of its parts is inside a  *)
(* delivery operation, except that a timeout of an attempt cancels them.   *)
(* The three families of engines differ in the adapter and in what follows *)
(* a callback that raises:                                                 *)
(*   memory  in-process adapter, the worker records the error              *)
(*   local   in-process adapter, the error reaches the publisher's retries *)
(*   remote  adapter of a transport that may fail, delivers again what has *)
(*           not been acknowledged                                         *)
(***************************************************************************)
EXTENDS Naturals, FiniteSets

CONSTANTS
  Parts,          \* concurrent parts of the handler
  Main,           \* _consume itself, as an owner of the delivery's lock
  Free,           \* the owner of a free lock
  MaxTries,       \* max_attempts of the handler's retry policy
  MaxPublishes,   \* max_attempts of the publisher's retry policy
  MaxDeliveries,  \* bound: deliveries of the message
  MaxFaults       \* bound: failing transports, stores and critical listeners, crashes

ASSUME ConsumeAssumption ==
  /\ Main \notin Parts
  /\ Free \notin Parts \cup {Main}
  /\ {MaxTries, MaxPublishes, MaxDeliveries} \subseteq Nat \ {0}
  /\ MaxFaults \in Nat

VARIABLES
  engine,      \* the family of the engine
  mode,        \* acknowledgement_mode of the subscription
  pc,          \* where _consume is
  outcome,     \* did _consume return or raise?
  state,       \* _state of the Delivery
  lock,        \* owner of the Delivery's _lock
  at,          \* each part: outside, waiting for the lock, calling the adapter
  want,        \* the state the operation of a part leads to
  decision,    \* what the transport has been told about this delivery
  finished,    \* the adapter knows that it is done
  tries,       \* attempts of the handler in this delivery
  publishes,   \* attempts of the publisher
  deliveries,  \* deliveries so far
  records,     \* dead-letter records written for the message
  handled,     \* history: a handler has completed
  broken,      \* history: a fault interrupted _consume
  faults       \* number of faults so far

delivery == <<state, lock, at, want>>
adapter == <<decision, finished>>
history == <<publishes, deliveries, handled>>
vars == <<engine, mode, pc, outcome, delivery, adapter, tries, records, history, broken, faults>>

-----------------------------------------------------------------------------
(* The Delivery state machine                                              *)

Terminal == {"acknowledged", "dead_lettered", "expired", "cancelled"}

States == Terminal \cup {"created", "published", "queued", "delivered", "processing", "nacked",
                         "deferred", "requeued", "retry_scheduled", "rejected"}

\* _ALLOWED_TRANSITIONS
Allowed(s) ==
  CASE s = "created" -> {"published", "queued", "delivered", "cancelled"}
    [] s = "published" -> {"queued", "delivered", "cancelled"}
    [] s = "queued" -> {"delivered", "expired", "cancelled"}
    [] s = "delivered" -> States \ {"created", "published", "queued", "delivered"}
    [] s = "processing" -> States \ {"created", "published", "queued", "delivered", "processing"}
    [] s = "nacked" -> {"requeued", "retry_scheduled", "rejected", "dead_lettered"}
    [] s = "deferred" -> {"queued", "delivered", "retry_scheduled", "expired", "cancelled"}
    [] s = "requeued" -> {"queued", "delivered", "expired", "cancelled"}
    [] s = "retry_scheduled" -> {"queued", "delivered", "dead_lettered", "expired", "cancelled"}
    [] s = "rejected" -> {"dead_lettered"}
    [] s \in Terminal -> {}

\* The states that ack, nack, reject, requeue and defer lead to, with what
\* they tell the transport.
Decides ==
  [acknowledged |-> "ack", nacked |-> "reject", rejected |-> "reject",
   requeued |-> "requeue", deferred |-> "defer"]

\* schedule_retry and cancel change the state alone.
Silent == {"retry_scheduled", "cancelled"}

-----------------------------------------------------------------------------
(* The acknowledgement adapter                                             *)

Strict == engine \in {"memory", "local"}

\* An in-process adapter refuses a second decision that differs.
Refuses(action) == Strict /\ decision \notin {"pending", action}

\* A remote adapter that is finished ignores further calls.
Tell(action) ==
  /\ decision' = IF ~Strict /\ finished THEN decision ELSE action
  /\ finished' = TRUE

\* The call fails or is cancelled: the transport may have acted or not.
TellBroken(action) ==
  /\ ~Strict
  /\ decision' \in (IF finished THEN {decision} ELSE {decision, action})
  /\ UNCHANGED finished

Fault == faults < MaxFaults /\ faults' = faults + 1

-----------------------------------------------------------------------------
(* Operations on the Delivery by the parts of the handler                  *)

Leave(p) == at' = [at EXCEPT ![p] = "outside"] /\ want' = [want EXCEPT ![p] = "none"]

\* In NONE mode the operations of an adapter raise before they do anything.
Call(p, target) ==
  /\ pc = "handling"
  /\ at[p] = "outside"
  /\ target \in DOMAIN Decides => mode # "none"
  /\ at' = [at EXCEPT ![p] = "waiting"]
  /\ want' = [want EXCEPT ![p] = target]
  /\ UNCHANGED <<engine, mode, pc, outcome, state, lock, adapter, tries, records, history,
                 broken, faults>>

\* _perform and transition, once they have the lock: repeating the current
\* state is a no-op, and what is not allowed raises.
Enter(p) ==
  /\ at[p] = "waiting"
  /\ lock = Free
  /\ \/ /\ want[p] = state \/ want[p] \notin Allowed(state)
        /\ Leave(p)
        /\ UNCHANGED <<state, lock>>
     \/ /\ want[p] \in Allowed(state) \cap Silent
        /\ state' = want[p]
        /\ Leave(p)
        /\ UNCHANGED lock
     \/ /\ want[p] \in Allowed(state) \cap DOMAIN Decides
        /\ lock' = p
        /\ at' = [at EXCEPT ![p] = "calling"]
        /\ UNCHANGED <<state, want>>
  /\ UNCHANGED <<engine, mode, pc, outcome, adapter, tries, records, history, broken, faults>>

\* The adapter returns: the state follows, and the lock is released.
Performed(p) ==
  /\ at[p] = "calling"
  /\ ~Refuses(Decides[want[p]])
  /\ Tell(Decides[want[p]])
  /\ state' = want[p]
  /\ lock' = Free
  /\ Leave(p)
  /\ UNCHANGED <<engine, mode, pc, outcome, tries, records, history, broken, faults>>

\* The adapter raises, because it refuses or because the transport fails.
CallRaises(p) ==
  /\ at[p] = "calling"
  /\ \/ Refuses(Decides[want[p]]) /\ UNCHANGED <<adapter, faults>>
     \/ TellBroken(Decides[want[p]]) /\ Fault
  /\ Leave(p)

\* Faulty variant, for mutation: the state is changed before the transport.
PerformFailsDecided(p) ==
  /\ CallRaises(p)
  /\ state' = want[p]
  /\ lock' = Free
  /\ UNCHANGED <<engine, mode, pc, outcome, tries, records, history, broken>>

\* Faulty variant, for mutation: an error leaves the lock behind.
PerformFailsLocked(p) ==
  /\ CallRaises(p)
  /\ UNCHANGED <<engine, mode, pc, outcome, state, lock, tries, records, history, broken>>

\* AcknowledgementError: the state stays as it was.
PerformFails(p) ==
  /\ CallRaises(p)
  /\ lock' = Free
  /\ UNCHANGED <<engine, mode, pc, outcome, state, tries, records, history, broken>>

-----------------------------------------------------------------------------
(* _consume                                                                *)

End(how) == pc' = "ended" /\ outcome' = how
Goto(point) == pc' = point /\ UNCHANGED outcome

\* mark_expired and mark_dead_lettered, after the adapter was told to reject
RejectAs(target) ==
  /\ IF Refuses("reject") THEN UNCHANGED adapter ELSE Tell("reject")
  /\ state' = IF target \in Allowed(state) THEN target ELSE state
  /\ End(IF Refuses("reject") \/ target \notin Allowed(state) \cup {state}
           THEN "raised" ELSE "returned")
  /\ UNCHANGED <<lock, at, want>>

\* The ttl has elapsed.
Expired ==
  /\ pc = "arrived"
  /\ RejectAs("expired")
  /\ UNCHANGED <<engine, mode, tries, records, history, broken, faults>>

\* The payload cannot be decoded: dead-lettered, then rejected.
Undecodable ==
  /\ pc = "arrived"
  /\ Tell("reject")
  /\ records' = records + 1
  /\ End("returned")
  /\ UNCHANGED <<engine, mode, delivery, tries, history, broken, faults>>

\* NONE mode acknowledges first; then start_processing.
StartProcessing ==
  /\ pc = "arrived"
  /\ IF mode = "none" THEN Tell("ack") ELSE UNCHANGED adapter
  /\ state' = "processing"
  /\ Goto("handling")
  /\ UNCHANGED <<engine, mode, lock, at, want, tries, records, history, broken, faults>>

AllOutside == \A p \in Parts : at[p] = "outside"

HandlerReturns ==
  /\ pc = "handling"
  /\ AllOutside
  /\ handled' = TRUE
  /\ Goto("completed")
  /\ UNCHANGED <<engine, mode, delivery, adapter, tries, records, publishes, deliveries,
                 broken, faults>>

\* The states in which a failing handler has already decided for the message.
Decided == {"acknowledged", "deferred", "requeued", "retry_scheduled"}

\* The retries are over: the handler's own decision stands.
GiveUp == IF state \in Decided THEN End("returned") ELSE Goto("failing")

\* The attempt has failed.  The retry policy may also end early (elapsed time).
AttemptFails == GiveUp \/ (tries < MaxTries /\ Goto("retrying"))

HandlerRaises ==
  /\ pc = "handling"
  /\ AllOutside
  /\ AttemptFails
  /\ UNCHANGED <<engine, mode, delivery, adapter, tries, records, history, broken, faults>>

\* attempt_timeout cancels the parts; one that is inside the transport does
\* not know what it did.
AttemptTimesOut ==
  /\ pc = "handling"
  /\ ~AllOutside
  /\ \/ (\A p \in Parts : at[p] # "calling") /\ UNCHANGED adapter
     \/ \E p \in Parts : at[p] = "calling" /\ TellBroken(Decides[want[p]])
  /\ lock' = Free
  /\ at' = [p \in Parts |-> "outside"]
  /\ want' = [p \in Parts |-> "none"]
  /\ AttemptFails
  /\ UNCHANGED <<engine, mode, state, tries, records, history, broken, faults>>

\* The delay is over: the whole handler runs again.
RetryHandler ==
  /\ pc = "retrying"
  /\ tries' = tries + 1
  /\ Goto("handling")
  /\ UNCHANGED <<engine, mode, delivery, adapter, records, history, broken, faults>>

\* handler_failed is emitted and the record is stored.
DeadLetter ==
  /\ pc = "failing"
  /\ records' = records + 1
  /\ Goto("rejecting")
  /\ UNCHANGED <<engine, mode, delivery, adapter, tries, history, broken, faults>>

\* adapter.reject, and in any case mark_dead_lettered
RejectDeadLettered ==
  /\ pc = "rejecting"
  /\ RejectAs("dead_lettered")
  /\ UNCHANGED <<engine, mode, tries, records, history, broken, faults>>

\* handler_completed is emitted; AUTO mode acknowledges what is undecided.
Completed ==
  /\ pc = "completed"
  /\ IF mode = "auto" /\ state = "processing"
       THEN Goto("acknowledging") /\ lock' = Main
       ELSE End("returned") /\ UNCHANGED lock
  /\ UNCHANGED <<engine, mode, state, at, want, adapter, tries, records, history, broken, faults>>

Acknowledged ==
  /\ pc = "acknowledging"
  /\ Tell("ack")
  /\ state' = "acknowledged"
  /\ lock' = Free
  /\ End("returned")
  /\ UNCHANGED <<engine, mode, at, want, tries, records, history, broken, faults>>

\* The transport, the dead-letter store or a critical listener raises through
\* _consume.  The store may have kept the record when its listener raises.
ConsumeFails ==
  /\ Fault
  /\ End("raised")
  /\ broken' = TRUE
  /\ \/ /\ pc = "arrived"
        /\ TellBroken(IF mode = "none" THEN "ack" ELSE "reject")
        /\ UNCHANGED <<state, lock, records>>
     \/ \* the record of an undecodable payload
        /\ pc = "arrived"
        /\ records' \in {records, records + 1}
        /\ UNCHANGED <<state, lock, adapter>>
     \/ /\ pc = "failing"
        /\ records' \in {records, records + 1}
        /\ UNCHANGED <<state, lock, adapter>>
     \/ /\ pc = "rejecting"
        /\ TellBroken("reject")
        /\ state' = IF "dead_lettered" \in Allowed(state) THEN "dead_lettered" ELSE state
        /\ UNCHANGED <<lock, records>>
     \/ /\ pc = "completed"
        /\ UNCHANGED <<state, lock, records, adapter>>
     \/ /\ pc = "acknowledging"
        /\ TellBroken("ack")
        /\ lock' = Free
        /\ UNCHANGED <<state, records>>
  /\ UNCHANGED <<engine, mode, at, want, tries, history>>

-----------------------------------------------------------------------------
(* The engine                                                              *)

\* The process dies, and a remote transport notices.
Crash ==
  /\ engine = "remote"
  /\ pc \notin {"ended", "rest"}
  /\ Fault
  /\ End("raised")
  /\ broken' = TRUE
  /\ lock' = Free
  /\ at' = [p \in Parts |-> "outside"]
  /\ want' = [p \in Parts |-> "none"]
  /\ UNCHANGED <<engine, mode, state, adapter, tries, records, history>>

Again == decision \in {"requeue", "defer"}

\* Faulty variant, for mutation: the worker forgets the deferred message.
DeliversAgainUndeferred ==
  CASE engine = "memory" -> outcome = "returned" /\ decision = "requeue"
    [] engine = "local" -> IF outcome = "returned" THEN Again ELSE publishes < MaxPublishes
    [] engine = "remote" -> Again \/ decision = "pending"

DeliversAgain ==
  CASE engine = "memory" -> outcome = "returned" /\ Again
    [] engine = "local" -> IF outcome = "returned" THEN Again ELSE publishes < MaxPublishes
    [] engine = "remote" -> Again \/ decision = "pending"

\* A new Delivery, with a new adapter.
Redeliver ==
  /\ pc = "ended"
  /\ DeliversAgain
  /\ deliveries < MaxDeliveries
  /\ deliveries' = deliveries + 1
  /\ publishes' = IF engine = "local" /\ outcome = "raised" THEN publishes + 1 ELSE publishes
  /\ Goto("arrived")
  /\ state' = "delivered"
  /\ decision' = "pending"
  /\ finished' = FALSE
  /\ tries' = 1
  /\ broken' = FALSE
  /\ UNCHANGED <<engine, mode, lock, at, want, records, handled, faults>>

Settle ==
  /\ pc = "ended"
  /\ ~DeliversAgain
  /\ Goto("rest")
  /\ UNCHANGED <<engine, mode, delivery, adapter, tries, records, history, broken, faults>>

-----------------------------------------------------------------------------
Init ==
  /\ engine \in {"memory", "local", "remote"}
  /\ mode \in {"auto", "manual", "none"}
  /\ pc = "arrived"
  /\ outcome = "returned"
  /\ state = "delivered"
  /\ lock = Free
  /\ at = [p \in Parts |-> "outside"]
  /\ want = [p \in Parts |-> "none"]
  /\ decision = "pending"
  /\ finished = FALSE
  /\ tries = 1
  /\ publishes = 1
  /\ deliveries = 1
  /\ records = 0
  /\ handled = FALSE
  /\ broken = FALSE
  /\ faults = 0

HandlerEnds == HandlerReturns \/ HandlerRaises

Operate(p) == Enter(p) \/ Performed(p) \/ PerformFails(p)

Proceed ==
  \/ Expired \/ Undecodable \/ StartProcessing
  \/ RetryHandler \/ DeadLetter \/ RejectDeadLettered
  \/ Completed \/ Acknowledged

Next ==
  \/ \E p \in Parts : Operate(p) \/ \E target \in DOMAIN Decides \cup Silent : Call(p, target)
  \/ Proceed \/ HandlerEnds \/ AttemptTimesOut
  \/ ConsumeFails \/ Crash \/ Redeliver \/ Settle

Spec == Init /\ [][Next]_vars

(***************************************************************************)
(* The event loop runs what can run, the transport answers, and the        *)
(* handler returns or raises sooner or later.                              *)
(***************************************************************************)
Fairness ==
  /\ \A p \in Parts : WF_vars(Operate(p))
  /\ WF_vars(Proceed)
  /\ WF_vars(HandlerEnds)

FairSpec == Spec /\ Fairness

-----------------------------------------------------------------------------
(* Properties                                                              *)

TypeOK ==
  /\ engine \in {"memory", "local", "remote"}
  /\ mode \in {"auto", "manual", "none"}
  /\ pc \in {"arrived", "handling", "retrying", "failing", "rejecting", "completed",
             "acknowledging", "ended", "rest"}
  /\ outcome \in {"returned", "raised"}
  /\ state \in States
  /\ lock \in Parts \cup {Main, Free}
  /\ at \in [Parts -> {"outside", "waiting", "calling"}]
  /\ want \in [Parts -> DOMAIN Decides \cup Silent \cup {"none"}]
  /\ decision \in {"pending", "ack", "reject", "requeue", "defer"}
  /\ finished \in BOOLEAN
  /\ tries \in 1..MaxTries
  /\ publishes \in 1..MaxPublishes
  /\ deliveries \in 1..MaxDeliveries
  /\ records \in 0..MaxDeliveries
  /\ handled \in BOOLEAN
  /\ broken \in BOOLEAN
  /\ faults \in 0..MaxFaults
  /\ \A p \in Parts : lock = p <=> at[p] = "calling"

(* The Delivery never claims a decision the transport has not been told:   *)
(* not when the transport fails, not when an attempt is cancelled, and not *)
(* when two parts of the handler decide differently.  The exception is a   *)
(* requeue after nack(requeue=False): the table of transitions allows it,  *)
(* the transport ignores it, and the Delivery says REQUEUED.               *)
StateFollowsTransport ==
  mode # "none" /\ state \in DOMAIN Decides =>
    \/ decision = Decides[state]
    \/ state = "requeued" /\ decision = "reject"

(* "Conflicting terminal transitions raise": a terminal state is left only *)
(* with the delivery, although operations wait for the lock in between.    *)
TerminalIsFinal ==
  [][(state \in Terminal /\ deliveries' = deliveries) => (state' = state)]_vars

(* A message whose handler has acknowledged, deferred or requeued it is    *)
(* not written to the dead-letter store by a later failure of the handler. *)
DecidedIsNotDeadLettered == [][(records' > records) => (state \notin Decided)]_vars

(* The handler chose to drop the message, or dropped it before it asked    *)
(* for it again.                                                           *)
Dropped ==
  \/ state \in {"nacked", "rejected", "cancelled", "retry_scheduled"}
  \/ state = "requeued" /\ decision = "reject"

(* A message at rest was handled, is kept as a dead letter, had expired or *)
(* was dropped on purpose, unless MANUAL mode left it undecided or a store *)
(* or a listener failed in process.                                        *)
NothingIsLost ==
  pc = "rest" /\ mode # "manual" /\ ~broken =>
    handled \/ records > 0 \/ state \in {"acknowledged", "expired"} \/ Dropped

\* The handler goes on with delivery operations.
HandlerCalls == \E p \in Parts : \E target \in DOMAIN Decides \cup Silent : Call(p, target)

(* Every delivery comes to its end, if the handler does not call delivery  *)
(* operations for ever: no failed or cancelled operation keeps the lock.   *)
EveryDeliveryEnds ==
  <>[][~HandlerCalls]_vars => ((pc = "arrived") ~> (pc = "ended"))

(* No operation that failed, was cancelled or timed out leaves the lock of *)
(* the Delivery behind: the part that has it is at the transport, parts    *)
(* that wait for a free lock are let in, and _consume never finds it taken *)
(* when it retries, dead-letters, rejects or acknowledges.                 *)
LockIsFreed ==
  /\ lock \in Parts => pc = "handling" /\ at[lock] = "calling"
  /\ lock = Main => pc = "acknowledging"
  /\ pc # "handling" => AllOutside

\* Stages until the delivery ends, at most, in the current attempt.
StagesLeft(point) ==
  CASE point = "arrived" -> 5
    [] point = "handling" -> 4
    [] point \in {"failing", "completed"} -> 3
    [] point \in {"retrying", "rejecting", "acknowledging"} -> 2
    [] point = "ended" -> 1
    [] OTHER -> 0

(* A delivery only goes forward: each move of _consume begins an attempt,  *)
(* of which there are MaxTries, or is a stage nearer to the end; only the  *)
(* engine begins again, with another delivery.                             *)
DeliveryGoesForward ==
  [][pc' # pc =>
       \/ deliveries' > deliveries /\ pc = "ended"
       \/ tries' = tries + 1 /\ tries < MaxTries /\ pc = "retrying"
       \/ tries' = tries /\ StagesLeft(pc') < StagesLeft(pc)]_vars

=============================================================================
