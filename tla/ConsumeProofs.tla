--------------------------- MODULE ConsumeProofs ----------------------------
(***************************************************************************)
(* Safety of Consume, for any number of concurrent handler parts, attempts,*)
(* publishes, deliveries and faults; and of RemoteEngine, which delivers   *)
(* what Consume handles, for any number of consumers, messages and copies. *)
(***************************************************************************)
EXTENDS Consume, RemoteEngine, FiniteSetTheorems, FunctionTheorems, SequenceTheorems,
        WellFoundedInduction, TLAPS

Targets == {"acknowledged", "nacked", "rejected", "requeued", "deferred"}

Actions == {"ack", "reject", "requeue", "defer"}

\* The states a Delivery can be in while its handler runs.
Handling == {"processing"} \cup Targets \cup Silent

(* What _ALLOWED_TRANSITIONS contributes to the argument: after a decision *)
(* only NACKED may be followed by another one, and that one is a rejection *)
(* or a requeue.                                                           *)
LEMMA AllowedFacts ==
  /\ \A s \in States : Allowed(s) \subseteq States
  /\ \A s \in Terminal : Allowed(s) = {}
  /\ \A s \in Handling \ {"processing", "nacked"} : Allowed(s) \cap Targets = {}
  /\ Allowed("nacked") \cap Targets = {"rejected", "requeued"}
  /\ "expired" \in Allowed("delivered")
  /\ \A s \in {"processing", "nacked", "rejected"} : "dead_lettered" \in Allowed(s)
BY DEF Allowed, States, Terminal, Targets, Handling, Silent

LEMMA DecidesFacts ==
  /\ DOMAIN Decides = Targets
  /\ \A s \in Targets : Decides[s] \in Actions
  /\ Decides["acknowledged"] = "ack"
  /\ Decides["nacked"] = "reject" /\ Decides["rejected"] = "reject"
  /\ Decides["requeued"] = "requeue" /\ Decides["deferred"] = "defer"
BY DEF Decides, Targets, Actions

-----------------------------------------------------------------------------
(* The inductive invariant                                                 *)

Flags == finished \in BOOLEAN /\ handled \in BOOLEAN /\ broken \in BOOLEAN

Types ==
  /\ engine \in {"memory", "local", "remote"}
  /\ mode \in {"auto", "manual", "none"}
  /\ pc \in {"arrived", "handling", "retrying", "failing", "rejecting", "completed",
             "acknowledging", "ended", "rest"}
  /\ outcome \in {"returned", "raised"}
  /\ state \in States
  /\ lock \in Parts \cup {Main, Free}
  /\ at \in [Parts -> {"outside", "waiting", "calling"}]
  /\ want \in [Parts -> Targets \cup Silent \cup {"none"}]
  /\ decision \in Actions \cup {"pending"}
  /\ tries \in 1..MaxTries
  /\ publishes \in 1..MaxPublishes
  /\ deliveries \in 1..MaxDeliveries
  /\ records \in Nat
  /\ faults \in 0..MaxFaults

\* The Delivery's lock, and what a part inside an operation may rely on.
Operations ==
  /\ lock = Main <=> pc = "acknowledging"
  /\ \A p \in Parts :
       /\ lock = p <=> at[p] = "calling"
       /\ at[p] # "outside" => pc = "handling" /\ want[p] \in Targets \cup Silent
       /\ at[p] = "calling" => want[p] \in Allowed(state) \cap Targets
       /\ mode = "none" => want[p] \notin Targets

\* How far _consume has come, and what that says about the Delivery.
Places ==
  /\ pc = "arrived" => state = "delivered" /\ decision = "pending" /\ ~finished
  /\ pc \in {"handling", "retrying", "completed"} => state \in Handling
  /\ pc \in {"failing", "rejecting"} => state \in Handling \ Decided
  /\ pc = "acknowledging" => state = "processing" /\ mode = "auto"
  /\ pc = "retrying" => tries < MaxTries
  /\ pc = "rejecting" => records > 0
  /\ pc \in {"completed", "acknowledging"} => handled

\* At most one dead letter is written in each delivery.
OneRecordPerDelivery ==
  /\ records <= deliveries
  /\ pc \notin {"rejecting", "ended", "rest"} => records < deliveries

\* An adapter is finished exactly when the Delivery has a decision.
FinishedIsDecided ==
  /\ mode = "none" => state \notin Targets
  /\ mode # "none" /\ state \in Targets => finished
  /\ mode # "none" /\ finished /\ pc \notin {"ended", "rest"} => state # "processing"

\* Why a delivery that was not broken has ended.
EndedAccounted ==
  pc = "ended" /\ ~broken =>
    handled \/ records > 0 \/ state = "expired" \/ (state \in Decided /\ outcome = "returned")

IInv ==
  /\ Flags
  /\ Types
  /\ Operations
  /\ Places
  /\ OneRecordPerDelivery
  /\ FinishedIsDecided
  /\ StateFollowsTransport
  /\ EndedAccounted
  /\ NothingIsLost

-----------------------------------------------------------------------------
LEMMA FlagsStep == Flags /\ [Next]_vars => Flags'
<1>. SUFFICES ASSUME Flags, [Next]_vars PROVE Flags'
  OBVIOUS
<1>. USE DEF Flags, delivery, adapter, history
<1>1. CASE UNCHANGED vars
  BY <1>1 DEF vars
<1>2. ASSUME NEW p \in Parts, Operate(p)
      PROVE  Flags'
  BY <1>2, Zenon DEF Operate, Enter, Performed, PerformFails, CallRaises, Tell, TellBroken
<1>3. ASSUME NEW p \in Parts, NEW target, Call(p, target)
      PROVE  Flags'
  BY <1>3 DEF Call
<1>4. CASE Proceed
  BY <1>4, Zenon DEF Proceed, Expired, Undecodable, StartProcessing, RetryHandler, DeadLetter,
    RejectDeadLettered, Completed, Acknowledged, RejectAs, Tell
<1>5. CASE HandlerEnds
  BY <1>5 DEF HandlerEnds, HandlerReturns, HandlerRaises
<1>6. CASE AttemptTimesOut
  BY <1>6, Zenon DEF AttemptTimesOut, TellBroken
<1>7. CASE ConsumeFails
  BY <1>7, Zenon DEF ConsumeFails, TellBroken
<1>8. CASE Crash \/ Redeliver \/ Settle
  BY <1>8, Zenon DEF Crash, Redeliver, Settle
<1>. QED
  BY <1>1, <1>2, <1>3, <1>4, <1>5, <1>6, <1>7, <1>8 DEF Next

LEMMA OperateStep ==
  ASSUME IInv, Flags', NEW p \in Parts, Operate(p)
  PROVE  IInv'
<1>. USE ConsumeAssumption, AllowedFacts, DecidesFacts
     DEF IInv, Types, Operations, Places, OneRecordPerDelivery, FinishedIsDecided,
         StateFollowsTransport, EndedAccounted, NothingIsLost, Leave, adapter, history,
         Targets, Actions, Handling, Silent, Decided, Dropped, States, Terminal
<1>1. CASE Enter(p)
  BY <1>1 DEF Enter
<1>2. CASE Performed(p)
  BY <1>2 DEF Performed, Tell, Refuses, Strict
<1>3. CASE PerformFails(p)
  BY <1>3 DEF PerformFails, CallRaises, TellBroken, Refuses, Strict, Fault
<1>. QED
  BY <1>1, <1>2, <1>3 DEF Operate

LEMMA CallStep ==
  ASSUME IInv, Flags', NEW p \in Parts, NEW target \in Targets \cup Silent, Call(p, target)
  PROVE  IInv'
BY ConsumeAssumption, AllowedFacts, DecidesFacts
     DEF IInv, Types, Operations, Places, OneRecordPerDelivery, FinishedIsDecided,
         StateFollowsTransport, EndedAccounted, NothingIsLost, delivery, adapter, history,
         Targets, Actions, Handling, Silent, Decided, Dropped, States, Terminal, Call

(* _consume itself, outside of the handler.                                *)
LEMMA ProceedStep ==
  ASSUME IInv, Flags', Proceed
  PROVE  IInv'
<1>. USE ConsumeAssumption, AllowedFacts, DecidesFacts
     DEF IInv, Types, Operations, Places, OneRecordPerDelivery, FinishedIsDecided,
         StateFollowsTransport, EndedAccounted, NothingIsLost, delivery, adapter, history,
         Targets, Actions, Handling, Silent, Decided, Dropped, States, Terminal, Goto, End
<1>1. CASE Expired
  BY <1>1 DEF Expired, RejectAs, Tell, Refuses, Strict
<1>2. CASE Undecodable
  BY <1>2 DEF Undecodable, Tell, Strict
<1>3. CASE StartProcessing
  BY <1>3 DEF StartProcessing, Tell, Strict
<1>4. CASE RetryHandler
  BY <1>4 DEF RetryHandler
<1>5. CASE DeadLetter
  BY <1>5 DEF DeadLetter
<1>6. CASE RejectDeadLettered
  BY <1>6 DEF RejectDeadLettered, RejectAs, Tell, Refuses, Strict
<1>7. CASE Completed
  BY <1>7 DEF Completed
<1>8. CASE Acknowledged
  BY <1>8 DEF Acknowledged, Tell, Strict
<1>. QED
  BY <1>1, <1>2, <1>3, <1>4, <1>5, <1>6, <1>7, <1>8 DEF Proceed

(* The handler ends, or an attempt of it is cancelled.                     *)
LEMMA HandlerStep ==
  ASSUME IInv, Flags', HandlerEnds \/ AttemptTimesOut
  PROVE  IInv'
<1>. USE ConsumeAssumption, AllowedFacts, DecidesFacts
     DEF IInv, Types, Operations, Places, OneRecordPerDelivery, FinishedIsDecided,
         StateFollowsTransport, EndedAccounted, NothingIsLost, delivery, adapter, history,
         Targets, Actions, Handling, Silent, Decided, Dropped, States, Terminal, Goto, End
<1>1. CASE HandlerReturns
  BY <1>1 DEF HandlerReturns, AllOutside
<1>2. CASE HandlerRaises
  BY <1>2 DEF HandlerRaises, AttemptFails, GiveUp, AllOutside
<1>3. CASE AttemptTimesOut
  BY <1>3 DEF AttemptTimesOut, AttemptFails, GiveUp, TellBroken, Strict
<1>. QED
  BY <1>1, <1>2, <1>3 DEF HandlerEnds

(* Faults: every one of them is recorded in broken.                        *)
LEMMA FaultStep ==
  ASSUME IInv, Flags', ConsumeFails \/ Crash
  PROVE  IInv'
<1>. USE ConsumeAssumption, AllowedFacts, DecidesFacts
     DEF IInv, Types, Operations, Places, OneRecordPerDelivery, FinishedIsDecided,
         StateFollowsTransport, EndedAccounted, NothingIsLost, delivery, adapter, history,
         Targets, Actions, Handling, Silent, Decided, Dropped, States, Terminal, Goto, End
<1>1. CASE ConsumeFails
  BY <1>1 DEF ConsumeFails, TellBroken, Strict, Fault
<1>2. CASE Crash
  BY <1>2 DEF Crash, Fault
<1>. QED
  BY <1>1, <1>2

(* Whoever has asked for the message again gets it, and the publisher      *)
(* keeps to its attempts.                                                  *)
LEMMA DeliversAgainFacts ==
  ASSUME engine \in {"memory", "local", "remote"}, outcome \in {"returned", "raised"}
  PROVE  /\ outcome = "returned" /\ decision \in {"requeue", "defer"} => DeliversAgain
         /\ DeliversAgain /\ engine = "local" /\ outcome = "raised" => publishes < MaxPublishes
<1>1. CASE engine = "memory"
  BY <1>1 DEF DeliversAgain, Again
<1>2. CASE engine = "local"
  BY <1>2 DEF DeliversAgain, Again
<1>3. CASE engine = "remote"
  BY <1>3 DEF DeliversAgain, Again
<1>. QED
  BY <1>1, <1>2, <1>3

(* The engine delivers the message again or lets it rest.                  *)
LEMMA EngineStep ==
  ASSUME IInv, Flags', Redeliver \/ Settle
  PROVE  IInv'
<1>. USE ConsumeAssumption, AllowedFacts, DecidesFacts
     DEF IInv, Types, Operations, Places, OneRecordPerDelivery, FinishedIsDecided,
         StateFollowsTransport, EndedAccounted, NothingIsLost, delivery, adapter, history,
         Targets, Actions, Handling, Silent, Decided, Dropped, States, Terminal, Goto, End
<1>1. CASE Redeliver
  BY <1>1, DeliversAgainFacts DEF Redeliver
<1>2. CASE Settle
  BY <1>2, DeliversAgainFacts DEF Settle
<1>. QED
  BY <1>1, <1>2

-----------------------------------------------------------------------------
LEMMA InitIInv == Init => IInv
<1>. SUFFICES ASSUME Init PROVE IInv
  OBVIOUS
<1>1. Flags
  BY DEF Init, Flags
<1>2. Types
  BY ConsumeAssumption DEF Init, Types, States, Targets, Silent, Actions
<1>3. Operations /\ Places /\ OneRecordPerDelivery
  BY ConsumeAssumption DEF Init, Operations, Places, OneRecordPerDelivery, Targets, Silent
<1>4. FinishedIsDecided /\ StateFollowsTransport /\ EndedAccounted /\ NothingIsLost
  BY DecidesFacts DEF Init, FinishedIsDecided, StateFollowsTransport, EndedAccounted,
    NothingIsLost, Targets
<1>. QED
  BY <1>1, <1>2, <1>3, <1>4 DEF IInv

LEMMA NextIInv == IInv /\ [Next]_vars => IInv'
<1>. SUFFICES ASSUME IInv, [Next]_vars PROVE IInv'
  OBVIOUS
<1>1. Flags'
  BY FlagsStep DEF IInv
<1>2. CASE UNCHANGED vars
  BY <1>1, <1>2 DEF vars, IInv, Types, Operations, Places, OneRecordPerDelivery,
    FinishedIsDecided, StateFollowsTransport, EndedAccounted, NothingIsLost, delivery, adapter,
    history, Dropped
<1>3. ASSUME NEW p \in Parts, Operate(p)
      PROVE  IInv'
  BY <1>1, <1>3, OperateStep
<1>4. ASSUME NEW p \in Parts, NEW target \in DOMAIN Decides \cup Silent, Call(p, target)
      PROVE  IInv'
  BY <1>1, <1>4, CallStep, DecidesFacts
<1>5. CASE Proceed
  BY <1>1, <1>5, ProceedStep
<1>6. CASE HandlerEnds \/ AttemptTimesOut
  BY <1>1, <1>6, HandlerStep
<1>7. CASE ConsumeFails \/ Crash
  BY <1>1, <1>7, FaultStep
<1>8. CASE Redeliver \/ Settle
  BY <1>1, <1>8, EngineStep
<1>. QED
  BY <1>2, <1>3, <1>4, <1>5, <1>6, <1>7, <1>8 DEF Next

LEMMA Invariance == Spec => []IInv
BY InitIInv, NextIInv, PTL DEF Spec

-----------------------------------------------------------------------------
(* delivery.py and _consume keep their types and bounds, and the owner of  *)
(* the Delivery's lock is the one part that is inside the adapter.         *)
THEOREM TypeCorrect == Spec => []TypeOK
<1>1. ASSUME IInv PROVE TypeOK
  <2>1. records \in 0..MaxDeliveries
    BY <1>1, ConsumeAssumption DEF IInv, Types, OneRecordPerDelivery
  <2>2. want \in [Parts -> DOMAIN Decides \cup Silent \cup {"none"}]
    BY <1>1, DecidesFacts DEF IInv, Types
  <2>3. finished \in BOOLEAN /\ handled \in BOOLEAN /\ broken \in BOOLEAN
    BY <1>1 DEF IInv, Flags
  <2>4. decision \in {"pending", "ack", "reject", "requeue", "defer"}
    BY <1>1 DEF IInv, Types, Actions
  <2>5. \A p \in Parts : lock = p <=> at[p] = "calling"
    BY <1>1 DEF IInv, Operations
  <2>. QED
    BY <1>1, <2>1, <2>2, <2>3, <2>4, <2>5 DEF IInv, Types, TypeOK
<1>. QED
  BY <1>1, Invariance, PTL

(* Delivery._perform: the state never claims what the transport was not    *)
(* told, through failures, cancellations and conflicting parts.            *)
THEOREM StateIsHonest == Spec => []StateFollowsTransport
<1>1. IInv => StateFollowsTransport
  BY DEF IInv
<1>. QED
  BY <1>1, Invariance, PTL

(* _consume and the engines: a message at rest has been handled, kept,     *)
(* expired or dropped on purpose.                                          *)
THEOREM NoMessageIsLost == Spec => []NothingIsLost
<1>1. IInv => NothingIsLost
  BY DEF IInv
<1>. QED
  BY <1>1, Invariance, PTL

(* A terminal state of a Delivery is left only with the delivery.          *)
LEMMA TerminalStep ==
  ASSUME IInv, [Next]_vars, state \in Terminal, deliveries' = deliveries
  PROVE  state' = state
<1>. USE DEF IInv, delivery, adapter, history
<1>1. CASE UNCHANGED vars
  BY <1>1 DEF vars
<1>2. ASSUME NEW p \in Parts, Operate(p)
      PROVE  state' = state
  <2>1. Allowed(state) = {}
    BY AllowedFacts
  <2>. QED
    BY <1>2, <2>1 DEF Operate, Enter, Performed, PerformFails, Operations
<1>3. ASSUME NEW p \in Parts, NEW target, Call(p, target)
      PROVE  state' = state
  BY <1>3 DEF Call
<1>4. CASE Proceed
  <2>1. pc \notin {"arrived", "acknowledging"}
    BY DEF Places, Terminal
  <2>2. Allowed(state) = {}
    BY AllowedFacts
  <2>. QED
    BY <1>4, <2>1, <2>2 DEF Proceed, Expired, Undecodable, StartProcessing, RetryHandler,
      DeadLetter, RejectDeadLettered, Completed, Acknowledged, RejectAs
<1>5. CASE HandlerEnds \/ AttemptTimesOut
  BY <1>5 DEF HandlerEnds, HandlerReturns, HandlerRaises, AttemptTimesOut
<1>6. CASE ConsumeFails
  <2>1. "dead_lettered" \notin Allowed(state)
    BY AllowedFacts
  <2>. QED
    BY <1>6, <2>1 DEF ConsumeFails
<1>7. CASE Crash \/ Settle
  BY <1>7 DEF Crash, Settle
<1>8. CASE Redeliver
  BY <1>8 DEF Redeliver, Types
<1>. QED
  BY <1>1, <1>2, <1>3, <1>4, <1>5, <1>6, <1>7, <1>8 DEF Next

(* "Conflicting terminal transitions raise" (delivery.py), whoever waits   *)
(* for the lock meanwhile.                                                 *)
THEOREM TerminalStays == Spec => TerminalIsFinal
<1>1. IInv /\ [Next]_vars => [(state \in Terminal /\ deliveries' = deliveries) => (state' = state)]_vars
  BY TerminalStep
<1>. QED
  BY <1>1, Invariance, PTL DEF Spec, TerminalIsFinal

(* A dead letter is only written for a message whose handler has not       *)
(* decided about it (_consume).                                            *)
LEMMA RecordStep ==
  ASSUME IInv, [Next]_vars, records' > records
  PROVE  state \notin Decided
<1>. USE DEF IInv, Types, delivery, adapter, history
<1>1. CASE UNCHANGED vars
  BY <1>1 DEF vars
<1>2. ASSUME NEW p \in Parts, Operate(p)
      PROVE  FALSE
  BY <1>2 DEF Operate, Enter, Performed, PerformFails
<1>3. ASSUME NEW p \in Parts, NEW target, Call(p, target)
      PROVE  FALSE
  BY <1>3 DEF Call
<1>4. CASE pc \in {"arrived", "failing"}
  BY <1>4 DEF Places, Decided
<1>5. CASE Proceed /\ pc \notin {"arrived", "failing"}
  BY <1>5 DEF Proceed, Expired, Undecodable, StartProcessing, RetryHandler,
    DeadLetter, RejectDeadLettered, Completed, Acknowledged
<1>6. CASE HandlerEnds \/ AttemptTimesOut
  BY <1>6 DEF HandlerEnds, HandlerReturns, HandlerRaises, AttemptTimesOut
<1>7. CASE ConsumeFails /\ pc \notin {"arrived", "failing"}
  BY <1>7 DEF ConsumeFails
<1>8. CASE Crash \/ Redeliver \/ Settle
  BY <1>8 DEF Crash, Redeliver, Settle
<1>. QED
  BY <1>1, <1>2, <1>3, <1>4, <1>5, <1>6, <1>7, <1>8 DEF Next

(* What the handler decided is not undone by its later failure.            *)
THEOREM DecisionStands == Spec => DecidedIsNotDeadLettered
<1>1. IInv /\ [Next]_vars => [(records' > records) => (state \notin Decided)]_vars
  BY RecordStep
<1>. QED
  BY <1>1, Invariance, PTL DEF Spec, DecidedIsNotDeadLettered

-----------------------------------------------------------------------------
(* Deliveries come to their end                                            *)

(* _perform and transition give the Delivery's lock back on every path,    *)
(* errors and cancellations included, for any number of concurrent parts.  *)
THEOREM LockIsNeverLeft == Spec => []LockIsFreed
<1>1. IInv => LockIsFreed
  BY ConsumeAssumption DEF IInv, Types, Operations, LockIsFreed, AllOutside
<1>. QED
  BY <1>1, Invariance, PTL

(* _consume and its retries only go forward, whatever raises, times out or *)
(* is cancelled, so a delivery has at most MaxTries attempts and finitely  *)
(* many stages.                                                            *)
THEOREM DeliveriesGoForward == Spec => DeliveryGoesForward
<1>. DEFINE Forward ==
       pc' # pc =>
         \/ deliveries' > deliveries /\ pc = "ended"
         \/ tries' = tries + 1 /\ tries < MaxTries /\ pc = "retrying"
         \/ tries' = tries /\ StagesLeft(pc') < StagesLeft(pc)
<1>1. ASSUME IInv, Next
      PROVE  Forward
  <2>. USE DEF history
  <2>1. ASSUME NEW p \in Parts, Operate(p)
        PROVE  Forward
    BY <2>1 DEF Operate, Enter, Performed, PerformFails
  <2>2. ASSUME NEW p \in Parts, NEW target, Call(p, target)
        PROVE  Forward
    BY <2>2 DEF Call
  <2>3. CASE Expired \/ Undecodable \/ RejectDeadLettered \/ Acknowledged
    <3>1. pc \in {"arrived", "rejecting", "acknowledging"} /\ pc' = "ended" /\ tries' = tries
      BY <2>3 DEF Expired, Undecodable, RejectDeadLettered, Acknowledged, RejectAs, End
    <3>. QED
      BY <3>1 DEF StagesLeft
  <2>4. CASE StartProcessing \/ DeadLetter
    BY <2>4 DEF StartProcessing, DeadLetter, Goto, StagesLeft
  <2>5. CASE RetryHandler
    BY <1>1, <2>5 DEF RetryHandler, IInv, Places
  <2>6. CASE Completed
    BY <2>6 DEF Completed, Goto, End, StagesLeft
  <2>7. CASE HandlerReturns
    BY <2>7 DEF HandlerReturns, Goto, StagesLeft
  <2>8. CASE HandlerRaises \/ AttemptTimesOut
    <3>1. pc = "handling" /\ pc' \in {"ended", "failing", "retrying"} /\ tries' = tries
      BY <2>8 DEF HandlerRaises, AttemptTimesOut, AttemptFails, GiveUp, End, Goto
    <3>. QED
      BY <3>1 DEF StagesLeft
  <2>9. CASE ConsumeFails
    <3>1. /\ pc \in {"arrived", "failing", "rejecting", "completed", "acknowledging"}
          /\ pc' = "ended" /\ tries' = tries
      BY <2>9 DEF ConsumeFails, End
    <3>. QED
      BY <3>1 DEF StagesLeft
  <2>10. CASE Crash \/ Settle
    <3>1. /\ tries' = tries
          /\ \/ pc \notin {"ended", "rest"} /\ pc' = "ended"
             \/ pc = "ended" /\ pc' = "rest"
      BY <2>10 DEF Crash, Settle, End, Goto
    <3>2. pc \in {"arrived", "handling", "retrying", "failing", "rejecting", "completed",
                  "acknowledging", "ended", "rest"}
      BY <1>1 DEF IInv, Types
    <3>. QED
      BY <3>1, <3>2 DEF StagesLeft
  <2>11. CASE Redeliver
    BY <1>1, <2>11, ConsumeAssumption DEF Redeliver, IInv, Types
  <2>. QED
    BY <1>1, <2>1, <2>2, <2>3, <2>4, <2>5, <2>6, <2>7, <2>8, <2>9, <2>10, <2>11
       DEF Next, Proceed, HandlerEnds
<1>2. IInv /\ [Next]_vars => [Forward]_vars
  BY <1>1
<1>. QED
  BY <1>2, Invariance, PTL DEF Spec, DeliveryGoesForward

-----------------------------------------------------------------------------
(* RemoteEngine: the queue of the server                                   *)

Elems(list) == {list[n] : n \in DOMAIN list}

Distinct(list) == \A n, k \in DOMAIN list : list[n] = list[k] => n = k

LEMMA HeadTaken ==
  ASSUME NEW list \in Seq(Slots), list # <<>>, Distinct(list)
  PROVE  /\ Head(list) \in Slots /\ Head(list) \in Elems(list)
         /\ Tail(list) \in Seq(Slots) /\ Distinct(Tail(list))
         /\ Elems(Tail(list)) = Elems(list) \ {Head(list)}
<1>1. /\ Head(list) = list[1] /\ Head(list) \in Slots
      /\ Tail(list) \in Seq(Slots) /\ Len(Tail(list)) = Len(list) - 1
      /\ \A n \in 1..Len(Tail(list)) : Tail(list)[n] = list[n + 1]
  BY HeadTailProperties
<1>2. /\ DOMAIN list = 1..Len(list) /\ Len(list) \in Nat /\ Len(list) >= 1
      /\ DOMAIN Tail(list) = 1..(Len(list) - 1)
  BY <1>1, LenProperties, EmptySeq
<1>. DEFINE rest == Tail(list)
<1>3. \A n \in DOMAIN rest : rest[n] = list[n + 1] /\ n + 1 \in DOMAIN list /\ n + 1 # 1
  BY <1>1, <1>2
<1>4. \A n \in DOMAIN list : n = 1 \/ (n - 1 \in DOMAIN rest /\ rest[n - 1] = list[n])
  BY <1>1, <1>2
<1>5. 1 \in DOMAIN list
  BY <1>2
<1>6. Elems(rest) = Elems(list) \ {list[1]}
  <2>. HIDE DEF rest
  <2>1. ASSUME NEW x \in Elems(rest) PROVE x \in Elems(list) \ {list[1]}
    BY <1>3, <1>5 DEF Elems, Distinct
  <2>2. ASSUME NEW x \in Elems(list) \ {list[1]} PROVE x \in Elems(rest)
    BY <1>4 DEF Elems
  <2>. QED
    BY <2>1, <2>2
<1>7. Distinct(rest)
  <2>. SUFFICES ASSUME NEW n \in DOMAIN rest, NEW k \in DOMAIN rest, rest[n] = rest[k]
                PROVE  n = k
    BY DEF Distinct
  <2>1. n + 1 = k + 1
    BY <1>3 DEF Distinct
  <2>. QED
    BY <1>2, <2>1
<1>. QED
  BY <1>1, <1>5, <1>6, <1>7 DEF Elems

LEMMA Joined ==
  ASSUME NEW front \in Seq(Slots), NEW back \in Seq(Slots), Distinct(front), Distinct(back),
         Elems(front) \cap Elems(back) = {}
  PROVE  /\ front \o back \in Seq(Slots) /\ Distinct(front \o back)
         /\ Elems(front \o back) = Elems(front) \cup Elems(back)
<1>. DEFINE whole == front \o back
<1>1. /\ whole \in Seq(Slots) /\ Len(whole) = Len(front) + Len(back)
      /\ \A n \in 1..(Len(front) + Len(back)) :
           whole[n] = IF n <= Len(front) THEN front[n] ELSE back[n - Len(front)]
  BY ConcatProperties
<1>2. /\ Len(front) \in Nat /\ Len(back) \in Nat
      /\ DOMAIN front = 1..Len(front) /\ DOMAIN back = 1..Len(back)
      /\ DOMAIN whole = 1..(Len(front) + Len(back))
  BY <1>1, LenProperties
<1>. HIDE DEF whole
<1>3. \A n \in DOMAIN whole :
        \/ n \in DOMAIN front /\ whole[n] = front[n]
        \/ n - Len(front) \in DOMAIN back /\ whole[n] = back[n - Len(front)] /\ n \notin DOMAIN front
  BY <1>1, <1>2
<1>4. \A n \in DOMAIN front : n \in DOMAIN whole /\ whole[n] = front[n]
  BY <1>1, <1>2
<1>5. \A n \in DOMAIN back :
        n + Len(front) \in DOMAIN whole /\ whole[n + Len(front)] = back[n]
  BY <1>1, <1>2
<1>6. Elems(whole) = Elems(front) \cup Elems(back)
  <2>1. ASSUME NEW x \in Elems(whole) PROVE x \in Elems(front) \cup Elems(back)
    BY <1>3 DEF Elems
  <2>2. ASSUME NEW x \in Elems(front) PROVE x \in Elems(whole)
    BY <1>4 DEF Elems
  <2>3. ASSUME NEW x \in Elems(back) PROVE x \in Elems(whole)
    BY <1>5 DEF Elems
  <2>. QED
    BY <2>1, <2>2, <2>3
<1>7. Distinct(whole)
  <2>. SUFFICES ASSUME NEW n \in DOMAIN whole, NEW k \in DOMAIN whole, whole[n] = whole[k]
                PROVE  n = k
    BY DEF Distinct
  <2>1. CASE n \in DOMAIN front /\ k \in DOMAIN front
    BY <1>4, <2>1 DEF Distinct
  <2>2. CASE n \notin DOMAIN front /\ k \notin DOMAIN front
    <3>1. n - Len(front) = k - Len(front)
      BY <1>3, <2>2 DEF Distinct
    <3>. QED
      BY <1>2, <3>1
  <2>3. CASE n \in DOMAIN front /\ k \notin DOMAIN front
    BY <1>3, <1>4, <2>3 DEF Elems
  <2>4. CASE n \notin DOMAIN front /\ k \in DOMAIN front
    BY <1>3, <1>4, <2>4 DEF Elems
  <2>. QED
    BY <2>1, <2>2, <2>3, <2>4
<1>. QED
  BY <1>1, <1>6, <1>7 DEF whole

LEMMA OneSlot ==
  ASSUME NEW i \in Slots
  PROVE  /\ <<i>> \in Seq(Slots) /\ Distinct(<<i>>) /\ Elems(<<i>>) = {i}
<1>1. <<i>> \in Seq(Slots) /\ DOMAIN <<i>> = {1} /\ <<i>>[1] = i
  OBVIOUS
<1>. QED
  BY <1>1 DEF Distinct, Elems

LEMMA Appended ==
  ASSUME NEW list \in Seq(Slots), Distinct(list), NEW i \in Slots, i \notin Elems(list)
  PROVE  /\ Append(list, i) \in Seq(Slots) /\ Distinct(Append(list, i))
         /\ Elems(Append(list, i)) = Elems(list) \cup {i}
<1>1. Append(list, i) = list \o <<i>>
  BY AppendIsConcat
<1>2. /\ <<i>> \in Seq(Slots) /\ Distinct(<<i>>) /\ Elems(<<i>>) = {i}
      /\ Elems(list) \cap Elems(<<i>>) = {}
  BY OneSlot
<1>3. /\ list \o <<i>> \in Seq(Slots) /\ Distinct(list \o <<i>>)
      /\ Elems(list \o <<i>>) = Elems(list) \cup Elems(<<i>>)
  BY <1>2, Joined
<1>. QED
  BY <1>1, <1>2, <1>3

LEMMA TakenOut ==
  ASSUME NEW list \in Seq(Slots), Distinct(list), NEW i
  PROVE  /\ Without(list, {i}) \in Seq(Slots) /\ Distinct(Without(list, {i}))
         /\ Elems(Without(list, {i})) = Elems(list) \ {i}
<1>1. CASE i \notin Elems(list)
  BY <1>1 DEF Without, Elems
<1>2. CASE i \in Elems(list)
  <2>. DEFINE n == CHOOSE k \in DOMAIN list : list[k] \in {i}
              front == SubSeq(list, 1, n - 1)
              back == SubSeq(list, n + 1, Len(list))
  <2>1. n \in DOMAIN list /\ list[n] = i
    BY <1>2 DEF Elems
  <2>2. Without(list, {i}) = front \o back
    BY <1>2 DEF Without, RemoveAt, Elems
  <2>3. DOMAIN list = 1..Len(list) /\ Len(list) \in Nat /\ n \in 1..Len(list)
    BY <2>1, LenProperties
  <2>4. \A k \in 1..Len(list) : list[k] \in Slots
    BY <2>3, ElementOfSeq
  <2>. HIDE DEF n
  <2>5. /\ front \in Seq(Slots) /\ Len(front) = n - 1
        /\ \A k \in 1..(n - 1) : front[k] = list[k]
    <3>1. /\ SubSeq(list, 1, n - 1) \in Seq(Slots)
          /\ Len(SubSeq(list, 1, n - 1)) = IF 1 <= n - 1 THEN n - 1 - 1 + 1 ELSE 0
          /\ \A k \in 1..(n - 1 - 1 + 1) : SubSeq(list, 1, n - 1)[k] = list[1 + k - 1]
      BY <2>3, <2>4, SubSeqProperties
    <3>. QED
      BY <2>3, <3>1
  <2>6. /\ back \in Seq(Slots) /\ Len(back) = Len(list) - n
        /\ \A k \in 1..(Len(list) - n) : back[k] = list[n + k]
    <3>1. /\ SubSeq(list, n + 1, Len(list)) \in Seq(Slots)
          /\ Len(SubSeq(list, n + 1, Len(list))) =
               IF n + 1 <= Len(list) THEN Len(list) - (n + 1) + 1 ELSE 0
          /\ \A k \in 1..(Len(list) - (n + 1) + 1) :
               SubSeq(list, n + 1, Len(list))[k] = list[n + 1 + k - 1]
      BY <2>3, <2>4, SubSeqProperties
    <3>2. Len(back) = Len(list) - n
      <4>1. Len(back) = IF n + 1 <= Len(list) THEN Len(list) - (n + 1) + 1 ELSE 0
        BY <3>1
      <4>2. Len(list) \in Nat /\ n \in 1..Len(list)
        BY <2>3
      <4>. HIDE DEF back
      <4>. QED
        BY <4>1, <4>2
    <3>3. ASSUME NEW k \in 1..(Len(list) - n) PROVE back[k] = list[n + k]
      <4>1. n + 1 + k - 1 = n + k /\ k \in 1..(Len(list) - (n + 1) + 1)
        BY <2>3
      <4>. QED
        BY <3>1, <4>1
    <3>. QED
      BY <3>1, <3>2, <3>3
  <2>. HIDE DEF front, back
  <2>7. DOMAIN front = 1..(n - 1) /\ DOMAIN back = 1..(Len(list) - n)
    BY <2>5, <2>6, LenProperties
  <2>8. /\ \A k \in DOMAIN front : k \in DOMAIN list /\ k # n /\ front[k] = list[k] /\ k < n
        /\ \A k \in DOMAIN back :
             n + k \in DOMAIN list /\ n + k # n /\ back[k] = list[n + k] /\ n + k > n
    BY <2>3, <2>5, <2>6, <2>7
  <2>9. \A k \in DOMAIN list : \/ k = n
                               \/ k \in DOMAIN front
                               \/ k - n \in DOMAIN back /\ n + (k - n) = k
    BY <2>3, <2>7
  <2>10. Distinct(front)
    BY <2>8 DEF Distinct
  <2>11. Distinct(back)
    <3>. SUFFICES ASSUME NEW j \in DOMAIN back, NEW k \in DOMAIN back, back[j] = back[k]
                  PROVE  j = k
      BY DEF Distinct
    <3>1. n + j = n + k
      BY <2>8 DEF Distinct
    <3>. QED
      BY <2>3, <2>7, <3>1
  <2>12. Elems(front) \cap Elems(back) = {}
    <3>. SUFFICES ASSUME NEW j \in DOMAIN front, NEW k \in DOMAIN back, front[j] = back[k]
                  PROVE  FALSE
      BY DEF Elems
    <3>1. j = n + k
      BY <2>8 DEF Distinct
    <3>. QED
      BY <2>3, <2>7, <3>1
  <2>13. Elems(front) \cup Elems(back) = Elems(list) \ {i}
    <3>1. ASSUME NEW x \in Elems(front) \cup Elems(back) PROVE x \in Elems(list) \ {i}
      BY <2>1, <2>8 DEF Elems, Distinct
    <3>2. ASSUME NEW x \in Elems(list) \ {i} PROVE x \in Elems(front) \cup Elems(back)
      <4>1. PICK k \in DOMAIN list : x = list[k] /\ k # n
        BY <2>1 DEF Elems
      <4>. QED
        BY <2>8, <2>9, <4>1 DEF Elems
    <3>. QED
      BY <3>1, <3>2
  <2>. QED
    BY <2>2, <2>5, <2>6, <2>10, <2>11, <2>12, <2>13, Joined
<1>. QED
  BY <1>1, <1>2

LEMMA NothingTakenOut == ASSUME NEW list PROVE Without(list, {}) = list
BY DEF Without

(* A set of slots has an enumeration in the order of their numbers: one    *)
(* slot more goes behind those before it.                                  *)
LEMMA SlotInduction ==
  ASSUME NEW P, 0 \in P, \A n \in Nat : n \in P => n + 1 \in P
  PROVE  Nat \subseteq P
<1>. SUFFICES ASSUME ~(Nat \subseteq P) PROVE FALSE
  OBVIOUS
<1>. DEFINE Rest == Nat \ P
            Less == {ss \in Nat \X Nat : ss[1] < ss[2]}
<1>1. IsWellFoundedOn(Less, Nat)
  BY Zenon, NatLessThanWellFounded DEF OpToRel
<1>2. PICK x \in Rest : \A y \in Rest : <<y, x>> \notin Less
  BY <1>1, WFMin, Zenon
<1>3. x \in Nat /\ x \notin P /\ x # 0 /\ x - 1 \in Nat /\ x - 1 < x
  BY <1>2
<1>4. x - 1 \notin Rest
  BY <1>2, <1>3
<1>5. (x - 1) + 1 \in P
  BY <1>3, <1>4
<1>. QED
  BY <1>3, <1>5

Ordered(S) ==
  {list \in [1..Cardinality(S) -> S] : \A i, j \in DOMAIN list : i < j => list[i] < list[j]}

LEMMA OrderExists ==
  ASSUME NEW S \in SUBSET Slots
  PROVE  Ordered(S) # {}
<1>. DEFINE P == {n \in Nat : \A T \in SUBSET (1..n) : Ordered(T) # {}}
<1>1. 0 \in P
  <2>1. Cardinality({}) = 0 /\ 1..0 = {}
    BY FS_EmptySet
  <2>2. [x \in {} |-> x] \in Ordered({})
    BY <2>1 DEF Ordered
  <2>. QED
    BY <2>1, <2>2
<1>2. ASSUME NEW n \in Nat, n \in P
      PROVE  n + 1 \in P
  <2>. SUFFICES ASSUME NEW T \in SUBSET (1..(n + 1))
                PROVE  Ordered(T) # {}
    OBVIOUS
  <2>. DEFINE R == T \ {n + 1}
  <2>1. R \in SUBSET (1..n)
    OBVIOUS
  <2>2. PICK list : list \in Ordered(R)
    BY <1>2, <2>1
  <2>3. CASE n + 1 \notin T
    BY <2>1, <2>3, <1>2
  <2>4. CASE n + 1 \in T
    <3>1. IsFiniteSet(1..(n + 1)) /\ T \in SUBSET (1..(n + 1))
      BY FS_Interval
    <3>2. IsFiniteSet(T)
      BY <3>1, FS_Subset
    <3>3. Cardinality(R) = Cardinality(T) - 1 /\ IsFiniteSet(R)
      BY <2>4, <3>2, FS_RemoveElement
    <3>4. Cardinality(T) \in Nat /\ Cardinality(R) \in Nat
      BY <3>2, <3>3, FS_CardinalityType
    <3>. DEFINE c == Cardinality(R)
                more == [k \in 1..(c + 1) |-> IF k = c + 1 THEN n + 1 ELSE list[k]]
    <3>5. list \in [1..c -> R] /\ \A i, j \in 1..c : i < j => list[i] < list[j]
      BY <2>2 DEF Ordered
    <3>6. 1..Cardinality(T) = 1..(c + 1) /\ c \in Nat
      BY <3>3, <3>4
    <3>. HIDE DEF c
    <3>7. more \in [1..(c + 1) -> T]
      BY <2>4, <3>5, <3>6
    <3>8. ASSUME NEW i \in 1..(c + 1), NEW j \in 1..(c + 1), i < j
          PROVE  more[i] < more[j]
      <4>1. i \in 1..c /\ i # c + 1
        BY <3>6, <3>8
      <4>2. more[i] = list[i]
        BY <4>1
      <4>3. list[i] \in 1..n
        BY <2>1, <3>5, <4>1
      <4>4. CASE j = c + 1
        BY <4>2, <4>3, <4>4
      <4>5. CASE j # c + 1
        <5>1. j \in 1..c /\ more[j] = list[j]
          BY <3>6, <4>5
        <5>. QED
          BY <3>5, <3>8, <4>1, <4>2, <5>1
      <4>. QED
        BY <4>4, <4>5
    <3>9. more \in Ordered(T)
      BY <3>6, <3>7, <3>8 DEF Ordered
    <3>. QED
      BY <3>9
  <2>. QED
    BY <2>3, <2>4
<1>3. Nat \subseteq P
  <2>. HIDE DEF P
  <2>. QED
    BY <1>1, <1>2, SlotInduction
<1>4. NumSlots \in P
  BY <1>3, RemoteEngineAssumption
<1>. QED
  BY <1>4 DEF Slots

LEMMA Enumerated ==
  ASSUME NEW S \in SUBSET Slots
  PROVE  /\ InOrder(S) \in Seq(Slots) /\ Distinct(InOrder(S)) /\ Elems(InOrder(S)) = S
<1>. DEFINE list == InOrder(S)
            c == Cardinality(S)
<1>1. list \in Ordered(S)
  BY OrderExists DEF Ordered, InOrder
<1>2. list \in [1..c -> S] /\ \A i, j \in 1..c : i < j => list[i] < list[j]
  BY <1>1 DEF Ordered
<1>3. IsFiniteSet(S) /\ c \in Nat
  <2>1. IsFiniteSet(Slots)
    BY FS_Interval, RemoteEngineAssumption DEF Slots
  <2>. QED
    BY <2>1, FS_Subset, FS_CardinalityType
<1>. HIDE DEF list, c
<1>4. list \in Seq(Slots)
  BY <1>2, <1>3 
<1>5. ASSUME NEW i \in 1..c, NEW j \in 1..c, list[i] = list[j]
      PROVE  i = j
  <2>1. list[i] \in Nat /\ list[j] \in Nat
    <3>1. list[i] \in Slots /\ list[j] \in Slots
      BY <1>2
    <3>. QED
      BY <3>1, RemoteEngineAssumption DEF Slots
  <2>2. ~(i < j) /\ ~(j < i)
    BY <1>2, <1>5, <2>1
  <2>. QED
    BY <1>3, <2>2
<1>6. Distinct(list)
  BY <1>2, <1>5 DEF Distinct
<1>7. list \in Injection(1..c, S)
  BY <1>2, <1>5, Fun_IsInj
<1>8. IsFiniteSet(1..c) /\ Cardinality(1..c) = Cardinality(S)
  <2>1. /\ IsFiniteSet(1..c)
        /\ Cardinality(1..c) = IF 1 > c THEN 0 ELSE c - 1 + 1
    BY <1>3, FS_Interval
  <2>. QED
    BY <1>3, <2>1 DEF c
<1>9. list \in Surjection(1..c, S)
  BY <1>3, <1>7, <1>8, FS_Injection
<1>10. \A x \in S : \E i \in 1..c : list[i] = x
  BY <1>9 DEF Surjection
<1>11. Elems(list) = S
  BY <1>2, <1>10 DEF Elems
<1>. QED
  BY <1>4, <1>6, <1>11 DEF list

-----------------------------------------------------------------------------
(* The inductive invariant                                                 *)

Settled(m) == m \in done \cup excused

EngineTypes ==
  /\ kind \in Kinds
  /\ StoreTypeOK
  /\ body \in [Slots -> Messages] /\ present \subseteq Slots /\ idle \subseteq present
  /\ queue \in Seq(Slots)
  /\ holder \in [Slots -> Consumers \cup {Nobody}]
  /\ owner \in Consumers \cup {Nobody}
  /\ committed \in 0..NumSlots /\ position \in [Consumers -> 0..NumSlots]
  /\ cons \in [Consumers -> {"off", "on", "paused"}]
  /\ batch \in [Consumers -> SUBSET Slots]
  /\ work \in [Consumers -> SUBSET (Slots \X {"handling", "acking", "requeueing", "kept"})]
  /\ done \subseteq sent /\ \A m \in Messages : claim[m] = "completed" => m \in done

\* A slot that waits is in the queue once, and nobody holds it.
Queued ==
  /\ Distinct(queue)
  /\ \A i \in Elems(queue) : i \in present /\ holder[i] = Nobody
  /\ kind # "kafka" => \A i \in present : holder[i] = Nobody => i \in Elems(queue)
  /\ \A i \in Slots \ present : holder[i] = Nobody
  /\ \A i \in idle : kind = "redis" /\ holder[i] # Nobody

\* The record at offset j is settled or with the owner of the partition.
Covered(j) ==
  \/ Settled(body[j])
  \/ <<j, "handling">> \in work[owner]
  \/ <<j, "requeueing">> \in work[owner]

\* The log of Kafka: every record before a callback's is settled, so a commit
\* covers none that is not.
Log ==
  kind = "kafka" =>
    /\ \A i \in present : \A j \in 1..i : j \in present
    /\ \A i \in Slots : Referred(i) => i \in present
    /\ committed \in {0} \cup present
    /\ \A j \in 1..committed : Settled(body[j])
    /\ \A w \in Consumers : \A p \in work[w] :
         /\ \A j \in 1..(p[1] - 1) : Settled(body[j])
         /\ p[2] \in {"acking", "kept"} => Settled(body[p[1]])
    /\ owner # Nobody => /\ position[owner] \in {0} \cup present
                         /\ \A j \in 1..position[owner] : Covered(j)

\* A message that is not settled has a copy that nobody is acknowledging.
Survives ==
  /\ \A i \in Slots : i \in present \/ Referred(i) => body[i] \in sent
  /\ \A m \in sent : ~Settled(m) =>
       \E i \in present : body[i] = m /\ \A w \in Consumers : <<i, "acking">> \notin work[w]

\* One callback, its claim, and the effect it may still have.
OneEffect ==
  \A m \in Messages \ lapsed :
    /\ m \notin twice
    /\ \A w, v \in Consumers : \A p \in work[w], q \in work[v] :
         (body[p[1]] = m /\ body[q[1]] = m /\ {p[2], q[2]} \subseteq {"handling", "kept"})
           => w = v /\ p = q
    /\ InHand(m, {"handling", "kept"}) => claim[m] = "processing"
    /\ m \in done => claim[m] = "completed" \/ (claim[m] = "none" /\ Copies(m) = {})

RemoteInv == EngineTypes /\ Queued /\ Log /\ Survives /\ OneEffect

-----------------------------------------------------------------------------
(* What the conjuncts need of a step                                       *)

\* A copy that somebody has or may get.
Live(i) ==
  \/ Referred(i)
  \/ /\ i \in present
     /\ \/ kind # "kafka" \/ i > committed
        \/ owner # Nobody /\ i > position[owner]
        \/ \E j \in 1..i : Referred(j)

LEMMA CopiesAreLive == \A m : Copies(m) = {i \in Slots : body[i] = m /\ Live(i)}
BY DEF Copies, Live

LEMMA EffectKept ==
  ASSUME OneEffect, done' = done, twice' = twice, claim' = claim, lapsed \subseteq lapsed',
         \A w \in Consumers : \A p \in work'[w] : p[2] \in {"handling", "kept"} =>
           p \in work[w] /\ body'[p[1]] = body[p[1]],
         \A i \in Slots : Live(i)' =>
           \/ Live(i) /\ body'[i] = body[i]
           \/ body'[i] \notin done
           \/ \E k \in Slots : Live(k) /\ body[k] = body'[i]
  PROVE  OneEffect'
<1>. SUFFICES ASSUME NEW m \in Messages, m \notin lapsed'
              PROVE  /\ m \notin twice'
                     /\ \A w, v \in Consumers : \A p \in work'[w], q \in work'[v] :
                          (/\ body'[p[1]] = m /\ body'[q[1]] = m
                           /\ {p[2], q[2]} \subseteq {"handling", "kept"}) => w = v /\ p = q
                     /\ InHand(m, {"handling", "kept"})' => claim'[m] = "processing"
                     /\ m \in done' => \/ claim'[m] = "completed"
                                       \/ claim'[m] = "none" /\ Copies(m)' = {}
  BY DEF OneEffect
<1>1. /\ m \notin twice
      /\ \A w, v \in Consumers : \A p \in work[w], q \in work[v] :
           (/\ body[p[1]] = m /\ body[q[1]] = m
            /\ {p[2], q[2]} \subseteq {"handling", "kept"}) => w = v /\ p = q
      /\ InHand(m, {"handling", "kept"}) => claim[m] = "processing"
      /\ m \in done => claim[m] = "completed" \/ (claim[m] = "none" /\ Copies(m) = {})
  BY DEF OneEffect
<1>2. ASSUME NEW w \in Consumers, NEW v \in Consumers, NEW p \in work'[w], NEW q \in work'[v],
             body'[p[1]] = m, body'[q[1]] = m, {p[2], q[2]} \subseteq {"handling", "kept"}
      PROVE  w = v /\ p = q
  <2>1. p \in work[w] /\ q \in work[v] /\ body[p[1]] = m /\ body[q[1]] = m
    BY <1>2
  <2>. QED
    BY <1>1, <1>2, <2>1
<1>3. InHand(m, {"handling", "kept"})' => InHand(m, {"handling", "kept"})
  BY DEF InHand
<1>4. m \in done /\ Copies(m) = {} => Copies(m)' = {}
  BY DEF Copies, Live
<1>. QED
  BY <1>1, <1>2, <1>3, <1>4

LEMMA SurvivalKept ==
  ASSUME Survives, sent' = sent, done \subseteq done', excused \subseteq excused',
         \A i \in Slots : i \in present' \/ Referred(i)' =>
           (i \in present \/ Referred(i)) /\ body'[i] = body[i],
         \A i \in present : (\A w \in Consumers : <<i, "acking">> \notin work[w]) =>
           \/ body[i] \in done' \cup excused'
           \/ /\ i \in present' /\ body'[i] = body[i]
              /\ \A w \in Consumers : <<i, "acking">> \notin work'[w]
  PROVE  Survives'
<1>1. \A i \in Slots : i \in present' \/ Referred(i)' => body'[i] \in sent'
  BY DEF Survives
<1>2. ASSUME NEW m \in sent', ~Settled(m)'
      PROVE  \E i \in present' : /\ body'[i] = m
                                 /\ \A w \in Consumers : <<i, "acking">> \notin work'[w]
  <2>1. m \in sent /\ ~Settled(m)
    BY <1>2 DEF Settled
  <2>2. PICK i \in present : body[i] = m /\ \A w \in Consumers : <<i, "acking">> \notin work[w]
    BY <2>1 DEF Survives
  <2>. QED
    BY <1>2, <2>2 DEF Settled
<1>. QED
  BY <1>1, <1>2 DEF Survives

LEMMA NotKafka == ASSUME kind # "kafka", kind' = kind PROVE Log'
BY DEF Log

LEMMA QueueKept ==
  ASSUME Queued, UNCHANGED <<kind, present, queue, holder, idle>>
  PROVE  Queued'
BY DEF Queued

LEMMA Below == \A i \in Slots : \A j \in 1..i : j \in Slots
BY RemoteEngineAssumption DEF Slots

-----------------------------------------------------------------------------
(* Initial states, and steps of consumers and connections                  *)

LEMMA RemoteStarts == RemoteInit => RemoteInv
<1>. SUFFICES ASSUME RemoteInit PROVE RemoteInv
  OBVIOUS
<1>1. (CHOOSE m \in Messages : TRUE) \in Messages
  BY RemoteEngineAssumption
<1>2. \A i \in Slots : ~Referred(i)
  BY DEF RemoteInit, Referred
<1>3. EngineTypes
  BY <1>1, RemoteEngineAssumption DEF RemoteInit, EngineTypes, StoreInit, StoreTypeOK
<1>4. Queued /\ Log
  BY <1>2 DEF RemoteInit, Queued, Log, Elems, Distinct
<1>5. Survives
  BY <1>2 DEF RemoteInit, Survives
<1>6. OneEffect
  BY DEF RemoteInit, OneEffect, InHand
<1>. QED
  BY <1>3, <1>4, <1>5, <1>6 DEF RemoteInv

LEMMA ConsumerSwitched ==
  ASSUME RemoteInv, NEW w \in Consumers, Start(w) \/ Pause(w) \/ Resume(w)
  PROVE  RemoteInv'
<1>1. /\ UNCHANGED <<kind, serverVars, kafkaVars, batch, work, sent, doneVars, lapsed, excused, claim>>
      /\ cons' \in [Consumers -> {"off", "on", "paused"}]
  BY DEF RemoteInv, EngineTypes, Start, Pause, Resume
<1>2. EngineTypes'
  BY <1>1 DEF RemoteInv, EngineTypes, StoreTypeOK, serverVars, kafkaVars, doneVars
<1>3. Queued'
  BY <1>1, QueueKept DEF RemoteInv, serverVars
<1>4. Log'
  BY <1>1 DEF RemoteInv, Log, Referred, Settled, Covered, serverVars, kafkaVars, doneVars
<1>5. Survives'
  BY <1>1 DEF RemoteInv, Survives, Referred, Settled, serverVars, doneVars
<1>6. OneEffect'
  BY <1>1 DEF RemoteInv, OneEffect, InHand, Copies, Referred, serverVars, kafkaVars, doneVars
<1>. QED
  BY <1>2, <1>3, <1>4, <1>5, <1>6 DEF RemoteInv

LEMMA EntryIdle ==
  ASSUME RemoteInv, NEW i \in Slots, BecomesIdle(i)
  PROVE  RemoteInv'
<1>1. /\ UNCHANGED <<kind, body, present, queue, holder, kafkaVars, consumerVars, sent, doneVars,
                      lapsed, excused, claim>>
      /\ kind = "redis" /\ i \in present /\ holder[i] # Nobody /\ idle' = idle \cup {i}
  BY DEF BecomesIdle
<1>2. EngineTypes'
  BY <1>1 DEF RemoteInv, EngineTypes, StoreTypeOK, kafkaVars, consumerVars, doneVars
<1>3. Queued'
  BY <1>1 DEF RemoteInv, Queued
<1>4. Log'
  BY <1>1, NotKafka
<1>5. Survives'
  BY <1>1 DEF RemoteInv, Survives, Referred, Settled, consumerVars, doneVars
<1>6. OneEffect'
  BY <1>1 DEF RemoteInv, OneEffect, InHand, Copies, Referred, kafkaVars, consumerVars, doneVars
<1>. QED
  BY <1>2, <1>3, <1>4, <1>5, <1>6 DEF RemoteInv

\* w no longer has what it had, and its partition is free.
LEMMA HandsEmptied ==
  ASSUME RemoteInv, NEW w \in Consumers,
         UNCHANGED <<kind, body, present, committed, position, sent, doneVars, lapsed, excused,
                     claim>>,
         work' = [work EXCEPT ![w] = {}], batch' = [batch EXCEPT ![w] = {}],
         owner' = IF owner = w THEN Nobody ELSE owner
  PROVE  Log' /\ Survives' /\ OneEffect'
<1>1. /\ \A v \in Consumers : work'[v] \subseteq work[v] /\ batch'[v] \subseteq batch[v]
      /\ \A v \in Consumers : v # w => work'[v] = work[v]
      /\ UNCHANGED <<done, twice>>
  BY DEF RemoteInv, EngineTypes, doneVars
<1>2. \A i \in Slots : Referred(i)' => Referred(i)
  BY <1>1 DEF Referred
<1>3. Log'
  <2>1. \A j : owner' # Nobody => (Covered(j) => Covered(j)')
    BY <1>1 DEF Covered, Settled, RemoteInv, EngineTypes
  <2>2. owner' # Nobody => owner' = owner
    OBVIOUS
  <2>. QED
    BY <1>1, <1>2, <2>1, <2>2 DEF RemoteInv, Log, Settled
<1>4. Survives'
  BY <1>1, <1>2, SurvivalKept DEF RemoteInv
<1>5. OneEffect'
  <2>1. \A i \in Slots : Live(i)' => Live(i)
    BY <1>2, Below DEF Live
  <2>. QED
    BY <1>1, <2>1, EffectKept DEF RemoteInv
<1>. QED
  BY <1>3, <1>4, <1>5

\* The server takes back what w held.
LEMMA ChannelTaken ==
  ASSUME RemoteInv, NEW w \in Consumers, kind = "rabbitmq", ChannelClosed(w),
         UNCHANGED <<kind, present, idle>>
  PROVE  /\ Queued' /\ queue' \in Seq(Slots) /\ holder' \in [Slots -> Consumers \cup {Nobody}]
<1>1. /\ Unacked(w) \in SUBSET Slots /\ Unacked(w) \cap Elems(queue) = {}
      /\ queue \in Seq(Slots) /\ Distinct(queue)
  BY RemoteEngineAssumption DEF RemoteInv, EngineTypes, Queued, Unacked
<1>2. /\ InOrder(Unacked(w)) \in Seq(Slots) /\ Distinct(InOrder(Unacked(w)))
      /\ Elems(InOrder(Unacked(w))) = Unacked(w)
  BY <1>1, Enumerated
<1>3. /\ queue' \in Seq(Slots) /\ Distinct(queue')
      /\ Elems(queue') = Unacked(w) \cup Elems(queue)
  <2>1. queue' = InOrder(Unacked(w)) \o queue
    BY DEF ChannelClosed
  <2>. QED
    BY <1>1, <1>2, <2>1, Joined
<1>4. /\ holder' = [i \in Slots |-> IF i \in Unacked(w) THEN Nobody ELSE holder[i]]
      /\ holder' \in [Slots -> Consumers \cup {Nobody}]
  BY DEF ChannelClosed, RemoteInv, EngineTypes
<1>5. \A i \in Unacked(w) : i \in present
  BY DEF Unacked
<1>6. idle = {}
  BY DEF RemoteInv, Queued
<1>7. \A i \in Elems(queue) \cup present : i \in Slots
  BY DEF RemoteInv, EngineTypes, Queued
<1>8. Queued'
  BY <1>3, <1>4, <1>5, <1>6, <1>7 DEF RemoteInv, Queued
<1>. QED
  BY <1>3, <1>4, <1>8

LEMMA ConsumerStops ==
  ASSUME RemoteInv, NEW w \in Consumers, Stop(w)
  PROVE  RemoteInv'
<1>1. /\ UNCHANGED <<kind, body, present, idle, committed, position, sent, doneVars, lapsed,
                      excused, claim>>
      /\ work' = [work EXCEPT ![w] = {}] /\ batch' = [batch EXCEPT ![w] = {}]
      /\ owner' = IF owner = w THEN Nobody ELSE owner
      /\ cons' = [cons EXCEPT ![w] = "off"]
      /\ IF kind = "rabbitmq" THEN ChannelClosed(w) ELSE UNCHANGED <<queue, holder>>
  BY DEF Stop
<1>2. /\ Queued' /\ queue' \in Seq(Slots) /\ holder' \in [Slots -> Consumers \cup {Nobody}]
  <2>1. CASE kind = "rabbitmq"
    BY <1>1, <2>1, ChannelTaken
  <2>2. CASE kind # "rabbitmq"
    BY <1>1, <2>2, QueueKept DEF RemoteInv, EngineTypes
  <2>. QED
    BY <2>1, <2>2
<1>3. EngineTypes'
  BY <1>1, <1>2 DEF RemoteInv, EngineTypes, StoreTypeOK, doneVars
<1>. QED
  BY <1>1, <1>2, <1>3, HandsEmptied DEF RemoteInv

LEMMA ChannelLost ==
  ASSUME RemoteInv, NEW w \in Consumers, ConnectionLost(w)
  PROVE  RemoteInv'
<1>1. /\ UNCHANGED <<kind, body, present, idle, kafkaVars, batch, work, sent, doneVars, lapsed,
                      excused, claim>>
      /\ kind = "rabbitmq" /\ cons' = [cons EXCEPT ![w] = "off"] /\ ChannelClosed(w)
  BY DEF ConnectionLost
<1>2. /\ Queued' /\ queue' \in Seq(Slots) /\ holder' \in [Slots -> Consumers \cup {Nobody}]
  BY <1>1, ChannelTaken
<1>3. EngineTypes'
  BY <1>1, <1>2 DEF RemoteInv, EngineTypes, StoreTypeOK, kafkaVars, doneVars
<1>4. Log'
  BY <1>1, NotKafka
<1>5. Survives'
  BY <1>1 DEF RemoteInv, Survives, Referred, Settled, doneVars
<1>6. OneEffect'
  BY <1>1 DEF RemoteInv, OneEffect, InHand, Copies, Referred, kafkaVars, doneVars
<1>. QED
  BY <1>2, <1>3, <1>4, <1>5, <1>6 DEF RemoteInv

LEMMA CallbackRaises ==
  ASSUME RemoteInv, NEW w \in Consumers, NEW i \in Slots, Raise(w, i)
  PROVE  RemoteInv'
<1>1. UNCHANGED <<kind, serverVars, committed, position, sent, doneVars, lapsed, claim>>
  BY DEF Raise
<1>2. Queued'
  BY <1>1, QueueKept DEF RemoteInv, serverVars
<1>3. CASE kind = "rabbitmq"
  <2>1. /\ work' = [work EXCEPT ![w] = {p \in @ : p[1] # i}]
        /\ excused' = excused \cup {body[i]} /\ UNCHANGED <<cons, batch, owner>>
    BY <1>3 DEF Raise
  <2>2. \A v \in Consumers : work'[v] \subseteq work[v]
    BY <2>1 DEF RemoteInv, EngineTypes
  <2>3. EngineTypes'
    BY <1>1, <2>1 DEF RemoteInv, EngineTypes, StoreTypeOK, serverVars, doneVars
  <2>4. Log'
    BY <1>1, <1>3, NotKafka
  <2>5. \A j \in Slots : Referred(j)' => Referred(j)
    BY <2>1, <2>2 DEF Referred
  <2>6. Survives'
    BY <1>1, <2>1, <2>2, <2>5, SurvivalKept DEF RemoteInv, serverVars, doneVars
  <2>7. \A j \in Slots : Live(j)' => Live(j)
    BY <1>1, <1>3, <2>5 DEF Live, serverVars
  <2>8. OneEffect'
    BY <1>1, <2>2, <2>7, EffectKept DEF RemoteInv, serverVars, doneVars
  <2>. QED
    BY <1>2, <2>3, <2>4, <2>6, <2>8 DEF RemoteInv
<1>4. CASE kind # "rabbitmq"
  <2>1. /\ work' = [work EXCEPT ![w] = {}] /\ batch' = [batch EXCEPT ![w] = {}]
        /\ owner' = IF owner = w THEN Nobody ELSE owner
        /\ cons' = [cons EXCEPT ![w] = "off"] /\ UNCHANGED excused
    BY <1>4 DEF Raise
  <2>2. EngineTypes'
    BY <1>1, <2>1 DEF RemoteInv, EngineTypes, StoreTypeOK, serverVars, doneVars
  <2>. QED
    BY <1>1, <1>2, <2>1, <2>2, HandsEmptied DEF RemoteInv, serverVars
<1>. QED
  BY <1>3, <1>4

LEMMA PartitionAssigned ==
  ASSUME RemoteInv, NEW w \in Consumers, Assign(w)
  PROVE  RemoteInv'
<1>1. /\ UNCHANGED <<kind, serverVars, committed, consumerVars, sent, doneVars, lapsed, excused,
                      claim>>
      /\ kind = "kafka" /\ owner' = w /\ position' = [position EXCEPT ![w] = committed]
      /\ position'[w] = committed
  BY DEF Assign, RemoteInv, EngineTypes
<1>2. EngineTypes'
  BY <1>1 DEF RemoteInv, EngineTypes, StoreTypeOK, serverVars, consumerVars, doneVars
<1>3. Queued'
  BY <1>1, QueueKept DEF RemoteInv, serverVars
<1>4. \A i : (Referred(i)' <=> Referred(i))
  BY <1>1 DEF Referred, consumerVars
<1>5. Log'
  BY <1>1, <1>4 DEF RemoteInv, Log, Settled, Covered, serverVars, consumerVars, doneVars
<1>6. Survives'
  BY <1>1, <1>4 DEF RemoteInv, Survives, Settled, serverVars, consumerVars, doneVars
<1>7. OneEffect'
  <2>1. \A i \in Slots : Live(i)' => Live(i)
    BY <1>1, <1>4 DEF Live, serverVars
  <2>. QED
    BY <1>1, <2>1, EffectKept DEF RemoteInv, serverVars, consumerVars, doneVars
<1>. QED
  BY <1>2, <1>3, <1>5, <1>6, <1>7 DEF RemoteInv

-----------------------------------------------------------------------------
(* Copies are added                                                        *)

LEMMA FirstSlot ==
  ASSUME NEW S \in SUBSET Slots, S # {}
  PROVE  \E x \in S : \A y \in S : x <= y
<1>. DEFINE Less == {ss \in Nat \X Nat : ss[1] < ss[2]}
<1>1. IsWellFoundedOn(Less, Nat)
  BY Zenon, NatLessThanWellFounded DEF OpToRel
<1>2. S \subseteq Nat
  BY RemoteEngineAssumption DEF Slots
<1>3. PICK x \in S : \A y \in S : <<y, x>> \notin Less
  BY <1>1, <1>2, WFMin, Zenon
<1>4. ASSUME NEW y \in S PROVE x <= y
  <2>1. <<y, x>> \notin Less /\ x \in Nat /\ y \in Nat
    BY <1>2, <1>3
  <2>. QED
    BY <2>1
<1>. QED
  BY <1>4

NewCopy(j, m, T) ==
  /\ j \in Slots /\ j \notin present /\ ~Referred(j)
  /\ body' = [body EXCEPT ![j] = m] /\ present' = (present \ T) \cup {j}
  /\ kind = "kafka" => \A k \in 1..(j - 1) : k \in present

LEMMA CopyAppended ==
  ASSUME RemoteInv, NEW m, NEW T \in SUBSET present,
         T = {} \/ (kind = "redis" /\ \E t : T = {t}),
         AppendCopy(m, T), kind' = kind, idle' = idle \ T,
         holder' = [i \in Slots |-> IF i \in T THEN Nobody ELSE holder[i]]
  PROVE  /\ \E j : NewCopy(j, m, T)
         /\ Queued' /\ queue' \in Seq(Slots) /\ holder' \in [Slots -> Consumers \cup {Nobody}]
<1>. DEFINE j == CHOOSE x \in Unused : \A y \in Unused : x <= y
<1>1. /\ Unused # {} /\ body' = [body EXCEPT ![j] = m] /\ present' = (present \ T) \cup {j}
      /\ queue' = IF kind = "kafka" THEN queue ELSE Append(Without(queue, T), j)
  BY DEF AppendCopy
<1>2. Unused \in SUBSET Slots
  BY DEF Unused
<1>3. j \in Unused /\ \A y \in Unused : j <= y
  BY <1>1, <1>2, FirstSlot
<1>. HIDE DEF j
<1>4. j \in Slots /\ j \notin present /\ ~Referred(j)
  BY <1>3 DEF Unused
<1>5. kind = "kafka" => \A k \in 1..(j - 1) : k \in present
  <2>. SUFFICES ASSUME kind = "kafka", NEW k \in 1..(j - 1) PROVE k \in present
    OBVIOUS
  <2>1. k \in Slots /\ ~(j <= k)
    BY <1>4, RemoteEngineAssumption DEF Slots
  <2>2. k \in present \/ Referred(k)
    BY <1>3, <2>1 DEF Unused
  <2>. QED
    BY <2>1, <2>2 DEF RemoteInv, Log
<1>6. NewCopy(j, m, T)
  BY <1>1, <1>4, <1>5 DEF NewCopy
<1>7. /\ Without(queue, T) \in Seq(Slots) /\ Distinct(Without(queue, T))
      /\ Elems(Without(queue, T)) = Elems(queue) \ T
  <2>1. queue \in Seq(Slots) /\ Distinct(queue)
    BY DEF RemoteInv, EngineTypes, Queued
  <2>2. CASE T = {}
    BY <2>1, <2>2, NothingTakenOut
  <2>3. CASE \E t : T = {t}
    BY <2>1, <2>3, TakenOut
  <2>. QED
    BY <2>2, <2>3
<1>8. j \notin Elems(queue) /\ holder[j] = Nobody
  BY <1>4 DEF RemoteInv, Queued
<1>9. /\ queue' \in Seq(Slots) /\ Distinct(queue')
      /\ Elems(queue') = IF kind = "kafka" THEN Elems(queue) ELSE (Elems(queue) \ T) \cup {j}
  <2>1. CASE kind = "kafka"
    BY <1>1, <2>1 DEF RemoteInv, EngineTypes, Queued
  <2>2. CASE kind # "kafka"
    <3>1. queue' = Append(Without(queue, T), j)
      BY <1>1, <2>2
    <3>. QED
      BY <1>4, <1>7, <1>8, <2>2, <3>1, Appended
  <2>. QED
    BY <2>1, <2>2
<1>10. holder' \in [Slots -> Consumers \cup {Nobody}]
  BY DEF RemoteInv, EngineTypes
<1>11. kind = "kafka" => T = {}
  OBVIOUS
<1>12. \A i \in Elems(queue) \cup present \cup idle : i \in Slots
  BY DEF RemoteInv, EngineTypes, Queued
<1>13. Queued'
  BY <1>1, <1>4, <1>8, <1>9, <1>11, <1>12 DEF RemoteInv, Queued
<1>. QED
  BY <1>6, <1>9, <1>10, <1>13

LEMMA CopyKept ==
  ASSUME RemoteInv, NEW m \in Messages, NEW T \in SUBSET present, NEW j, NewCopy(j, m, T),
         kind = "kafka" => T = {} /\ work' = work,
         UNCHANGED <<kind, kafkaVars, batch, doneVars, claim, lapsed>>,
         sent' = sent \cup {m}, excused' = excused \cup {body[t] : t \in T},
         \A w \in Consumers : \A p \in work'[w] :
           p \in work[w] \/ (p[2] = "acking" /\ <<p[1], "requeueing">> \in work[w]
                               /\ body[p[1]] = m),
         m \notin done \/ \E k \in Slots : Live(k) /\ body[k] = m
  PROVE  Log' /\ Survives' /\ OneEffect'
<1>1. /\ j \in Slots /\ j \notin present /\ ~Referred(j)
      /\ present' = (present \ T) \cup {j}
      /\ \A k \in 1..(j - 1) : kind = "kafka" => k \in present
      /\ body'[j] = m /\ \A i \in Slots : i # j => body'[i] = body[i]
  BY DEF NewCopy, RemoteInv, EngineTypes
<1>2. \A i : Referred(i)' => Referred(i)
  BY DEF Referred
<1>3. present \subseteq Slots
  BY DEF RemoteInv, EngineTypes
<1>4. Log'
  <2>. SUFFICES ASSUME kind = "kafka" PROVE Log'
    BY NotKafka
  <2>1. T = {} /\ work' = work /\ present' = present \cup {j}
    BY <1>1
  <2>2. \A i \in present' : \A k \in 1..i : k \in present'
    <3>1. \A k \in 1..j : k \in 1..(j - 1) \/ k = j
      BY <1>1, RemoteEngineAssumption DEF Slots
    <3>. QED
      BY <1>1, <2>1, <3>1 DEF RemoteInv, Log
  <2>3. \A i \in present : body'[i] = body[i]
    BY <1>1, <1>3
  <2>4. \A i \in present : \A k \in 1..i : k \in present
    BY DEF RemoteInv, Log
  <2>5. \A k \in 1..committed : Settled(body[k])'
    <3>1. \A k \in 1..committed : k \in present /\ Settled(body[k])
      BY <2>4 DEF RemoteInv, Log
    <3>. QED
      BY <2>3, <3>1 DEF Settled, doneVars
  <2>6. ASSUME NEW w \in Consumers, NEW p \in work[w]
        PROVE  /\ \A k \in 1..(p[1] - 1) : Settled(body[k])'
               /\ p[2] \in {"acking", "kept"} => Settled(body[p[1]])'
    <3>1. p[1] \in Slots /\ p[1] \in present
      BY DEF RemoteInv, EngineTypes, Log, Referred
    <3>2. \A k \in 1..(p[1] - 1) : k \in 1..p[1]
      BY <3>1, RemoteEngineAssumption DEF Slots
    <3>3. \A k \in 1..(p[1] - 1) : k \in present /\ Settled(body[k])
      BY <2>4, <3>1, <3>2 DEF RemoteInv, Log
    <3>4. p[2] \in {"acking", "kept"} => Settled(body[p[1]])
      BY DEF RemoteInv, Log
    <3>. QED
      BY <2>3, <3>1, <3>3, <3>4 DEF Settled, doneVars
  <2>7. ASSUME owner # Nobody
        PROVE  /\ position[owner] \in {0} \cup present'
               /\ \A k \in 1..position[owner] : Covered(k)'
    <3>1. position[owner] \in {0} \cup present
      BY <2>7 DEF RemoteInv, Log
    <3>2. \A k \in 1..position[owner] : k \in present /\ Covered(k)
      BY <2>4, <2>7, <3>1 DEF RemoteInv, Log
    <3>. QED
      BY <2>1, <2>3, <3>1, <3>2 DEF Covered, Settled, doneVars, kafkaVars
  <2>8. \A i \in Slots : Referred(i)' => i \in present'
    BY <1>2, <2>1 DEF RemoteInv, Log
  <2>. QED
    BY <2>1, <2>2, <2>5, <2>6, <2>7, <2>8 DEF RemoteInv, Log, kafkaVars
<1>5. Survives'
  <2>1. \A i \in Slots : i \in present' \/ Referred(i)' => body'[i] \in sent'
    BY <1>1, <1>2 DEF RemoteInv, Survives
  <2>2. \A w \in Consumers : <<j, "acking">> \notin work'[w]
    BY <1>1 DEF Referred
  <2>3. ASSUME NEW x \in sent', ~Settled(x)', x # m
        PROVE  \E i \in present' : /\ body'[i] = x
                                   /\ \A w \in Consumers : <<i, "acking">> \notin work'[w]
    <3>1. x \in sent /\ ~Settled(x)
      BY <2>3 DEF Settled, doneVars
    <3>2. PICK i \in present : body[i] = x /\ \A w \in Consumers : <<i, "acking">> \notin work[w]
      BY <3>1 DEF RemoteInv, Survives
    <3>3. i \notin T
      BY <2>3, <3>2 DEF Settled
    <3>4. i \in present' /\ body'[i] = x
      BY <1>1, <1>3, <3>2, <3>3
    <3>5. \A w \in Consumers : <<i, "acking">> \notin work'[w]
      BY <2>3, <3>2
    <3>. QED
      BY <3>4, <3>5
  <2>. QED
    BY <1>1, <2>1, <2>2, <2>3 DEF Survives
<1>6. OneEffect'
  <2>1. \A w \in Consumers : \A p \in work'[w] : p[2] \in {"handling", "kept"} =>
          p \in work[w] /\ body'[p[1]] = body[p[1]]
    <3>1. \A w \in Consumers : \A p \in work[w] : p[1] \in Slots /\ p[1] # j
      BY <1>1 DEF RemoteInv, EngineTypes, Referred
    <3>. QED
      BY <1>1, <3>1
  <2>2. \A i \in Slots : i # j /\ Live(i)' => Live(i) /\ body'[i] = body[i]
    BY <1>1, <1>2, Below DEF Live, kafkaVars
  <2>. QED
    BY <1>1, <2>1, <2>2, EffectKept DEF RemoteInv, doneVars
<1>. QED
  BY <1>4, <1>5, <1>6

LEMMA MessagePublished ==
  ASSUME RemoteInv, NEW m \in Messages, Publish(m)
  PROVE  RemoteInv'
<1>1. /\ m \notin sent /\ sent' = sent \cup {m}
      /\ UNCHANGED <<kind, kafkaVars, consumerVars, doneVars, lapsed, claim>>
  BY DEF Publish
<1>2. PICK T \in {{}} \cup {{i} : i \in present} :
        /\ AppendCopy(m, T)
        /\ holder' = [i \in Slots |-> IF i \in T THEN Nobody ELSE holder[i]]
        /\ idle' = idle \ T /\ excused' = excused \cup {body[i] : i \in T}
        /\ T # {} => kind = "redis"
  BY DEF Publish
<1>3. T \in SUBSET present /\ (T = {} \/ (kind = "redis" /\ \E t : T = {t}))
  BY <1>2
<1>4. PICK j : /\ NewCopy(j, m, T)
               /\ Queued' /\ queue' \in Seq(Slots) /\ holder' \in [Slots -> Consumers \cup {Nobody}]
  BY <1>1, <1>2, <1>3, CopyAppended
<1>5. Log' /\ Survives' /\ OneEffect'
  <2>1. m \notin done
    BY <1>1 DEF RemoteInv, EngineTypes
  <2>2. UNCHANGED <<work, batch>>
    BY <1>1 DEF consumerVars
  <2>3. kind = "kafka" => T = {}
    BY <1>3
  <2>. QED
    BY <1>1, <1>2, <1>3, <1>4, <2>1, <2>2, <2>3, CopyKept
<1>6. EngineTypes'
  <2>1. body' \in [Slots -> Messages] /\ present' \subseteq Slots /\ idle' \subseteq present'
    BY <1>2, <1>4 DEF RemoteInv, EngineTypes, NewCopy
  <2>. QED
    BY <1>1, <1>4, <2>1 DEF RemoteInv, EngineTypes, StoreTypeOK, kafkaVars, consumerVars, doneVars
<1>. QED
  BY <1>4, <1>5, <1>6 DEF RemoteInv

\* ReAdd and Defer: a replacement, and the original is to be acknowledged.
LEMMA CopyReplaced ==
  ASSUME RemoteInv, NEW w \in Consumers, NEW i \in Slots, ReAdd(w, i) \/ Defer(w, i)
  PROVE  RemoteInv'
<1>1. /\ kind # "kafka" /\ <<i, "requeueing">> \in work[w] /\ AppendCopy(body[i], {})
      /\ work' = [work EXCEPT ![w] = (@ \ {<<i, "requeueing">>}) \cup {<<i, "acking">>}]
      /\ UNCHANGED <<kind, holder, idle, kafkaVars, cons, batch, sent, doneVars, lapsed, excused,
                      claim>>
  BY DEF ReAdd, Defer, Move
<1>2. holder' = [k \in Slots |-> IF k \in {} THEN Nobody ELSE holder[k]] /\ idle' = idle \ {}
  BY <1>1 DEF RemoteInv, EngineTypes
<1>3. PICK j : /\ NewCopy(j, body[i], {})
               /\ Queued' /\ queue' \in Seq(Slots) /\ holder' \in [Slots -> Consumers \cup {Nobody}]
  BY <1>1, <1>2, CopyAppended
<1>4. body[i] \in Messages /\ body[i] \in sent /\ Live(i)
  BY <1>1 DEF RemoteInv, EngineTypes, Survives, Live, Referred
<1>5. Log' /\ Survives' /\ OneEffect'
  <2>1. \A v \in Consumers : \A p \in work'[v] :
          p \in work[v] \/ (p[2] = "acking" /\ <<p[1], "requeueing">> \in work[v]
                              /\ body[p[1]] = body[i])
    <3>1. /\ work'[w] = (work[w] \ {<<i, "requeueing">>}) \cup {<<i, "acking">>}
          /\ \A v \in Consumers : v # w => work'[v] = work[v]
      BY <1>1 DEF RemoteInv, EngineTypes
    <3>. QED
      BY <1>1, <3>1
  <2>2. sent' = sent \cup {body[i]} /\ excused' = excused \cup {body[t] : t \in {}}
    BY <1>1, <1>4
  <2>. QED
    BY <1>1, <1>3, <1>4, <2>1, <2>2, CopyKept
<1>6. EngineTypes'
  <2>1. body' \in [Slots -> Messages] /\ present' \subseteq Slots /\ idle' \subseteq present'
    BY <1>1, <1>3, <1>4 DEF RemoteInv, EngineTypes, NewCopy
  <2>. QED
    BY <1>1, <1>3, <2>1 DEF RemoteInv, EngineTypes, StoreTypeOK, kafkaVars, doneVars
<1>. QED
  BY <1>3, <1>5, <1>6 DEF RemoteInv

-----------------------------------------------------------------------------
(* Entries are taken                                                       *)

\* ReadNew and Deliver: the first of the queue is held by w from now on.
LEMMA FirstHeld ==
  ASSUME RemoteInv, NEW w \in Consumers, kind # "kafka", queue # <<>>, queue' = Tail(queue),
         holder' = [holder EXCEPT ![Head(queue)] = w], UNCHANGED <<kind, present, idle>>
  PROVE  /\ Queued' /\ queue' \in Seq(Slots) /\ holder' \in [Slots -> Consumers \cup {Nobody}]
         /\ Head(queue) \in present /\ Head(queue) \in Slots
<1>1. queue \in Seq(Slots) /\ Distinct(queue)
  BY DEF RemoteInv, EngineTypes, Queued
<1>2. /\ Head(queue) \in Slots /\ Head(queue) \in Elems(queue)
      /\ queue' \in Seq(Slots) /\ Distinct(queue') /\ Elems(queue') = Elems(queue) \ {Head(queue)}
  BY <1>1, HeadTaken
<1>3. /\ holder' \in [Slots -> Consumers \cup {Nobody}]
      /\ holder'[Head(queue)] = w /\ \A i \in Slots : i # Head(queue) => holder'[i] = holder[i]
  BY <1>2 DEF RemoteInv, EngineTypes
<1>4. Head(queue) \in present /\ w # Nobody
  BY <1>2, RemoteEngineAssumption DEF RemoteInv, Queued
<1>5. \A i \in Elems(queue) \cup present \cup idle : i \in Slots
  BY DEF RemoteInv, EngineTypes, Queued
<1>6. Queued'
  BY <1>2, <1>3, <1>4, <1>5 DEF RemoteInv, Queued
<1>. QED
  BY <1>2, <1>3, <1>4, <1>6

\* What begins to be called back is handled under a claim of its own, settled
\* already, or put back.
LEMMA CallbackBegins ==
  ASSUME RemoteInv, NEW w \in Consumers, NEW i \in Slots, Begin(w, i), Live(i),
         UNCHANGED <<body, present, sent, doneVars, lapsed, excused>>,
         \A k \in Slots : Referred(k)' => Referred(k) \/ k = i,
         \A k \in Slots : Live(k)' => Live(k)
  PROVE  /\ claim' \in [Messages -> {"none", "processing", "completed"}]
         /\ \A m \in Messages : claim'[m] = "completed" => claim[m] = "completed"
         /\ \E step \in {"handling", "acking", "requeueing"} :
              /\ work' = [work EXCEPT ![w] = @ \cup {<<i, step>>}]
              /\ step = "acking" => body[i] \in done
         /\ Survives' /\ OneEffect'
<1>. DEFINE m == body[i]
<1>1. PICK step \in {"handling", "acking", "requeueing"} :
        /\ work' = [work EXCEPT ![w] = @ \cup {<<i, step>>}]
        /\ \/ step = "handling" /\ Claim(m)
           \/ /\ step # "handling" /\ UNCHANGED claim
              /\ step = "acking" => claim[m] = "completed"
  BY DEF Begin, Overflow
<1>2. m \in Messages /\ claim \in [Messages -> {"none", "processing", "completed"}]
  BY DEF RemoteInv, EngineTypes, StoreTypeOK
<1>3. /\ work'[w] = work[w] \cup {<<i, step>>}
      /\ \A v \in Consumers : v # w => work'[v] = work[v]
      /\ UNCHANGED <<done, twice>>
  BY <1>1 DEF RemoteInv, EngineTypes, doneVars
<1>4. step = "acking" => m \in done
  BY <1>1, <1>2 DEF RemoteInv, EngineTypes
<1>5. Survives'
  <2>1. i \in present \/ Referred(i)
    BY DEF Live
  <2>2. \A k \in Slots : k \in present' \/ Referred(k)' =>
          (k \in present \/ Referred(k)) /\ body'[k] = body[k]
    BY <2>1
  <2>3. ASSUME NEW k \in present, \A v \in Consumers : <<k, "acking">> \notin work[v]
        PROVE  \/ body[k] \in done' \cup excused'
               \/ /\ k \in present' /\ body'[k] = body[k]
                  /\ \A v \in Consumers : <<k, "acking">> \notin work'[v]
    BY <1>3, <1>4, <2>3
  <2>. QED
    BY <1>3, <2>2, <2>3, SurvivalKept DEF RemoteInv
<1>6. CASE step # "handling"
  <2>1. \A v \in Consumers : \A p \in work'[v] : p[2] \in {"handling", "kept"} =>
          p \in work[v] /\ body'[p[1]] = body[p[1]]
    BY <1>1, <1>3, <1>6
  <2>2. OneEffect'
    BY <1>1, <1>3, <1>6, <2>1, EffectKept DEF RemoteInv
  <2>. QED
    BY <1>1, <1>2, <1>4, <1>5, <1>6, <2>2
<1>7. CASE step = "handling"
  <2>1. claim[m] = "none" /\ claim' = [claim EXCEPT ![m] = "processing"]
    BY <1>1, <1>7 DEF Claim, Claimable
  <2>2. \A n \in Messages : claim'[n] = IF n = m THEN "processing" ELSE claim[n]
    BY <1>2, <2>1
  <2>3. ASSUME NEW n \in Messages, n \notin lapsed'
        PROVE  /\ n \notin twice'
               /\ \A u, v \in Consumers : \A p \in work'[u], q \in work'[v] :
                    (/\ body'[p[1]] = n /\ body'[q[1]] = n
                     /\ {p[2], q[2]} \subseteq {"handling", "kept"}) => u = v /\ p = q
               /\ InHand(n, {"handling", "kept"})' => claim'[n] = "processing"
               /\ n \in done' => \/ claim'[n] = "completed"
                                 \/ claim'[n] = "none" /\ Copies(n)' = {}
    <3>1. /\ n \notin twice
          /\ \A u, v \in Consumers : \A p \in work[u], q \in work[v] :
               (/\ body[p[1]] = n /\ body[q[1]] = n
                /\ {p[2], q[2]} \subseteq {"handling", "kept"}) => u = v /\ p = q
          /\ InHand(n, {"handling", "kept"}) => claim[n] = "processing"
          /\ n \in done => claim[n] = "completed" \/ (claim[n] = "none" /\ Copies(n) = {})
      BY <2>3 DEF RemoteInv, OneEffect
    <3>2. CASE n # m
      <4>1. \A v \in Consumers : \A p \in work'[v] : body[p[1]] = n => p \in work[v]
        BY <1>3, <3>2
      <4>2. InHand(n, {"handling", "kept"})' => InHand(n, {"handling", "kept"})
        BY <4>1 DEF InHand
      <4>3. Copies(n) = {} => Copies(n)' = {}
        BY DEF Copies, Live
      <4>. QED
        BY <1>3, <2>2, <3>1, <3>2, <4>1, <4>2, <4>3
    <3>3. CASE n = m
      <4>1. n \notin done
        BY <2>1, <3>1, <3>3, CopiesAreLive
      <4>2. ~InHand(n, {"handling", "kept"})
        BY <2>1, <3>1, <3>3
      <4>3. \A v \in Consumers : \A p \in work'[v] :
              body[p[1]] = n /\ p[2] \in {"handling", "kept"} => v = w /\ p = <<i, step>>
        BY <1>3, <4>2 DEF InHand
      <4>. QED
        BY <1>3, <2>2, <3>1, <3>3, <4>1, <4>3
    <3>. QED
      BY <3>2, <3>3
  <2>4. OneEffect'
    BY <2>3 DEF OneEffect
  <2>. QED
    BY <1>1, <1>2, <1>4, <1>5, <2>1, <2>2, <2>4
<1>. QED
  BY <1>6, <1>7

LEMMA NewRead ==
  ASSUME RemoteInv, NEW w \in Consumers, ReadNew(w)
  PROVE  RemoteInv'
<1>1. /\ kind = "redis" /\ queue # <<>> /\ queue' = Tail(queue)
      /\ holder' = [holder EXCEPT ![Head(queue)] = w]
      /\ batch' = [batch EXCEPT ![w] = {Head(queue)}]
      /\ UNCHANGED <<kind, body, present, idle, kafkaVars, cons, work, sent, doneVars, lapsed,
                      excused, claim>>
  BY DEF ReadNew
<1>2. /\ Queued' /\ queue' \in Seq(Slots) /\ holder' \in [Slots -> Consumers \cup {Nobody}]
      /\ Head(queue) \in present /\ Head(queue) \in Slots
  BY <1>1, FirstHeld
<1>3. EngineTypes'
  BY <1>1, <1>2 DEF RemoteInv, EngineTypes, StoreTypeOK, kafkaVars, doneVars
<1>4. Log'
  BY <1>1, NotKafka
<1>5. \A i : Referred(i)' => Referred(i) \/ i \in present
  BY <1>1, <1>2 DEF Referred, RemoteInv, EngineTypes
<1>6. Survives'
  BY <1>1, <1>5, SurvivalKept DEF RemoteInv, doneVars
<1>7. \A i \in Slots : Live(i)' => Live(i)
  BY <1>1, <1>5 DEF Live
<1>8. OneEffect'
  BY <1>1, <1>7, EffectKept DEF RemoteInv, doneVars
<1>. QED
  BY <1>2, <1>3, <1>4, <1>6, <1>8 DEF RemoteInv

LEMMA EntriesReclaimed ==
  ASSUME RemoteInv, NEW w \in Consumers, Reclaim(w)
  PROVE  RemoteInv'
<1>1. PICK S \in SUBSET idle :
        /\ holder' = [i \in Slots |-> IF i \in S THEN w ELSE holder[i]]
        /\ idle' = idle \ S /\ batch' = [batch EXCEPT ![w] = S]
  BY DEF Reclaim, Reclaimable
<1>2. /\ kind = "redis"
      /\ UNCHANGED <<kind, body, present, queue, kafkaVars, cons, work, sent, doneVars, lapsed,
                      excused, claim>>
  BY DEF Reclaim
<1>3. S \subseteq present /\ present \subseteq Slots /\ w # Nobody
  BY RemoteEngineAssumption DEF RemoteInv, EngineTypes
<1>4. EngineTypes'
  BY <1>1, <1>2, <1>3 DEF RemoteInv, EngineTypes, StoreTypeOK, kafkaVars, doneVars
<1>5. Queued'
  BY <1>1, <1>2, <1>3 DEF RemoteInv, EngineTypes, Queued
<1>6. Log'
  BY <1>2, NotKafka
<1>7. \A i : Referred(i)' => Referred(i) \/ i \in present
  BY <1>1, <1>2, <1>3 DEF Referred, RemoteInv, EngineTypes
<1>8. Survives'
  BY <1>2, <1>7, SurvivalKept DEF RemoteInv, doneVars
<1>9. \A i \in Slots : Live(i)' => Live(i)
  BY <1>2, <1>7 DEF Live
<1>10. OneEffect'
  BY <1>2, <1>9, EffectKept DEF RemoteInv, doneVars
<1>. QED
  BY <1>4, <1>5, <1>6, <1>8, <1>10 DEF RemoteInv

LEMMA BatchContinues ==
  ASSUME RemoteInv, NEW w \in Consumers, NextInBatch(w)
  PROVE  RemoteInv'
<1>1. PICK i \in batch[w] : batch' = [batch EXCEPT ![w] = @ \ {i}] /\ Begin(w, i)
  BY DEF NextInBatch
<1>2. /\ kind = "redis"
      /\ UNCHANGED <<kind, serverVars, kafkaVars, cons, sent, doneVars, lapsed, excused>>
  BY DEF NextInBatch
<1>3. i \in Slots /\ Referred(i) /\ Live(i)
  BY <1>1 DEF RemoteInv, EngineTypes, Referred, Live
<1>4. \A k : Referred(k)' => Referred(k) \/ k = i
  BY <1>1 DEF Referred, Begin, RemoteInv, EngineTypes
<1>5. \A k \in Slots : Live(k)' => Live(k)
  BY <1>2, <1>3, <1>4 DEF Live, serverVars
<1>6. /\ claim' \in [Messages -> {"none", "processing", "completed"}]
      /\ \A m \in Messages : claim'[m] = "completed" => claim[m] = "completed"
      /\ \E step \in {"handling", "acking", "requeueing"} :
           work' = [work EXCEPT ![w] = @ \cup {<<i, step>>}]
      /\ Survives' /\ OneEffect'
  BY <1>1, <1>2, <1>3, <1>4, <1>5, CallbackBegins DEF serverVars
<1>7. EngineTypes'
  BY <1>1, <1>2, <1>3, <1>6 DEF RemoteInv, EngineTypes, StoreTypeOK, serverVars, kafkaVars, doneVars
<1>8. Queued' /\ Log'
  BY <1>2, QueueKept, NotKafka DEF RemoteInv, serverVars
<1>. QED
  BY <1>6, <1>7, <1>8 DEF RemoteInv

LEMMA MessageDelivered ==
  ASSUME RemoteInv, NEW w \in Consumers, Deliver(w)
  PROVE  RemoteInv'
<1>. DEFINE i == Head(queue)
<1>1. /\ kind = "rabbitmq" /\ queue # <<>> /\ queue' = Tail(queue)
      /\ holder' = [holder EXCEPT ![i] = w] /\ Begin(w, i)
      /\ UNCHANGED <<kind, body, present, idle, kafkaVars, cons, batch, sent, doneVars, lapsed,
                      excused>>
  BY DEF Deliver
<1>2. /\ Queued' /\ queue' \in Seq(Slots) /\ holder' \in [Slots -> Consumers \cup {Nobody}]
      /\ i \in present /\ i \in Slots
  BY <1>1, FirstHeld
<1>. HIDE DEF i
<1>3. Live(i)
  BY <1>1, <1>2 DEF Live
<1>4. \A k : Referred(k)' => Referred(k) \/ k = i
  BY <1>1 DEF Referred, Begin, RemoteInv, EngineTypes
<1>5. \A k \in Slots : Live(k)' => Live(k)
  BY <1>1, <1>3, <1>4 DEF Live
<1>6. /\ claim' \in [Messages -> {"none", "processing", "completed"}]
      /\ \A m \in Messages : claim'[m] = "completed" => claim[m] = "completed"
      /\ \E step \in {"handling", "acking", "requeueing"} :
           work' = [work EXCEPT ![w] = @ \cup {<<i, step>>}]
      /\ Survives' /\ OneEffect'
  BY <1>1, <1>2, <1>3, <1>4, <1>5, CallbackBegins
<1>7. EngineTypes'
  BY <1>1, <1>2, <1>6 DEF RemoteInv, EngineTypes, StoreTypeOK, kafkaVars, doneVars
<1>8. Log'
  BY <1>1, NotKafka
<1>. QED
  BY <1>2, <1>6, <1>7, <1>8 DEF RemoteInv

LEMMA RecordPolled ==
  ASSUME RemoteInv, NEW w \in Consumers, Poll(w)
  PROVE  RemoteInv'
<1>. DEFINE i == position[w] + 1
<1>1. /\ kind = "kafka" /\ owner = w /\ Running(w) = {} /\ i \in present /\ Begin(w, i)
      /\ position' = [position EXCEPT ![w] = @ + 1]
      /\ UNCHANGED <<kind, serverVars, owner, committed, cons, batch, sent, doneVars, lapsed,
                      excused>>
  BY DEF Poll, Ready
<1>2. /\ i \in Slots /\ position[w] \in Nat /\ position'[w] = i /\ i > position[w]
      /\ owner # Nobody
      /\ 1..i = (1..position[w]) \cup {i} /\ 1..(i - 1) = 1..position[w]
  <2>1. /\ position \in [Consumers -> 0..NumSlots] /\ present \subseteq 1..NumSlots
        /\ NumSlots \in Nat
    BY RemoteEngineAssumption DEF RemoteInv, EngineTypes, Slots
  <2>2. position[w] \in 0..NumSlots /\ position'[w] = i /\ i \in 1..NumSlots
    BY <1>1, <2>1
  <2>. HIDE DEF i
  <2>3. i = position[w] + 1
    BY DEF i
  <2>4. 1..i = (1..position[w]) \cup {i} /\ 1..(i - 1) = 1..position[w] /\ i > position[w]
    BY <2>1, <2>2, <2>3
  <2>. QED
    BY <1>1, <2>1, <2>2, <2>4, RemoteEngineAssumption DEF Slots
<1>3. position' \in [Consumers -> 0..NumSlots]
  BY <1>1, <1>2, RemoteEngineAssumption DEF RemoteInv, EngineTypes, Slots
<1>. HIDE DEF i
<1>4. Live(i)
  BY <1>1, <1>2 DEF Live
<1>5. \A k : Referred(k)' => Referred(k) \/ k = i
  BY <1>1 DEF Referred, Begin, RemoteInv, EngineTypes
<1>6. ASSUME NEW k \in Slots, Live(k)'
      PROVE  Live(k)
  <2>1. k > i \/ k = i => k > position[w]
    BY <1>2, RemoteEngineAssumption DEF Slots
  <2>2. \A j \in 1..k : j = i => k > i \/ k = i
    BY <1>2, RemoteEngineAssumption DEF Slots
  <2>3. CASE k \in present /\ k > position[w]
    BY <1>1, <1>2, <2>3 DEF Live
  <2>4. CASE Referred(k)'
    BY <1>1, <1>4, <1>5, <2>4 DEF Live
  <2>5. CASE k \in present /\ k > committed
    BY <2>5 DEF Live
  <2>6. CASE k \in present /\ \E j \in 1..k : Referred(j)'
    BY <1>1, <1>5, <2>1, <2>2, <2>3, <2>6 DEF Live
  <2>7. CASE k \in present /\ k > i
    BY <2>1, <2>3, <2>7
  <2>. QED
    BY <1>1, <1>2, <1>6, <2>4, <2>5, <2>6, <2>7 DEF Live, serverVars
<1>7. PICK step \in {"handling", "acking", "requeueing"} :
        /\ claim' \in [Messages -> {"none", "processing", "completed"}]
        /\ \A m \in Messages : claim'[m] = "completed" => claim[m] = "completed"
        /\ work' = [work EXCEPT ![w] = @ \cup {<<i, step>>}]
        /\ step = "acking" => body[i] \in done
        /\ Survives' /\ OneEffect'
  BY <1>1, <1>2, <1>4, <1>5, <1>6, CallbackBegins DEF serverVars
<1>8. EngineTypes'
  BY <1>1, <1>2, <1>3, <1>7 DEF RemoteInv, EngineTypes, StoreTypeOK, serverVars, doneVars
<1>9. Queued'
  BY <1>1, QueueKept DEF RemoteInv, serverVars
<1>10. /\ work'[w] = work[w] \cup {<<i, step>>}
       /\ \A v \in Consumers : v # w => work'[v] = work[v]
  BY <1>7 DEF RemoteInv, EngineTypes
<1>11. \A j \in 1..position[w] : Settled(body[j])
  <2>. SUFFICES ASSUME NEW j \in 1..position[w], ~Settled(body[j]) PROVE FALSE
    OBVIOUS
  <2>1. Covered(j)
    BY <1>1, <1>2 DEF RemoteInv, Log
  <2>2. <<j, "handling">> \in Running(w) \/ <<j, "requeueing">> \in Running(w)
    BY <1>1, <2>1 DEF Covered, Running
  <2>. QED
    BY <1>1, <2>2
<1>12. Log'
  <2>1. \A j \in 1..i : Covered(j)'
    BY <1>1, <1>2, <1>7, <1>10, <1>11 DEF Covered, Settled, serverVars, doneVars
  <2>2. \A k \in Slots : Referred(k)' => k \in present'
    BY <1>1, <1>5 DEF RemoteInv, Log, serverVars
  <2>3. \A v \in Consumers : \A p \in work'[v] :
          /\ \A j \in 1..(p[1] - 1) : Settled(body[j])'
          /\ p[2] \in {"acking", "kept"} => Settled(body[p[1]])'
    <3>1. ASSUME NEW v \in Consumers, NEW p \in work[v]
          PROVE  /\ \A j \in 1..(p[1] - 1) : Settled(body[j])
                 /\ p[2] \in {"acking", "kept"} => Settled(body[p[1]])
      BY <1>1 DEF RemoteInv, Log
    <3>2. ASSUME NEW p, p = <<i, step>>
          PROVE  /\ \A j \in 1..(p[1] - 1) : Settled(body[j])
                 /\ p[2] \in {"acking", "kept"} => Settled(body[p[1]])
      BY <1>2, <1>7, <1>11, <3>2 DEF Settled
    <3>. QED
      BY <1>1, <1>10, <3>1, <3>2 DEF Settled, serverVars, doneVars
  <2>. QED
    BY <1>1, <1>2, <2>1, <2>2, <2>3 DEF RemoteInv, Log, Settled, serverVars, doneVars
<1>. QED
  BY <1>7, <1>8, <1>9, <1>12 DEF RemoteInv

-----------------------------------------------------------------------------
(* Callbacks go on                                                         *)

\* The delivery under a handler leaves it: with its effect and its record, or
\* without an effect.
LEMMA EffectAdvanced ==
  ASSUME RemoteInv, NEW w \in Consumers, NEW i \in Slots, NEW from \in {"handling", "kept"},
         <<i, from>> \in work[w], UNCHANGED <<body, lapsed>>,
         \A v \in Consumers : \A p \in work'[v] : p[2] \in {"handling", "kept"} =>
           p \in work[v] /\ ~(v = w /\ p = <<i, from>>),
         \A k \in Slots : Live(k)' => Live(k),
         \/ Handled(body[i]) /\ (Complete(body[i]) \/ (claim[body[i]] = "none" /\ UNCHANGED claim))
         \/ UNCHANGED doneVars /\ Release(body[i])
  PROVE  OneEffect'
<1>. DEFINE m == body[i]
<1>1. m \in Messages /\ claim \in [Messages -> {"none", "processing", "completed"}]
  BY DEF RemoteInv, EngineTypes, StoreTypeOK
<1>. SUFFICES ASSUME NEW n \in Messages, n \notin lapsed'
              PROVE  /\ n \notin twice'
                     /\ \A u, v \in Consumers : \A p \in work'[u], q \in work'[v] :
                          (/\ body'[p[1]] = n /\ body'[q[1]] = n
                           /\ {p[2], q[2]} \subseteq {"handling", "kept"}) => u = v /\ p = q
                     /\ InHand(n, {"handling", "kept"})' => claim'[n] = "processing"
                     /\ n \in done' => \/ claim'[n] = "completed"
                                       \/ claim'[n] = "none" /\ Copies(n)' = {}
  BY DEF OneEffect
<1>2. /\ n \notin twice
      /\ \A u, v \in Consumers : \A p \in work[u], q \in work[v] :
           (/\ body[p[1]] = n /\ body[q[1]] = n
            /\ {p[2], q[2]} \subseteq {"handling", "kept"}) => u = v /\ p = q
      /\ InHand(n, {"handling", "kept"}) => claim[n] = "processing"
      /\ n \in done => claim[n] = "completed" \/ (claim[n] = "none" /\ Copies(n) = {})
  BY DEF RemoteInv, OneEffect
<1>3. \A u, v \in Consumers : \A p \in work'[u], q \in work'[v] :
        (/\ body'[p[1]] = n /\ body'[q[1]] = n
         /\ {p[2], q[2]} \subseteq {"handling", "kept"}) => u = v /\ p = q
  BY <1>2
<1>4. InHand(n, {"handling", "kept"})' => InHand(n, {"handling", "kept"})
  BY DEF InHand
<1>5. Copies(n) = {} => Copies(n)' = {}
  BY DEF Copies, Live
<1>6. CASE n # m
  <2>1. claim'[n] = claim[n]
    BY <1>1, <1>6 DEF Complete, Release
  <2>2. (n \in done' => n \in done) /\ (n \in twice' => n \in twice)
    BY <1>6 DEF Handled, doneVars
  <2>. QED
    BY <1>2, <1>3, <1>4, <1>5, <2>1, <2>2
<1>7. CASE n = m
  <2>1. InHand(n, {"handling", "kept"})
    BY <1>7 DEF InHand
  <2>2. claim[n] = "processing" /\ n \notin done
    BY <1>2, <2>1
  <2>3. ~InHand(n, {"handling", "kept"})'
    <3>. SUFFICES ASSUME NEW v \in Consumers, NEW p \in work'[v],
                         body'[p[1]] = n, p[2] \in {"handling", "kept"}
                  PROVE  FALSE
      BY DEF InHand
    <3>1. p \in work[v] /\ body[p[1]] = n /\ ~(v = w /\ p = <<i, from>>)
      OBVIOUS
    <3>2. <<i, from>>[1] = i /\ <<i, from>>[2] = from
      OBVIOUS
    <3>. QED
      BY <1>2, <1>7, <3>1, <3>2
  <2>4. CASE Handled(m) /\ Complete(m)
    BY <1>1, <1>2, <1>3, <1>7, <2>2, <2>3, <2>4 DEF Handled, Complete
  <2>5. CASE UNCHANGED doneVars /\ Release(m)
    BY <1>2, <1>3, <1>7, <2>2, <2>3, <2>5 DEF doneVars
  <2>. QED
    BY <1>7, <2>2, <2>4, <2>5
<1>. QED
  BY <1>6, <1>7

\* A callback goes from handling to what it does next.
LEMMA CallbackMoved ==
  ASSUME RemoteInv, NEW w \in Consumers, NEW i \in Slots, <<i, "handling">> \in work[w],
         NEW to \in {"acking", "requeueing", "kept"}, Move(w, i, "handling", to),
         UNCHANGED <<kind, serverVars, kafkaVars, batch, sent>>,
         done \subseteq done', excused \subseteq excused',
         to = "acking" \/ (to = "kept" /\ kind = "kafka") => body[i] \in done' \cup excused'
  PROVE  /\ work' \in [Consumers -> SUBSET (Slots \X {"handling", "acking", "requeueing", "kept"})]
         /\ \A v \in Consumers : \A p \in work'[v] :
              \/ p \in work[v] /\ ~(v = w /\ p = <<i, "handling">>)
              \/ v = w /\ p = <<i, to>>
         /\ \A k \in Slots : Live(k)' => Live(k)
         /\ body[i] \in sent /\ Queued' /\ Log' /\ Survives'
<1>1. /\ work'[w] = (work[w] \ {<<i, "handling">>}) \cup {<<i, to>>}
      /\ \A v \in Consumers : v # w => work'[v] = work[v]
      /\ work' \in [Consumers -> SUBSET (Slots \X {"handling", "acking", "requeueing", "kept"})]
  BY DEF Move, RemoteInv, EngineTypes
<1>2. \A v \in Consumers : \A p \in work'[v] :
        \/ p \in work[v] /\ ~(v = w /\ p = <<i, "handling">>)
        \/ v = w /\ p = <<i, to>>
  BY <1>1
<1>3. Referred(i) /\ \A k : Referred(k)' => Referred(k)
  <2>1. Referred(i)
    BY DEF Referred
  <2>2. ASSUME NEW k, Referred(k)' PROVE Referred(k)
    <3>1. CASE k = i
      BY <2>1, <3>1
    <3>2. CASE k # i
      BY <1>2, <2>2, <3>2 DEF Referred
    <3>. QED
      BY <3>1, <3>2
  <2>. QED
    BY <2>1, <2>2
<1>4. \A k \in Slots : Live(k)' => Live(k)
  BY <1>3, Below DEF Live, serverVars, kafkaVars
<1>5. body[i] \in sent
  BY <1>3 DEF RemoteInv, Survives
<1>6. Queued'
  BY QueueKept DEF RemoteInv, serverVars
<1>7. Survives'
  <2>1. ASSUME NEW k \in present, \A v \in Consumers : <<k, "acking">> \notin work[v]
        PROVE  \/ body[k] \in done' \cup excused'
               \/ /\ k \in present' /\ body'[k] = body[k]
                  /\ \A v \in Consumers : <<k, "acking">> \notin work'[v]
    BY <1>2, <2>1 DEF serverVars
  <2>2. \A k \in Slots : k \in present' \/ Referred(k)' =>
          (k \in present \/ Referred(k)) /\ body'[k] = body[k]
    BY <1>3 DEF serverVars
  <2>. QED
    BY <2>1, <2>2, SurvivalKept DEF RemoteInv
<1>8. Log'
  <2>. SUFFICES ASSUME kind = "kafka" PROVE Log'
    BY NotKafka
  <2>1. \A m : Settled(m) => Settled(m)'
    BY DEF Settled
  <2>2. UNCHANGED <<body, present, owner, committed, position>>
    BY DEF serverVars, kafkaVars
  <2>3. ASSUME NEW v \in Consumers, NEW p \in work'[v]
        PROVE  /\ \A j \in 1..(p[1] - 1) : Settled(body[j])'
               /\ p[2] \in {"acking", "kept"} => Settled(body[p[1]])'
    <3>1. CASE p \in work[v]
      BY <2>1, <2>2, <3>1 DEF RemoteInv, Log, Settled
    <3>2. CASE v = w /\ p = <<i, to>>
      <4>1. \A j \in 1..(i - 1) : Settled(body[j])
        BY DEF RemoteInv, Log
      <4>. QED
        BY <2>1, <2>2, <3>2, <4>1 DEF Settled
    <3>. QED
      BY <1>2, <3>1, <3>2
  <2>4. ASSUME NEW j, owner # Nobody, Covered(j)
        PROVE  Covered(j)'
    <3>1. owner \in Consumers
      BY <2>4 DEF RemoteInv, EngineTypes
    <3>2. CASE owner = w /\ j = i
      BY <1>1, <2>2, <3>2 DEF Covered, Settled
    <3>3. CASE ~(owner = w /\ j = i)
      <4>1. \A step : <<j, step>> \in work[owner] => <<j, step>> \in work'[owner]
        BY <1>1, <3>1, <3>3
      <4>. QED
        BY <2>2, <2>4, <4>1 DEF Covered, Settled
    <3>. QED
      BY <3>2, <3>3
  <2>. QED
    BY <1>3, <2>1, <2>2, <2>3, <2>4 DEF RemoteInv, Log, Settled
<1>. QED
  BY <1>1, <1>2, <1>4, <1>5, <1>6, <1>7, <1>8

LEMMA HandlerSucceeds ==
  ASSUME RemoteInv, NEW w \in Consumers, NEW i \in Slots, Succeed(w, i)
  PROVE  RemoteInv'
<1>. DEFINE m == body[i]
<1>1. /\ <<i, "handling">> \in work[w] /\ Handled(m)
      /\ UNCHANGED <<kind, serverVars, kafkaVars, cons, batch, sent, lapsed, excused>>
  BY DEF Succeed
<1>2. PICK to \in {"acking", "requeueing"} :
        /\ Move(w, i, "handling", to)
        /\ Complete(m) \/ (claim[m] = "none" /\ UNCHANGED claim)
  BY DEF Succeed
<1>3. done' = done \cup {m}
  BY <1>1 DEF Handled
<1>4. /\ work' \in [Consumers -> SUBSET (Slots \X {"handling", "acking", "requeueing", "kept"})]
      /\ \A v \in Consumers : \A p \in work'[v] :
           \/ p \in work[v] /\ ~(v = w /\ p = <<i, "handling">>)
           \/ v = w /\ p = <<i, to>>
      /\ \A k \in Slots : Live(k)' => Live(k)
      /\ m \in sent /\ Queued' /\ Log' /\ Survives'
  BY <1>1, <1>2, <1>3, CallbackMoved
<1>5. OneEffect'
  <2>1. \A v \in Consumers : \A p \in work'[v] : p[2] \in {"handling", "kept"} =>
          p \in work[v] /\ ~(v = w /\ p = <<i, "handling">>)
    BY <1>4
  <2>2. /\ <<i, "handling">> \in work[w] /\ UNCHANGED <<body, lapsed>>
        /\ Handled(m) /\ (Complete(m) \/ (claim[m] = "none" /\ UNCHANGED claim))
    BY <1>1, <1>2 DEF serverVars
  <2>3. \A k \in Slots : Live(k)' => Live(k)
    BY <1>4
  <2>. QED
    BY <2>1, <2>2, <2>3, EffectAdvanced
<1>6. EngineTypes'
  <2>1. claim' \in [Messages -> {"none", "processing", "completed"}]
    BY <1>2 DEF RemoteInv, EngineTypes, StoreTypeOK, Complete
  <2>2. \A n \in Messages : claim'[n] = "completed" => n \in done'
    BY <1>2, <1>3 DEF RemoteInv, EngineTypes, StoreTypeOK, Complete
  <2>3. done' \subseteq sent'
    BY <1>1, <1>3, <1>4 DEF RemoteInv, EngineTypes
  <2>. QED
    BY <1>1, <1>4, <2>1, <2>2, <2>3
    DEF RemoteInv, EngineTypes, StoreTypeOK, serverVars, kafkaVars
<1>. QED
  BY <1>4, <1>5, <1>6 DEF RemoteInv

LEMMA HandlerFails ==
  ASSUME RemoteInv, NEW w \in Consumers, NEW i \in Slots, Fail(w, i)
  PROVE  RemoteInv'
<1>. DEFINE m == body[i]
<1>1. /\ <<i, "handling">> \in work[w] /\ Release(m) /\ Move(w, i, "handling", "requeueing")
      /\ UNCHANGED <<kind, serverVars, kafkaVars, cons, batch, sent, doneVars, lapsed, excused>>
  BY DEF Fail
<1>2. /\ work' \in [Consumers -> SUBSET (Slots \X {"handling", "acking", "requeueing", "kept"})]
      /\ \A v \in Consumers : \A p \in work'[v] :
           \/ p \in work[v] /\ ~(v = w /\ p = <<i, "handling">>)
           \/ v = w /\ p = <<i, "requeueing">>
      /\ \A k \in Slots : Live(k)' => Live(k)
      /\ Queued' /\ Log' /\ Survives'
  BY <1>1, CallbackMoved DEF doneVars
<1>3. OneEffect'
  <2>1. \A v \in Consumers : \A p \in work'[v] : p[2] \in {"handling", "kept"} =>
          p \in work[v] /\ ~(v = w /\ p = <<i, "handling">>)
    BY <1>2
  <2>2. /\ <<i, "handling">> \in work[w] /\ UNCHANGED <<body, lapsed>>
        /\ UNCHANGED doneVars /\ Release(m)
    BY <1>1 DEF serverVars
  <2>3. \A k \in Slots : Live(k)' => Live(k)
    BY <1>2
  <2>. QED
    BY <2>1, <2>2, <2>3, EffectAdvanced
<1>4. EngineTypes'
  <2>1. /\ claim' \in [Messages -> {"none", "processing", "completed"}]
        /\ \A n \in Messages : claim'[n] = "completed" => claim[n] = "completed"
    BY <1>1 DEF RemoteInv, EngineTypes, StoreTypeOK, Release
  <2>. QED
    BY <1>1, <1>2, <2>1
    DEF RemoteInv, EngineTypes, StoreTypeOK, serverVars, kafkaVars, doneVars
<1>. QED
  BY <1>2, <1>3, <1>4 DEF RemoteInv

LEMMA HandlerLeaves ==
  ASSUME RemoteInv, NEW w \in Consumers, NEW i \in Slots, LeaveUnsettled(w, i)
  PROVE  RemoteInv'
<1>1. /\ <<i, "handling">> \in work[w] /\ Move(w, i, "handling", "kept")
      /\ excused' = IF kind = "redis" THEN excused ELSE excused \cup {body[i]}
      /\ UNCHANGED <<kind, serverVars, kafkaVars, cons, batch, sent, doneVars, lapsed, claim>>
  BY DEF LeaveUnsettled
<1>2. /\ work' \in [Consumers -> SUBSET (Slots \X {"handling", "acking", "requeueing", "kept"})]
      /\ \A v \in Consumers : \A p \in work'[v] :
           \/ p \in work[v] /\ ~(v = w /\ p = <<i, "handling">>)
           \/ v = w /\ p = <<i, "kept">>
      /\ \A k \in Slots : Live(k)' => Live(k)
      /\ Queued' /\ Log' /\ Survives'
  <2>1. excused \subseteq excused' /\ (kind = "kafka" => body[i] \in excused')
    BY <1>1
  <2>. QED
    BY <1>1, <2>1, CallbackMoved DEF doneVars
<1>3. OneEffect'
  <2>. SUFFICES ASSUME NEW n \in Messages, n \notin lapsed'
                PROVE  /\ n \notin twice'
                       /\ \A u, v \in Consumers : \A p \in work'[u], q \in work'[v] :
                            (/\ body'[p[1]] = n /\ body'[q[1]] = n
                             /\ {p[2], q[2]} \subseteq {"handling", "kept"}) => u = v /\ p = q
                       /\ InHand(n, {"handling", "kept"})' => claim'[n] = "processing"
                       /\ n \in done' => \/ claim'[n] = "completed"
                                         \/ claim'[n] = "none" /\ Copies(n)' = {}
    BY DEF OneEffect
  <2>1. /\ n \notin twice
        /\ \A u, v \in Consumers : \A p \in work[u], q \in work[v] :
             (/\ body[p[1]] = n /\ body[q[1]] = n
              /\ {p[2], q[2]} \subseteq {"handling", "kept"}) => u = v /\ p = q
        /\ InHand(n, {"handling", "kept"}) => claim[n] = "processing"
        /\ n \in done => claim[n] = "completed" \/ (claim[n] = "none" /\ Copies(n) = {})
    BY <1>1 DEF RemoteInv, OneEffect
  <2>2. UNCHANGED <<body, done, twice, claim>>
    BY <1>1 DEF serverVars, doneVars
  <2>3. Copies(n) = {} => Copies(n)' = {}
    BY <1>2, <2>2 DEF Copies, Live
  <2>4. InHand(n, {"handling", "kept"})' => InHand(n, {"handling", "kept"})
    <3>. SUFFICES ASSUME NEW v \in Consumers, NEW p \in work'[v],
                         body[p[1]] = n, p[2] \in {"handling", "kept"}
                  PROVE  \E u \in Consumers : \E q \in work[u] :
                           body[q[1]] = n /\ q[2] \in {"handling", "kept"}
      BY <2>2 DEF InHand
    <3>1. CASE p \in work[v]
      BY <3>1
    <3>2. CASE v = w /\ p = <<i, "kept">>
      <4>1. <<i, "handling">>[1] = p[1] /\ <<i, "handling">>[2] = "handling"
        BY <3>2
      <4>. QED
        BY <1>1, <4>1
    <3>. QED
      BY <1>2, <3>1, <3>2
  <2>5. ASSUME NEW v \in Consumers, NEW p \in work'[v], body[p[1]] = n,
               p[2] \in {"handling", "kept"}, body[i] = n
        PROVE  v = w /\ p = <<i, "kept">>
    <3>1. <<i, "handling">>[1] = i /\ <<i, "handling">>[2] = "handling"
      OBVIOUS
    <3>2. p \in work[v] => v = w /\ p = <<i, "handling">>
      BY <1>1, <2>1, <2>5, <3>1
    <3>. QED
      BY <1>2, <3>2
  <2>6. ASSUME NEW u \in Consumers, NEW v \in Consumers, NEW p \in work'[u], NEW q \in work'[v],
               body[p[1]] = n, body[q[1]] = n, {p[2], q[2]} \subseteq {"handling", "kept"}
        PROVE  u = v /\ p = q
    <3>1. CASE body[i] = n
      BY <2>5, <2>6, <3>1
    <3>2. CASE body[i] # n
      <4>1. p \in work[u] /\ q \in work[v]
        BY <1>2, <2>6, <3>2
      <4>. QED
        BY <2>1, <2>6, <4>1
    <3>. QED
      BY <3>1, <3>2
  <2>. QED
    BY <2>1, <2>2, <2>3, <2>4, <2>6
<1>4. EngineTypes'
  BY <1>1, <1>2 DEF RemoteInv, EngineTypes, StoreTypeOK, serverVars, kafkaVars, doneVars
<1>. QED
  BY <1>2, <1>3, <1>4 DEF RemoteInv

-----------------------------------------------------------------------------
(* Deliveries are settled                                                  *)

\* A callback, or what a handler kept, is over.
LEMMA DeliveryOver ==
  ASSUME RemoteInv, NEW w \in Consumers, NEW i \in Slots, NEW step,
         <<i, step>> \in work[w], work' = [work EXCEPT ![w] = @ \ {<<i, step>>}], batch' = batch
  PROVE  /\ work' \in [Consumers -> SUBSET (Slots \X {"handling", "acking", "requeueing", "kept"})]
         /\ work'[w] = work[w] \ {<<i, step>>}
         /\ \A v \in Consumers : v # w => work'[v] = work[v]
         /\ \A v \in Consumers : \A p \in work'[v] :
              p \in work[v] /\ ~(v = w /\ p = <<i, step>>)
         /\ Referred(i) /\ \A k : Referred(k)' => Referred(k)
<1>1. /\ work'[w] = work[w] \ {<<i, step>>}
      /\ \A v \in Consumers : v # w => work'[v] = work[v]
      /\ work' \in [Consumers -> SUBSET (Slots \X {"handling", "acking", "requeueing", "kept"})]
  BY DEF RemoteInv, EngineTypes
<1>2. \A v \in Consumers : \A p \in work'[v] : p \in work[v] /\ ~(v = w /\ p = <<i, step>>)
  BY <1>1
<1>3. Referred(i)
  <2>1. <<i, step>>[1] = i
    OBVIOUS
  <2>. QED
    BY <2>1 DEF Referred
<1>4. \A k : Referred(k)' => Referred(k)
  BY <1>2 DEF Referred
<1>. QED
  BY <1>1, <1>2, <1>3, <1>4

\* The server forgets a settled copy; the commit of Kafka covers settled records.
LEMMA CopyAcknowledged ==
  ASSUME RemoteInv, NEW w \in Consumers, NEW i \in Slots, NEW step \in {"acking", "kept"},
         <<i, step>> \in work[w], Acknowledge(i),
         work' = [work EXCEPT ![w] = @ \ {<<i, step>>}],
         UNCHANGED <<kind, body, batch, sent, excused>>, done \subseteq done',
         step = "kept" => body[i] \in done'
  PROVE  /\ present' \subseteq Slots /\ idle' \subseteq present' /\ queue' \in Seq(Slots)
         /\ holder' \in [Slots -> Consumers \cup {Nobody}] /\ UNCHANGED <<owner, position>>
         /\ committed' \in 0..NumSlots
         /\ \A k \in Slots : Live(k)' => Live(k)
         /\ Queued' /\ Log' /\ Survives'
<1>1. /\ work'[w] = work[w] \ {<<i, step>>}
      /\ \A v \in Consumers : v # w => work'[v] = work[v]
      /\ \A v \in Consumers : \A p \in work'[v] : p \in work[v]
      /\ Referred(i) /\ \A k : Referred(k)' => Referred(k)
  BY DeliveryOver
<1>2. UNCHANGED <<owner, position>>
  BY DEF Acknowledge, kafkaVars
<1>3. /\ present \subseteq Slots /\ idle \subseteq present /\ queue \in Seq(Slots)
      /\ holder \in [Slots -> Consumers \cup {Nobody}] /\ committed \in 0..NumSlots
  BY DEF RemoteInv, EngineTypes
<1>4. CASE kind # "kafka"
  <2>1. /\ present' = present \ {i} /\ queue' = Without(queue, {i})
        /\ holder' = [holder EXCEPT ![i] = Nobody] /\ idle' = idle \ {i}
        /\ UNCHANGED <<owner, committed, position>>
    BY <1>4 DEF Acknowledge, kafkaVars
  <2>2. /\ queue' \in Seq(Slots) /\ Distinct(queue') /\ Elems(queue') = Elems(queue) \ {i}
    BY <1>3, <2>1, TakenOut DEF RemoteInv, Queued
  <2>3. holder'[i] = Nobody /\ \A k \in Slots : k # i => holder'[k] = holder[k]
    BY <1>3, <2>1
  <2>4. \A k \in Elems(queue) : k \in Slots
    BY <1>3 DEF RemoteInv, Queued
  <2>5. Queued'
    BY <1>3, <1>4, <2>1, <2>2, <2>3, <2>4 DEF RemoteInv, Queued
  <2>6. \A k \in Slots : Live(k)' => Live(k)
    BY <1>1, <1>4, <2>1 DEF Live
  <2>7. ASSUME NEW k \in present, \A v \in Consumers : <<k, "acking">> \notin work[v]
        PROVE  \/ body[k] \in done' \cup excused'
               \/ /\ k \in present' /\ body'[k] = body[k]
                  /\ \A v \in Consumers : <<k, "acking">> \notin work'[v]
    BY <1>1, <2>1, <2>7
  <2>8. Survives'
    BY <1>1, <2>1, <2>7, SurvivalKept DEF RemoteInv
  <2>. QED
    BY <1>2, <1>3, <1>4, <2>1, <2>2, <2>5, <2>6, <2>8, NotKafka
<1>5. CASE kind = "kafka"
  <2>1. committed' = i /\ UNCHANGED <<present, queue, holder, idle>>
    BY <1>5 DEF Acknowledge
  <2>2. i \in present /\ \A j \in 1..(i - 1) : Settled(body[j])
    <3>1. <<i, step>>[1] = i
      OBVIOUS
    <3>. QED
      BY <1>1, <1>5, <3>1 DEF RemoteInv, Log
  <2>3. Settled(body[i])
    <3>1. <<i, step>>[1] = i /\ <<i, step>>[2] = step
      OBVIOUS
    <3>. QED
      BY <1>5, <3>1 DEF RemoteInv, Log
  <2>4. i \in 0..NumSlots /\ i \in Nat /\ \A j \in 1..i : j \in 1..(i - 1) \/ j = i
    BY RemoteEngineAssumption DEF Slots
  <2>5. \A m : Settled(m) => m \in done' \cup excused'
    BY DEF Settled
  <2>6. \A j \in 1..committed' : body'[j] \in done' \cup excused'
    BY <2>1, <2>2, <2>3, <2>4, <2>5
  <2>7. ASSUME NEW j, owner # Nobody, Covered(j)
        PROVE  Covered(j)'
    <3>1. owner \in Consumers
      BY <2>7 DEF RemoteInv, EngineTypes
    <3>2. \A s \in {"handling", "requeueing"} : <<j, s>> \in work[owner] => <<j, s>> \in work'[owner]
      BY <1>1, <3>1
    <3>. QED
      BY <1>2, <2>5, <2>7, <3>2 DEF Covered, Settled
  <2>8. ASSUME NEW v \in Consumers, NEW p \in work'[v]
        PROVE  /\ \A j \in 1..(p[1] - 1) : body'[j] \in done' \cup excused'
               /\ p[2] \in {"acking", "kept"} => body'[p[1]] \in done' \cup excused'
    BY <1>1, <1>5, <2>5 DEF RemoteInv, Log
  <2>9. Log'
    BY <1>1, <1>2, <1>5, <2>1, <2>2, <2>6, <2>7, <2>8 DEF RemoteInv, Log, Settled
  <2>10. ASSUME NEW k \in Slots, Live(k)'
         PROVE  Live(k)
    <3>1. CASE Referred(k)'
      BY <1>1, <3>1 DEF Live
    <3>2. CASE k \in present /\ k > i
      <4>1. i \in 1..k
        BY <2>4, <3>2 DEF Slots
      <4>. QED
        BY <1>1, <3>2, <4>1 DEF Live
    <3>3. CASE k \in present /\ owner # Nobody /\ k > position[owner]
      BY <3>3 DEF Live
    <3>4. CASE k \in present /\ \E j \in 1..k : Referred(j)'
      BY <1>1, <3>4 DEF Live
    <3>. QED
      BY <1>2, <1>5, <2>1, <2>10, <3>1, <3>2, <3>3, <3>4 DEF Live
  <2>11. Queued'
    BY <2>1, QueueKept DEF RemoteInv
  <2>12. Survives'
    BY <1>1, <2>1, SurvivalKept DEF RemoteInv
  <2>. QED
    BY <1>2, <1>3, <2>1, <2>4, <2>9, <2>10, <2>11, <2>12
<1>. QED
  BY <1>4, <1>5

LEMMA DeliveryAcknowledged ==
  ASSUME RemoteInv, NEW w \in Consumers, NEW i \in Slots, Ack(w, i)
  PROVE  RemoteInv'
<1>1. /\ <<i, "acking">> \in work[w] /\ Acknowledge(i)
      /\ work' = [work EXCEPT ![w] = @ \ {<<i, "acking">>}]
      /\ UNCHANGED <<kind, body, cons, batch, sent, done, twice, lapsed, excused, claim>>
  BY DEF Ack, doneVars
<1>2. /\ present' \subseteq Slots /\ idle' \subseteq present' /\ queue' \in Seq(Slots)
      /\ holder' \in [Slots -> Consumers \cup {Nobody}] /\ UNCHANGED <<owner, position>>
      /\ committed' \in 0..NumSlots
      /\ \A k \in Slots : Live(k)' => Live(k)
      /\ Queued' /\ Log' /\ Survives'
  BY <1>1, CopyAcknowledged
<1>3. /\ work' \in [Consumers -> SUBSET (Slots \X {"handling", "acking", "requeueing", "kept"})]
      /\ \A v \in Consumers : \A p \in work'[v] : p \in work[v]
  BY <1>1, DeliveryOver
<1>4. EngineTypes'
  BY <1>1, <1>2, <1>3 DEF RemoteInv, EngineTypes, StoreTypeOK
<1>5. OneEffect'
  BY <1>1, <1>2, <1>3, EffectKept DEF RemoteInv
<1>. QED
  BY <1>2, <1>4, <1>5 DEF RemoteInv

LEMMA KeptAcknowledged ==
  ASSUME RemoteInv, NEW w \in Consumers, NEW i \in Slots, LateAck(w, i)
  PROVE  RemoteInv'
<1>. DEFINE m == body[i]
<1>1. /\ <<i, "kept">> \in work[w] /\ Handled(m) /\ Acknowledge(i)
      /\ Complete(m) \/ (claim[m] = "none" /\ UNCHANGED claim)
      /\ work' = [work EXCEPT ![w] = @ \ {<<i, "kept">>}]
      /\ UNCHANGED <<kind, body, cons, batch, sent, lapsed, excused>>
  BY DEF LateAck
<1>2. done' = done \cup {m}
  BY <1>1 DEF Handled
<1>3. /\ present' \subseteq Slots /\ idle' \subseteq present' /\ queue' \in Seq(Slots)
      /\ holder' \in [Slots -> Consumers \cup {Nobody}] /\ UNCHANGED <<owner, position>>
      /\ committed' \in 0..NumSlots
      /\ \A k \in Slots : Live(k)' => Live(k)
      /\ Queued' /\ Log' /\ Survives'
  BY <1>1, <1>2, CopyAcknowledged
<1>4. /\ work' \in [Consumers -> SUBSET (Slots \X {"handling", "acking", "requeueing", "kept"})]
      /\ \A v \in Consumers : \A p \in work'[v] : p \in work[v] /\ ~(v = w /\ p = <<i, "kept">>)
      /\ Referred(i)
  BY <1>1, DeliveryOver
<1>5. OneEffect'
  BY <1>1, <1>3, <1>4, EffectAdvanced
<1>6. EngineTypes'
  <2>1. claim' \in [Messages -> {"none", "processing", "completed"}]
    BY <1>1 DEF RemoteInv, EngineTypes, StoreTypeOK, Complete
  <2>2. \A n \in Messages : claim'[n] = "completed" => n \in done'
    BY <1>1, <1>2 DEF RemoteInv, EngineTypes, StoreTypeOK, Complete
  <2>3. done' \subseteq sent'
    BY <1>1, <1>2, <1>4 DEF RemoteInv, EngineTypes, Survives
  <2>. QED
    BY <1>1, <1>3, <1>4, <2>1, <2>2, <2>3 DEF RemoteInv, EngineTypes, StoreTypeOK
<1>. QED
  BY <1>3, <1>5, <1>6 DEF RemoteInv

LEMMA DeliveryReturned ==
  ASSUME RemoteInv, NEW w \in Consumers, NEW i \in Slots, Nack(w, i)
  PROVE  RemoteInv'
<1>1. /\ kind = "rabbitmq" /\ <<i, "requeueing">> \in work[w] /\ holder[i] = w
      /\ queue' = <<i>> \o queue /\ holder' = [holder EXCEPT ![i] = Nobody]
      /\ work' = [work EXCEPT ![w] = @ \ {<<i, "requeueing">>}]
      /\ UNCHANGED <<kind, body, present, idle, kafkaVars, cons, batch, sent, done, twice, lapsed,
                      excused, claim>>
  BY DEF Nack, MaySettle, doneVars
<1>2. /\ work' \in [Consumers -> SUBSET (Slots \X {"handling", "acking", "requeueing", "kept"})]
      /\ \A v \in Consumers : \A p \in work'[v] : p \in work[v]
      /\ \A k : Referred(k)' => Referred(k)
  BY <1>1, DeliveryOver
<1>3. w # Nobody /\ i \in present /\ i \notin Elems(queue)
  BY <1>1, RemoteEngineAssumption DEF RemoteInv, Queued
<1>4. /\ queue' \in Seq(Slots) /\ Distinct(queue') /\ Elems(queue') = {i} \cup Elems(queue)
  <2>1. queue \in Seq(Slots) /\ Distinct(queue)
    BY DEF RemoteInv, EngineTypes, Queued
  <2>. DEFINE first == <<i>>
  <2>2. /\ first \in Seq(Slots) /\ Distinct(first) /\ Elems(first) = {i}
        /\ queue' = first \o queue
    BY <1>1, OneSlot
  <2>. HIDE DEF first
  <2>3. Elems(first) \cap Elems(queue) = {}
    BY <1>3, <2>2
  <2>4. /\ first \o queue \in Seq(Slots) /\ Distinct(first \o queue)
        /\ Elems(first \o queue) = Elems(first) \cup Elems(queue)
    BY <2>1, <2>2, <2>3, Joined
  <2>. QED
    BY <2>2, <2>4
<1>5. /\ holder' \in [Slots -> Consumers \cup {Nobody}]
      /\ holder'[i] = Nobody /\ \A k \in Slots : k # i => holder'[k] = holder[k]
  BY <1>1 DEF RemoteInv, EngineTypes
<1>6. EngineTypes'
  BY <1>1, <1>2, <1>4, <1>5 DEF RemoteInv, EngineTypes, StoreTypeOK, kafkaVars
<1>7. Queued'
  <2>1. \A k \in Elems(queue) \cup present \cup idle : k \in Slots
    BY DEF RemoteInv, EngineTypes, Queued
  <2>2. idle = {}
    BY <1>1 DEF RemoteInv, Queued
  <2>. QED
    BY <1>1, <1>3, <1>4, <1>5, <2>1, <2>2 DEF RemoteInv, Queued
<1>8. Survives'
  BY <1>1, <1>2, SurvivalKept DEF RemoteInv
<1>9. OneEffect'
  <2>1. \A k \in Slots : Live(k)' => Live(k)
    BY <1>1, <1>2 DEF Live
  <2>. QED
    BY <1>1, <1>2, <2>1, EffectKept DEF RemoteInv
<1>. QED
  BY <1>1, <1>6, <1>7, <1>8, <1>9, NotKafka DEF RemoteInv

LEMMA PositionReset ==
  ASSUME RemoteInv, NEW w \in Consumers, NEW i \in Slots, Seek(w, i)
  PROVE  RemoteInv'
<1>1. /\ kind = "kafka" /\ <<i, "requeueing">> \in work[w] /\ owner = w
      /\ position' = [position EXCEPT ![w] = i - 1]
      /\ work' = [work EXCEPT ![w] = @ \ {<<i, "requeueing">>}]
      /\ UNCHANGED <<kind, serverVars, owner, committed, cons, batch, sent, done, twice, lapsed,
                      excused, claim>>
  BY DEF Seek, MaySettle, doneVars
<1>2. /\ work' \in [Consumers -> SUBSET (Slots \X {"handling", "acking", "requeueing", "kept"})]
      /\ \A v \in Consumers : \A p \in work'[v] : p \in work[v]
      /\ Referred(i) /\ \A k : Referred(k)' => Referred(k)
  BY <1>1, DeliveryOver
<1>3. i \in present /\ (\A j \in 1..i : j \in present) /\ \A j \in 1..(i - 1) : Settled(body[j])
  <2>1. <<i, "requeueing">>[1] = i
    OBVIOUS
  <2>. QED
    BY <1>1, <1>2, <2>1 DEF RemoteInv, Log
<1>4. /\ i - 1 \in 0..NumSlots /\ i - 1 \in {0} \cup 1..i
      /\ \A k \in Slots : k > i - 1 => k > i \/ k = i
      /\ \A k \in Slots : k > i => i \in 1..k
  BY RemoteEngineAssumption DEF Slots
<1>5. position'[w] = i - 1 /\ position' \in [Consumers -> 0..NumSlots]
  BY <1>1, <1>4 DEF RemoteInv, EngineTypes
<1>6. EngineTypes'
  BY <1>1, <1>2, <1>5 DEF RemoteInv, EngineTypes, StoreTypeOK, serverVars
<1>7. Queued'
  BY <1>1, QueueKept DEF RemoteInv, serverVars
<1>8. Survives'
  BY <1>1, <1>2, SurvivalKept DEF RemoteInv, serverVars
<1>9. Log'
  <2>1. position'[owner'] \in {0} \cup present'
    BY <1>1, <1>3, <1>4, <1>5 DEF serverVars
  <2>2. \A j \in 1..position'[owner'] : Settled(body[j])
    BY <1>1, <1>3, <1>5
  <2>3. \A j \in 1..position'[owner'] : Covered(j)'
    BY <1>1, <2>2 DEF Covered, Settled, serverVars
  <2>. QED
    BY <1>1, <1>2, <2>1, <2>3 DEF RemoteInv, Log, Settled, serverVars
<1>10. OneEffect'
  <2>1. ASSUME NEW k \in Slots, Live(k)' PROVE Live(k)
    <3>1. CASE k \in present /\ k > i - 1
      <4>1. k = i \/ i \in 1..k
        BY <1>4, <3>1
      <4>. QED
        BY <1>2, <3>1, <4>1 DEF Live
    <3>. QED
      BY <1>1, <1>2, <1>5, <2>1, <3>1 DEF Live, serverVars
  <2>. QED
    BY <1>1, <1>2, <2>1, EffectKept DEF RemoteInv, serverVars
<1>. QED
  BY <1>6, <1>7, <1>8, <1>9, <1>10 DEF RemoteInv

\* A record expires: too soon, or without a handler and without copies.
LEMMA RecordGone ==
  ASSUME RemoteInv, NEW m \in Messages, RecordExpires(m)
  PROVE  RemoteInv'
<1>1. /\ claim[m] # "none" /\ claim' = [claim EXCEPT ![m] = "none"]
      /\ lapsed' = IF TooSoon(m) THEN lapsed \cup {m} ELSE lapsed
      /\ UNCHANGED <<kind, serverVars, kafkaVars, consumerVars, sent, doneVars, excused>>
  BY DEF RecordExpires, Expire
<1>2. /\ claim' \in [Messages -> {"none", "processing", "completed"}] /\ claim'[m] = "none"
      /\ \A n \in Messages : n # m => claim'[n] = claim[n]
      /\ claim[m] \in {"processing", "completed"}
  BY <1>1 DEF RemoteInv, EngineTypes, StoreTypeOK
<1>3. EngineTypes'
  BY <1>1, <1>2 DEF RemoteInv, EngineTypes, StoreTypeOK, serverVars, kafkaVars, consumerVars, doneVars
<1>4. Queued'
  BY <1>1, QueueKept DEF RemoteInv, serverVars
<1>5. Log'
  BY <1>1 DEF RemoteInv, Log, Referred, Settled, Covered, serverVars, kafkaVars, consumerVars, doneVars
<1>6. Survives'
  BY <1>1 DEF RemoteInv, Survives, Referred, Settled, serverVars, consumerVars, doneVars
<1>7. OneEffect'
  <2>1. \A n : /\ InHand(n, {"handling", "kept"})' <=> InHand(n, {"handling", "kept"})
               /\ Copies(n)' = Copies(n)
    BY <1>1 DEF InHand, Copies, Referred, serverVars, kafkaVars, consumerVars
  <2>2. ASSUME NEW n \in Messages, n \notin lapsed'
        PROVE  /\ n \notin twice'
               /\ \A u, v \in Consumers : \A p \in work'[u], q \in work'[v] :
                    (/\ body'[p[1]] = n /\ body'[q[1]] = n
                     /\ {p[2], q[2]} \subseteq {"handling", "kept"}) => u = v /\ p = q
               /\ InHand(n, {"handling", "kept"})' => claim'[n] = "processing"
               /\ n \in done' => \/ claim'[n] = "completed"
                                 \/ claim'[n] = "none" /\ Copies(n)' = {}
    <3>1. /\ n \notin twice
          /\ \A u, v \in Consumers : \A p \in work[u], q \in work[v] :
               (/\ body[p[1]] = n /\ body[q[1]] = n
                /\ {p[2], q[2]} \subseteq {"handling", "kept"}) => u = v /\ p = q
          /\ InHand(n, {"handling", "kept"}) => claim[n] = "processing"
          /\ n \in done => claim[n] = "completed" \/ (claim[n] = "none" /\ Copies(n) = {})
      BY <1>1, <2>2 DEF RemoteInv, OneEffect
    <3>2. n = m => ~TooSoon(m)
      BY <1>1, <2>2
    <3>3. n = m => ~InHand(n, {"handling", "kept"}) /\ (n \in done => Copies(n) = {})
      BY <1>2, <3>1, <3>2 DEF TooSoon
    <3>4. UNCHANGED <<twice, done, work, body>>
      BY <1>1 DEF serverVars, consumerVars, doneVars
    <3>. QED
      BY <1>2, <2>1, <3>1, <3>3, <3>4
  <2>. QED
    BY <2>2 DEF OneEffect
<1>. QED
  BY <1>3, <1>4, <1>5, <1>6, <1>7 DEF RemoteInv

-----------------------------------------------------------------------------
(* The theorems                                                            *)

LEMMA RemoteStep == RemoteInv /\ [RemoteNext]_remoteVars => RemoteInv'
<1>. SUFFICES ASSUME RemoteInv, [RemoteNext]_remoteVars PROVE RemoteInv'
  OBVIOUS
<1>1. ASSUME NEW m \in Messages, Publish(m) \/ RecordExpires(m) PROVE RemoteInv'
  BY <1>1, MessagePublished, RecordGone
<1>2. ASSUME NEW i \in Slots, BecomesIdle(i) PROVE RemoteInv'
  BY <1>2, EntryIdle
<1>3. ASSUME NEW w \in Consumers, Take(w) PROVE RemoteInv'
  BY <1>3, NewRead, BatchContinues, MessageDelivered, RecordPolled DEF Take
<1>4. ASSUME NEW w \in Consumers,
             \/ Reclaim(w) \/ Start(w) \/ Pause(w) \/ Resume(w) \/ Stop(w) \/ ConnectionLost(w)
             \/ Assign(w)
      PROVE  RemoteInv'
  BY <1>4, EntriesReclaimed, ConsumerSwitched, ConsumerStops, ChannelLost, PartitionAssigned
<1>5. ASSUME NEW w \in Consumers, NEW i \in Slots, SettleDelivery(w, i) PROVE RemoteInv'
  BY <1>5, DeliveryAcknowledged, CopyReplaced, DeliveryReturned, PositionReset, CallbackRaises
  DEF SettleDelivery, SettleFails
<1>6. ASSUME NEW w \in Consumers, NEW i \in Slots, Callback(w, i) PROVE RemoteInv'
  BY <1>6, HandlerSucceeds, HandlerFails, HandlerLeaves, KeptAcknowledged, CopyReplaced,
     CallbackRaises DEF Callback, CommandFails
<1>7. CASE UNCHANGED remoteVars
  <2>1. UNCHANGED <<kind, serverVars, kafkaVars, consumerVars, sent, doneVars, lapsed, excused, claim>>
    BY <1>7 DEF remoteVars
  <2>2. EngineTypes'
    BY <2>1 DEF RemoteInv, EngineTypes, StoreTypeOK, serverVars, kafkaVars, consumerVars, doneVars
  <2>3. Queued'
    BY <2>1, QueueKept DEF RemoteInv, serverVars
  <2>4. Log'
    BY <2>1 DEF RemoteInv, Log, Referred, Settled, Covered, serverVars, kafkaVars, consumerVars,
                doneVars
  <2>5. Survives'
    BY <2>1 DEF RemoteInv, Survives, Referred, Settled, serverVars, consumerVars, doneVars
  <2>6. OneEffect'
    BY <2>1 DEF RemoteInv, OneEffect, InHand, Copies, Referred, serverVars, kafkaVars,
                consumerVars, doneVars
  <2>. QED
    BY <2>2, <2>3, <2>4, <2>5, <2>6 DEF RemoteInv
<1>. QED
  BY <1>1, <1>2, <1>3, <1>4, <1>5, <1>6, <1>7 DEF RemoteNext

LEMMA RemoteInvHolds == RemoteSpec => []RemoteInv
BY RemoteStarts, RemoteStep, PTL DEF RemoteSpec

(* "At-least-once": a message the server accepted is handled, or a copy of *)
(* it can still be delivered, for any number of consumers, messages and    *)
(* copies, whichever engine it is.                                         *)
THEOREM AcceptedIsNeverLost == RemoteSpec => []NothingLost
<1>1. RemoteInv => NothingLost
  <2>. SUFFICES ASSUME RemoteInv PROVE NothingLost
    OBVIOUS
  <2>1. RemoteTypeOK
    <3>1. ASSUME kind # "kafka", NEW i \in present
          PROVE  (holder[i] = Nobody) = (i \in {queue[n] : n \in DOMAIN queue})
      <4>1. holder[i] = Nobody <=> i \in Elems(queue)
        BY <3>1 DEF RemoteInv, Queued
      <4>. QED
        BY <4>1 DEF Elems
    <3>. QED
      BY <3>1 DEF RemoteInv, EngineTypes, RemoteTypeOK
  <2>2. ASSUME NEW m \in sent \ (done \cup excused)
        PROVE  \E i \in present : body[i] = m /\ (kind = "kafka" => i > committed)
    <3>1. ~Settled(m)
      BY <2>2 DEF Settled
    <3>2. PICK i \in present : body[i] = m
      BY <2>2, <3>1 DEF RemoteInv, Survives
    <3>3. ASSUME kind = "kafka" PROVE i > committed
      <4>1. i \notin 1..committed
        BY <3>1, <3>2, <3>3 DEF RemoteInv, Log
      <4>2. i \in Slots /\ committed \in 0..NumSlots
        BY DEF RemoteInv, EngineTypes
      <4>. QED
        BY <4>1, <4>2, RemoteEngineAssumption DEF Slots
    <3>. QED
      BY <3>2, <3>3
  <2>. QED
    BY <2>1, <2>2 DEF NothingLost
<1>. QED
  BY <1>1, RemoteInvHolds, PTL

(* Idempotent handlers over at-least-once delivery: no two handlers run    *)
(* for a message and it does not take effect twice, unless its record      *)
(* expired under a handler or while copies were left.                      *)
THEOREM EffectOnlyOnce == RemoteSpec => []EffectivelyOnce
<1>1. RemoteInv => EffectivelyOnce
  BY DEF RemoteInv, OneEffect, EffectivelyOnce
<1>. QED
  BY <1>1, RemoteInvHolds, PTL

=============================================================================
