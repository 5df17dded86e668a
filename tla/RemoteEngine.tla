---------------------------- MODULE RemoteEngine -----------------------------
(***************************************************************************)
(* The consumers of broka.engines.redis (streams), broka.engines.rabbitmq  *)
(* and broka.engines.kafka over their servers, with handlers made          *)
(* idempotent by an IdempotencyStore, as docs/troubleshooting.md advises.  *)
(*                                                                         *)
(* An instance uses one of the three.  The server is external and modelled *)
(* by the commands the code sends it: XADD, XREADGROUP, XAUTOCLAIM, XACK;  *)
(* deliver, ack, nack, publish; fetch, commit, seek, assignment.  A slot   *)
(* holds a copy of a message: a stream entry, a queued message, or the     *)
(* record at that offset.  Slots of Redis and RabbitMQ are used again once *)
(* nobody refers to them.  A consumer of Redis or Kafka calls back for one *)
(* entry after the other, one of RabbitMQ for as many as the prefetch.     *)
(* Times are what they decide: an entry is idle for claim_idle_ms or not.  *)
(* What the handler and the pipeline around it do is in Consume; here they *)
(* claim, succeed or fail, and settle.                                     *)
(***************************************************************************)
EXTENDS Idempotency, Sequences, SequencesExt

CONSTANTS
  Kinds,       \* engines to choose from
  Consumers,
  Nobody,
  NumSlots,    \* bound: copies of messages at one time, or offsets
  Capacity,    \* subscription.capacity: XAUTOCLAIM count, prefetch
  MaxEngineFaults  \* bound, by engine: failures, consumers stopped, connections lost, trims

Slots == 1..NumSlots

ASSUME RemoteEngineAssumption ==
  /\ Kinds \subseteq {"redis", "rabbitmq", "kafka"}
  /\ Nobody \notin Consumers /\ Messages # {}
  /\ NumSlots \in Nat /\ Capacity \in Nat \ {0} /\ MaxEngineFaults \in [Kinds -> Nat]

VARIABLES
  kind,        \* the engine
  body,        \* the message in each slot
  present,     \* slots the server still holds
  queue,       \* undelivered slots of Redis or RabbitMQ
  holder,      \* the consumer a slot is pending for, or unacknowledged by
  idle,        \* pending entries of Redis idle for claim_idle_ms
  owner,       \* consumer the Kafka partition is assigned to
  committed,   \* committed offset
  position,    \* fetch position of each Kafka consumer
  cons,        \* "off", "on" or "paused"
  batch,       \* entries a Redis consumer has read and not yet handled
  work,        \* callbacks of each consumer, as <<slot, step>>
  sent,        \* history: messages the server accepted
  done,        \* history: messages handled
  twice,       \* history: messages handled again
  lapsed,      \* history: messages whose record expired too soon
  excused,     \* history: messages trimmed, or left unsettled by a handler
  engineFaults

serverVars == <<body, present, queue, holder, idle>>
kafkaVars == <<owner, committed, position>>
consumerVars == <<cons, batch, work>>
doneVars == <<done, twice>>
remoteVars == <<kind, serverVars, kafkaVars, consumerVars, sent, doneVars, lapsed, excused,
                engineFaults, claim>>

EngineFault == engineFaults < MaxEngineFaults[kind] /\ engineFaults' = engineFaults + 1

Referred(i) == \E w \in Consumers : i \in batch[w] \/ \E p \in work[w] : p[1] = i

Unused == {i \in Slots : i \notin present /\ ~Referred(i)}

\* The queue without the one slot of T, or as it is if T is empty.
Without(list, T) ==
  IF \E n \in DOMAIN list : list[n] \in T
    THEN RemoveAt(list, CHOOSE n \in DOMAIN list : list[n] \in T)
    ELSE list

\* Slots in the order of their numbers.
InOrder(S) ==
  CHOOSE list \in [1..Cardinality(S) -> S] : \A i, j \in DOMAIN list : i < j => list[i] < list[j]

\* Callbacks that have not returned; "kept" ones have, unsettled.
Running(w) == {p \in work[w] : p[2] # "kept"}

\* XADD, publish and send: one more copy, at the end, and without those in T
AppendCopy(m, T) ==
  /\ Unused # {}
  /\ LET i == CHOOSE x \in Unused : \A y \in Unused : x <= y
     IN  /\ body' = [body EXCEPT ![i] = m]
         /\ present' = (present \ T) \cup {i}
         /\ queue' = IF kind = "kafka" THEN queue
                       ELSE Append(Without(queue, T), i)

\* publish; XADD with max_length may trim an entry, delivered or not.
Publish(m) ==
  /\ m \notin sent
  /\ sent' = sent \cup {m}
  /\ \E T \in {{}} \cup {{i} : i \in present} :
       /\ AppendCopy(m, T)
       /\ holder' = [i \in Slots |-> IF i \in T THEN Nobody ELSE holder[i]]
       /\ idle' = idle \ T
       /\ excused' = excused \cup {body[i] : i \in T}
       /\ IF T = {} THEN UNCHANGED engineFaults ELSE kind = "redis" /\ EngineFault
  /\ UNCHANGED <<kind, kafkaVars, consumerVars, doneVars, lapsed, claim>>

-----------------------------------------------------------------------------
(* Taking entries                                                          *)

\* The callback starts with the claim of the message: it is handled, it is a
\* duplicate, or somebody else has it and it is put back.
Begin(w, i) ==
  \E step \in {"handling", "acking", "requeueing"} :
    /\ work' = [work EXCEPT ![w] = @ \cup {<<i, step>>}]
    /\ CASE step = "handling" -> Claim(body[i])
         [] step = "acking" -> ~Claimable(body[i]) /\ claim[body[i]] = "completed"
                                 /\ UNCHANGED claim
         [] step = "requeueing" -> \/ Overflow(body[i])
                                   \/ ~Claimable(body[i]) /\ claim[body[i]] = "processing"
                                        /\ UNCHANGED claim

Ready(w) == cons[w] = "on" /\ Running(w) = {} /\ batch[w] = {}

\* XREADGROUP with count=1
ReadNew(w) ==
  /\ kind = "redis"
  /\ Ready(w)
  /\ queue # <<>>
  /\ queue' = Tail(queue)
  /\ holder' = [holder EXCEPT ![Head(queue)] = w]
  /\ batch' = [batch EXCEPT ![w] = {Head(queue)}]
  /\ UNCHANGED <<kind, body, present, idle, kafkaVars, cons, work, sent, doneVars, lapsed,
                 excused, engineFaults, claim>>

\* Faulty variant, for mutation: pending entries are never reclaimed.
NothingReclaimable == {}

Reclaimable == idle

\* XAUTOCLAIM: entries of any consumer, up to the capacity
Reclaim(w) ==
  /\ kind = "redis"
  /\ Ready(w)
  /\ \E S \in SUBSET Reclaimable :
       /\ S # {} /\ Cardinality(S) <= Capacity
       /\ holder' = [i \in Slots |-> IF i \in S THEN w ELSE holder[i]]
       /\ idle' = idle \ S
       /\ batch' = [batch EXCEPT ![w] = S]
  /\ UNCHANGED <<kind, body, present, queue, kafkaVars, cons, work, sent, doneVars, lapsed, excused,
                 engineFaults, claim>>

\* The loop over the entries it has read, also if it is paused meanwhile.
NextInBatch(w) ==
  /\ kind = "redis"
  /\ cons[w] # "off"
  /\ Running(w) = {}
  /\ \E i \in batch[w] :
       /\ \A j \in batch[w] : i <= j
       /\ batch' = [batch EXCEPT ![w] = @ \ {i}]
       /\ Begin(w, i)
  /\ UNCHANGED <<kind, serverVars, kafkaVars, cons, sent, doneVars, lapsed, excused, engineFaults>>

\* on_message, for up to the prefetch of unacknowledged messages
Deliver(w) ==
  /\ kind = "rabbitmq"
  /\ cons[w] = "on"
  /\ queue # <<>>
  /\ Cardinality({i \in present : holder[i] = w}) < Capacity
  /\ queue' = Tail(queue)
  /\ holder' = [holder EXCEPT ![Head(queue)] = w]
  /\ Begin(w, Head(queue))
  /\ UNCHANGED <<kind, body, present, idle, kafkaVars, cons, batch, sent, doneVars, lapsed, excused,
                 engineFaults>>

\* async for over the assigned partition
Poll(w) ==
  /\ kind = "kafka"
  /\ Ready(w)
  /\ owner = w
  /\ position[w] + 1 \in present
  /\ position' = [position EXCEPT ![w] = @ + 1]
  /\ Begin(w, position[w] + 1)
  /\ UNCHANGED <<kind, serverVars, owner, committed, cons, batch, sent, doneVars, lapsed, excused,
                 engineFaults>>

-----------------------------------------------------------------------------
(* The callback and its acknowledgement                                    *)

Move(w, i, from, to) == work' = [work EXCEPT ![w] = (@ \ {<<i, from>>}) \cup {<<i, to>>}]

Handled(m) ==
  /\ done' = done \cup {m}
  /\ twice' = IF m \in done THEN twice \cup {m} ELSE twice

\* The handler succeeds; complete raises when the claim is gone.
Succeed(w, i) ==
  /\ <<i, "handling">> \in work[w]
  /\ Handled(body[i])
  /\ \/ Complete(body[i]) /\ Move(w, i, "handling", "acking")
     \/ claim[body[i]] = "none" /\ Move(w, i, "handling", "requeueing") /\ UNCHANGED claim
  /\ UNCHANGED <<kind, serverVars, kafkaVars, cons, batch, sent, lapsed, excused, engineFaults>>

\* It fails; release and put back.
Fail(w, i) ==
  /\ <<i, "handling">> \in work[w]
  /\ EngineFault
  /\ Release(body[i])
  /\ Move(w, i, "handling", "requeueing")
  /\ UNCHANGED <<kind, serverVars, kafkaVars, cons, batch, sent, doneVars, lapsed, excused>>

\* With manual acknowledgement the callback may return unsettled: the entry stays
\* pending or unacknowledged, and the next commit of Kafka covers it.
LeaveUnsettled(w, i) ==
  /\ <<i, "handling">> \in work[w]
  /\ EngineFault
  /\ Move(w, i, "handling", "kept")
  /\ excused' = IF kind = "redis" THEN excused ELSE excused \cup {body[i]}
  /\ UNCHANGED <<kind, serverVars, kafkaVars, cons, batch, sent, doneVars, lapsed, claim>>

\* XACK needs no ownership; the others need the channel or the partition.
MaySettle(w, i) ==
  CASE kind = "redis" -> TRUE
    [] kind = "rabbitmq" -> holder[i] = w
    [] kind = "kafka" -> owner = w

\* The server forgets the copy, or everything up to the offset.
Acknowledge(i) ==
  IF kind = "kafka"
    THEN committed' = i /\ UNCHANGED <<owner, position, present, queue, holder, idle>>
    ELSE /\ present' = present \ {i}
         /\ queue' = Without(queue, {i})
         /\ holder' = [holder EXCEPT ![i] = Nobody]
         /\ idle' = idle \ {i}
         /\ UNCHANGED kafkaVars

Ack(w, i) ==
  /\ <<i, "acking">> \in work[w]
  /\ MaySettle(w, i)
  /\ Acknowledge(i)
  /\ work' = [work EXCEPT ![w] = @ \ {<<i, "acking">>}]
  /\ UNCHANGED <<kind, body, cons, batch, sent, doneVars, lapsed, excused, engineFaults, claim>>

\* A kept delivery is handled and acknowledged long after its callback.
LateAck(w, i) ==
  /\ <<i, "kept">> \in work[w]
  /\ MaySettle(w, i)
  /\ Handled(body[i])
  /\ Complete(body[i]) \/ (claim[body[i]] = "none" /\ UNCHANGED claim)
  /\ Acknowledge(i)
  /\ work' = [work EXCEPT ![w] = @ \ {<<i, "kept">>}]
  /\ UNCHANGED <<kind, body, cons, batch, sent, lapsed, excused, engineFaults>>

\* Redis: a replacement first, then the acknowledgement
ReAdd(w, i) ==
  /\ kind = "redis"
  /\ <<i, "requeueing">> \in work[w]
  /\ AppendCopy(body[i], {})
  /\ Move(w, i, "requeueing", "acking")
  /\ UNCHANGED <<kind, holder, idle, kafkaVars, cons, batch, sent, doneVars, lapsed, excused,
                 engineFaults, claim>>

\* RabbitMQ: nack puts the message back in its place.
Nack(w, i) ==
  /\ kind = "rabbitmq"
  /\ <<i, "requeueing">> \in work[w]
  /\ MaySettle(w, i)
  /\ queue' = <<i>> \o queue
  /\ holder' = [holder EXCEPT ![i] = Nobody]
  /\ work' = [work EXCEPT ![w] = @ \ {<<i, "requeueing">>}]
  /\ UNCHANGED <<kind, body, present, idle, kafkaVars, cons, batch, sent, doneVars, lapsed, excused,
                 engineFaults, claim>>

\* RabbitMQ: defer publishes a replacement that the server confirms.
Defer(w, i) ==
  /\ kind = "rabbitmq"
  /\ <<i, "requeueing">> \in work[w]
  /\ EngineFault
  /\ AppendCopy(body[i], {})
  /\ Move(w, i, "requeueing", "acking")
  /\ UNCHANGED <<kind, holder, idle, kafkaVars, cons, batch, sent, doneVars, lapsed, excused,
                 claim>>

\* Kafka: seek back to the record
Seek(w, i) ==
  /\ kind = "kafka"
  /\ <<i, "requeueing">> \in work[w]
  /\ MaySettle(w, i)
  /\ position' = [position EXCEPT ![w] = i - 1]
  /\ work' = [work EXCEPT ![w] = @ \ {<<i, "requeueing">>}]
  /\ UNCHANGED <<kind, serverVars, owner, committed, cons, batch, sent, doneVars, lapsed, excused,
                 engineFaults, claim>>

\* An exception leaves the callback: the loop of Redis or Kafka ends; the message
\* of RabbitMQ stays unacknowledged until its channel closes.
Raise(w, i) ==
  /\ IF kind = "rabbitmq"
       THEN /\ work' = [work EXCEPT ![w] = {p \in @ : p[1] # i}]
            /\ excused' = excused \cup {body[i]}
            /\ UNCHANGED <<cons, batch, owner>>
       ELSE /\ cons' = [cons EXCEPT ![w] = "off"]
            /\ work' = [work EXCEPT ![w] = {}]
            /\ batch' = [batch EXCEPT ![w] = {}]
            /\ owner' = IF owner = w THEN Nobody ELSE owner
            /\ UNCHANGED excused
  /\ UNCHANGED <<kind, serverVars, committed, position, sent, doneVars, lapsed, claim>>

\* The channel or the partition is lost.
SettleFails(w, i) ==
  /\ \E step \in {"acking", "requeueing"} : <<i, step>> \in work[w]
  /\ ~MaySettle(w, i)
  /\ Raise(w, i)
  /\ UNCHANGED engineFaults

\* Faulty variant, for mutation: a replacement that is not confirmed counts as sent.
CommandAssumedDone(w, i) ==
  /\ EngineFault
  /\ \/ <<i, "requeueing">> \in work[w] /\ Move(w, i, "requeueing", "acking")
     \/ <<i, "acking">> \in work[w] /\ Move(w, i, "acking", "acking")
  /\ UNCHANGED <<kind, serverVars, kafkaVars, cons, batch, sent, doneVars, lapsed, excused,
                 claim>>

\* The command itself fails: connection errors, a replacement that is refused.
CommandFails(w, i) ==
  /\ \E step \in {"acking", "requeueing"} : <<i, step>> \in work[w]
  /\ EngineFault
  /\ Raise(w, i)

-----------------------------------------------------------------------------
(* Consumers and their connections                                         *)

Start(w) ==
  /\ cons[w] = "off"
  /\ cons' = [cons EXCEPT ![w] = "on"]
  /\ UNCHANGED <<kind, serverVars, kafkaVars, batch, work, sent, doneVars, lapsed, excused,
                 engineFaults, claim>>

Pause(w) ==
  /\ cons[w] = "on"
  /\ EngineFault
  /\ cons' = [cons EXCEPT ![w] = "paused"]
  /\ UNCHANGED <<kind, serverVars, kafkaVars, batch, work, sent, doneVars, lapsed, excused, claim>>

Resume(w) ==
  /\ cons[w] = "paused"
  /\ cons' = [cons EXCEPT ![w] = "on"]
  /\ UNCHANGED <<kind, serverVars, kafkaVars, batch, work, sent, doneVars, lapsed, excused,
                 engineFaults, claim>>

Unacked(w) == {i \in present : holder[i] = w}

\* The server takes back what w had on its channel.
ChannelClosed(w) ==
  /\ queue' = InOrder(Unacked(w)) \o queue
  /\ holder' = [i \in Slots |-> IF i \in Unacked(w) THEN Nobody ELSE holder[i]]

\* close, or the end of its task: callbacks are cancelled.
Stop(w) ==
  /\ cons[w] # "off"
  /\ EngineFault
  /\ cons' = [cons EXCEPT ![w] = "off"]
  /\ work' = [work EXCEPT ![w] = {}]
  /\ batch' = [batch EXCEPT ![w] = {}]
  /\ owner' = IF owner = w THEN Nobody ELSE owner
  /\ IF kind = "rabbitmq" THEN ChannelClosed(w) ELSE UNCHANGED <<queue, holder>>
  /\ UNCHANGED <<kind, body, present, idle, committed, position, sent, doneVars, lapsed, excused,
                 claim>>

\* The connection breaks under callbacks that go on.
ConnectionLost(w) ==
  /\ kind = "rabbitmq"
  /\ cons[w] # "off"
  /\ EngineFault
  /\ cons' = [cons EXCEPT ![w] = "off"]
  /\ ChannelClosed(w)
  /\ UNCHANGED <<kind, body, present, idle, kafkaVars, batch, work, sent, doneVars, lapsed, excused,
                 claim>>

\* The group coordinator assigns the partition: a fault when somebody has it.
Assign(w) ==
  /\ kind = "kafka"
  /\ cons[w] # "off"
  /\ owner # w
  /\ owner' = w
  /\ position' = [position EXCEPT ![w] = committed]
  /\ IF owner = Nobody THEN UNCHANGED engineFaults ELSE EngineFault
  /\ UNCHANGED <<kind, serverVars, committed, consumerVars, sent, doneVars, lapsed, excused,
                 claim>>

-----------------------------------------------------------------------------
(* Time                                                                    *)

BecomesIdle(i) ==
  /\ kind = "redis"
  /\ i \in present \ idle
  /\ holder[i] # Nobody
  /\ idle' = idle \cup {i}
  /\ UNCHANGED <<kind, body, present, queue, holder, kafkaVars, consumerVars, sent, doneVars,
                 lapsed, excused, engineFaults, claim>>

\* Callbacks that have m, at one of the steps in S.
InHand(m, S) == \E w \in Consumers : \E p \in work[w] : body[p[1]] = m /\ p[2] \in S

\* Copies of m that somebody has or may get; a late commit may go back to any
\* offset that a callback has.
Copies(m) ==
  {i \in Slots : /\ body[i] = m
                 /\ \/ Referred(i)
                    \/ /\ i \in present
                       /\ \/ kind # "kafka" \/ i > committed
                          \/ owner # Nobody /\ i > position[owner]
                          \/ \E j \in 1..i : Referred(j)}

\* Under a handler, or while copies can still be delivered.
TooSoon(m) == InHand(m, {"handling", "kept"}) \/ (claim[m] = "completed" /\ Copies(m) # {})

\* A ttl that is too short is a fault, but nobody waits for a kept delivery.
RecordExpires(m) ==
  /\ Expire(m)
  /\ lapsed' = IF TooSoon(m) THEN lapsed \cup {m} ELSE lapsed
  /\ IF TooSoon(m) /\ (InHand(m, {"handling"}) \/ ~InHand(m, {"kept"}))
       THEN EngineFault ELSE UNCHANGED engineFaults
  /\ UNCHANGED <<kind, serverVars, kafkaVars, consumerVars, sent, doneVars, excused>>

-----------------------------------------------------------------------------
RemoteInit ==
  /\ kind \in Kinds
  /\ body \in [Slots -> {CHOOSE m \in Messages : TRUE}]
  /\ present = {} /\ queue = <<>> /\ idle = {}
  /\ holder = [i \in Slots |-> Nobody]
  /\ owner = Nobody /\ committed = 0 /\ position = [w \in Consumers |-> 0]
  /\ cons = [w \in Consumers |-> "off"]
  /\ batch = [w \in Consumers |-> {}]
  /\ work = [w \in Consumers |-> {}]
  /\ sent = {} /\ done = {} /\ twice = {} /\ lapsed = {} /\ excused = {}
  /\ engineFaults = 0
  /\ StoreInit

Take(w) == ReadNew(w) \/ NextInBatch(w) \/ Deliver(w) \/ Poll(w)

SettleDelivery(w, i) == Ack(w, i) \/ ReAdd(w, i) \/ Nack(w, i) \/ Seek(w, i) \/ SettleFails(w, i)

Callback(w, i) ==
  \/ Succeed(w, i) \/ Fail(w, i) \/ LeaveUnsettled(w, i) \/ LateAck(w, i) \/ Defer(w, i)
  \/ CommandFails(w, i)

RemoteNext ==
  \/ \E m \in Messages : Publish(m) \/ RecordExpires(m)
  \/ \E i \in Slots : BecomesIdle(i)
  \/ \E w \in Consumers :
       \/ Take(w) \/ Reclaim(w) \/ Start(w) \/ Pause(w) \/ Resume(w) \/ Stop(w) \/ ConnectionLost(w)
       \/ Assign(w)
       \/ \E i \in Slots : SettleDelivery(w, i) \/ Callback(w, i)

RemoteSpec == RemoteInit /\ [][RemoteNext]_remoteVars

(***************************************************************************)
(* Consumers take what there is, handlers and commands end, time passes,   *)
(* the group assigns its partition.  XAUTOCLAIM goes first once the        *)
(* interval is over, so reclaiming is not starved by new entries.          *)
(***************************************************************************)
RemoteFairness ==
  /\ \A w \in Consumers :
       /\ WF_remoteVars(Take(w)) /\ SF_remoteVars(Reclaim(w))
       /\ WF_remoteVars(owner = Nobody /\ Assign(w))
       /\ \A i \in Slots : WF_remoteVars(SettleDelivery(w, i)) /\ WF_remoteVars(Succeed(w, i))
  /\ \A i \in Slots : WF_remoteVars(BecomesIdle(i))
  /\ \A m \in Messages : WF_remoteVars(RecordExpires(m))

RemoteFairSpec == RemoteSpec /\ RemoteFairness

-----------------------------------------------------------------------------
(* Properties                                                              *)

RemoteTypeOK ==
  /\ StoreTypeOK
  /\ body \in [Slots -> Messages] /\ present \subseteq Slots
  /\ holder \in [Slots -> Consumers \cup {Nobody}] /\ idle \subseteq present
  /\ cons \in [Consumers -> {"off", "on", "paused"}]
  /\ work \in [Consumers -> SUBSET (Slots \X {"handling", "acking", "requeueing", "kept"})]
  /\ kind # "kafka" =>
       \A i \in present : (holder[i] = Nobody) = (i \in {queue[n] : n \in DOMAIN queue})

(* "At-least-once": a message the server accepted is handled, or a copy of *)
(* it can still be delivered, whichever consumer stops, loses its channel  *)
(* or its partition, and wherever a requeue, a defer, a commit or an       *)
(* acknowledgement fails; except for entries that max_length trimmed and   *)
(* for deliveries of Kafka and RabbitMQ that a handler left unsettled.     *)
NothingLost ==
  /\ RemoteTypeOK
  /\ \A m \in sent \ (done \cup excused) :
       \E i \in present : body[i] = m /\ (kind = "kafka" => i > committed)

(* Idempotent handlers over at-least-once delivery: however often copies   *)
(* of a message are delivered, reclaimed, replaced and replayed, two       *)
(* handlers run for it, or it takes effect twice, only if its record       *)
(* expired under a handler or while copies were left.                      *)
EffectivelyOnce ==
  \A m \in Messages \ lapsed :
    /\ m \notin twice
    /\ \A w, v \in Consumers : \A p \in work[w], q \in work[v] :
         (body[p[1]] = m /\ body[q[1]] = m /\ {p[2], q[2]} \subseteq {"handling", "kept"})
           => w = v /\ p = q

(* Every accepted message is handled in the end if one consumer stays on   *)
(* and none stays paused (it would keep its partition): entries of stopped *)
(* consumers are reclaimed, taken back or replayed, and claims of          *)
(* cancelled handlers expire.  Runs in which the store stays full, or the  *)
(* stream at the bound on copies, are left out.                            *)
EveryMessageHandled ==
  (/\ \E w \in Consumers : <>[](cons[w] = "on")
   /\ \A w \in Consumers : []<>(cons[w] # "paused")
   /\ []<>(\A m \in Messages : ~Full(m)) /\ []<>(kind # "redis" \/ Unused # {}))
    => \A m \in Messages : (m \in sent) ~> (m \in done \cup excused)

=============================================================================
