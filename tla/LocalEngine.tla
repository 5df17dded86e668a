---------------------------- MODULE LocalEngine ----------------------------
(***************************************************************************)
(* broka.engines.local: publish runs the handlers itself.  It takes a      *)
(* snapshot of the consumers and delivers to one after the other, each     *)
(* with a semaphore, a pause and the redeliveries its handler asks for,    *)
(* while other publishers do the same and consumers are paused, resumed,   *)
(* closed, removed and registered anew.  The lock of the engine is never   *)
(* held over an await.  One action is the code from one await to the next. *)
(***************************************************************************)
EXTENDS Integers, Sequences, FiniteSets, SequencesExt

CONSTANTS
  Publishers,
  Topics,          \* destinations with their headers
  NoTopic,
  LocalConsumers,  \* _LocalConsumer objects
  ConsumerIds,     \* ids of subscriptions
  NoConsumer,
  Concurrency,     \* concurrency of a subscription
  MaxDeliveries,   \* bound: deliveries of one message to one consumer
  MaxUpsets        \* bound: closes, disconnects, raising handlers and cancelled publishers

ASSUME LocalAssumption ==
  /\ IsFiniteSet(Publishers) /\ Concurrency \in Nat \ {0}
  /\ NoConsumer \notin LocalConsumers \cup ConsumerIds

VARIABLES
  connected,
  registered,    \* _consumers, in the order of the dict
  wants,         \* topics that the subscription of each consumer matches
  named,         \* its id, NoConsumer before it is created
  closed,        \* consumers with _closed
  asleep,        \* consumers with _resumed not set
  permits,       \* free permits of its semaphore
  at,            \* of each publisher: "idle", "queued", "waiting", "woken", "handling",
                 \* "deferring", "returned" or "raised"
  topic,         \* what it publishes
  visiting,      \* the consumer it delivers to
  rest,          \* consumers of its snapshot after that one
  delivery,      \* attempt of the current delivery
  meant,         \* history: consumers of the snapshot that match
  done,          \* history: consumers whose handler settled the message
  upsets

localVars == <<connected, registered, wants, named, closed, asleep, permits, at, topic,
               visiting, rest, delivery, meant, done, upsets>>
engineVars == <<connected, registered, wants, named>>
flagVars == <<closed, asleep>>
publishVars == <<at, topic, visiting, rest, delivery, meant, done>>

Upset == upsets < MaxUpsets /\ upsets' = upsets + 1

-----------------------------------------------------------------------------
(* Consumers                                                               *)

\* create_consumer: an id that is registered is refused.
CreateConsumer ==
  /\ connected
  /\ \E c \in LocalConsumers, i \in ConsumerIds, S \in SUBSET Topics :
       /\ named[c] = NoConsumer
       /\ \A n \in DOMAIN registered : named[registered[n]] # i
       /\ named' = [named EXCEPT ![c] = i]
       /\ wants' = [wants EXCEPT ![c] = S]
       /\ registered' = Append(registered, c)
  /\ UNCHANGED <<connected, flagVars, permits, publishVars, upsets>>

PauseConsumer(c) ==
  /\ named[c] # NoConsumer /\ c \notin asleep
  /\ asleep' = asleep \cup {c}
  /\ UNCHANGED <<engineVars, closed, permits, publishVars, upsets>>

\* _resumed.set() wakes those who wait, even if a pause comes before they run.
WakeAll(S) ==
  /\ asleep' = asleep \ S
  /\ at' = [p \in Publishers |-> IF at[p] = "waiting" /\ visiting[p] \in S THEN "woken" ELSE at[p]]

ResumeConsumer(c) ==
  /\ c \in asleep
  /\ WakeAll({c})
  /\ UNCHANGED <<engineVars, closed, permits, topic, visiting, rest, delivery, meant, done,
                 upsets>>

CloseAll(S) == closed' = closed \cup S /\ WakeAll(S)

\* close of the consumer, which stays registered, and remove_consumer
CloseConsumer(c) ==
  /\ named[c] # NoConsumer
  /\ Upset
  /\ CloseAll({c})
  /\ \/ UNCHANGED registered
     \/ \E n \in DOMAIN registered : registered[n] = c /\ registered' = RemoveAt(registered, n)
  /\ UNCHANGED <<connected, wants, named, permits, topic, visiting, rest, delivery, meant, done>>

Disconnect ==
  /\ connected
  /\ Upset
  /\ connected' = FALSE /\ registered' = <<>>
  /\ CloseAll(Range(registered))
  /\ UNCHANGED <<wants, named, permits, topic, visiting, rest, delivery, meant, done>>

Connect ==
  /\ ~connected
  /\ connected' = TRUE
  /\ UNCHANGED <<registered, wants, named, flagVars, permits, publishVars, upsets>>

-----------------------------------------------------------------------------
(* publish and deliver                                                     *)

SubscriptionMatches(c, t) == t \in wants[c]

\* publish goes on with the consumers of list, when permits are as in free.
Visit(p, t, list, free) ==
  LET Open(c) == c \notin closed /\ SubscriptionMatches(c, t)
      n == SelectInSeq(list, Open)
  IN  /\ delivery' = [delivery EXCEPT ![p] = 1]
      /\ IF n = 0
           THEN /\ at' = [at EXCEPT ![p] = "returned"]
                /\ visiting' = [visiting EXCEPT ![p] = NoConsumer]
                /\ rest' = [rest EXCEPT ![p] = <<>>]
                /\ permits' = free
           ELSE /\ visiting' = [visiting EXCEPT ![p] = list[n]]
                /\ rest' = [rest EXCEPT ![p] = SubSeq(list, n + 1, Len(list))]
                /\ IF free[list[n]] = 0
                     THEN at' = [at EXCEPT ![p] = "queued"] /\ permits' = free
                     ELSE /\ at' = [at EXCEPT ![p] = IF list[n] \in asleep THEN "waiting"
                                                     ELSE "handling"]
                          /\ permits' = [free EXCEPT ![list[n]] = @ - 1]

Released(p) == [permits EXCEPT ![visiting[p]] = @ + 1]

\* The loop of deliver, from its test on, with the permit in hand, for delivery k.
Again(p, free, k) ==
  IF visiting[p] \in closed
    THEN Visit(p, topic[p], rest[p], [free EXCEPT ![visiting[p]] = @ + 1])
    ELSE /\ at' = [at EXCEPT ![p] = IF visiting[p] \in asleep THEN "waiting" ELSE "handling"]
         /\ permits' = free
         /\ delivery' = [delivery EXCEPT ![p] = k]
         /\ UNCHANGED <<visiting, rest>>

PublishLocal(p) ==
  /\ at[p] \in {"idle", "returned", "raised"}
  /\ connected
  /\ \E t \in Topics :
       /\ topic' = [topic EXCEPT ![p] = t]
       /\ meant' = [meant EXCEPT ![p] = {c \in Range(registered) : SubscriptionMatches(c, t)}]
       /\ Visit(p, t, registered, permits)
  /\ done' = [done EXCEPT ![p] = {}]
  /\ UNCHANGED <<engineVars, flagVars, upsets>>

Acquire(p) ==
  /\ at[p] = "queued" /\ permits[visiting[p]] > 0
  /\ Again(p, [permits EXCEPT ![visiting[p]] = @ - 1], 1)
  /\ UNCHANGED <<engineVars, flagVars, topic, meant, done, upsets>>

\* The handler starts, of a consumer closed or paused again meanwhile too.
Start(p) ==
  /\ at[p] = "woken"
  /\ at' = [at EXCEPT ![p] = "handling"]
  /\ UNCHANGED <<engineVars, flagVars, permits, topic, visiting, rest, delivery, meant, done,
                 upsets>>

\* ack, reject, nack without requeue and no decision end a delivery.
Actions == {"done", "requeue", "defer"}

\* Faulty variant, for mutation: a deferred delivery ends like an acknowledged one.
RedeliversRequeued(action) == action = "requeue"

Redelivers(action) == action \in {"requeue", "defer"}

\* The handler returns, having acknowledged or rejected, requeued or deferred.
HandlerSettles(p) ==
  /\ at[p] = "handling"
  /\ \E action \in Actions :
       /\ done' = IF action = "done" THEN [done EXCEPT ![p] = @ \cup {visiting[p]}] ELSE done
       /\ Redelivers(action) => delivery[p] < MaxDeliveries
       /\ CASE ~Redelivers(action) -> Visit(p, topic[p], rest[p], Released(p))
            [] Redelivers(action) /\ action # "defer" -> Again(p, permits, delivery[p] + 1)
            [] Redelivers(action) /\ action = "defer" ->
                 /\ at' = [at EXCEPT ![p] = "deferring"]
                 /\ UNCHANGED <<permits, visiting, rest, delivery>>
  /\ UNCHANGED <<engineVars, flagVars, topic, meant, upsets>>

DelayOver(p) ==
  /\ at[p] = "deferring"
  /\ Again(p, permits, delivery[p] + 1)
  /\ UNCHANGED <<engineVars, flagVars, topic, meant, done, upsets>>

\* The handler raises, or the publisher is cancelled: publish raises.
PublishRaises(p) ==
  /\ at[p] \in {"queued", "waiting", "woken", "handling", "deferring"}
  /\ Upset
  /\ permits' = IF at[p] = "queued" THEN permits ELSE Released(p)
  /\ at' = [at EXCEPT ![p] = "raised"]
  /\ visiting' = [visiting EXCEPT ![p] = NoConsumer]
  /\ rest' = [rest EXCEPT ![p] = <<>>]
  /\ UNCHANGED <<engineVars, flagVars, topic, delivery, meant, done>>

-----------------------------------------------------------------------------
LocalInit ==
  /\ connected = TRUE /\ registered = <<>> /\ closed = {} /\ asleep = {} /\ upsets = 0
  /\ wants = [c \in LocalConsumers |-> {}] /\ named = [c \in LocalConsumers |-> NoConsumer]
  /\ permits = [c \in LocalConsumers |-> Concurrency]
  /\ at = [p \in Publishers |-> "idle"] /\ topic = [p \in Publishers |-> NoTopic]
  /\ visiting = [p \in Publishers |-> NoConsumer] /\ rest = [p \in Publishers |-> <<>>]
  /\ delivery = [p \in Publishers |-> 1]
  /\ meant = [p \in Publishers |-> {}] /\ done = [p \in Publishers |-> {}]

LocalNext ==
  \/ CreateConsumer \/ Connect \/ Disconnect
  \/ \E c \in LocalConsumers : PauseConsumer(c) \/ ResumeConsumer(c) \/ CloseConsumer(c)
  \/ \E p \in Publishers : \/ PublishLocal(p) \/ Acquire(p) \/ Start(p) \/ HandlerSettles(p)
                           \/ DelayOver(p) \/ PublishRaises(p)

-----------------------------------------------------------------------------
(* Properties                                                              *)

(* Whatever happens to the consumers meanwhile, publish returns only after *)
(* each consumer that matched has settled the message or is closed; no     *)
(* consumer is overtaken by a later one of the snapshot; and of each       *)
(* consumer at most Concurrency handlers run, redeliveries included,       *)
(* without a permit being lost to a raising or cancelled delivery.         *)
LocalPublishSettles ==
  /\ \A p \in Publishers :
       /\ at[p] = "returned" => meant[p] \subseteq done[p] \cup closed
       /\ visiting[p] # NoConsumer =>
            meant[p] \subseteq done[p] \cup closed \cup {visiting[p]} \cup Range(rest[p])
       /\ at[p] \in {"queued", "waiting", "woken", "handling", "deferring"}
            <=> visiting[p] # NoConsumer
  /\ \A c \in LocalConsumers :
       permits[c] + Cardinality({p \in Publishers : visiting[p] = c /\ at[p] # "queued"})
         = Concurrency

=============================================================================
