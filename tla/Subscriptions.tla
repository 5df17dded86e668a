---------------------------- MODULE Subscriptions ----------------------------
(***************************************************************************)
(* Subscription handles (broka.subscription) with the broker as their      *)
(* controller, the consumers of an engine, and the restore callbacks by    *)
(* which a reconnecting ConnectionManager creates the consumers anew.  A   *)
(* handle holds its lock while the controller awaits the consumer.         *)
(***************************************************************************)
EXTENDS Integers, Sequences, FiniteSets, SequencesExt

CONSTANTS
  Subs,
  Nobody,
  MaxConsumers,  \* bound: consumers created for one subscription
  MaxMishaps     \* bound: losses of the connection and failing calls

ASSUME SubscriptionAssumption == Nobody \notin Subs /\ MaxConsumers \in Nat

Generations == 1..MaxConsumers

VARIABLES
  sub,           \* "active", "paused", "failed" or "closed"; before, in subscribe, "new",
                 \* "creating" inside create_consumer, "created", or "refused" for good
  busy,          \* what holds the lock: "free", "pausing", "resuming" or "closing"
  target,        \* generation of the consumer that the holder awaits
  record,        \* generation of record.consumer
  consumer,      \* "none", "open", "paused" or "closed", for each generation
  callbacks,     \* _restore_callbacks
  link,          \* "up", "down" from the disconnect to the connect, "restoring", "failed"
  next,          \* index of the next callback of the iteration
  restoring,     \* subscription whose callback is awaited, or Nobody
  skipped,       \* history: passed over by the latest restore
  reopened,      \* history: restored while paused
  orphaned,      \* history: restored while closing, or not closed by a failing close
  mishaps

subscriptionVars == <<sub, busy, target, record, consumer, callbacks, link, next, restoring,
                      skipped, reopened, orphaned, mishaps>>
handleVars == <<sub, busy, target>>
linkVars == <<link, next, restoring>>
excuses == <<skipped, reopened, orphaned>>

Mishap == mishaps < MaxMishaps /\ mishaps' = mishaps + 1

Created(s) == {g \in Generations : consumer[s][g] # "none"}

\* create_consumer has returned.
NewConsumer(s) ==
  LET g == Cardinality(Created(s)) + 1
  IN  /\ g <= MaxConsumers
      /\ consumer' = [consumer EXCEPT ![s][g] = "open"]
      /\ record' = [record EXCEPT ![s] = g]

-----------------------------------------------------------------------------
(* The handle                                                              *)

\* The engine's table has no consumer of s that is not closed.
Shut(s) == \A g \in Generations : consumer[s][g] \in {"none", "closed"}

\* subscribe calls create_consumer under a lease of the connection.
AskConsumer(s) ==
  /\ sub[s] = "new" /\ link = "up"
  /\ sub' = [sub EXCEPT ![s] = "creating"]
  /\ UNCHANGED <<busy, target, record, consumer, callbacks, linkVars, excuses, mishaps>>

\* It returns whatever the connection is now: a lease excludes no reconnect, and the engine
\* enters the consumer in its table only after having started it.
ConsumerCreated(s) ==
  /\ sub[s] = "creating"
  /\ NewConsumer(s)
  /\ sub' = [sub EXCEPT ![s] = "created"]
  /\ UNCHANGED <<busy, target, callbacks, linkVars, excuses, mishaps>>

\* create_consumer raises, or subscribe is cancelled: a consumer that is there stays.
SubscribeEnds(s) ==
  /\ sub[s] \in {"creating", "created"}
  /\ sub' = [sub EXCEPT ![s] = "refused"]
  /\ UNCHANGED <<busy, target, record, consumer, callbacks, linkVars, excuses, mishaps>>

\* subscribe, after connection.run: from now on the subscription is restored, but
\* a reconnect may have closed its consumer already.
Subscribed(s) ==
  /\ sub[s] = "created"
  /\ callbacks' = Append(callbacks, s)
  /\ sub' = [sub EXCEPT ![s] = "active"]
  /\ skipped' = IF /\ consumer[s][record[s]] = "closed"
                   /\ link = "up" \/ (link = "restoring" /\ Len(callbacks') < next)
                  THEN skipped \cup {s} ELSE skipped
  /\ UNCHANGED <<busy, target, record, consumer, linkVars, reopened, orphaned, mishaps>>

PauseHandle(s) ==
  /\ sub[s] = "active" /\ busy[s] = "free"
  /\ busy' = [busy EXCEPT ![s] = "pausing"]
  /\ target' = [target EXCEPT ![s] = record[s]]
  /\ UNCHANGED <<sub, record, consumer, callbacks, linkVars, excuses, mishaps>>

\* consumer.pause returns.
Paused(s) ==
  /\ busy[s] = "pausing"
  /\ consumer' = [consumer EXCEPT ![s][target[s]] = IF @ = "open" THEN "paused" ELSE @]
  /\ sub' = [sub EXCEPT ![s] = "paused"]
  /\ busy' = [busy EXCEPT ![s] = "free"]
  /\ UNCHANGED <<target, record, callbacks, linkVars, excuses, mishaps>>

ResumeHandle(s) ==
  /\ sub[s] = "paused" /\ busy[s] = "free"
  /\ busy' = [busy EXCEPT ![s] = "resuming"]
  /\ target' = [target EXCEPT ![s] = record[s]]
  /\ UNCHANGED <<sub, record, consumer, callbacks, linkVars, excuses, mishaps>>

Resumed(s) ==
  /\ busy[s] = "resuming"
  /\ consumer' = [consumer EXCEPT ![s][target[s]] = IF @ = "paused" THEN "open" ELSE @]
  /\ sub' = [sub EXCEPT ![s] = "active"]
  /\ busy' = [busy EXCEPT ![s] = "free"]
  /\ reopened' = reopened \ {s}
  /\ UNCHANGED <<target, record, callbacks, linkVars, skipped, orphaned, mishaps>>

\* consumer.pause or consumer.resume raises: the state stays.
ControlFails(s) ==
  /\ busy[s] \in {"pausing", "resuming"}
  /\ Mishap
  /\ busy' = [busy EXCEPT ![s] = "free"]
  /\ UNCHANGED <<sub, target, record, consumer, callbacks, linkVars, excuses>>

\* fail: the application gives the subscription up; it can only be closed.
FailHandle(s) ==
  /\ sub[s] \in {"active", "paused"} /\ busy[s] = "free"
  /\ Mishap
  /\ sub' = [sub EXCEPT ![s] = "failed"]
  /\ UNCHANGED <<busy, target, record, consumer, callbacks, linkVars, excuses>>

\* The list shrinks under the iteration: after a callback at or before the current
\* one is removed, the one that was next is passed over.
RemoveCallback(s) ==
  LET n == CHOOSE i \in DOMAIN callbacks : callbacks[i] = s
  IN  /\ callbacks' = RemoveAt(callbacks, n)
      /\ skipped' = IF link = "restoring" /\ n < next /\ next <= Len(callbacks)
                      THEN skipped \cup {callbacks[next]} ELSE skipped

\* close, and Broker.close up to consumer.close.
CloseHandle(s) ==
  /\ sub[s] \in {"active", "paused", "failed"} /\ busy[s] = "free"
  /\ busy' = [busy EXCEPT ![s] = "closing"]
  /\ target' = [target EXCEPT ![s] = record[s]]
  /\ IF Contains(callbacks, s) THEN RemoveCallback(s) ELSE UNCHANGED <<callbacks, skipped>>
  /\ UNCHANGED <<sub, record, consumer, linkVars, reopened, orphaned, mishaps>>

\* Another close after one that failed finds no record and closes nothing.
Closed(s) ==
  /\ busy[s] = "closing"
  /\ consumer' = IF s \in orphaned THEN consumer
                 ELSE [consumer EXCEPT ![s][target[s]] = "closed"]
  /\ sub' = [sub EXCEPT ![s] = "closed"]
  /\ busy' = [busy EXCEPT ![s] = "free"]
  /\ UNCHANGED <<target, record, callbacks, linkVars, excuses, mishaps>>

CloseFails(s) ==
  /\ busy[s] = "closing"
  /\ Mishap
  /\ busy' = [busy EXCEPT ![s] = "free"]
  /\ orphaned' = orphaned \cup {s}
  /\ UNCHANGED <<sub, target, record, consumer, callbacks, linkVars, skipped, reopened>>

-----------------------------------------------------------------------------
(* The connection                                                          *)

AllClosed ==
  consumer' = [s \in Subs |-> [g \in Generations |->
                 IF consumer[s][g] = "none" THEN "none" ELSE "closed"]]

\* A heartbeat or an operation finds the connection failed; the engine is as it was.
Unhealthy ==
  /\ link = "up"
  /\ Mishap
  /\ link' = "failed"
  /\ UNCHANGED <<handleVars, record, consumer, callbacks, next, restoring, excuses>>

\* reconnect: the engine closes the consumers that are in its table now.
Reconnect ==
  /\ link \in {"up", "failed"}
  /\ Mishap
  /\ link' = "down"
  /\ AllClosed
  /\ skipped' = {}
  /\ UNCHANGED <<handleVars, record, callbacks, next, restoring, reopened, orphaned>>

\* startup, by an operation that finds the connection failed: nothing is disconnected.
StartAgain ==
  /\ link = "failed"
  /\ link' = "down"
  /\ skipped' = {}
  /\ UNCHANGED <<handleVars, record, consumer, callbacks, next, restoring, reopened, orphaned,
                 mishaps>>

\* The engine has connected: the callbacks are called one by one.
Connected ==
  /\ link = "down"
  /\ link' = "restoring" /\ next' = 1
  /\ UNCHANGED <<handleVars, record, consumer, callbacks, restoring, excuses, mishaps>>

ConnectFails ==
  /\ link = "down"
  /\ Mishap
  /\ link' = "failed"
  /\ UNCHANGED <<handleVars, record, consumer, callbacks, next, restoring, excuses>>

CallRestore ==
  /\ link = "restoring" /\ restoring = Nobody
  /\ next <= Len(callbacks) /\ Shut(callbacks[next])
  /\ restoring' = callbacks[next] /\ next' = next + 1
  /\ UNCHANGED <<handleVars, record, consumer, callbacks, link, excuses, mishaps>>

AllRestored ==
  /\ link = "restoring" /\ restoring = Nobody
  /\ next > Len(callbacks)
  /\ link' = "up"
  /\ UNCHANGED <<handleVars, record, consumer, callbacks, next, restoring, excuses, mishaps>>

\* Faulty variant, for mutation: the record keeps the consumer it had.
RestoredAside(s) ==
  /\ \E g \in Generations :
       /\ g = Cardinality(Created(s)) + 1
       /\ consumer' = [consumer EXCEPT ![s][g] = "open"]
  /\ UNCHANGED record

RestoredConsumer(s) == NewConsumer(s)

\* restore_consumer: its consumer replaces the one of the record, in use or not.
Restored ==
  /\ restoring # Nobody
  /\ RestoredConsumer(restoring)
  /\ restoring' = Nobody
  /\ reopened' = IF sub[restoring] = "paused" \/ busy[restoring] = "pausing"
                   THEN reopened \cup {restoring} ELSE reopened
  /\ orphaned' = IF sub[restoring] = "closed" \/ busy[restoring] = "closing"
                   THEN orphaned \cup {restoring} ELSE orphaned
  /\ UNCHANGED <<handleVars, callbacks, link, next, skipped, mishaps>>

\* create_consumer refuses to replace a consumer that is not closed.
Refused ==
  /\ restoring = Nobody
  /\ next <= Len(callbacks) /\ ~Shut(callbacks[next])

\* A callback raises: the engine is disconnected again.
RestoreFails ==
  /\ link = "restoring"
  /\ IF Refused THEN UNCHANGED mishaps ELSE Mishap
  /\ link' = "failed" /\ restoring' = Nobody
  /\ AllClosed
  /\ UNCHANGED <<handleVars, record, callbacks, next, excuses>>

-----------------------------------------------------------------------------
SubscriptionInit ==
  /\ sub = [s \in Subs |-> "new"] /\ busy = [s \in Subs |-> "free"]
  /\ target = [s \in Subs |-> 0] /\ record = [s \in Subs |-> 0]
  /\ consumer = [s \in Subs |-> [g \in Generations |-> "none"]]
  /\ callbacks = <<>> /\ link = "up" /\ next = 1 /\ restoring = Nobody
  /\ skipped = {} /\ reopened = {} /\ orphaned = {} /\ mishaps = 0

SubscriptionNext ==
  \/ \E s \in Subs : \/ AskConsumer(s) \/ ConsumerCreated(s) \/ SubscribeEnds(s)
                     \/ Subscribed(s) \/ PauseHandle(s) \/ Paused(s) \/ ResumeHandle(s)
                     \/ Resumed(s) \/ ControlFails(s) \/ FailHandle(s) \/ CloseHandle(s)
                     \/ Closed(s) \/ CloseFails(s)
  \/ Unhealthy \/ Reconnect \/ StartAgain \/ Connected \/ ConnectFails
  \/ CallRestore \/ AllRestored \/ Restored \/ RestoreFails

-----------------------------------------------------------------------------
(* Properties                                                              *)

(* With the connection up and no call under way, a subscription is what    *)
(* its handle says: active ones have an open consumer, paused ones a       *)
(* paused one, closed ones none; however reconnects and calls interleave,  *)
(* except in four windows: a callback removed while the callbacks run      *)
(* makes the list skip the next one, a reconnect between create_consumer   *)
(* and the registration of the callback misses it, a paused subscription   *)
(* is restored open, and one that is closed while it is restored, or whose *)
(* close failed, leaves its consumer.  And a subscription never has two    *)
(* open consumers.                                                         *)
HandlesAgree ==
  \A s \in Subs :
    /\ Cardinality({g \in Generations : consumer[s][g] \in {"open", "paused"}}) <= 1
    /\ link = "up" /\ busy[s] = "free" /\ s \notin orphaned =>
         /\ sub[s] = "active" => consumer[s][record[s]] = "open" \/ s \in skipped
         /\ sub[s] = "paused" => \/ consumer[s][record[s]] = "paused"
                                 \/ s \in skipped \cup reopened
         /\ sub[s] = "closed" => \A g \in Created(s) : consumer[s][g] = "closed"

=============================================================================
