---------------------------- MODULE MemoryQueue -----------------------------
(***************************************************************************)
(* broka.engines.memory: one consumer of the memory engine, with its       *)
(* bounded asyncio.Queue, the publish calls that feed it, its workers, and *)
(* close, which drains it; the Subscription that pauses, resumes and       *)
(* closes it; and disconnect of the engine, which closes it as well.       *)
(*                                                                         *)
(* asyncio.Queue: a full queue lets puts wait in line, a get wakes the     *)
(* first of them, and the woken put tries again when the event loop runs   *)
(* it.  The loop runs the tasks it woke in the order it woke them.  Puts   *)
(* from the workers and from close stand in the same line as those of the  *)
(* publishers.  The workers may run at any time.                           *)
(***************************************************************************)
EXTENDS Naturals, Sequences, FiniteSets, SequencesExt

CONSTANTS
  Items,         \* publish calls, each with its message
  Workers,       \* as many as the concurrency of the subscription
  Capacity,      \* capacity of the subscription
  Policies,      \* overflow policies the engine may be configured with
  MaxAttempts,   \* bound: deliveries of a message before the handler settles it
  Stop,          \* the None that ends a worker
  Closer,        \* the close call, as a put in line
  NoItem

ASSUME MemoryQueueAssumption ==
  /\ IsFiniteSet(Items) /\ IsFiniteSet(Workers) /\ Workers # {}
  /\ Items \cap Workers = {}
  /\ {Stop, Closer, NoItem} \cap (Items \cup Workers) = {}
  /\ Cardinality({Stop, Closer, NoItem}) = 3
  /\ Capacity \in Nat \ {0}
  /\ Policies \subseteq {"block", "reject", "drop-newest"}
  /\ MaxAttempts \in Nat \ {0}

VARIABLES
  policy,      \* overflow_policy
  queue,       \* items and Stops in the queue
  line,        \* puts that wait for a slot
  woken,       \* puts, and close, that were woken and have not run yet
  unfinished,  \* puts without a task_done, which join waits for
  fate,        \* what became of each publish call
  attempts,    \* deliveries of each message
  disposition,     \* what became of each message
  worker,      \* where each worker is
  hand,        \* the message it has taken
  resumed,     \* the resumed event
  phase,       \* progress of close; not open means _closed
  stops,       \* Stops close has still to put
  timedOut,    \* the drain timeout cancelled the workers, who leave one by one
  early,       \* history: messages accepted before close
  subscription,\* state of the Subscription
  bySub        \* Subscription.close awaits the end of close, under its lock

feed == <<policy, fate>>
control == <<resumed, phase, stops, timedOut, early, subscription, bySub>>
queueVars == <<policy, queue, line, woken, unfinished, fate, attempts, disposition, worker, hand,
          resumed, phase, stops, timedOut, early, subscription, bySub>>

Closed == phase # "open"

Full == Len(queue) >= Capacity

Settled(i) == disposition[i] # "pending"

-----------------------------------------------------------------------------
(* asyncio.Queue                                                           *)

\* put_nowait
Enqueue(x) == queue' = Append(queue, x) /\ unfinished' = unfinished + 1

\* Positions in the line of puts that still wait; those of cancelled workers do not.
Waiting == {n \in 1..Len(line) : phase = "gathering" => line[n] \notin Workers}

\* _wakeup_next: the first put that still waits is woken, cancelled ones before it go.
WakeNext(others) ==
  IF Waiting = {} THEN line' = <<>> /\ woken' = others
  ELSE LET n == Min(Waiting)
       IN  line' = SubSeq(line, n + 1, Len(line)) /\ woken' = Append(others, line[n])

\* A put that is cancelled leaves the line; if it was woken, it wakes the next one.
LeaveLine(p) ==
  \/ \E n \in 1..Len(line) : line[n] = p /\ line' = RemoveAt(line, n) /\ UNCHANGED woken
  \/ \E n \in 1..Len(woken) :
       /\ woken[n] = p
       /\ IF Full THEN woken' = RemoveAt(woken, n) /\ UNCHANGED line
                  ELSE WakeNext(RemoveAt(woken, n))

\* get, of a queue that is not empty
Dequeue == queue' = Tail(queue) /\ WakeNext(woken)

\* task_done; the last one wakes join, which returns whatever is put before it runs
TaskDone ==
  /\ unfinished' = unfinished - 1
  /\ IF unfinished = 1 /\ phase = "joining"
     THEN phase' = "joined" /\ woken' = Append(woken, Closer)
     ELSE UNCHANGED <<phase, woken>>

-----------------------------------------------------------------------------
(* publish and enqueue                                                     *)

\* Faulty variant, for mutation: enqueue returns True for what it drops.
RefusalAccepted == "accepted"

\* REJECT raises, DROP_NEWEST returns False
Refusal == "refused"

Publish(i) ==
  /\ fate[i] = "idle"
  /\ ~Closed
  /\ \/ /\ ~Full
        /\ fate' = [fate EXCEPT ![i] = "accepted"]
        /\ Enqueue(i)
        /\ UNCHANGED line
     \/ /\ Full
        /\ policy = "block"
        /\ fate' = [fate EXCEPT ![i] = "blocked"]
        /\ line' = Append(line, i)
        /\ UNCHANGED <<queue, unfinished>>
     \/ /\ Full
        /\ policy # "block"
        /\ fate' = [fate EXCEPT ![i] = Refusal]
        /\ UNCHANGED <<queue, line, unfinished>>
  /\ UNCHANGED <<policy, woken, attempts, disposition, worker, hand, control>>

\* The publish call is cancelled in put.
CancelPublish(i) ==
  /\ fate[i] = "blocked"
  /\ fate' = [fate EXCEPT ![i] = "refused"]
  /\ LeaveLine(i)
  /\ UNCHANGED <<policy, queue, unfinished, attempts, disposition, worker, hand, control>>

PutAccepted(i) == Enqueue(i) /\ fate' = [fate EXCEPT ![i] = "accepted"]

\* A woken put of a publisher runs, or stands in line again if it was overtaken.
PutWoken(i) ==
  /\ woken # <<>>
  /\ i = Head(woken)
  /\ woken' = Tail(woken)
  /\ IF Full THEN line' = Append(line, i) /\ UNCHANGED <<queue, unfinished, fate>>
             ELSE PutAccepted(i) /\ UNCHANGED line
  /\ UNCHANGED <<policy, attempts, disposition, worker, hand, control>>

-----------------------------------------------------------------------------
(* _worker                                                                 *)

\* DrainTimeout has cancelled the workers.
Cancelled == phase = "gathering"

Take(w) ==
  /\ worker[w] = "getting" /\ ~Cancelled
  /\ queue # <<>>
  /\ Head(queue) \in Items
  /\ Dequeue
  /\ hand' = [hand EXCEPT ![w] = Head(queue)]
  /\ worker' = [worker EXCEPT ![w] = "holding"]
  /\ UNCHANGED <<feed, unfinished, attempts, disposition, control>>

\* Its task_done wakes nobody: join has returned.
TakeStop(w) ==
  /\ worker[w] = "getting" /\ ~Cancelled
  /\ queue # <<>>
  /\ Head(queue) = Stop
  /\ Dequeue
  /\ unfinished' = unfinished - 1
  /\ worker' = [worker EXCEPT ![w] = "exited"]
  /\ UNCHANGED <<feed, attempts, disposition, hand, control>>

Handle(w) ==
  /\ worker[w] = "holding" /\ ~Cancelled
  /\ resumed
  /\ worker' = [worker EXCEPT ![w] = "handling"]
  /\ attempts' = [attempts EXCEPT ![hand[w]] = @ + 1]
  /\ UNCHANGED <<feed, queue, line, woken, unfinished, disposition, hand, control>>

\* The worker is done with its message.
FinishItem(w, o) ==
  /\ disposition' = [disposition EXCEPT ![hand[w]] = o]
  /\ hand' = [hand EXCEPT ![w] = NoItem]
  /\ worker' = [worker EXCEPT ![w] = "getting"]
  /\ TaskDone

\* The callback returns after ack or reject, or raises (last_error).
SettleItem(w) ==
  /\ worker[w] = "handling" /\ ~Cancelled
  /\ \E o \in {"settled", "failed"} : FinishItem(w, o)
  /\ UNCHANGED <<feed, queue, line, attempts, resumed, stops, timedOut, early, subscription, bySub>>

\* defer sleeps first
Defer(w) ==
  /\ worker[w] = "handling" /\ ~Cancelled
  /\ attempts[hand[w]] < MaxAttempts
  /\ worker' = [worker EXCEPT ![w] = "deferring"]
  /\ UNCHANGED <<feed, queue, line, woken, unfinished, attempts, disposition, hand, control>>

\* requeue and defer put the message back, unless the consumer is closed
PutBack(w) ==
  /\ ~Cancelled
  /\ \/ worker[w] = "handling" /\ attempts[hand[w]] < MaxAttempts
     \/ worker[w] = "deferring"
  /\ \/ /\ Closed
        /\ FinishItem(w, "dropped")
        /\ UNCHANGED <<queue, line>>
     \/ /\ ~Closed
        /\ ~Full
        /\ queue' = Append(queue, hand[w])
        /\ hand' = [hand EXCEPT ![w] = NoItem]
        /\ worker' = [worker EXCEPT ![w] = "getting"]
        /\ UNCHANGED <<line, woken, unfinished, disposition, phase>>
     \/ /\ ~Closed
        /\ Full
        /\ line' = Append(line, w)
        /\ worker' = [worker EXCEPT ![w] = "requeueing"]
        /\ UNCHANGED <<queue, woken, unfinished, disposition, hand, phase>>
  /\ UNCHANGED <<feed, attempts, resumed, stops, timedOut, early, subscription, bySub>>

\* Its put was woken: put and task_done in one go, or back into the line.
PutBackWoken(w) ==
  /\ woken # <<>> /\ ~Cancelled
  /\ w = Head(woken)
  /\ woken' = Tail(woken)
  /\ IF Full
     THEN line' = Append(line, w) /\ UNCHANGED <<queue, worker, hand>>
     ELSE /\ queue' = Append(queue, hand[w])
          /\ hand' = [hand EXCEPT ![w] = NoItem]
          /\ worker' = [worker EXCEPT ![w] = "getting"]
          /\ UNCHANGED line
  /\ UNCHANGED <<feed, unfinished, attempts, disposition, control>>

\* A cancelled worker ends where it is: what it holds is abandoned, and its task_done
\* wakes nobody, since join was cancelled as well.
WorkerEnds(w) ==
  /\ worker[w] # "exited" /\ Cancelled
  /\ worker' = [worker EXCEPT ![w] = "exited"]
  /\ IF hand[w] = NoItem THEN UNCHANGED <<hand, disposition, unfinished>>
     ELSE /\ hand' = [hand EXCEPT ![w] = NoItem]
          /\ disposition' = [disposition EXCEPT ![hand[w]] = "abandoned"]
          /\ unfinished' = unfinished - 1
  /\ \/ LeaveLine(w)
     \/ /\ \A n \in 1..Len(line) : line[n] # w
        /\ \A n \in 1..Len(woken) : woken[n] # w
        /\ UNCHANGED <<line, woken>>
  /\ UNCHANGED <<feed, queue, attempts, control>>

-----------------------------------------------------------------------------
(* close                                                                   *)

\* _closed, resumed and the first look of join at the unfinished count: if there is
\* nothing to wait for, close goes on without giving way to what is woken.
BeginClose ==
  /\ IF unfinished = 0 THEN phase' = "drained" /\ woken' = <<Closer>> \o woken
                       ELSE phase' = "joining" /\ woken' = woken
  /\ early' = {i \in Items : fate[i] = "accepted"}
  /\ stops' = Cardinality(Workers)
  /\ resumed' = TRUE

\* Engine.disconnect or remove_consumer; of a closed consumer it is a no-op
EngineClose ==
  /\ ~Closed
  /\ BeginClose
  /\ UNCHANGED <<feed, queue, line, unfinished, attempts, disposition, worker, hand,
                 timedOut, subscription, bySub>>

\* Subscription.close, through the broker; at once if the engine has closed the consumer
SubscriptionClose ==
  /\ subscription # "closed"
  /\ ~bySub
  /\ \/ /\ ~Closed
        /\ BeginClose
        /\ bySub' = TRUE
        /\ UNCHANGED subscription
     \/ /\ Closed
        /\ subscription' = "closed"
        /\ UNCHANGED <<bySub, phase, stops, resumed, early, woken>>
  /\ UNCHANGED <<feed, queue, line, unfinished, attempts, disposition, worker, hand, timedOut>>

Pause ==
  /\ subscription = "active"
  /\ ~bySub
  /\ subscription' = "paused"
  /\ resumed' = FALSE
  /\ UNCHANGED <<feed, queue, line, woken, unfinished, attempts, disposition, worker, hand,
                 phase, stops, timedOut, early, bySub>>

Resume ==
  /\ subscription = "paused"
  /\ ~bySub
  /\ subscription' = "active"
  /\ resumed' = TRUE
  /\ UNCHANGED <<feed, queue, line, woken, unfinished, attempts, disposition, worker, hand,
                 phase, stops, timedOut, early, bySub>>

\* The drain timeout strikes until the join that was woken goes on, and cancels the workers.
DrainTimeout ==
  /\ \/ phase = "joining" /\ UNCHANGED woken
     \/ phase = "joined" /\ \E n \in 1..Len(woken) : /\ woken[n] = Closer
                                                     /\ woken' = RemoveAt(woken, n)
  /\ phase' = "gathering"
  /\ timedOut' = TRUE
  /\ UNCHANGED <<feed, queue, line, unfinished, attempts, disposition, worker, hand, resumed, stops,
                 early, subscription, bySub>>

Least(a, b) == IF a < b THEN a ELSE b

\* Faulty variant, for mutation: one None for all the workers.
PutOneStop ==
  /\ woken # <<>>
  /\ Head(woken) = Closer
  /\ woken' = Tail(woken)
  /\ IF Full THEN line' = Append(line, Closer) /\ UNCHANGED <<queue, unfinished, stops>>
             ELSE Enqueue(Stop) /\ stops' = 0 /\ UNCHANGED line
  /\ phase' = "drained"
  /\ UNCHANGED <<feed, attempts, disposition, worker, hand, resumed, timedOut, early,
                 subscription, bySub>>

\* close puts a None for every worker, as many as fit, and then waits in line.
PutStops ==
  LET n == Least(stops, Capacity - Len(queue))
  IN  /\ woken # <<>>
      /\ Head(woken) = Closer
      /\ woken' = Tail(woken)
      /\ queue' = queue \o [k \in 1..n |-> Stop]
      /\ unfinished' = unfinished + n
      /\ stops' = stops - n
      /\ line' = IF n < stops THEN Append(line, Closer) ELSE line
      /\ phase' = "drained"
      /\ UNCHANGED <<feed, attempts, disposition, worker, hand, resumed, timedOut, early,
                     subscription, bySub>>

\* gather: the workers are gone, close and the Subscription's close return
EndClose ==
  /\ \/ phase = "drained" /\ stops = 0
     \/ phase = "gathering"
  /\ \A w \in Workers : worker[w] = "exited"
  /\ phase' = "closed"
  /\ bySub' = FALSE
  /\ subscription' = IF bySub THEN "closed" ELSE subscription
  /\ UNCHANGED <<feed, queue, line, woken, unfinished, attempts, disposition, worker, hand,
                 resumed, stops, timedOut, early>>

-----------------------------------------------------------------------------

QueueInit ==
  /\ policy \in Policies
  /\ queue = <<>> /\ line = <<>> /\ woken = <<>>
  /\ unfinished = 0
  /\ fate = [i \in Items |-> "idle"]
  /\ attempts = [i \in Items |-> 0]
  /\ disposition = [i \in Items |-> "pending"]
  /\ worker = [w \in Workers |-> "getting"]
  /\ hand = [w \in Workers |-> NoItem]
  /\ resumed = TRUE
  /\ phase = "open" /\ stops = 0 /\ timedOut = FALSE /\ early = {}
  /\ subscription = "active" /\ bySub = FALSE

Feed == \E i \in Items : Publish(i) \/ CancelPublish(i) \/ PutWoken(i)

Work(w) ==
  \/ Take(w) \/ TakeStop(w) \/ Handle(w)
  \/ SettleItem(w) \/ Defer(w) \/ PutBack(w) \/ PutBackWoken(w) \/ WorkerEnds(w)

Close == EngineClose \/ SubscriptionClose \/ PutStops \/ EndClose \/ DrainTimeout

QueueNext == Feed \/ Pause \/ Resume \/ Close \/ \E w \in Workers : Work(w)

QueueSpec == QueueInit /\ [][QueueNext]_queueVars

\* The event loop runs what is ready, handlers return, close goes on, the timer fires.
FairQueueSpec ==
  /\ QueueSpec
  /\ \A w \in Workers : WF_queueVars(Work(w))
  /\ \A i \in Items : WF_queueVars(PutWoken(i))
  /\ WF_queueVars(PutStops \/ EndClose)
  /\ WF_queueVars(DrainTimeout)

-----------------------------------------------------------------------------
(* Properties                                                              *)

Puts == Items \cup Workers \cup {Closer}

Count(s, x) == Cardinality({n \in 1..Len(s) : s[n] = x})

\* Types; a worker has a message exactly between get and task_done, and the queue keeps
\* to its capacity.
QueueTypeOK ==
  /\ policy \in Policies
  /\ queue \in Seq(Items \cup {Stop}) /\ Len(queue) <= Capacity
  /\ line \in Seq(Puts) /\ woken \in Seq(Puts)
  /\ unfinished \in Nat
  /\ fate \in [Items -> {"idle", "blocked", "accepted", "refused"}]
  /\ attempts \in [Items -> 0..MaxAttempts]
  /\ disposition \in [Items -> {"pending", "settled", "failed", "dropped", "abandoned"}]
  /\ worker \in [Workers -> {"getting", "holding", "handling", "deferring", "requeueing", "exited"}]
  /\ hand \in [Workers -> Items \cup {NoItem}]
  /\ \A w \in Workers : hand[w] = NoItem <=> worker[w] \in {"getting", "exited"}
  /\ resumed \in BOOLEAN
  /\ phase \in {"open", "joining", "joined", "drained", "gathering", "closed"}
  /\ stops \in 0..Cardinality(Workers)
  /\ timedOut \in BOOLEAN
  /\ subscription \in {"active", "paused", "closed"}
  /\ bySub \in BOOLEAN

JoinCountsWork ==
  unfinished = Len(queue) + Cardinality({w \in Workers : hand[w] # NoItem})

\* An accepted message is in the queue or with one worker until it is settled, one whose
\* put waits is in the line, once.
InOnePlace(i) ==
  LET places == Count(queue, i) + Cardinality({w \in Workers : hand[w] = i})
      waits == Count(line, i) + Count(woken, i)
  IN  /\ places = IF fate[i] = "accepted" /\ ~Settled(i) THEN 1 ELSE 0
      /\ waits = IF fate[i] = "blocked" THEN 1 ELSE 0

\* Every message is in one place and join waits for exactly those that are accepted and
\* not settled, whatever is put back, deferred, cancelled or timed out; so, unless the
\* drain timeout struck, close returns with every message settled that was accepted
\* before it (enqueue, _worker, close).
NeitherLostNorDoubled ==
  /\ QueueTypeOK
  /\ JoinCountsWork
  /\ \A i \in Items : InOnePlace(i)
  /\ phase = "closed" /\ ~timedOut => \A i \in early : Settled(i)

\* close returns, drained or after its timeout, unless the consumer is paused meanwhile;
\* also when every worker waits to put a message back into the full queue.
CloseReturns == Closed ~> (phase = "closed" \/ ~resumed)

\* Puts that are awake, but for the close that join has woken: its timeout may still
\* cancel it.
Awake == Len(woken) - (IF phase = "joined" THEN 1 ELSE 0)

\* No wake-up is lost: as long as a put waits in line, every free slot of the queue has a
\* put of its own that is awake, whichever puts overtake, are cancelled or end with their
\* worker (asyncio.Queue under enqueue, requeue and close).
NoWakeupLost == Waiting # {} => Len(queue) + Awake >= Capacity

Remaining == {w \in Workers : worker[w] # "exited"}

\* Worker w may go on, or the first that is awake may, under the guards of Work, PutWoken
\* and PutStops.
WorkerMayGoOn(w) ==
  \/ worker[w] = "getting" /\ queue # <<>>
  \/ worker[w] = "holding" /\ resumed
  \/ worker[w] \in {"handling", "deferring"}

\* A close whose join has returned cannot get stuck unless the consumer is paused: first it
\* is awake itself; then nobody requeues any more, and there are as many Nones, in the queue
\* or still to put, as workers that are left (close, _worker).
CloseGoesOn ==
  /\ phase = "joined" => Count(woken, Closer) = 1
  /\ phase = "drained" => Count(queue, Stop) + stops = Cardinality(Remaining)
  /\ phase = "drained" /\ resumed =>
       \/ stops = 0 /\ Remaining = {}
       \/ woken # <<>> /\ Head(woken) \in Items \cup {Closer}
       \/ \E w \in Workers : WorkerMayGoOn(w)
=============================================================================
