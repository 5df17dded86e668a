------------------------------- MODULE Publish -------------------------------
(***************************************************************************)
(* Broker.publish_batch and, for each of its items, Broker.publish with    *)
(* the retry loop of broka.reliability.retry and the strategies of         *)
(* broka.reliability.backoff.  One action is the code from one await to    *)
(* the next.  Times are whole units; each item has the time since its      *)
(* retry loop began and the time left of its sleep or attempt.             *)
(*                                                                         *)
(* An attempt goes through the broker's circuit breaker (CircuitBreaker)   *)
(* and the connection (Connection) to the engine; here it is accepted and  *)
(* answered, refused by an answer, fails, or fails after the engine has    *)
(* accepted the message.  The default classifier retries every failure,    *)
(* an open circuit too, and the policies of the broker have no budget.     *)
(* Listeners take no time.                                                 *)
(***************************************************************************)
EXTENDS Integers, Sequences, FiniteSets, SequencesExt

CONSTANTS
  NumItems,        \* messages of the batch
  DestinationLists,\* what Router.destinations may return
  Default,         \* Destination(route.name)
  Concurrencies,   \* values of BatchPublishOptions.concurrency
  Strategies,      \* values of the strategy of the backoff
  Initial, Multiplier, Maximum,
  MaxAttempts,     \* max_attempts
  MaxElapsed,      \* max_elapsed_time
  AttemptTimeout,  \* attempt_timeout
  MaxFailures      \* bound: failures of engines, layers and listeners

Items == 1..NumItems

Destinations == {Default} \cup UNION {Range(l) : l \in DestinationLists}

ASSUME PublishAssumption ==
  /\ NumItems \in Nat /\ MaxAttempts \in Nat \ {0} /\ MaxElapsed \in Nat \ {0}
  /\ AttemptTimeout \in Nat \ {0} /\ Concurrencies \subseteq Nat \ {0} /\ MaxFailures \in Nat
  /\ Strategies \subseteq {"fixed", "linear", "exponential", "full_jitter", "equal_jitter",
                           "decorrelated_jitter"}
  /\ DestinationLists # {} /\ \A l \in DestinationLists : l \in Seq(Range(l)) /\ IsInjective(l)
  /\ Initial \in Nat /\ Multiplier \in Nat \ {0} /\ Maximum \in Nat /\ Initial <= Maximum

\* A fact of arithmetic, for the proofs: the provers know nothing of powers.
ASSUME PowerAssumption == \A n \in 0..MaxAttempts : Multiplier ^ n \in Nat

VARIABLES
  strategy, stopOnError, free,   \* the backoff, the option, and the semaphore
  batch,       \* "running", "returned" or "cancelled"
  stop,        \* the event stop is set
  step,          \* where each item is
  dests,       \* destinations found for it
  todo,        \* destinations left, the current one first
  attempt,     \* attempt at the current destination
  age,         \* time since the retry loop began
  timer,       \* time left of its sleep or of its attempt
  prev,        \* delay before the last attempt
  accepted,    \* accepted by the results so far
  reported,      \* "none", "result" or "error", as in BatchPublishResult
  copies,      \* copies that each destination holds
  lost,        \* history: attempts at each destination that failed after they were accepted
  answered,    \* history: <<destination, accepted>> where a layer answered or the engine refused
  faults

control == <<strategy, stopOnError>>
itemVars == <<step, dests, todo, attempt, age, timer, prev, accepted>>
history == <<copies, lost, answered>>
batchVars == <<control, free, batch, stop, itemVars, reported, history, faults>>

Fault == faults < MaxFailures /\ faults' = faults + 1

Head1(i) == Head(todo[i])

-----------------------------------------------------------------------------
(* Backoff: the delays a strategy may return                               *)

Bounded(d) == IF d < Maximum THEN d ELSE Maximum

ExponentialBackoff(n) == Bounded(Initial * Multiplier ^ (n - 1))

Larger(x, y) == IF x > y THEN x ELSE y

Delays(n, previous) ==
  CASE strategy = "fixed" -> {Initial}
    [] strategy = "linear" -> {Bounded(Initial + (n - 1))}
    [] strategy = "exponential" -> {ExponentialBackoff(n)}
    [] strategy = "full_jitter" -> 0..ExponentialBackoff(n)
    [] strategy = "equal_jitter" ->
         ((ExponentialBackoff(n) + 1) \div 2)..ExponentialBackoff(n)
    [] strategy = "decorrelated_jitter" ->
         {Bounded(d) : d \in Initial..Larger(Initial, previous * Multiplier)}

-----------------------------------------------------------------------------
(* publish_batch                                                           *)

\* The items that hold a permit of the semaphore.
InFlight == {i \in Items : step[i] \notin {"new", "queued", "done"}}

\* Tasks start in order.
MayStart(i) == batch = "running" /\ step[i] = "new" /\ \A j \in Items : j < i => step[j] # "new"

\* async with semaphore, in the order of arrival
MayEnter(i) == step[i] = "queued" /\ free > 0 /\ \A j \in Items : j < i => step[j] # "queued"

\* A task that starts after an error returns at once.
StartItem(i) ==
  /\ MayStart(i)
  /\ step' = [step EXCEPT ![i] = IF stopOnError /\ stop THEN "done" ELSE "queued"]
  /\ UNCHANGED <<control, free, batch, stop, dests, todo, attempt, age, timer, prev, accepted,
                 reported, history, faults>>

\* publish up to its first await: the envelope, and the destinations as the router
\* has them now.
EnterSemaphore(i) ==
  /\ MayEnter(i)
  /\ free' = free - 1
  /\ \E l \in DestinationLists :
       LET found == IF l = <<>> THEN <<Default>> ELSE l
       IN  dests' = [dests EXCEPT ![i] = found] /\ todo' = [todo EXCEPT ![i] = found]
  /\ step' = [step EXCEPT ![i] = "engine"]
  /\ UNCHANGED <<control, batch, stop, attempt, age, timer, prev, accepted, reported, history,
                 faults>>

\* Not running any more, no such serializer, or no envelope for the message:
\* publish raises before its first await.
EnvelopeFails(i) ==
  /\ MayEnter(i)
  /\ Fault
  /\ step' = [step EXCEPT ![i] = "done"]
  /\ reported' = [reported EXCEPT ![i] = "error"]
  /\ stop' = TRUE
  /\ UNCHANGED <<control, free, batch, dests, todo, attempt, age, timer, prev, accepted, history>>

\* Faulty variant, for mutation: the semaphore is not released after an error.
RaiseHoldingSemaphore(i) ==
  /\ step' = [step EXCEPT ![i] = "done"]
  /\ reported' = [reported EXCEPT ![i] = "error"]
  /\ stop' = TRUE
  /\ UNCHANGED <<free, timer>>

\* publish raises: the error is listed and the semaphore released.
Raise(i) ==
  /\ step' = [step EXCEPT ![i] = "done"]
  /\ reported' = [reported EXCEPT ![i] = "error"]
  /\ stop' = TRUE
  /\ free' = free + 1
  /\ timer' = [timer EXCEPT ![i] = 0]

\* No engine, or one without the capabilities that the options require.
EngineFails(i) ==
  /\ step[i] = "engine"
  /\ Fault
  /\ Raise(i)
  /\ UNCHANGED <<control, batch, dests, todo, attempt, age, prev, accepted, history>>

\* The engine of the next destination is connected.
GotEngine(i) ==
  /\ step[i] = "engine"
  /\ step' = [step EXCEPT ![i] = "layers"]
  /\ UNCHANGED <<control, free, batch, stop, dests, todo, attempt, age, timer, prev, accepted,
                 reported, history, faults>>

-----------------------------------------------------------------------------
(* The outbound middleware                                                 *)

\* Faulty variant, for mutation: one destination that accepted is enough.
AnyAccepted(i, yes) == accepted[i] \/ yes

AllAccepted(i, yes) == accepted[i] /\ yes

\* A result for the current destination; on to the next one, or return.
Result(i, yes) ==
  /\ accepted' = [accepted EXCEPT ![i] = AllAccepted(i, yes)]
  /\ todo' = [todo EXCEPT ![i] = Tail(@)]
  /\ IF Len(todo[i]) = 1
       THEN /\ step' = [step EXCEPT ![i] = "done"]
            /\ reported' = [reported EXCEPT ![i] = "result"]
            /\ free' = free + 1
       ELSE step' = [step EXCEPT ![i] = "engine"] /\ UNCHANGED <<reported, free>>

\* The layers call the terminal, which begins with the first attempt.
CallTerminal(i) ==
  /\ step[i] = "layers"
  /\ step' = [step EXCEPT ![i] = "attempt"]
  /\ attempt' = [attempt EXCEPT ![i] = 1]
  /\ age' = [age EXCEPT ![i] = 0]
  /\ timer' = [timer EXCEPT ![i] = AttemptTimeout]
  /\ prev' = [prev EXCEPT ![i] = Initial]
  /\ UNCHANGED <<control, free, batch, stop, dests, todo, accepted, reported, history, faults>>

\* A layer answers without calling the next.
LayerAnswers(i) ==
  /\ step[i] = "layers"
  /\ Fault
  /\ \E yes \in BOOLEAN :
       Result(i, yes) /\ answered' = [answered EXCEPT ![i] = @ \cup {<<Head1(i), yes>>}]
  /\ UNCHANGED <<control, batch, stop, dests, attempt, age, timer, prev, copies, lost>>

\* A layer raises or returns what is no PublishResult.
LayerFails(i) ==
  /\ step[i] = "layers"
  /\ Fault
  /\ Raise(i)
  /\ UNCHANGED <<control, batch, dests, todo, attempt, age, prev, accepted, history>>

-----------------------------------------------------------------------------
(* _send and the retry loop                                                *)

MoreCopies(i) == copies' = [copies EXCEPT ![i][Head1(i)] = @ + 1]

\* engine.publish returns; "published" is emitted.
AttemptReturns(i) ==
  /\ step[i] = "attempt"
  /\ \/ MoreCopies(i) /\ UNCHANGED <<answered, faults>> /\ accepted' = accepted
     \/ Fault /\ answered' = [answered EXCEPT ![i] = @ \cup {<<Head1(i), FALSE>>}]
          /\ accepted' = [accepted EXCEPT ![i] = AllAccepted(i, FALSE)] /\ UNCHANGED copies
  /\ step' = [step EXCEPT ![i] = "emit"]
  /\ timer' = [timer EXCEPT ![i] = 0]
  /\ UNCHANGED <<control, free, batch, stop, dests, todo, attempt, age, prev, reported, lost>>

\* Faulty variant, for mutation: the delay is not counted.
LateByDelay(i, delay) == attempt[i] >= MaxAttempts \/ age[i] >= MaxElapsed

\* No attempt is left, or no time for the delay.
Exhausted(i, delay) ==
  attempt[i] >= MaxAttempts \/ age[i] >= MaxElapsed \/ age[i] + delay > MaxElapsed

\* engine.publish raises or times out, accepted or not: sleep, or give up and emit
\* "publish_failed".
AttemptFails(i) ==
  /\ step[i] = "attempt"
  /\ Fault
  /\ \/ MoreCopies(i) /\ lost' = [lost EXCEPT ![i][Head1(i)] = @ + 1]
     \/ UNCHANGED <<copies, lost>>
  /\ \E delay \in Delays(attempt[i], prev[i]) :
       IF Exhausted(i, delay)
         THEN Raise(i) /\ UNCHANGED prev
         ELSE /\ step' = [step EXCEPT ![i] = "sleep"]
              /\ timer' = [timer EXCEPT ![i] = delay]
              /\ prev' = [prev EXCEPT ![i] = delay]
              /\ UNCHANGED <<reported, stop, free>>
  /\ UNCHANGED <<control, batch, dests, todo, attempt, age, accepted, answered>>

Wake(i) ==
  /\ step[i] = "sleep"
  /\ timer[i] = 0
  /\ step' = [step EXCEPT ![i] = "attempt"]
  /\ attempt' = [attempt EXCEPT ![i] = @ + 1]
  /\ timer' = [timer EXCEPT ![i] = AttemptTimeout]
  /\ UNCHANGED <<control, free, batch, stop, dests, todo, age, prev, accepted, reported, history,
                 faults>>

Emitted(i) ==
  /\ step[i] = "emit"
  /\ Result(i, accepted[i])
  /\ UNCHANGED <<control, batch, stop, dests, attempt, age, timer, prev, history, faults>>

\* A critical listener of "published" or "retried" raises.
ListenerRaises(i) ==
  /\ step[i] \in {"emit", "sleep"}
  /\ Fault
  /\ Raise(i)
  /\ UNCHANGED <<control, batch, dests, todo, attempt, age, prev, accepted, history>>

-----------------------------------------------------------------------------
Timed == {i \in Items : step[i] \in {"attempt", "sleep"}}

TimeMayPass == Timed # {} /\ \A i \in Timed : timer[i] > 0

Tick ==
  /\ TimeMayPass
  /\ timer' = [i \in Items |-> IF i \in Timed THEN timer[i] - 1 ELSE timer[i]]
  /\ age' = [i \in Items |-> IF i \in Timed THEN age[i] + 1 ELSE age[i]]
  /\ UNCHANGED <<control, free, batch, stop, step, dests, todo, attempt, prev, accepted, reported,
                 history, faults>>

\* The task group is done.
AllDone == \A i \in Items : step[i] = "done"

Return ==
  /\ batch = "running"
  /\ AllDone
  /\ batch' = "returned"
  /\ UNCHANGED <<control, free, stop, itemVars, reported, history, faults>>

\* The caller is cancelled, and with it every task of the group.
Cancel ==
  /\ batch = "running"
  /\ Fault
  /\ batch' = "cancelled"
  /\ step' = [i \in Items |-> "done"]
  /\ free' = free + Cardinality(InFlight)
  /\ timer' = [i \in Items |-> 0]
  /\ UNCHANGED <<control, stop, dests, todo, attempt, age, prev, accepted, reported, history>>

PublishInit ==
  /\ strategy \in Strategies /\ stopOnError \in BOOLEAN /\ free \in Concurrencies
  /\ batch = "running" /\ stop = FALSE
  /\ step = [i \in Items |-> "new"]
  /\ dests = [i \in Items |-> <<>>] /\ todo = [i \in Items |-> <<>>]
  /\ attempt = [i \in Items |-> 0] /\ age = [i \in Items |-> 0] /\ timer = [i \in Items |-> 0]
  /\ prev = [i \in Items |-> Initial]
  /\ accepted = [i \in Items |-> TRUE] /\ reported = [i \in Items |-> "none"]
  /\ copies = [i \in Items |-> [d \in Destinations |-> 0]]
  /\ lost = copies /\ answered = [i \in Items |-> {}]
  /\ faults = 0

Progress(i) ==
  \/ StartItem(i) \/ EnterSemaphore(i) \/ GotEngine(i) \/ CallTerminal(i) \/ AttemptReturns(i)
  \/ Wake(i) \/ Emitted(i)

Failure(i) ==
  \/ EnvelopeFails(i) \/ EngineFails(i) \/ LayerAnswers(i) \/ LayerFails(i) \/ AttemptFails(i)
  \/ ListenerRaises(i)

PublishNext == (\E i \in Items : Progress(i) \/ Failure(i)) \/ Tick \/ Return \/ Cancel

-----------------------------------------------------------------------------
(* Properties                                                              *)

PublishTypeOK ==
  /\ free \in Nat
  /\ attempt \in [Items -> 0..MaxAttempts]
  /\ reported \in [Items -> {"none", "result", "error"}]
  /\ timer \in [Items -> Nat] /\ age \in [Items -> Nat] /\ prev \in [Items -> 0..Maximum]

Passed(i) == Len(dests[i]) - Len(todo[i])

(* What publish and publish_batch report is what the destinations hold: a  *)
(* result with accepted=True means a copy at every destination that no     *)
(* middleware layer answered for, an error leaves copies at the            *)
(* destinations before the one that failed and none after it, an item that *)
(* stop_on_error skipped has none, and a destination holds more copies     *)
(* than one only where attempts failed after they were accepted.  At all   *)
(* times the permits that are free and those of the items under way are as *)
(* many as the option concurrency says.                                    *)
ReportsAreTrue ==
  /\ PublishTypeOK
  /\ \E n \in Concurrencies : free + Cardinality(InFlight) = n
  /\ \A i \in Items :
       LET held == {d \in Destinations : copies[i][d] > 0}
           reached == {dests[i][n] : n \in {k \in DOMAIN dests[i] : k <= Passed(i) + 1}}
       IN  /\ \A n \in 1..Passed(i) :
                dests[i][n] \in held \/ \E yes \in BOOLEAN : <<dests[i][n], yes>> \in answered[i]
           /\ held \subseteq reached
           /\ \A d \in held : copies[i][d] <= lost[i][d] + 1
           /\ accepted[i] /\ reported[i] = "result" =>
                \A d \in Range(dests[i]) : d \in held \/ <<d, TRUE>> \in answered[i]
           /\ batch = "returned" /\ reported[i] = "none" => stopOnError /\ stop /\ held = {}

(* However the backoff grows, publishing to one destination ends within    *)
(* max_elapsed_time and one attempt_timeout.                               *)
RetriesInTime == \A i \in Timed : age[i] <= MaxElapsed + AttemptTimeout

\* Item i may go on without a failure, under the guards of Progress.
MayGoOn(i) ==
  \/ MayStart(i) \/ MayEnter(i)
  \/ step[i] \in {"engine", "layers", "attempt", "emit"}
  \/ step[i] = "sleep" /\ timer[i] = 0

(* publish_batch comes to its end: whatever fails in an item, the          *)
(* semaphore is passed on, no item waits for another for ever, and a batch *)
(* that runs can always go on without a failure or a cancellation.  Every  *)
(* such step brings the end nearer (BatchStepsAhead).                      *)
BatchEnds == batch = "running" => AllDone \/ TimeMayPass \/ \E i \in Items : MayGoOn(i)

LexLess(a, b) == \E n \in DOMAIN a : a[n] < b[n] /\ \A m \in 1..(n - 1) : a[m] = b[m]

\* What item i has before it: its stage, the destinations left, the stage at the
\* current one, the attempts left, whether this one is over, and the timer.
Left(i) ==
  << CASE step[i] = "new" -> 3 [] step[i] = "queued" -> 2 [] step[i] = "done" -> 0 [] OTHER -> 1,
     Len(todo[i]),
     CASE step[i] = "engine" -> 3 [] step[i] = "layers" -> 2
       [] step[i] \in {"attempt", "sleep"} -> 1 [] OTHER -> 0,
     MaxAttempts - attempt[i],
     IF step[i] = "attempt" THEN 1 ELSE 0,
     timer[i] >>

(* Every step of a batch, a failure, a retry and the clock included,       *)
(* leaves some item less to do and none more, in an order with no infinite *)
(* descent, until the last one returns (publish_batch, RetryManager.run):  *)
(* so a batch ends after finitely many steps.                              *)
BatchStepsAhead ==
  [][/\ batch = "running" \/ UNCHANGED <<batch, step>>
     /\ \A i \in Items : Left(i)' = Left(i) \/ LexLess(Left(i)', Left(i))
     /\ batch' = batch => \E i \in Items : LexLess(Left(i)', Left(i))]_batchVars

=============================================================================
