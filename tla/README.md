# broka in TLA+

broka is an asynchronous, transport-agnostic message broker client for Python. Most of it runs in
one event loop, so it has no data races; what it has instead is *await races*: a value read before
an `await` and trusted after it, a state written by a task that does not hold the lock, a call
cancelled halfway, a lease that lapses under its holder, a table that changes while it is iterated.
The parts that do use threads (the event registry, the Django store) have the same races between
their calls. This directory keeps the TLA+ models of the components where such races decide
correctness, the TLC configurations that check them on small instances, and the TLAPS proofs that
establish the main invariants for every size.

Paths below are relative to `src/src/broka/` unless they start with `src/`.

- [Inventory](#inventory)
- [Modelling conventions](#modelling-conventions)
- [The modules](#the-modules)
- [The runs](#the-runs)
- [Where code and documentation disagree](#where-code-and-documentation-disagree)
- [Proofs](#proofs)
- [What is not modelled](#what-is-not-modelled)
- [Plan](#plan)

## Inventory

| Component | State it keeps | Operations | Talks to | What is hard | Correct when |
|---|---|---|---|---|---|
| Circuit breaker (`reliability/circuit_breaker.py`) | state, outcome window, consecutive failures, opening time, half-open slots and successes | `call`, `before_call`, `record_success`, `record_failure`, `reset`, `trip` | wraps engine calls of publish and connect; emits events | outcomes arrive in another period than the call was admitted in; the listener is awaited between the slot and the `try` | slots are accounted for; a half-open circuit reaches a verdict; a healthy dependency is readmitted |
| Connection manager (`connection.py`) | connection state, operation lock, lease count, restore callbacks, heartbeat task | `run`, `lease`, `startup`, `reconnect`, `drain`, `shutdown`, heartbeat loop | engine, circuit breaker, retry, task supervisor, internal events | the state is written with and without the lock; shutdown waits for leases while it holds the lock | CONNECTED means connected; leases equal operations; CLOSED leaves nothing; no circular wait |
| Transactional outbox (`reliability/outbox.py`) | records with status, attempts, lease id and expiry | `add`, `lease`, `mark_published`, `mark_failed`, `purge_published`; `dispatch_once`, `run`, `stop` | application transaction, broker publish | leases lapse during publish; dispatchers crash, are cancelled or lose the rest of a batch | at least once, one holder per lease, settled records are never revised, nothing forgotten |
| Delivery and consume pipeline (`delivery.py`, `acknowledgements.py`, `broker.py` `_consume`) | delivery state and lock, adapter decision, handler attempts | `ack`, `nack`, `reject`, `requeue`, `defer`, `schedule_retry`, `cancel`; decode, expire, handle, retry, dead-letter, acknowledge | engine adapters, dead-letter manager, retry, middleware | concurrent operations inside one handler, transports that fail after acting, timeouts of attempts | the state never claims what the transport was not told; terminal is final; nothing is lost |
| Dead letters and replay (`deadletter/`) | bounded store of records with status, replay count and failures | `capture`, `quarantine`, `release`, `archive`, `purge`, `apply_retention`; `replay`, `replay_selected`, `replay_all` | consume pipeline, broker publish | a replay writes back a record it read before publish | marks are true, caps hold, only release releases |
| Memory engine consumer (`engines/memory.py`, `engines/_inprocess.py`) | bounded queue, workers, paused flag, closed flag | `publish`/`enqueue`, worker loop, `pause`, `resume`, `close` | `_consume`, Subscription, engine connect and disconnect | workers and publishers queue for the same slots; close puts its end marks into the same queue | no message lost or doubled, close drains and returns |
| Subscription (`subscription.py`, `broker.py` `pause`, `resume`, `close`) | state, lock | `activate`, `pause`, `resume`, `close`, `fail` | consumers of the engine, restore callbacks of the connection | a reconnect makes consumers anew while handles are paused and closed | a handle says what its consumer is |
| Broker (`broker.py`) | running flag, engine table and lock, subscription records, reply subscription, table of pending requests | `startup`, `shutdown`, `subscribe`, `unsubscribe`, `request` | everything above | operations check once that the broker runs and then await; late replies; cancelled startups and shutdowns; connections that are lost under a waiting request | nothing reconnects or stays after shutdown but what can be named; the table is exact; replies have a path; requests end |
| Publishing (`broker.py`, `reliability/retry.py`, `backoff.py`) | semaphore and stop flag of a batch, attempts and times of each item | `publish`, `publish_batch` | router, middleware, connection, engine | several destinations, some of which fail; attempts that fail after they were accepted | reports say what the destinations hold; retries end in time |
| Lifecycle manager and task supervisor (`lifecycle.py`) | component states, tasks with restart counts | `register`, `startup`, `drain`, `shutdown`; `start_soon`, `cancel` | broker, heartbeat | failure or cancellation in the middle of startup; restart racing shutdown | reverse-order shutdown of what was started; no task survives |
| Idempotency store (`reliability/idempotency.py`) | claims with expiry, completed keys, capacity | `claim`, `complete`, `release` | handlers | a claim has no owner and may expire under its holder | one execution per key and claim period |
| Redis, Kafka and RabbitMQ engines (`engines/`) | consumer loops, deliveries in hand | connect, publish, consume, acknowledge, pause, close | servers, `_consume` | reclaim of slow deliveries, cumulative commits, lost channels and partitions | at least once; effects once with an idempotency store |
| Local engine (`engines/local.py`, `_inprocess.py`) | consumers with semaphore, pause and closed flag | `publish`, consumers created and removed | `_consume`, publishers | publish runs the handlers itself while consumers come and go | publish returns when all have settled |
| Routing, middleware, internal events (`routing/`, `middleware/`, `events/`) | sorted registrations; failure history | register, unregister, `dispatch`, `destinations`, `run`, `emit` | every publish and delivery | registrations change during a call; listeners fail and are cancelled | a call follows the snapshot it began with |
| Event registry (`event.py`) | classes and upcasters by version, class metadata | `register`, `register_upcaster`, `reconstruct`, `payload_for` | decoding, encoding | threads look up under the lock and transform outside it | payload and version agree |
| Engine, plugin and serializer registries (`registry.py`, `plugins.py`, `discovery.py`, `serialization/registry.py`) | tables of providers | register, lazy, discover, resolve, select, unregister | configuration | long sequences of replacements | tables agree; the best is selected |
| Health (`observability/health.py`, `connection.py`, `broker.py` `health`) | checks | `register`, `check_all`, `with_component` | connections | checks change while they are awaited | ready means ready |
| Django outbox store (`integrations/django/outbox.py`) | rows in a database | the protocol of the outbox | database transactions, threads | row locks instead of one asyncio lock; calls outlive a cancelled dispatcher | refines the same contract |
| Django lifespan (`integrations/django/`) | background publishes | startup, shutdown, `publish_on_commit` | broker | shutdown drains while transactions commit | nothing scheduled is forgotten |
| Values, serialization, configuration, observability, web, Celery and command-line integrations, testing support | immutable values, counters | conversions, output | all | nothing concurrent | sequential code, unit-testable |

How they interact: a publish goes through the router, the outbound middleware, the retry policy, a
circuit breaker for the engine and a lease of the connection manager, which has a breaker of its
own, to the engine. The engine's consumer calls `Broker._consume` with an acknowledgement adapter;
`_consume` decodes, runs the middleware and the handler under the retry policy, and acknowledges, or
stores a dead letter and rejects. Replay and outbox publish again. The supervisor runs the heartbeat
of each connection; a reconnect runs a restore callback for each subscription.

## Modelling conventions

- **A step runs from one await that can suspend to the next.** A method that holds an asyncio lock
  but does not await inside is one atomic step (breaker, outbox store, dead-letter store); a lock
  that is held across awaits is a variable (connection manager, delivery).
- **Time** is reduced to the comparison the code makes: cooldown reached or not, record due or not,
  lease lapsed or not, retention window of a record. Any timer may fire before or after any answer.
- **Cancellation** may strike at every await, with what the code does about it at that await.
- **Payloads, names and errors** are model values; a failing call is a disjunct. A remote call that
  fails may have taken effect or not.
- **History variables** (marked "history" where they are declared; `probes`, `late` and `leaked` of
  the breaker, `quiesced`, `handled`, `broken`, `early`, `begun`, `accepted` and `disturbed` are the
  older ones) record what the properties need and steer nothing. `sent` of `Outbox` also remembers,
  between `Send` and the end of the same publish, that the transport has answered.
- **Bounds** (`MaxFaults`, `MaxDeliveries`, `MaxCalls`, `MemoryQueue`'s `MaxAttempts` and the like) are constants
  marked "bound" where they are declared. They limit faults, calls of an application or copies of a
  message. All other constants are configuration options of the code or sets of names.
- **Several implementations of one pattern** are one module with a constant-valued variable that
  says which one a behaviour is about: `family` in `Dispatch`, `catalog` in `Plugins`, `kind` in
  `RemoteEngine`, `part` in `Registries`.
- Definitions commented *Faulty variant, for mutation* are not part of any specification. Each is a
  plausible bug; substituted for the definition after it, it makes TLC refute the property that
  `PROJECT.json` pairs it with.

## The modules

| Module | Models | Extended by |
|---|---|---|
| `CircuitBreaker` | the breaker and the callers of `call` | `MCCircuitBreaker`, `ConnectionProofs` |
| `Connection` | the connection manager, its heartbeat, operations and shutdowns | `MCConnection`, `ConnectionProofs` |
| `OutboxContract` | what an outbox promises (abstract) | instantiated by `Outbox` |
| `Outbox` | store and dispatchers | `MCOutbox`, `OutboxProofs` |
| `Consume` | one message through delivery, handler, adapter, dead letter and engine | `MCConsume`, `ConsumeProofs` |
| `DeadLetter` | store, manager and concurrent replays | `MCDeadLetter`, `DeadLetterProofs` |
| `MemoryQueue` | one consumer of the memory engine with its subscription | `MCMemoryQueue`, `BrokerProofs` |
| `Lifecycle` | the manager of components and the supervisor of tasks | `MCLifecycle`, `LifecycleProofs` |
| `Broker` | startup, shutdown, subscribe and request over one engine and its connections | `MCBroker`, `BrokerProofs` |
| `Idempotency` | the idempotency store | `RemoteEngine` |
| `RemoteEngine` | the consumers of Redis Streams, RabbitMQ and Kafka over their servers | `MCRemoteEngine`, `ConsumeProofs` |
| `DjangoOutbox` | the outbox in a database, a second implementation of `OutboxContract` | `MCDjangoOutbox`, `DjangoOutboxProofs` |
| `Dispatch` | router, middleware pipeline and internal events | `Registries` |
| `EventSchemas` | the event registry: classes and upcasters of one event | `Registries` |
| `Plugins` | engine, plugin and serializer registries, discovery and selection | `Registries` |
| `Subscriptions` | handles of subscriptions and the restore callbacks of a connection | `Registries` |
| `LocalEngine` | the engine whose publish runs the handlers | `Registries` |
| `Health` | health checks and reports | `Registries` |
| `Lifespan` | the lifespan of a Django ASGI worker | `Registries` |
| `Publish` | a batch of publishes with its retries | `Registries` |
| `Registries` | the eight modules above it side by side | `MCRegistries`, `RegistriesProofs` |

The `MC` modules add TLC's symmetry sets and record-valued constants, nothing else.

### CircuitBreaker

`circuit` (the field `_state`), `window`, `consecutive`, `inflight` and `successes` are the fields of the object; `age` is
the time since `_opened_at` up to the recovery timeout; `pc` says where each caller is in `call`.
`AdmitClosed`, `AdmitFirstProbe` and `AdmitProbe` are the three ways through `before_call` (the
fourth raises and changes nothing); `ListenerReturns` and `ListenerRaises` end the await of the
transition listener, which sits outside the `try` of `call`; `Succeed`, `Fail` and `Cancel` are
`record_success` (also for excluded errors), `record_failure` and `_release_probe`; `Reset`, `Trip`
and `Tick` are the operator and the clock. `probes`, `late` and `leaked` are the history of the
current half-open period: who was admitted as a probe, how many outcomes came from calls that were
not, and how many probes vanished in the listener.

### Connection

`at[t]` is the await at which a task is suspended; `lock` is the owner of `_operation_lock`. `Run`,
`StartupEnters`, `OperationSucceeds` and `OperationFails` are `run` with its lease;
`ReconnectEnters` to `Announced` are `reconnect` and `_connect_locked` with every way out;
`HeartbeatWakes` to `HeartbeatRestarts` are the loop and its supervisor; `Drain` and the
`Shutdown...` actions are the two ways to close. `state := FAILED` by operations and by the
heartbeat, and `state := DRAINING` by `drain`, happen without the lock, as in the code.
`engine.connect` under retry and breaker is one call; the restore callbacks succeed or fail as a
whole here and run one by one in `Subscriptions`. `Stranded` names a state the code can be left in: a
cancelled reconnect leaves RECONNECTING behind, which the heartbeat, looking for FAILED, never
repairs. `HeartbeatRepairs` excepts it.

`Cancel` takes the caller to *cancelled*, out of the call, and an operation or a reconnect that
completes goes elsewhere: a behaviour without faults still completes its calls. A shutdown suspends
in three places: *stopping*, where the heartbeat is cancelled and awaited with the state as it was,
the drain and the disconnect, and *farewell*, where the state is CLOSED and "disconnected" is
emitted. A cancellation there leaves CLOSED with a supervisor that was not stopped, and another
shutdown returns at once. `ShutdownTimesOut`, the end of the grace period, has no fairness:
`EveryCallReturns` holds although the timeout may never come.

### Outbox and OutboxContract

A lease is identified by the pair of record and attempt number, which is as fresh as the code's
lease id. `LeaseBatch` recovers lapsed leases, picks due records and starts the first publish;
`Send` is the moment the transport accepts the record, anywhere inside the awaited publish, so a
publish can fail, be cancelled or crash before or after it. `Published`, `PublishFails` and `Cancel`
settle through `RequireLease`; `Abandon` is an exception that leaves `dispatch_once` and drops the
rest of the batch. `Lapse` lets a lease expire, also under a holder that is still at work.

`OutboxContract` knows fates, tries and sends only. The refinement mapping sends PENDING, FAILED and
LEASED to *kept*, so leasing is a *try*, and recovering, failing and cancelling are stutters.

### Consume

One message, in a subscription whose mode is chosen initially, on one of three engine families that
differ in the adapter and in what follows a callback that raises: *memory* (strict adapter, the
error is recorded), *local* (strict adapter, the error reaches the publisher's retries) and *remote*
(lenient adapter that is finished after its first call; unacknowledged messages come again).
`Call`, `Enter`, `Performed` and `PerformFails` are one `Delivery` operation by one of several
concurrent parts of the handler; the other actions are the branches of `_consume` in order.
`ConsumeFails` raises a transport, store or critical-listener error at each await; `Crash`,
`Redeliver` and `Settle` are the engine's side.

### DeadLetter

The manager's operations are atomic. A replay call owns a batch (`todo`), its options and, while
it publishes, the record as it was read (`snapshot`); `Succeed` and `Fail` write that snapshot back
with the outcome, whatever happened to the record meanwhile. `disturbed` collects records whose
publishes overlapped, were cancelled or failed after acceptance: the once-only and attempt-cap
promises are stated for the others, and are false for these.

### MemoryQueue

`queue`, `line` and `woken` are asyncio.Queue: contents, waiting puts, and woken puts that have not
run yet, in the order in which the loop will run them. Publishers, workers that requeue and
`close` stand in the same line; a put that is cancelled leaves it (`LeaveLine`), and one that had been
woken wakes the next. `phase` is the progress of `close`: *joining* until the last `task_done`, *joined*
until the loop runs it again, *drained* while it puts one None per worker and gathers the workers, or
*gathering* after the drain timeout. The timeout only asks the workers to stop: each of them ends by
itself (`WorkerEnds`), wherever it is, and abandons what it holds, while publishers go on.

### Lifecycle

The manager's lock is held over every await of its calls, so `op` and `pos` tell which call is under
way and how far it is. `Startup`, `StartEmitted`, `ComponentStarts`, `ComponentFails` and `Unwind`
are `startup`; `Drain`, `Shutdown`, `StopTasks`, `GraceOver`, `Gathered`, `StopComponent` and
`Return` are `drain` and `shutdown`. `TaskNext` is the supervisor: a task waits at its gate, runs its
factory, reports a failure, sleeps before a restart, and may be started or cancelled by the
application at any time. `ListenerRaises` and `CallCancelled` cut a call short where it awaits.

### Broker

`pc` says at which await each caller is; `alive` are the connection managers whose transport is up,
`table` the one the engine table holds, `consumers` and `records` the pairs of subscription and
connection on both sides. `Lookup` is `_connection` under the engine lock, `Setup` the rest of
`subscribe`, `Transmit`, `DispatchReply` and `Answer` the rest of `request`.

`Lost` takes a transport, with its consumers, at any time, a failing restore included; `Redial`
connects a manager again, be it the heartbeat or a call that goes on with the manager it captured
(`broker.py:780`), whose tables may have let go of it (`connection.py:362`); `Restored` ends the
restore callbacks, which `Subscriptions` has one by one. A manager is CONNECTED before it says so
(`connection.py:277`): `LeftUp` is a connect that is cancelled, or whose listener and shutdown
raise, after that, so that its transport is up in no table. `Disconnected` may raise, with the
transport up or down.

`overlapped`, `leaked`, `abandoned` and `missed` are the history of what the properties except: calls
under way when a shutdown began; requests that raised between their entry into the table and the
`try`; connections that have been up, or may have, in no table; subscriptions a reconnect may pass over,
because their creation overlapped the loss or another callback was removed under the iteration.

### Idempotency and RemoteEngine

A slot is a copy of a message on the server: a stream entry, a queued message or a record at an
offset. `Take` and `Reclaim` are XREADGROUP, basic delivery and a poll, and XAUTOCLAIM; `Start` and
`Callback` are the handler, with the claims of `Idempotency`; `SettleDelivery` are acknowledgement, XADD of a
copy followed by XACK, nack, and commit or seek, each of which can fail after it took effect.
`Stop`, `ConnectionLost` and `Assign` are the faults: a consumer that leaves its entries, a channel
that gives its messages back, a partition that moves while a handler runs.

### DjangoOutbox

`BeginLease` and `CommitLease` or `RollBackLease` are the transaction of `lease` with its row locks,
with or without SKIP LOCKED; `RunStatement` is one of the other calls. Every process runs its calls
one after the other in a thread, and a call goes on when the dispatcher that awaits it is cancelled
(`CancelCall`). A row may turn out not to decode. The refinement mapping is that of `Outbox`.

### Registries and its parts

The parts share no state and do not call one another, so `Registries` exercises one of them in a
behaviour, chosen by `part` in the initial state; each is a module of its own that could be checked alone.

- `Dispatch`: registrations are sorted by rank and sequence and copied when a call begins. `Begin` to
  `HandlerRaises` are `Router.dispatch`, `CallNext` and `Leave` the layers, `Settle` and `Abandon`
  the listeners of `emit`, `ResolveDestinations` the rules of a route.
- `EventSchemas`: `LookUp`, `Transform` and `ResolveClass` are the loop of `reconstruct`, which takes
  the registry's lock for each look-up and calls the upcaster outside it, in reader threads.
- `Plugins`: entries are explicit, lazy or discovered; `Load` is the first `resolve` of one; `Select`
  is the selection by priority; the two tables of the serializer registry and its default, which the
  constructor takes from the application and may name a serializer nobody registers (`known`: the
  names that have been registered).
- `Subscriptions`: `busy` is the handle's lock and what its holder awaits; `CallRestore`, `Restored`
  and `RestoreFails` run over `callbacks`, the live list, while handles are subscribed and closed.
  `link` is *down* from the disconnect to the connect, *restoring*, or *failed*. `AskConsumer` needs
  the lease, `ConsumerCreated` does not look at the link again: it may come before, in or after a
  reconnect, whose `AllClosed` then has not seen its consumer. A restore that finds an open consumer
  is refused, and the reconnect fails (`Refused`); `StartAgain` connects without a disconnect.
- `LocalEngine`: `Visit` goes from one consumer of the snapshot to the next; a publisher waits for the
  semaphore, for a pause, for the handler, or for the delay of a redelivery.
- `Health`: `Evaluate` is one check among those asked; the registry changes until `MakeReport`.
  `expected` remembers what the checks said that must be healthy (`critical`), those that report under
  a critical name (`named`) and all of them. `BrokerHealth` is `Broker.health` in each of the
  broker's six states, with and without an engine in the table.
- `Lifespan`: `Commit` schedules a publish, `ShutdownMessage` takes the snapshot that is drained. A
  failed publish makes the drain raise, a cancelled one leaves the application without an answer
  (`DrainAborts`). A startup may fail with the broker up, after RUNNING, and a publish may outlive
  the shutdown.
- `Publish`: one item goes from the semaphore through its destinations, the layers and the retry loop
  of each; times are whole units and `Delays` gives what each backoff strategy may choose.

## The runs

| Run | Instance | Why it is large enough | States |
|---|---|---|---|
| `circuit_breaker` | 3 callers, thresholds 2, window 3, 1 slot, listener may raise | a late caller, a probe and a rejected or second probe at once; both opening rules reachable and different | 6 thousand |
| `connection` | 2 operations, heartbeat, 1 closer, 1 restart | lock holder, waiter and lock-free writer at once, while the heartbeat restarts and gives up; a shutdown at each of its awaits, with and without the end of its grace period | 66 thousand |
| `outbox` | 2 records, 2 dispatchers, batches of 2, 2 attempts, 2 faults | a batch with a rest to lose, a lapsed lease taken over, and the late holder coming back | 557 thousand |
| `consume` | 2 handler parts, 2 attempts, 2 publishes, 3 deliveries, 1 fault, all modes and engine families | two conflicting decisions, then a retry, then a redelivery that ends differently | 302 thousand |
| `dead_letter` | 2 records, store of 1, 2 replay calls, cap 2, quarantine after 2 failures, 1 fault | purge makes room under a running replay; overlapping and interrupted publishes; cap reached | 2.3 million (by symmetry) |
| `memory_queue` | 3 publishers, 2 workers, queue of 1, redelivery once | full queue with publisher, requeueing worker and close in one line; workers that end after a timeout one by one, while woken puts run | 759 thousand |
| `lifecycle` | 3 components, the last of which starts a task, 1 further task, 1 restart, 1 fault | a startup that fails in the middle and is unwound or repeated, a task that restarts while tasks are stopped | 1.3 million |
| `broker` | 2 requests and 1 subscription, 2 calls of them at most, table of 1, the reply subscription, 2 startups, 1 fault (a lost connection and a connection redialled in no table are faults) | a rejected second request; a call that looks its engine up, or goes on with its manager, after shutdown; a reply path across a loss and across a restart | 663 thousand |
| `engines` | 2 messages, 2 consumers, 2 slots, store of 1 record, 2 faults (Redis 1), each engine | a slow handler whose entry is reclaimed, a copy whose original survives, a commit past a failed record | 127 thousand |
| `django_outbox` | 2 rows, 2 processes, batches of 2, 2 attempts, 1 fault, with and without SKIP LOCKED, one row perhaps undecodable | overlapping transactions, a cancelled call that commits a lease nobody works on | 407 thousand |
| `registries` | 6 patterns of every kind and 2 messages, 2 to 3 registrations; 3 schema versions, 2 classes; 3 engines, 2 serializers; 2 subscriptions, 3 consumers each; 2 publishers, 2 local consumers; 2 checks; 3 deferred publishes; batches of 2 with 2 destinations or the default, all 6 backoffs | a registration before, in and after each snapshot; upcasters replaced between two look-ups; a callback removed under the iteration, a consumer created across a reconnect; a second destination that fails after the first holds a copy | 2.2 million |

Deadlock is an error only in `circuit_breaker`, `connection`, `outbox` and `dead_letter`: elsewhere
the system may really stop (a message at rest, a closed consumer, a broker that was shut down for the
last time, registries nobody changes).

What they show:

- `circuit_breaker`: `ProbeAccounting` is exact slot book-keeping with the late reports and the leaked
  probes as its only error terms; `HealsWithoutFailures` is its liveness.
- `connection`: `ConnectedHasTransport` for the state, which three parties write without the lock;
  `EveryCallReturns` for the absence of circular waits, without the help of the grace period;
  `HeartbeatRepairs` for recovery: once faults stop, the manager ends up CONNECTED, while operations
  go on completing.
- `outbox`: `ImplementsContract` (refinement) and `EveryRecordSettles`.
- `consume`: `StateFollowsTransport`, `NothingIsLost` and `EveryDeliveryEnds`.
- `dead_letter`: `ReplayedOnce` and `AttemptsAreCapped`. Only safety: nothing obliges an operator to
  replay. `dead_letter_replayed` is the disagreement below.
- `memory_queue`: `NeitherLostNorDoubled`, which also says what `join` counts and what a drained close
  leaves, and `CloseReturns`.
- `lifecycle`: `NothingOrphaned` and `DependenciesAreUp` over every way a call can be cut short,
  `TasksEndFirst` (no task is alive when the first component is stopped) and `ShutdownEnds`.
- `broker`: `NothingLeft` after a shutdown that no call overlapped: whatever is still up is a
  connection that was in no table, by one of the ways in `abandoned`. `PendingIsExact` for the table
  of requests; `ReplyPathExists`: under a waiting request the reply subscription is recorded with the
  connection of the table, and has its consumer whenever that connection is up, across losses,
  failed restores and restarts; `RequestEnds`. The exceptions are named history: a call that passed
  the running check before a shutdown may connect the engine again after it.
- `engines`: `NothingLost`, `EffectivelyOnce` and `EveryMessageHandled`, for each engine.
- `django_outbox`: `LeasesExclude`, `KeepsContract` (refinement) and `RowsSettle`.
- `registries`: `CallsTheSnapshot`, `EmitWaitsForAll`, `UpcastsAgree`, `SelectsBest`,
  `SerializersAgree`, `HandlesAgree`, `LocalPublishSettles`, `ReadyIsHonest`, `ShutdownDrains`, and
  for batches `ReportsAreTrue`, `RetriesInTime` and `BatchEnds`. The last one is stated as an
  invariant over the guards of the actions: a running batch always has a step that is neither a
  failure nor a cancellation. That each step brings the end nearer is `BatchStepsAhead`, a theorem.

What TLAPS proves for every instance and no other property needs is not run again: the type
invariants of `CircuitBreaker`, `Connection`, `Outbox`, `Consume` and `DeadLetter`,
`ClosedIsBelowThreshold`, `LeasesCountOperations`, `ClosedLeavesNothing`, `GracefulCloseIsIdle`,
`OneHolderPerLease`, `PunctualHolderSettles`, `TerminalIsFinal`, `DecidedIsNotDeadLettered`,
`ReplayedWasAccepted`, `ReplayDoesNotRelease` and the bound on probes. The same
holds for the safety halves of the liveness properties (`BatchStepsAhead`, `NoWakeupLost`,
`CloseGoesOn`, `LockComesFree`, `OnlyCancellationsStrand`, `RequestsGoOn`, `CallsMoveForward`,
`GatheredTasksEnd`, `TasksWindDown`, `NothingIsForgotten`, `RowsGoOn`, `LockIsFreed`,
`DeliveryGoesForward`): TLC has found them true on the instances of their modules' runs, and they
are proved.

### Fairness

| Module | Assumed | Because |
|---|---|---|
| `CircuitBreaker` | weak: clock, admissions, listeners; strong: an operation succeeds or fails | the loop runs what is ready; demand continues (the breaker leaves OPEN only inside a call); a caller is not cancelled every single time |
| `Connection` | weak: every await ends; strong: acquiring the lock | engine calls, healthchecks and operations return or raise, a timeout bounds the public drain; asyncio.Lock wakes its waiters in order. Not assumed: that the grace period of a shutdown ends |
| `Outbox` | weak: time passes, `run` leases again, publish ends | `run` sleeps its idle delay and loops; no fairness of the transport accepting anything, and stopped dispatchers need not restart |
| `DjangoOutbox` | as `Outbox`, and weak: transactions and statements end | the database serves every process; locked rows are given up at the end of a transaction |
| `Consume` | weak: delivery operations, `_consume`, the handler ends | the loop and the transports answer; `EveryDeliveryEnds` is conditional on a handler that stops calling operations |
| `MemoryQueue` | weak: workers, woken puts, close, drain timer | the loop runs woken tasks; nothing forces a paused subscription to resume |
| `Lifecycle` | weak: shutdown goes on, a task takes its own steps | stops of components and the grace period are bounded by timeouts; nothing makes a factory return that is not cancelled |
| `Broker` | weak: engine look-ups, the setup of a subscription, the end of a request; none of losses, redials or restores | connects and publishes end, a request waits with a timeout; asyncio.Lock is first come, first served |
| `RemoteEngine` | weak: reads, handlers, commands, time, assignment; strong: reclaiming | XAUTOCLAIM comes first once its interval is over, so new entries cannot starve it |
| `DeadLetter`, `Registries` | none | |

`HeartbeatRepairs`, `HealsWithoutFailures`, `EveryRecordSettles`, `RowsSettle` and
`EveryMessageHandled` put the end of faults, or one consumer that stays, into their hypothesis rather
than into the fairness. `CloseReturns` excepts a consumer that stays paused.

## Where code and documentation disagree

TLC refutes the promise of the first row in the run `dead_letter_replayed`, property
`ReplayedIsNotQuarantined`. The others follow from the models in the same way; their traces are
described here, and the runs state the bounds that do hold.

| Promise | What the code does |
|---|---|
| "a replayed record cannot be quarantined" (`deadletter/manager.py:176`) | a failing replay writes back what it read before another replay succeeded (`deadletter/replay.py:151`), and quarantines the replayed record |
| "bounded half-open probes" (`src/docs/reliability.md:110`) | a call admitted while CLOSED that is cancelled in HALF_OPEN gives back a slot it never had (`reliability/circuit_breaker.py:255`), and two probes run with a limit of one. `ProbesAreBounded` proves the bound that does hold: the limit plus the late reports |
| "Reject new leases and wait for in-flight operations" (`connection.py:371`) | DRAINING is written without the lock (`connection.py:377`) and overwritten by a connect in progress (`connection.py:186`), after which leases are granted |
| "application failure cannot restore the message" in NONE mode (`src/docs/reliability.md:30`) | rejecting the acknowledged adapter raises (`broker.py:949`), and the local engine's publisher retries |
| "never becomes a silent no-op" (`src/docs/reliability.md:32`) | `nack(requeue=False)` followed by `requeue()` leaves a REQUEUED delivery that the transport rejected (`delivery.py:106`) |
| "`shutdown()` drains consumers" (`src/docs/core-concepts.md:10`) | a woken put that runs after close found nothing to wait for is accepted into a queue whose workers are told to stop (`engines/memory.py:112`) |
| "Startup [...] connects the engine, restores registered topology, and only then makes the broker ready" (`src/docs/testing-and-deployment.md:119`), "Readiness should become true only after `startup()`" (`src/docs/integrations.md:140`) | a broker without an engine in its table reports no component, and a report without components is ready unless the broker has failed or stopped (`broker.py:653`, `observability/health.py:135`): ready before, in and, with its table cleared, at the end of draining |
| "A failed critical check makes readiness false" (`src/docs/operations.md:25`) | readiness is looked up by the name in the answer (`observability/health.py:135`): a critical check that reports under another name than it is registered with does not count |
| "No task created by a framework service should be left unowned after broker shutdown" (`src/docs/operations.md:115`) | a `connection.shutdown` that raises leaves its supervisor running (`connection.py:401`), and its error is dropped (`broker.py:1141`); a publish that retries on that manager (`broker.py:780`) connects it again and starts a heartbeat nobody cancels |

Behaviours no document denies, but a reader of the code may not expect; the models contain them, and
the properties except them by name:

- *Connections.* A cancelled reconnect strands RECONNECTING. A restore callback that is unregistered
  while the callbacks run makes the list skip the next one; a reconnect between `create_consumer` and
  the registration of the callback misses the subscription; one that overlaps `create_consumer` may
  find the consumer open, and fails; a paused subscription is restored open. A shutdown cancelled
  while "disconnected" is emitted leaves CLOSED with its supervisor running, and cannot be repeated.
- *Broker.* A publish or subscribe that passed the running check connects the engine again after
  shutdown, and one that holds its manager connects that one. A startup or an operation cancelled
  after its connection is CONNECTED leaves it up in no table (`connection.py:277`: the CancelledError
  passes `broker.py:1115`). A request whose reply subscription was passed over by a reconnect waits
  until its timeout. A request that fails before its `try` leaves its entry in the table. A batch
  with several destinations that fails leaves the copies of those before.
- *Outbox.* `max_attempts` is looked at only when publish raises (`reliability/outbox.py:292`): a
  record whose dispatcher is always killed is leased again for ever. In the Django store a row that
  does not decode rolls back every batch it is part of, and publishing goes through `Broker.publish`,
  so each retry carries a new envelope id.
- *Memory and local engine.* `last_error` of a memory consumer is never cleared
  (`engines/memory.py:155`). A local delivery that waited in a pause starts its handler after close; a
  requeue on a closed consumer drops the message; a handler that publishes to its own consumer while
  the semaphore is taken waits for itself.
- *Registries.* `EngineRegistry.register` casefolds names and `resolve` does not; a generated handler
  name may replace an equal explicit one; `emit` passes a listener's cancellation on at once.
- *Serializers.* The default given to the constructor may be a name under which nothing is registered;
  the look-up that relies on it raises only then.
- *Django lifespan.* The first failed publish ends the drain, so the broker is not shut down; a cancelled
  one ends the application without any answer to the server (`integrations/django/asgi.py:86`). A
  startup that fails in a critical listener after RUNNING leaves the broker up (`broker.py:337`).

## Proofs

All proofs hold for every value of the constants that the named assumptions allow: sets of any size,
finite where a cardinality is taken, positive limits, and placeholder values that are distinct from
the real ones (`ConfigAssumption`, `ProcessAssumption`, `BrokerAssumption`, `OutboxAssumption`, `ConsumeAssumption`,
`DeadLetterAssumption`, `MemoryQueueAssumption`, `LifecycleAssumption`, `DjangoAssumption`,
`IdempotencyAssumption`, `RemoteEngineAssumption`, which asks for at least one message, and for the
parts of `Registries` `DispatchAssumption`, `PluginAssumption`, `SchemaAssumption`,
`PublishAssumption`, `LocalAssumption`, `SubscriptionAssumption` and `HealthAssumption`). `PowerAssumption` says that the multiplier of the backoff has natural
powers, which arithmetic gives and these provers cannot derive from a recursive definition. Each proof
rests on one inductive invariant, lemmas for the initial states and for every action, and theorems
that project it, or that add a conjunct of their own to it; TLC has checked each inductive invariant on the instance of the run before it was
proved.

- **`ConnectionProofs`**, the manager `Connection`: `TypeCorrect`, `LeasesAreCounted`, `ConnectedMeansTransport`,
  `ShutdownLeavesNothing`, `GracefulCloses`. The strengthening is the lock discipline: `LockOwner`
  (the lock's owner is the one task at an await inside the lock), `UnderLock` (while somebody
  connects or closes, the state is neither CONNECTED nor CLOSED; the lock-free writers only write
  FAILED and DRAINING), `HeartbeatReconnects` (the heartbeat never takes a lease) and
  `NoLeaseBefore`. Counting is separated from the discipline: every action is shown to be a
  `LeaseMove`, and one lemma does the cardinalities.

  Two more theorems are the safety halves of `EveryCallReturns` and `HeartbeatRepairs`.
  `LockIsGivenBack` (`LockComesFree`): the owner of the lock is at an await that ends with a step of
  its own, each of these steps releases the lock or leaves fewer awaits until it does
  (`AwaitsLeft`), and no step of another task undoes this; it follows from the lock discipline
  (`OwnerMoves`, `OthersMove`). `FailuresDoNotStrand` (`OnlyCancellationsStrand`): nothing but a
  cancellation gives the lock back with the state CONNECTING or RECONNECTING, so the exception in
  `HeartbeatRepairs` is no wider than that. It needs `AnnouncesOutcome`, on top of the discipline:
  a task that has connected and still announces it finds neither state (the others that release
  the lock write the outcome in the same step).
- **`ConnectionProofs`**, the breaker `CircuitBreaker`: `BreakerTypeCorrect`, `ClosedBelowThreshold`, `SlotsAreAccounted`,
  `ProbesAreBounded`. The accounting is not inductive alone: admitting a probe must add a *new* member
  to `probes`, so `IdleHoldsNoProbe` says that idle callers are not in it.
- **`OutboxProofs`**: `TypeCorrect`, `PunctualHoldersSettle`, `LeasesAreExclusive` and
  `OutboxImplementsContract`, the refinement. It rests on tokens: a held token was issued
  (`HeldTokens`), no two dispatchers hold the same one (`DisjointBatches`), only the current record
  of a batch can have been sent (`UnsentAhead`), and sends bear issued tokens (`SentTokens`).

  `NoRecordIsForgotten` (`NothingIsForgotten`) is the safety half of `EveryRecordSettles`: a record
  that is not settled is for the next lease, waits for its delay, or has a lease that is settled or
  lapses. A lapsed lease is recovered only if the record is due, so it needs that only `mark_failed`
  postpones a record, which gives the lease back with it (`LeasedIsDue`).
- **`ConsumeProofs`**, the delivery `Consume`: `TypeCorrect`, `StateIsHonest`, `NoMessageIsLost`, `TerminalStays`,
  `DecisionStands`. `AllowedFacts` extracts from the transition table what matters, that only NACKED
  can be followed by another decision; `Operations` says that the state cannot change under a part
  that is inside the adapter; `FinishedIsDecided` ties a remote adapter's flag to the state;
  `EndedAccounted` says why a delivery ended.

  Two more are the safety half of `EveryDeliveryEnds`. `LockIsNeverLeft` (`LockIsFreed`): no failed,
  cancelled or timed-out operation keeps the Delivery's lock, so `_consume` never finds it taken.
  `DeliveriesGoForward` (`DeliveryGoesForward`): each move of `_consume` begins one of at most
  `MaxTries` attempts or is a stage nearer to the end, so what is assumed is only that the handler
  and the transport come back.
- **`ConsumeProofs`**, the engines `RemoteEngine`: `AcceptedIsNeverLost`, `EffectOnlyOnce`. That a message
  keeps a copy is not inductive, because the copy may be the one that is being acknowledged:
  `Survives` asks for a copy that nobody acknowledges, so a replacement has to exist before its
  original may go. What makes a commit of Kafka safe is `Log`: all records before the one of a
  callback are settled, every record up to the position of the owner is settled or in its hands
  (`Covered`), and slots are filled in order. `Queued` says that a copy nobody holds is in the queue
  once. `OneEffect` ties the record of a message to what can still happen to it: under a handler it
  is claimed, after its effect it is completed or there is no copy left, in nobody's hands and not
  to be delivered again by a late commit. The queue lemmas (`HeadTaken`, `Joined`, `Appended`, `TakenOut`,
  `Enumerated`) say what the server's operations do to its elements; `SlotInduction` is induction
  over a set of numbers, from well-foundedness, and gives every set of slots its order.
- **`DeadLetterProofs`**: `TypeCorrect`, `MarksAreTrue`, `UndisturbedIsReplayedOnce`, `CapIsKept`,
  `OnlyReleaseReleases`. `Counted` is the heart: for an undisturbed record the counter equals the
  publishes begun, less the one in flight, whose snapshot is current.

- **`BrokerProofs`**, the facade `Broker`: `QuietShutdownReleasesAll`, `PendingTableIsExact`,
  `RepliesHaveAPath`. `QuietOK` is what a shutdown without calls under way buys: outside of a run
  nobody is on the way to a connection or a consumer, so what `FinishClosing` has released stays
  released (`ShutdownOK`, `ReplyOK`). `ConnectionsOK` accounts for every connection that is up: in the
  table, being shut down, or one that has been up in no table; its count pays for each of them with a
  startup, or with a request that is past its connect or was ended by it (`LeftUpOK`), which bounds
  the connections. A running broker has its connection, up or lost (`PhasesOK`), hence a subscribe
  never makes one (`PlacesOK`). In a run without calls of an earlier one, the reply subscription is
  made with the connection of the table (`CreatorOK`). It is closed by a shutdown only, and that
  shutdown waits for it (`SubscriptionsOK`). The losses, redials and restores leave all of this
  alone but for the consumers (`CallsRest`), and a restore makes those of what is recorded.

  Two more theorems are the safety half of `RequestEnds`. `NoRequestIsStuck` (`RequestsGoOn`): there
  is no circular wait on the reply lock, the reply subscription and the engine lock, because whoever
  holds the reply lock waits for the subscribe under way (`ReplyAwaited`), which ends by itself and
  takes the request with it. `CallsComeNearer` (`CallsMoveForward`): no step, of a shutdown or a
  cancellation included, sends a call back, and each of its own steps brings it nearer to its end.
  What stays assumed is that the awaits end and that the locks are handed on in order.
- **`BrokerProofs`**, the queue `MemoryQueue`: `MessagesAreNeitherLostNorDoubled`,
  `WakeupsAreNeverLost`, `CloseNeverGetsStuck`. That a message is in
  one place is not inductive before it is known where everybody *waits*: `PutsStand` says that a put
  stands in `line` or `woken` once, exactly while its publisher is blocked, at most while its worker
  requeues, and for `close` only after `join` and while there are Nones to put. From it follows who
  may be at the head of `woken` (`HeadWoken`), hence that a put which runs adds a message that is
  nowhere else. `WorkCounted` (what `join` counts) and `MessagesPlaced` together say that when the
  count is zero all that was accepted is settled (`AllSettled`), which is how `EarlySettled` begins.
  `AttemptsLeft` keeps the bound on redeliveries with the messages that may be tried again. The
  lemmas `Count...`, `WakeMoves` and `LeaveMoves` say what appending, removing, waking and giving up do to
  the number of times a put stands in the line.

  The other two are the safety halves of delivery and of `CloseReturns`. `NoWakeupLost`: each step
  leaves the queue full, or frees no more slots than it wakes puts (`KeepsAwake`); the close that
  `join` has woken is not counted, since its timeout may still cancel it, and it needs `CloserStands`
  that this one is really there. `CloseGoesOn` adds the balance of the Nones (`StopsBalance`) and
  that nobody requeues once `join` has returned (`NoneRequeues`): a worker that is left then waits
  for an empty queue, so close has Nones to put, and it is awake or another put is.
- **`LifecycleProofs`**: `NothingIsOrphaned`, `DependenciesStayUp`, `TasksEndBeforeComponents`. What is up
  is a prefix of what was started (`OwnedIsUp`), a startup has all of its prefix up and a reversed
  iteration has passed what is down (`PrefixOfCall`), and nothing is up in the states a startup may
  begin in (`UnownedIsDown`): this is what carries over a call that is cut short. For tasks,
  `WaitsForAll` says that a shutdown that waits waits for every task that has not ended.

  Two more are the safety half of `ShutdownEnds`. `GatherNeverHangs` (`GatheredTasksEnd`): the tasks
  that shutdown gathers are cancelled or past their factory; a second call, which cancels nothing,
  finds none to wait for, by `TasksEndFirst`. `TasksOnlyWindDown` (`TasksWindDown`): once the
  supervisor stops, no step of anybody gives a task a round more, and each step of its own brings it
  nearer to its end.
- **`DjangoOutboxProofs`**: `LeasesAreExclusive` and `DjangoStoreKeepsContract`, the refinement. The
  tokens are those of `OutboxProofs`; what is new are transactions and threads. `OneCall` says what a
  thread may still be at work on for a dispatcher that has gone, `Tokened` that its late updates bear
  tokens nobody else has, `Locks` that locked rows stay as they were chosen, so that a committed
  lease finds them waiting or lapsed, and `Claims` that an update says only what was sent.

  `NoRowIsForgotten` (`RowsGoOn`) is the safety half of `RowsSettle`: a leased row is due, so a lapsed
  lease is in the next query, and no thread waits for a row while it has one locked. Between the
  query and the commit of a lease only the row locks keep a late `mark_failed` from postponing a row
  that is being leased (`ChosenIsDue`, `StatementKeepsDue`).
- **`RegistriesProofs`**: `CallsFollowTheirSnapshot`, `EmitsWaitForAll`, `SelectionsAreBest`,
  `SerializersStayInStep`, `ReadyReportsAreHonest`, `ShutdownsDrain`, `UpcastsStayInStep`,
  `ReportsStayTrue`, `RetriesEndInTime`, `BatchesGoOn`, `BatchesEnd`, `LocalPublishesSettle`, `HandlesStayTrue`. A step of
  `Registries` is a step of one part, so each part has an invariant of its own. For calls, what was
  called is the beginning of a snapshot that is sorted by keys that mean what the documentation says
  (`KeysAreDocumented`), and the history is the end of the log, position by position (`HistoryInv`).
  For engines and plugins, no two entries have the same number and none is beyond the sequence
  (`Numbered`), which makes the first entry unique; `EntriesDiscovered` carries this through the two
  registrations of a discovery. For health, a report says of the checks that were asked what it
  would say of them in any order without repetitions (`Reported`), because no two checks have one
  name. For the schema readers, the class a reader will return is one its destination had while it
  read (`ReaderInv`). For retries, each timer ends within its limit whatever the strategy chose
  (`TimersEnd`). For batches, the destinations left are the end of those found (`Placed`), none
  ahead of the current one has a copy, and the one being tried has no more copies than attempts lost
  (`Sent`, `ItemAt`), which is why a result adds at most one; this needs that the router names a
  destination once, which `CallsFollowTheirSnapshot` proves of it. `BatchesGoOn` follows from the same
  invariant: without an item under way all permits are free, so the first item in line may have one.
  `BatchesEnd` compares what each item has left (`Left`: its stage, the destinations, the stage at
  the current one, the attempts, the timer) in lexicographic order: no step, a failure included,
  leaves an item more, and each leaves some item less. For the local engine, the permits
  of a consumer and those its publishers hold add up to its capacity, and an open consumer of the
  snapshot is behind the publisher only if it has settled. For subscriptions, the callback of a
  handle in use is registered once (`CallbacksAgree`), only the consumer of its record may be open,
  and a handle no call works on differs from its consumer only in the windows that `HandlesAgree`
  names; removing a callback under the iteration is the case that makes `skipped` necessary.

Model-checked only: the liveness properties (fairness and ENABLED are beyond the prover). Every
invariant and every action property of the runs, and both refinements, are theorems, but for
`ReplayedIsNotQuarantined`, which is false. What can be said of a liveness property without
fairness is proved where it is not obvious from one guard: something may always go on, stated over
the guards (`BatchesGoOn`, `CloseNeverGetsStuck`, `NoRequestIsStuck`, `GatherNeverHangs`,
`LockIsNeverLeft`), nothing is forgotten (`WakeupsAreNeverLost`, `NoRecordIsForgotten`,
`NoRowIsForgotten`), and every step brings the end nearer (`BatchesEnd`, `LockIsGivenBack`,
`CallsComeNearer`, `TasksOnlyWindDown`, `DeliveriesGoForward`). No module of the project declares a
RECURSIVE operator.

## What is not modelled

- *Kinds of configuration the models fix*: an engine injected into the broker is adopted without the
  engine lock and is not told apart; registrations of events come from one thread (class attributes
  are attached without a lock); the default serializer is read without the lock that writes it.
- *Redis Pub/Sub*, which acknowledges nothing and keeps no state. A RabbitMQ queue is taken to be
  declared before messages are published to it: the server drops what is published earlier, though
  the publish is accepted.
- *RetryBudget, CallableBackoff and the cancellation mode CLASSIFY*: the policies that the broker
  builds use none of them. Jitter is a choice within its range, time is in whole units.
- *Globs* other than `*`, which are fnmatch's.
- *Django*: the blocking publish of synchronous requests, the process-wide broker slot, `get` and
  `list` of the store, which only read.
- *Values, payload conversion, envelopes, configuration, observability and redaction, web framework,
  Celery and command-line integrations, testing fakes*: sequential conversions or outputs that no
  other component's decision depends on. Where they can fail inside a modelled operation (decoding, a
  middleware that raises, a critical listener), the failure is a choice of that operation's action.
- *Snapshots, statistics and health details*, which only read.

`PROJECT.json` lists the hazards, each at its line, with the properties that watch it.

## Plan

Done, in this order: `CircuitBreaker`, `Connection`, `Outbox` with its contract, `Consume`,
`DeadLetter`, `MemoryQueue`; then `Lifecycle`, `Broker`, `Idempotency` with `RemoteEngine`,
`DjangoOutbox`, and the parts of `Registries`; proofs for the first six, and for `Lifecycle`,
`Broker`, `RemoteEngine`, `DjangoOutbox` and all nine parts of `Registries`.

Next:

1. The consume pipeline with the inbound middleware inside `Consume`, and Kafka's cumulative commit
   under the pipeline's own errors.
2. Larger instances: three subscriptions under one restore, three messages over Kafka.
