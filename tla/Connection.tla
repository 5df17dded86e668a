----------------------------- MODULE Connection -----------------------------
(***************************************************************************)
(* broka.connection.ConnectionManager: one transport engine shared by      *)
(* concurrent operations, a supervised heartbeat and a shutdown.           *)
(*                                                                         *)
(* A step runs from one await that can suspend to the next.  The operation *)
(* lock is held across awaits and is modelled; the lease condition is      *)
(* never held across one, so taking and returning a lease is atomic.  The  *)
(* connection state is written with and without the lock, and that is      *)
(* where the interleavings bite.                                           *)
(*                                                                         *)
(* engine.connect under retry and circuit breaker is one call that either  *)
(* succeeds or fails; the restore callbacks either all succeed or one      *)
(* fails.  The supervisor is owned by the manager, as Broker creates it.   *)
(***************************************************************************)
EXTENDS Naturals, FiniteSets

CONSTANTS
  Workers,       \* tasks that call run(operation)
  Closers,       \* tasks that call shutdown() or drain()
  Heartbeat,     \* the supervised heartbeat task
  NoOne,         \* the owner of a free lock
  MaxRestarts    \* max_restarts of the heartbeat task

ASSUME ProcessAssumption ==
  /\ IsFiniteSet(Workers)
  /\ Heartbeat \notin Workers \cup Closers
  /\ Workers \cap Closers = {}
  /\ NoOne \notin Workers \cup Closers \cup {Heartbeat}
  /\ MaxRestarts \in Nat

VARIABLES
  state,      \* _state
  lock,       \* owner of _operation_lock
  leases,     \* _active_leases
  engine,     \* is the transport of the engine connected?
  at,         \* the await at which each task is suspended
  via,        \* did the lock holder that connects come from startup or reconnect?
  restarts,   \* restart_count of the heartbeat task
  stopped,    \* the supervisor has been shut down
  forced,     \* the last drain of a shutdown timed out
  quiesced    \* history: a drain or a shutdown has begun

vars == <<state, lock, leases, engine, at, via, restarts, stopped, forced, quiesced>>

Tasks == Workers \cup Closers \cup {Heartbeat}
Connectors == Workers \cup {Heartbeat}

ConnectionStates == {"disconnected", "connecting", "connected", "reconnecting",
                     "failed", "draining", "closing", "closed"}

Quiet == {"draining", "closing", "closed"}

(* idle: outside the manager        startup, reconnect, shutdown: waiting  *)
(* off: heartbeat task is done      for the operation lock                 *)
(* cancelled: outside the manager, the last call ended in a CancelledError *)
(* sleep, check, backoff: the heartbeat's interval, its healthcheck and    *)
(*   the supervisor's restart delay                                        *)
(* disconnecting, connecting, restoring, unwinding, announcing: holding    *)
(*   the lock in reconnect or _connect_locked                              *)
(* op: running under a lease        wait: public drain                     *)
(* stopping, draining, closing, farewell: holding the lock in shutdown,    *)
(*   while the heartbeat ends, the leases come back, the engine            *)
(*   disconnects and the listeners of "disconnected" run                   *)
Points == {"idle", "cancelled", "off", "startup", "reconnect", "shutdown",
           "sleep", "check", "backoff",
           "disconnecting", "connecting", "restoring", "unwinding", "announcing",
           "op", "wait", "stopping", "draining", "closing", "farewell"}

Outside == {"idle", "cancelled"}

Goto(t, point) == at' = [at EXCEPT ![t] = point]

Waits(t, point) == at[t] = point /\ lock = NoOne

Release == lock' = NoOne /\ via' = "nobody"

-----------------------------------------------------------------------------
(* The heartbeat task and its supervisor                                   *)

\* The head of the loop: leave it when the manager drains or closes.
LoopHead == IF state \in Quiet THEN "off" ELSE "sleep"

\* An exception leaves the loop: restart with a delay, at most MaxRestarts times.
HeartbeatFails ==
  IF restarts < MaxRestarts
    THEN Goto(Heartbeat, "backoff") /\ restarts' = restarts + 1
    ELSE Goto(Heartbeat, "off") /\ UNCHANGED restarts

\* Faulty variant, for mutation: a FAILED manager is not the heartbeat's business.
HeartbeatIgnoresFailed ==
  /\ at[Heartbeat] = "sleep"
  /\ \/ state = "connected" /\ Goto(Heartbeat, "check")
     \/ state \in Quiet /\ Goto(Heartbeat, "off")
  /\ UNCHANGED <<state, lock, leases, engine, via, restarts, stopped, forced, quiesced>>

HeartbeatWakes ==
  /\ at[Heartbeat] = "sleep"
  /\ \/ state = "connected" /\ Goto(Heartbeat, "check")
     \/ state = "failed" /\ Goto(Heartbeat, "reconnect")
     \/ state \in Quiet /\ Goto(Heartbeat, "off")
  /\ UNCHANGED <<state, lock, leases, engine, via, restarts, stopped, forced, quiesced>>

HeartbeatHealthy ==
  /\ at[Heartbeat] = "check"
  /\ Goto(Heartbeat, LoopHead)
  /\ UNCHANGED <<state, lock, leases, engine, via, restarts, stopped, forced, quiesced>>

\* FAILED is written whatever the state has become during the healthcheck.
HeartbeatUnhealthy ==
  /\ at[Heartbeat] = "check"
  /\ state' = "failed"
  /\ Goto(Heartbeat, "reconnect")
  /\ UNCHANGED <<lock, leases, engine, via, restarts, stopped, forced, quiesced>>

HeartbeatRestarts ==
  /\ at[Heartbeat] = "backoff"
  /\ Goto(Heartbeat, LoopHead)
  /\ UNCHANGED <<state, lock, leases, engine, via, restarts, stopped, forced, quiesced>>

-----------------------------------------------------------------------------
(* What a task does with the outcome of its connect                        *)

\* reconnect has raised: run re-raises, the heartbeat dies or restarts.
ReconnectRaises(t) ==
  IF t = Heartbeat
    THEN HeartbeatFails
    ELSE Goto(t, "idle") /\ UNCHANGED restarts

\* run classifies an error of its lease or of its operation: a connection
\* error writes FAILED, without the lock, and reconnects.
ConnectionError(w) == state' = "failed" /\ Goto(w, "reconnect")

\* lease, after ensure_connected
Lease(w) ==
  IF state = "connected"
    THEN leases' = leases + 1 /\ Goto(w, "op") /\ UNCHANGED state
    ELSE ConnectionError(w) /\ UNCHANGED leases

-----------------------------------------------------------------------------
(* run, lease, ensure_connected                                            *)

Run(w) ==
  /\ at[w] \in Outside
  /\ IF state = "connected"
       THEN Lease(w)
       ELSE Goto(w, "startup") /\ UNCHANGED <<state, leases>>
  /\ UNCHANGED <<lock, engine, via, restarts, stopped, forced, quiesced>>

\* startup, once it has the lock
StartupEnters(w) ==
  /\ Waits(w, "startup")
  /\ \/ /\ state = "connected"
        /\ Lease(w)
        /\ UNCHANGED <<lock, via>>
     \/ /\ state \in {"draining", "closing"}
        /\ ConnectionError(w)
        /\ UNCHANGED <<lock, leases, via>>
     \/ /\ state \notin {"connected", "draining", "closing"}
        /\ state' = "connecting"
        /\ lock' = w
        /\ via' = "startup"
        /\ Goto(w, "connecting")
        /\ UNCHANGED leases
  /\ UNCHANGED <<engine, restarts, stopped, forced, quiesced>>

OperationSucceeds(w) ==
  /\ at[w] = "op"
  /\ leases' = leases - 1
  /\ Goto(w, "idle")
  /\ UNCHANGED <<state, lock, engine, via, restarts, stopped, forced, quiesced>>

\* Faulty variant, for mutation: run does not return its lease before it reconnects.
OperationFailsLeased(w) ==
  /\ at[w] = "op"
  /\ UNCHANGED leases
  /\ ConnectionError(w)
  /\ UNCHANGED <<lock, engine, via, restarts, stopped, forced, quiesced>>

OperationFails(w) ==
  /\ at[w] = "op"
  /\ leases' = leases - 1
  /\ ConnectionError(w)
  /\ UNCHANGED <<lock, engine, via, restarts, stopped, forced, quiesced>>

-----------------------------------------------------------------------------
(* reconnect and _connect_locked                                           *)

\* Faulty variant, for mutation: reconnect does not wait for the lock.
ReconnectUnlocked(t) ==
  /\ at[t] = "reconnect"
  /\ IF state \in Quiet
       THEN ReconnectRaises(t) /\ UNCHANGED <<state, lock, via>>
       ELSE /\ state' = "reconnecting"
            /\ lock' = t
            /\ via' = "reconnect"
            /\ Goto(t, "disconnecting")
            /\ UNCHANGED restarts
  /\ UNCHANGED <<leases, engine, stopped, forced, quiesced>>

ReconnectEnters(t) ==
  /\ Waits(t, "reconnect")
  /\ IF state \in Quiet
       THEN ReconnectRaises(t) /\ UNCHANGED <<state, lock, via>>
       ELSE /\ state' = "reconnecting"
            /\ lock' = t
            /\ via' = "reconnect"
            /\ Goto(t, "disconnecting")
            /\ UNCHANGED restarts
  /\ UNCHANGED <<leases, engine, stopped, forced, quiesced>>

\* The outcome of engine.disconnect is ignored here.
Disconnected(t) ==
  /\ at[t] = "disconnecting"
  /\ engine' \in {"down", engine}
  /\ Goto(t, "connecting")
  /\ UNCHANGED <<state, lock, leases, via, restarts, stopped, forced, quiesced>>

ConnectSucceeds(t) ==
  /\ at[t] = "connecting"
  /\ engine' = "up"
  /\ Goto(t, "restoring")
  /\ UNCHANGED <<state, lock, leases, via, restarts, stopped, forced, quiesced>>

\* _connect_locked raises out of startup or reconnect and the lock is released.
\* Only a connection error of startup makes run reconnect; a retry that is
\* exhausted is not one.
Raise(t) ==
  /\ Release
  /\ \/ state' = "failed" /\ ReconnectRaises(t)
     \/ via = "startup" /\ ConnectionError(t) /\ UNCHANGED restarts

ConnectFails(t) ==
  /\ at[t] = "connecting"
  /\ Raise(t)
  /\ UNCHANGED <<leases, engine, stopped, forced, quiesced>>

RestoreFails(t) ==
  /\ at[t] = "restoring"
  /\ Goto(t, "unwinding")
  /\ UNCHANGED <<state, lock, leases, engine, via, restarts, stopped, forced, quiesced>>

Unwound(t) ==
  /\ at[t] = "unwinding"
  /\ engine' \in {"down", engine}
  /\ Raise(t)
  /\ UNCHANGED <<leases, stopped, forced, quiesced>>

RestoreSucceeds(t) ==
  /\ at[t] = "restoring"
  /\ state' = "connected"
  /\ Goto(t, "announcing")
  /\ UNCHANGED <<lock, leases, engine, via, restarts, stopped, forced, quiesced>>

\* The listeners of "connected" have run: startup starts the heartbeat unless
\* it is running, which raises once the supervisor is stopped; then the lease.
Announced(t) ==
  /\ at[t] = "announcing"
  /\ Release
  /\ IF via = "reconnect"
       THEN /\ Goto(t, IF t = Heartbeat THEN LoopHead ELSE "idle")
            /\ UNCHANGED <<state, leases, restarts>>
       ELSE \/ /\ at[Heartbeat] = "off" /\ stopped
               /\ Goto(t, "idle")
               /\ UNCHANGED <<state, leases, restarts>>
            \/ /\ at[Heartbeat] = "off" /\ ~stopped
               /\ restarts' = 0
               /\ IF state = "connected"
                    THEN /\ leases' = leases + 1
                         /\ at' = [at EXCEPT ![t] = "op", ![Heartbeat] = "sleep"]
                         /\ UNCHANGED state
                    ELSE /\ state' = "failed"
                         /\ at' = [at EXCEPT ![t] = "reconnect", ![Heartbeat] = "sleep"]
                         /\ UNCHANGED leases
            \/ /\ at[Heartbeat] # "off"
               /\ Lease(t)
               /\ UNCHANGED restarts
  /\ UNCHANGED <<engine, stopped, forced, quiesced>>

-----------------------------------------------------------------------------
(* drain and shutdown                                                      *)

\* Public drain: writes DRAINING without the lock.
Drain(c) ==
  /\ at[c] \in Outside
  /\ state \notin {"closed", "disconnected"}
  /\ state' = "draining"
  /\ quiesced' = TRUE
  /\ Goto(c, "wait")
  /\ UNCHANGED <<lock, leases, engine, via, restarts, stopped, forced>>

\* The leases are returned, or the timeout expires.
DrainReturns(c) ==
  /\ at[c] = "wait"
  /\ Goto(c, "idle")
  /\ UNCHANGED <<state, lock, leases, engine, via, restarts, stopped, forced, quiesced>>

Shutdown(c) ==
  /\ at[c] \in Outside
  /\ Goto(c, "shutdown")
  /\ UNCHANGED <<state, lock, leases, engine, via, restarts, stopped, forced, quiesced>>

\* drain within shutdown: it returns at once when there has never been a connection and
\* writes DRAINING otherwise.
DrainWithin(c) ==
  LET first == IF state = "disconnected" THEN "closing" ELSE "draining"
  IN  /\ state' = first
      /\ forced' = FALSE
      /\ Goto(c, first)

\* A heartbeat that runs is cancelled, and awaited with the state as it was; without one
\* supervisor.cancel does not suspend.
ShutdownEnters(c) ==
  /\ Waits(c, "shutdown")
  /\ \/ /\ state = "closed"
        /\ Goto(c, "idle")
        /\ UNCHANGED <<state, lock, forced, quiesced>>
     \/ /\ state # "closed"
        /\ lock' = c
        /\ quiesced' = TRUE
        /\ IF at[Heartbeat] = "off"
             THEN DrainWithin(c)
             ELSE /\ at' = [at EXCEPT ![c] = "stopping", ![Heartbeat] = "off"]
                  /\ UNCHANGED <<state, forced>>
  /\ UNCHANGED <<leases, engine, via, restarts, stopped>>

HeartbeatStopped(c) ==
  /\ at[c] = "stopping"
  /\ DrainWithin(c)
  /\ UNCHANGED <<lock, leases, engine, via, restarts, stopped, quiesced>>

\* All leases are back.
ShutdownDrains(c) ==
  /\ at[c] = "draining"
  /\ leases = 0
  /\ state' = "closing"
  /\ Goto(c, "closing")
  /\ UNCHANGED <<lock, leases, engine, via, restarts, stopped, forced, quiesced>>

\* The grace period is over first.
ShutdownTimesOut(c) ==
  /\ at[c] = "draining"
  /\ leases > 0
  /\ forced' = TRUE
  /\ state' = "closing"
  /\ Goto(c, "closing")
  /\ UNCHANGED <<lock, leases, engine, via, restarts, stopped, quiesced>>

ShutdownCloses(c) ==
  /\ at[c] = "closing"
  /\ engine' = "down"
  /\ state' = "closed"
  /\ Goto(c, "farewell")
  /\ UNCHANGED <<lock, leases, via, restarts, stopped, forced, quiesced>>

\* "disconnected" has been emitted; supervisor.shutdown finds no task and does not suspend.
ShutdownReturns(c) ==
  /\ at[c] = "farewell"
  /\ stopped' = TRUE
  /\ Release
  /\ Goto(c, "idle")
  /\ UNCHANGED <<state, leases, engine, restarts, forced, quiesced>>

\* engine.disconnect raises: FAILED, and the supervisor keeps running.
ShutdownFails(c) ==
  /\ at[c] = "closing"
  /\ engine' \in {"down", engine}
  /\ state' = "failed"
  /\ Release
  /\ Goto(c, "idle")
  /\ UNCHANGED <<leases, restarts, stopped, forced, quiesced>>

-----------------------------------------------------------------------------
(* A worker or a closer is cancelled at its await: its call ends in a      *)
(* CancelledError, which tells this step from every ordinary completion.   *)

Cancel(t) ==
  /\ t # Heartbeat
  /\ Goto(t, "cancelled")
  /\ \/ /\ at[t] \in {"startup", "reconnect", "shutdown", "wait"}
        /\ UNCHANGED <<state, lock, via, leases, engine>>
     \/ /\ at[t] = "op"
        /\ leases' = leases - 1
        /\ UNCHANGED <<state, lock, via, engine>>
     \/ \* no handler: reconnect leaves RECONNECTING, shutdown what it found, DRAINING,
        \* CLOSING or, with the supervisor not stopped, CLOSED
        /\ at[t] \in {"disconnecting", "unwinding", "announcing",
                      "stopping", "draining", "closing", "farewell"}
        /\ Release
        /\ \/ UNCHANGED engine
           \/ at[t] \in {"disconnecting", "unwinding", "closing"} /\ engine' = "down"
        /\ UNCHANGED <<state, leases>>
     \/ \* except BaseException of _connect_locked
        /\ at[t] \in {"connecting", "restoring"}
        /\ Release
        /\ state' = "failed"
        /\ \/ UNCHANGED engine
           \/ at[t] = "restoring" /\ engine' = "down"
        /\ UNCHANGED leases
  /\ UNCHANGED <<restarts, stopped, forced, quiesced>>

-----------------------------------------------------------------------------
Init ==
  /\ state = "disconnected"
  /\ lock = NoOne
  /\ leases = 0
  /\ engine = "down"
  /\ at = [t \in Tasks |-> IF t = Heartbeat THEN "off" ELSE "idle"]
  /\ via = "nobody"
  /\ restarts = 0
  /\ stopped = FALSE
  /\ forced = FALSE
  /\ quiesced = FALSE

Acquire(t) ==
  \/ t \in Workers /\ StartupEnters(t)
  \/ t \in Connectors /\ ReconnectEnters(t)
  \/ t \in Closers /\ ShutdownEnters(t)

Proceed(t) ==
  \/ /\ t = Heartbeat
     /\ HeartbeatWakes \/ HeartbeatHealthy \/ HeartbeatUnhealthy \/ HeartbeatRestarts
  \/ /\ t \in Workers
     /\ OperationSucceeds(t) \/ OperationFails(t)
  \/ /\ t \in Connectors
     /\ \/ Disconnected(t)
        \/ ConnectSucceeds(t) \/ ConnectFails(t)
        \/ RestoreSucceeds(t) \/ RestoreFails(t) \/ Unwound(t)
        \/ Announced(t)
  \/ /\ t \in Closers
     /\ \/ DrainReturns(t) \/ HeartbeatStopped(t) \/ ShutdownDrains(t)
        \/ ShutdownCloses(t) \/ ShutdownFails(t) \/ ShutdownReturns(t)

Next ==
  \/ \E t \in Tasks : Acquire(t) \/ Proceed(t) \/ Cancel(t)
  \/ \E w \in Workers : Run(w)
  \/ \E c \in Closers : Drain(c) \/ Shutdown(c) \/ ShutdownTimesOut(c)

Spec == Init /\ [][Next]_vars

(***************************************************************************)
(* Every await of the manager ends: engine calls return or raise, a        *)
(* timeout bounds the public drain, and asyncio.Lock hands itself to its   *)
(* waiters in order.  That the grace period of a shutdown ends is not      *)
(* assumed: it would hide a wait that only the timeout breaks.             *)
(***************************************************************************)
Fairness == \A t \in Tasks : WF_vars(Proceed(t)) /\ SF_vars(Acquire(t))

FairSpec == Spec /\ Fairness

-----------------------------------------------------------------------------
(* Properties                                                              *)

TypeOK ==
  /\ state \in ConnectionStates
  /\ lock \in Tasks \cup {NoOne}
  /\ leases \in Nat
  /\ engine \in {"up", "down"}
  /\ at \in [Tasks -> Points]
  /\ via \in {"startup", "reconnect", "nobody"}
  /\ restarts \in 0..MaxRestarts
  /\ stopped \in BOOLEAN
  /\ forced \in BOOLEAN
  /\ quiesced \in BOOLEAN

(* active_leases counts exactly the operations in flight, on every path    *)
(* out of run: returning, raising, reconnecting or cancelled.  The drain   *)
(* of shutdown waits on this number.                                       *)
LeasesCountOperations == leases = Cardinality({w \in Workers : at[w] = "op"})

(* CONNECTED, which the lock-free path of lease trusts, is only ever       *)
(* published for a transport that is connected, although heartbeat,        *)
(* operations and drain write the state without the lock.                  *)
ConnectedHasTransport == state = "connected" => engine = "up"

(* "no remaining tasks or sockets after shutdown": when the manager says   *)
(* CLOSED the transport is down and the heartbeat has ended, and a stopped *)
(* supervisor never runs it again.                                         *)
ClosedLeavesNothing ==
  /\ state = "closed" => engine = "down"
  /\ state = "closed" \/ stopped => at[Heartbeat] = "off"

(* A shutdown whose drain did not time out disconnects with no operation   *)
(* in flight, although leases are taken without the operation lock.        *)
GracefulCloseIsIdle ==
  \A c \in Closers : at[c] = "closing" /\ ~forced => leases = 0

(* Every run, drain and shutdown returns: no circular wait between the     *)
(* operation lock, the leases a shutdown drains and the reconnects that    *)
(* failing operations ask for, even if the grace period never ends.        *)
EveryCallReturns ==
  \A t \in Workers \cup Closers : (at[t] \notin Outside) ~> (at[t] \in Outside)

\* A fault of the transport, or a cancellation; no step that completes a call is one.
Fault ==
  \/ HeartbeatUnhealthy
  \/ \E t \in Workers : OperationFails(t)
  \/ \E t \in Connectors : ConnectFails(t) \/ RestoreFails(t)
  \/ \E t \in Tasks : Cancel(t)

\* A cancellation while engine.disconnect is awaited leaves CONNECTING or
\* RECONNECTING behind, which no heartbeat repairs.
Stranded == state \in {"connecting", "reconnecting"} /\ lock = NoOne

(* The heartbeat repairs the connection: if faults stop, while operations  *)
(* go on completing, nobody shuts the manager down and the heartbeat has   *)
(* not used up its restarts, the manager ends up CONNECTED.                *)
HeartbeatRepairs ==
  (<>[][~Fault]_vars /\ <>[](at[Heartbeat] # "off" /\ ~quiesced))
    => <>[](state = "connected" \/ Stranded)

\* Awaits until a task at point p gives the lock back, at most; 0 outside of the lock.
AwaitsLeft(p) ==
  CASE p \in {"disconnecting", "stopping"} -> 4
    [] p \in {"connecting", "draining"} -> 3
    [] p \in {"restoring", "closing"} -> 2
    [] p \in {"unwinding", "announcing", "farewell"} -> 1
    [] OTHER -> 0

(* The operation lock comes free: its owner is at an await of its own,     *)
(* each of its steps releases the lock or leaves it fewer awaits, and no   *)
(* other task takes the lock from it or moves it back.                     *)
LockComesFree ==
  [][lock # NoOne =>
       /\ AwaitsLeft(at[lock]) > 0
       /\ \/ lock' = NoOne
          \/ lock' = lock /\ AwaitsLeft(at'[lock]) \in 1..AwaitsLeft(at[lock])
       /\ Proceed(lock) => lock' = NoOne \/ AwaitsLeft(at'[lock]) < AwaitsLeft(at[lock])]_vars

(* Only a cancellation strands the manager: whatever fails, the lock is    *)
(* not given back while the state says that somebody connects.             *)
OnlyCancellationsStrand == [][Stranded' /\ ~Stranded => \E t \in Tasks : Cancel(t)]_vars

=============================================================================
