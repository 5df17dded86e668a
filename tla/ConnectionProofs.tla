-------------------------- MODULE ConnectionProofs --------------------------
(***************************************************************************)
(* Safety of the way to an engine: of Connection, for every set of workers *)
(* and closers and every restart limit; and of CircuitBreaker, for every   *)
(* set of callers and every configuration ConfigAssumption allows.         *)
(***************************************************************************)
EXTENDS Connection, CircuitBreaker, FiniteSetTheorems, TLAPS

-----------------------------------------------------------------------------
(* Connection: the argument is the discipline of the operation lock.  The  *)
(* engine and the state CONNECTED are written by its holder alone, and     *)
(* what is written without it never says CONNECTED or CLOSED.              *)

Connecting == {"disconnecting", "connecting", "restoring", "unwinding"}

Closing == {"draining", "closing"}

\* The awaits at which a task holds _operation_lock.
Holding == Connecting \cup Closing \cup {"announcing", "stopping", "farewell"}

LockOwner == \A t \in Tasks : lock = t <=> at[t] \in Holding

\* What the state cannot be, and where the heartbeat is, while the lock is held.
UnderLock ==
  \A t \in Tasks :
    /\ at[t] \in Connecting \cup Closing => state \notin {"connected", "closed"}
    /\ at[t] \in {"announcing", "stopping"} => state # "closed"
    /\ at[t] = "restoring" => engine = "up"
    /\ at[t] \in Closing \cup {"stopping", "farewell"} => at[Heartbeat] = "off"

\* The heartbeat connects through reconnect only.
HeartbeatReconnects == lock = Heartbeat => via = "reconnect"

OnlyWorkersOperate == \A t \in Tasks \ Workers : at[t] # "op"

Types ==
  /\ state \in ConnectionStates
  /\ lock \in Tasks \cup {NoOne}
  /\ engine \in {"up", "down"}
  /\ at \in [Tasks -> Points]
  /\ via \in {"startup", "reconnect", "nobody"}
  /\ restarts \in 0..MaxRestarts
  /\ stopped \in BOOLEAN
  /\ forced \in BOOLEAN
  /\ quiesced \in BOOLEAN

\* The part of the invariant that does not count leases.
Discipline ==
  /\ Types
  /\ LockOwner
  /\ UnderLock
  /\ HeartbeatReconnects
  /\ OnlyWorkersOperate
  /\ ConnectedHasTransport
  /\ ClosedLeavesNothing

Ops == {w \in Workers : at[w] = "op"}

\* Before the first connect there is nothing to drain.
NoLeaseBefore == state = "disconnected" => leases = 0

IInv ==
  /\ Discipline
  /\ leases \in Nat
  /\ LeasesCountOperations
  /\ NoLeaseBefore
  /\ GracefulCloseIsIdle

-----------------------------------------------------------------------------
LEMMA InitDiscipline == Init => Discipline
<1>. SUFFICES ASSUME Init PROVE Discipline
  OBVIOUS
<1>. USE ProcessAssumption DEF Init, Tasks, Points
<1>1. stopped \in BOOLEAN /\ forced \in BOOLEAN /\ quiesced \in BOOLEAN
  BY DEF Init
<1>2. Types
  BY <1>1 DEF Types, ConnectionStates
<1>3. LockOwner /\ UnderLock /\ HeartbeatReconnects /\ OnlyWorkersOperate
  BY DEF LockOwner, UnderLock, HeartbeatReconnects, OnlyWorkersOperate, Holding, Connecting, Closing
<1>4. ConnectedHasTransport /\ ClosedLeavesNothing
  BY DEF ConnectedHasTransport, ClosedLeavesNothing
<1>. QED
  BY <1>2, <1>3, <1>4 DEF Discipline

LEMMA HeartbeatStep ==
  ASSUME Discipline,
         HeartbeatWakes \/ HeartbeatHealthy \/ HeartbeatUnhealthy \/ HeartbeatRestarts
  PROVE  Discipline'
BY ProcessAssumption DEF Discipline, Types, LockOwner, UnderLock, HeartbeatReconnects, OnlyWorkersOperate,
  ConnectedHasTransport, ClosedLeavesNothing, ConnectionStates, Tasks, Points, Outside, Holding,
  Connecting, Closing, HeartbeatWakes, HeartbeatHealthy, HeartbeatUnhealthy, HeartbeatRestarts,
  Goto, LoopHead, Quiet

LEMMA OperationStep ==
  ASSUME Discipline, NEW w \in Workers,
         Run(w) \/ OperationSucceeds(w) \/ OperationFails(w) \/ StartupEnters(w)
  PROVE  Discipline'
<1>. USE ProcessAssumption DEF Discipline, Types, LockOwner, UnderLock, HeartbeatReconnects, OnlyWorkersOperate,
  ConnectedHasTransport, ClosedLeavesNothing, ConnectionStates, Tasks, Points, Outside, Holding,
  Connecting, Closing
<1>1. CASE Run(w)
  BY <1>1 DEF Run, Lease, ConnectionError, Goto
<1>2. CASE OperationSucceeds(w) \/ OperationFails(w)
  BY <1>2 DEF OperationSucceeds, OperationFails, ConnectionError, Goto
<1>3. CASE StartupEnters(w)
  BY <1>3 DEF StartupEnters, Waits, Lease, ConnectionError, Goto
<1>. QED
  BY <1>1, <1>2, <1>3

LEMMA ConnectStep ==
  ASSUME Discipline, NEW t \in Connectors,
         \/ ReconnectEnters(t) \/ Disconnected(t)
         \/ ConnectSucceeds(t) \/ ConnectFails(t)
         \/ RestoreSucceeds(t) \/ RestoreFails(t) \/ Unwound(t)
  PROVE  Discipline'
<1>. USE ProcessAssumption DEF Discipline, Types, LockOwner, UnderLock, HeartbeatReconnects, OnlyWorkersOperate,
  ConnectedHasTransport, ClosedLeavesNothing, ConnectionStates, Tasks, Connectors, Points,
  Holding, Connecting, Closing
<1>1. CASE ReconnectEnters(t)
  BY <1>1 DEF ReconnectEnters, Waits, ReconnectRaises, HeartbeatFails, Goto, Quiet
<1>2. CASE Disconnected(t)
  BY <1>2 DEF Disconnected, Goto
<1>3. CASE ConnectSucceeds(t) \/ RestoreSucceeds(t) \/ RestoreFails(t)
  BY <1>3 DEF ConnectSucceeds, RestoreSucceeds, RestoreFails, Goto
<1>4. CASE ConnectFails(t)
  BY <1>4 DEF ConnectFails, Raise, Release, ReconnectRaises, HeartbeatFails, ConnectionError, Goto
<1>5. CASE Unwound(t)
  BY <1>5 DEF Unwound, Raise, Release, ReconnectRaises, HeartbeatFails, ConnectionError, Goto
<1>. QED
  BY <1>1, <1>2, <1>3, <1>4, <1>5

LEMMA AnnouncedStep ==
  ASSUME Discipline, NEW t \in Connectors, Announced(t)
  PROVE  Discipline'
BY ProcessAssumption DEF Discipline, Types, LockOwner, UnderLock, HeartbeatReconnects, OnlyWorkersOperate,
  ConnectedHasTransport, ClosedLeavesNothing, ConnectionStates, Tasks, Connectors, Points,
  Holding, Connecting, Closing, Announced, Release, LoopHead, Lease, ConnectionError, Goto, Quiet

LEMMA CloserStep ==
  ASSUME Discipline, NEW c \in Closers,
         \/ Drain(c) \/ DrainReturns(c) \/ Shutdown(c) \/ ShutdownEnters(c)
         \/ HeartbeatStopped(c) \/ ShutdownDrains(c) \/ ShutdownTimesOut(c)
         \/ ShutdownCloses(c) \/ ShutdownFails(c) \/ ShutdownReturns(c)
  PROVE  Discipline'
<1>. USE ProcessAssumption DEF Discipline, Types, LockOwner, UnderLock, HeartbeatReconnects, OnlyWorkersOperate,
  ConnectedHasTransport, ClosedLeavesNothing, ConnectionStates, Tasks, Points, Outside, Holding,
  Connecting, Closing
<1>1. CASE Drain(c) \/ DrainReturns(c) \/ Shutdown(c)
  <2>1. quiesced' \in BOOLEAN
    BY <1>1 DEF Drain, DrainReturns, Shutdown
  <2>. QED
    BY <1>1, <2>1 DEF Drain, DrainReturns, Shutdown, Goto
<1>2. CASE ShutdownEnters(c)
  <2>1. forced' \in BOOLEAN /\ quiesced' \in BOOLEAN
    BY <1>2 DEF ShutdownEnters, DrainWithin
  <2>2. CASE state = "closed"
    BY <1>2, <2>1, <2>2 DEF ShutdownEnters, Waits, Goto
  <2>3. CASE state # "closed"
    <3>1. /\ at[c] = "shutdown" /\ lock = NoOne /\ lock' = c
          /\ UNCHANGED <<leases, engine, via, restarts, stopped>>
      BY <1>2, <2>3 DEF ShutdownEnters, Waits
    <3>2. CASE at[Heartbeat] = "off"
      <4>1. PICK first \in Closing : state' = first /\ at' = [at EXCEPT ![c] = first]
        BY <1>2, <2>3, <3>2 DEF ShutdownEnters, DrainWithin, Goto
      <4>. QED
        BY <2>1, <3>1, <3>2, <4>1
    <3>3. CASE at[Heartbeat] # "off"
      <4>1. state' = state /\ at' = [at EXCEPT ![c] = "stopping", ![Heartbeat] = "off"]
        BY <1>2, <2>3, <3>3 DEF ShutdownEnters
      <4>. QED
        BY <2>1, <2>3, <3>1, <4>1
    <3>. QED
      BY <3>2, <3>3
  <2>. QED
    BY <2>2, <2>3
<1>3. CASE ShutdownDrains(c) \/ ShutdownTimesOut(c)
  <2>1. forced' \in BOOLEAN
    BY <1>3 DEF ShutdownDrains, ShutdownTimesOut
  <2>. QED
    BY <1>3, <2>1 DEF ShutdownDrains, ShutdownTimesOut, Goto
<1>4. CASE ShutdownCloses(c)
  BY <1>4 DEF ShutdownCloses, Goto
<1>6. CASE ShutdownFails(c)
  BY <1>6 DEF ShutdownFails, Release, Goto
<1>7. CASE ShutdownReturns(c)
  BY <1>7 DEF ShutdownReturns, Release, Goto
<1>5. CASE HeartbeatStopped(c)
  <2>1. forced' \in BOOLEAN
    BY <1>5 DEF HeartbeatStopped, DrainWithin
  <2>2. PICK first \in Closing : state' = first /\ at' = [at EXCEPT ![c] = first]
    BY <1>5 DEF HeartbeatStopped, DrainWithin, Goto
  <2>. QED
    BY <1>5, <2>1, <2>2 DEF HeartbeatStopped
<1>. QED
  BY <1>1, <1>2, <1>3, <1>4, <1>5, <1>6, <1>7

LEMMA CancelStep ==
  ASSUME Discipline, NEW t \in Tasks, Cancel(t)
  PROVE  Discipline'
BY ProcessAssumption DEF Discipline, Types, LockOwner, UnderLock, HeartbeatReconnects, OnlyWorkersOperate,
  ConnectedHasTransport, ClosedLeavesNothing, ConnectionStates, Tasks, Points, Outside,
  Holding, Connecting, Closing, Cancel, Release, Goto

-----------------------------------------------------------------------------
(* What a step may do to the leases: nothing, take one while CONNECTED, or *)
(* return one; and what it may do to a shutdown that has drained.          *)
LeaseMove ==
  \/ leases' = leases /\ Ops' = Ops
  \/ \E w \in Workers \ Ops :
       leases' = leases + 1 /\ Ops' = Ops \cup {w} /\ state = "connected" /\ state' = "connected"
  \/ \E w \in Ops : leases' = leases - 1 /\ Ops' = Ops \ {w}

CloseMove ==
  /\ state' = "disconnected" => state = "disconnected"
  /\ \A c \in Closers : at'[c] = "closing" /\ ~forced' =>
       (at[c] = "closing" /\ ~forced) \/ (leases = 0 /\ leases' = 0)

LEMMA HeartbeatMove ==
  ASSUME IInv,
         HeartbeatWakes \/ HeartbeatHealthy \/ HeartbeatUnhealthy \/ HeartbeatRestarts
  PROVE  LeaseMove /\ CloseMove
BY ProcessAssumption DEF IInv, Discipline, Types, Tasks, LeaseMove, CloseMove, Ops,
  HeartbeatWakes, HeartbeatHealthy, HeartbeatUnhealthy, HeartbeatRestarts, Goto, LoopHead

LEMMA OperationMove ==
  ASSUME IInv, NEW w \in Workers,
         Run(w) \/ OperationSucceeds(w) \/ OperationFails(w) \/ StartupEnters(w)
  PROVE  LeaseMove /\ CloseMove
<1>. USE ProcessAssumption DEF IInv, Discipline, Types, Tasks, Outside, LeaseMove, CloseMove, Ops
<1>1. CASE Run(w)
  BY <1>1 DEF Run, Lease, ConnectionError, Goto
<1>2. CASE OperationSucceeds(w) \/ OperationFails(w)
  BY <1>2 DEF OperationSucceeds, OperationFails, ConnectionError, Goto
<1>3. CASE StartupEnters(w)
  BY <1>3 DEF StartupEnters, Waits, Lease, ConnectionError, Goto
<1>. QED
  BY <1>1, <1>2, <1>3

LEMMA ConnectMove ==
  ASSUME IInv, NEW t \in Connectors,
         \/ ReconnectEnters(t) \/ Disconnected(t)
         \/ ConnectSucceeds(t) \/ ConnectFails(t)
         \/ RestoreSucceeds(t) \/ RestoreFails(t) \/ Unwound(t)
  PROVE  LeaseMove /\ CloseMove
<1>. USE ProcessAssumption DEF IInv, Discipline, Types, Tasks, Connectors, LeaseMove, CloseMove, Ops
<1>1. CASE ReconnectEnters(t)
  BY <1>1 DEF ReconnectEnters, Waits, ReconnectRaises, HeartbeatFails, Goto
<1>2. CASE Disconnected(t) \/ ConnectSucceeds(t) \/ RestoreSucceeds(t) \/ RestoreFails(t)
  BY <1>2 DEF Disconnected, ConnectSucceeds, RestoreSucceeds, RestoreFails, Goto
<1>3. CASE ConnectFails(t) \/ Unwound(t)
  BY <1>3 DEF ConnectFails, Unwound, Raise, Release, ReconnectRaises, HeartbeatFails,
    ConnectionError, Goto
<1>. QED
  BY <1>1, <1>2, <1>3

LEMMA AnnouncedMove ==
  ASSUME IInv, NEW t \in Connectors, Announced(t)
  PROVE  LeaseMove /\ CloseMove
<1>1. t \in Tasks /\ lock = t
  BY ProcessAssumption DEF IInv, Discipline, LockOwner, Holding, Announced, Connectors, Tasks
<1>2. via # "reconnect" => t \in Workers
  BY <1>1 DEF IInv, Discipline, HeartbeatReconnects, Connectors
<1>. QED
  BY ProcessAssumption, <1>1, <1>2 DEF IInv, Discipline, Types, Tasks, Connectors, LeaseMove,
    CloseMove, Ops, Announced, Release, LoopHead, Lease, ConnectionError, Goto

LEMMA CloserMove ==
  ASSUME IInv, NEW c \in Closers,
         \/ Drain(c) \/ DrainReturns(c) \/ Shutdown(c) \/ ShutdownEnters(c)
         \/ HeartbeatStopped(c) \/ ShutdownDrains(c) \/ ShutdownTimesOut(c)
         \/ ShutdownCloses(c) \/ ShutdownFails(c) \/ ShutdownReturns(c)
  PROVE  LeaseMove /\ CloseMove
<1>. USE ProcessAssumption DEF IInv, Discipline, Types, Tasks, Outside, LeaseMove, CloseMove, Ops
<1>1. CASE Drain(c) \/ DrainReturns(c) \/ Shutdown(c)
  BY <1>1 DEF Drain, DrainReturns, Shutdown, Goto
<1>2. CASE ShutdownEnters(c)
  <2>1. CASE state = "closed"
    BY <1>2, <2>1 DEF ShutdownEnters, Waits, Goto
  <2>2. CASE state # "closed"
    <3>1. \A d \in Closers : at[d] # "closing"
      BY <1>2 DEF ShutdownEnters, Waits, LockOwner, Holding, Closing
    <3>2. state = "disconnected" => leases = 0 /\ leases' = 0
      BY <1>2 DEF ShutdownEnters, NoLeaseBefore
    <3>. QED
      BY <1>2, <2>2, <3>1, <3>2 DEF ShutdownEnters, Waits, DrainWithin, Goto
  <2>. QED
    BY <2>1, <2>2
<1>3. CASE ShutdownDrains(c) \/ ShutdownTimesOut(c)
  <2>1. leases' = leases /\ (~forced' => leases = 0)
    BY <1>3 DEF ShutdownDrains, ShutdownTimesOut
  <2>2. \A d \in Closers \ {c} : at[d] # "closing"
    BY <1>3 DEF ShutdownDrains, ShutdownTimesOut, LockOwner, Holding, Closing
  <2>. QED
    BY <1>3, <2>1, <2>2 DEF ShutdownDrains, ShutdownTimesOut, Goto
<1>4. CASE ShutdownCloses(c) \/ ShutdownFails(c) \/ ShutdownReturns(c)
  BY <1>4 DEF ShutdownCloses, ShutdownFails, ShutdownReturns, Release, Goto
<1>5. CASE HeartbeatStopped(c)
  <2>1. \A d \in Closers : at[d] # "closing"
    BY <1>5 DEF HeartbeatStopped, LockOwner, Holding, Closing
  <2>2. state = "disconnected" => leases = 0 /\ leases' = 0
    BY <1>5 DEF HeartbeatStopped, NoLeaseBefore
  <2>. QED
    BY <1>5, <2>1, <2>2 DEF HeartbeatStopped, DrainWithin, Goto
<1>. QED
  BY <1>1, <1>2, <1>3, <1>4, <1>5

LEMMA CancelMove ==
  ASSUME IInv, NEW t \in Tasks, Cancel(t)
  PROVE  LeaseMove /\ CloseMove
BY ProcessAssumption DEF IInv, Discipline, Types, Tasks, LeaseMove, CloseMove, Ops,
  OnlyWorkersOperate, Cancel, Release, Goto

-----------------------------------------------------------------------------
(* Counting: taking and returning a lease moves Ops by one worker.         *)
LEMMA CountStep ==
  ASSUME IInv, Discipline', LeaseMove, CloseMove
  PROVE  IInv'
<1>1. IsFiniteSet(Ops) /\ Cardinality(Ops) \in Nat
  BY ProcessAssumption, FS_Subset, FS_CardinalityType DEF Ops
<1>2. leases = Cardinality(Ops) /\ leases \in Nat
  BY DEF IInv, LeasesCountOperations, Ops
<1>3. CASE leases' = leases /\ Ops' = Ops
  <2>1. leases' \in Nat /\ leases' = Cardinality(Ops')
    BY <1>2, <1>3
  <2>. QED
    BY <1>3, <2>1 DEF IInv, LeasesCountOperations, NoLeaseBefore, GracefulCloseIsIdle, CloseMove, Ops
<1>4. ASSUME NEW w \in Workers \ Ops,
             leases' = leases + 1, Ops' = Ops \cup {w}, state = "connected", state' = "connected"
      PROVE  IInv'
  <2>1. Cardinality(Ops') = Cardinality(Ops) + 1
    BY <1>1, <1>4, FS_AddElement
  <2>2. \A c \in Closers : at[c] # "closing"
    BY <1>4 DEF IInv, Discipline, UnderLock, Tasks, Closing
  <2>3. leases' \in Nat /\ leases' # 0 /\ leases' = Cardinality(Ops')
    BY <1>2, <1>4, <2>1
  <2>. QED
    BY <1>4, <2>2, <2>3 DEF IInv, LeasesCountOperations, NoLeaseBefore, GracefulCloseIsIdle,
      CloseMove, Ops
<1>5. ASSUME NEW w \in Ops, leases' = leases - 1, Ops' = Ops \ {w}
      PROVE  IInv'
  <2>1. IsFiniteSet(Ops \ {w}) /\ Cardinality(Ops \ {w}) \in Nat
    BY <1>1, FS_Subset, FS_CardinalityType
  <2>2. Cardinality(Ops') = Cardinality(Ops) - 1
    BY <1>1, <1>5, FS_RemoveElement
  <2>3. leases' \in Nat /\ leases # 0 /\ leases' = Cardinality(Ops')
    BY <1>2, <1>5, <2>1, <2>2
  <2>. QED
    BY <1>5, <2>3 DEF IInv, LeasesCountOperations, NoLeaseBefore, GracefulCloseIsIdle,
      CloseMove, Ops
<1>. QED
  BY <1>3, <1>4, <1>5 DEF LeaseMove

LEMMA InitIInv == Init => IInv
<1>. SUFFICES ASSUME Init PROVE IInv
  OBVIOUS
<1>1. {w \in Workers : at[w] = "op"} = {}
  BY DEF Init, Tasks
<1>2. LeasesCountOperations
  BY <1>1, FS_EmptySet DEF Init, LeasesCountOperations
<1>. QED
  BY <1>2, InitDiscipline DEF Init, IInv, NoLeaseBefore, GracefulCloseIsIdle

LEMMA NextIInv == IInv /\ [Next]_vars => IInv'
<1>. SUFFICES ASSUME IInv, [Next]_vars PROVE IInv'
  OBVIOUS
<1>1. CASE UNCHANGED vars
  BY <1>1 DEF vars, IInv, Discipline, Types, LockOwner, UnderLock, HeartbeatReconnects,
    OnlyWorkersOperate, ConnectedHasTransport, ClosedLeavesNothing, LeasesCountOperations,
    NoLeaseBefore, GracefulCloseIsIdle
<1>2. Discipline
  BY DEF IInv
<1>3. ASSUME NEW t \in Tasks, Acquire(t)
      PROVE  IInv'
  BY <1>2, <1>3, OperationStep, OperationMove, ConnectStep, ConnectMove, CloserStep, CloserMove,
    CountStep DEF Acquire
<1>4. ASSUME NEW t \in Tasks, Proceed(t)
      PROVE  IInv'
  <2>1. CASE HeartbeatWakes \/ HeartbeatHealthy \/ HeartbeatUnhealthy \/ HeartbeatRestarts
    BY <1>2, <2>1, HeartbeatStep, HeartbeatMove, CountStep
  <2>2. CASE t \in Workers /\ (OperationSucceeds(t) \/ OperationFails(t))
    BY <1>2, <2>2, OperationStep, OperationMove, CountStep
  <2>3. CASE t \in Connectors /\ Announced(t)
    BY <1>2, <2>3, AnnouncedStep, AnnouncedMove, CountStep
  <2>4. CASE /\ t \in Connectors
             /\ \/ Disconnected(t) \/ ConnectSucceeds(t) \/ ConnectFails(t)
                \/ RestoreSucceeds(t) \/ RestoreFails(t) \/ Unwound(t)
    BY <1>2, <2>4, ConnectStep, ConnectMove, CountStep
  <2>5. CASE /\ t \in Closers
             /\ \/ DrainReturns(t) \/ HeartbeatStopped(t) \/ ShutdownDrains(t)
                \/ ShutdownCloses(t) \/ ShutdownFails(t) \/ ShutdownReturns(t)
    BY <1>2, <2>5, CloserStep, CloserMove, CountStep
  <2>. QED
    BY <1>4, <2>1, <2>2, <2>3, <2>4, <2>5 DEF Proceed
<1>5. ASSUME NEW t \in Tasks, Cancel(t)
      PROVE  IInv'
  BY <1>2, <1>5, CancelStep, CancelMove, CountStep
<1>6. ASSUME NEW w \in Workers, Run(w)
      PROVE  IInv'
  BY <1>2, <1>6, OperationStep, OperationMove, CountStep
<1>7. ASSUME NEW c \in Closers, Drain(c) \/ Shutdown(c) \/ ShutdownTimesOut(c)
      PROVE  IInv'
  BY <1>2, <1>7, CloserStep, CloserMove, CountStep
<1>. QED
  BY <1>1, <1>3, <1>4, <1>5, <1>6, <1>7 DEF Next

LEMMA Invariance == Spec => []IInv
BY InitIInv, NextIInv, PTL DEF Spec

-----------------------------------------------------------------------------
(* connection.py keeps its types, and the heartbeat never exceeds its      *)
(* restarts.                                                               *)
THEOREM TypeCorrect == Spec => []TypeOK
<1>1. IInv => TypeOK
  BY DEF IInv, Discipline, Types, TypeOK
<1>. QED
  BY <1>1, Invariance, PTL

(* _active_leases counts the operations in flight on every path out of     *)
(* run, whoever fails, reconnects or is cancelled.                         *)
THEOREM LeasesAreCounted == Spec => []LeasesCountOperations
<1>1. IInv => LeasesCountOperations
  BY DEF IInv
<1>. QED
  BY <1>1, Invariance, PTL

(* The lock-free fast path of lease may trust CONNECTED.                   *)
THEOREM ConnectedMeansTransport == Spec => []ConnectedHasTransport
<1>1. IInv => ConnectedHasTransport
  BY DEF IInv, Discipline
<1>. QED
  BY <1>1, Invariance, PTL

(* shutdown leaves neither a transport nor a heartbeat behind.             *)
THEOREM ShutdownLeavesNothing == Spec => []ClosedLeavesNothing
<1>1. IInv => ClosedLeavesNothing
  BY DEF IInv, Discipline
<1>. QED
  BY <1>1, Invariance, PTL

(* A drain that did not time out disconnects an idle manager.              *)
THEOREM GracefulCloses == Spec => []GracefulCloseIsIdle
<1>1. IInv => GracefulCloseIsIdle
  BY DEF IInv
<1>. QED
  BY <1>1, Invariance, PTL

-----------------------------------------------------------------------------
(* The lock comes free.                                                    *)

\* What a step may do to the lock and to the await of its owner.
LockMove ==
  lock # NoOne => \/ lock' = NoOne
                  \/ lock' = lock /\ AwaitsLeft(at'[lock]) \in 1..AwaitsLeft(at[lock])

LEMMA OwnerAwaits == Discipline /\ lock # NoOne => lock \in Tasks /\ AwaitsLeft(at[lock]) \in 1..4
BY DEF Discipline, Types, LockOwner, Holding, Connecting, Closing, AwaitsLeft

\* A task that does not move the owner.
LEMMA OthersMove ==
  ASSUME Discipline, lock' = lock, lock # NoOne => at'[lock] = at[lock]
  PROVE  LockMove
BY OwnerAwaits DEF LockMove

\* The owner's own steps.
LEMMA OwnerMoves ==
  ASSUME Discipline, lock # NoOne, Proceed(lock)
  PROVE  \/ lock' = NoOne
         \/ /\ lock' = lock /\ AwaitsLeft(at'[lock]) \in 1..AwaitsLeft(at[lock])
            /\ AwaitsLeft(at'[lock]) < AwaitsLeft(at[lock])
<1>. DEFINE t == lock
<1>. USE DEF Discipline, Types, LockOwner, Holding, Connecting, Closing
<1>1. t \in Tasks /\ at[t] \in Holding /\ at \in [Tasks -> Points]
  OBVIOUS
<1>2. CASE Disconnected(t) \/ ConnectSucceeds(t) \/ RestoreSucceeds(t) \/ RestoreFails(t)
  BY <1>1, <1>2 DEF Disconnected, ConnectSucceeds, RestoreSucceeds, RestoreFails, Goto, AwaitsLeft
<1>3. CASE HeartbeatStopped(t) \/ ShutdownDrains(t) \/ ShutdownCloses(t)
  BY <1>1, <1>3 DEF HeartbeatStopped, DrainWithin, ShutdownDrains, ShutdownCloses, Goto, AwaitsLeft
<1>4. CASE ConnectFails(t) \/ Unwound(t) \/ Announced(t) \/ ShutdownFails(t) \/ ShutdownReturns(t)
  BY <1>4 DEF ConnectFails, Unwound, Raise, Release, Announced, ShutdownFails, ShutdownReturns
<1>5. CASE \/ DrainReturns(t) \/ OperationSucceeds(t) \/ OperationFails(t)
           \/ /\ t = Heartbeat
              /\ HeartbeatWakes \/ HeartbeatHealthy \/ HeartbeatUnhealthy \/ HeartbeatRestarts
  BY <1>1, <1>5 DEF DrainReturns, OperationSucceeds, OperationFails, HeartbeatWakes,
     HeartbeatHealthy, HeartbeatUnhealthy, HeartbeatRestarts
<1>. QED
  BY <1>2, <1>3, <1>4, <1>5 DEF Proceed

LEMMA LockMoves ==
  ASSUME Discipline, Next
  PROVE  LockMove
<1>. USE DEF Discipline, Types, LockOwner, Holding, Connecting, Closing
<1>1. ASSUME NEW t \in Tasks, Acquire(t) PROVE LockMove
  <2>1. CASE lock = NoOne
    BY <2>1 DEF LockMove
  <2>2. CASE lock # NoOne
    <3>1. StartupEnters(t) \/ ReconnectEnters(t) \/ ShutdownEnters(t)
      BY <1>1 DEF Acquire
    <3>. QED
      BY <2>2, <3>1 DEF StartupEnters, ReconnectEnters, ShutdownEnters, Waits
  <2>. QED
    BY <2>1, <2>2
<1>2. ASSUME NEW t \in Tasks, Proceed(t) PROVE LockMove
  <2>1. CASE lock = NoOne
    BY <2>1 DEF LockMove
  <2>2. CASE lock = t
    BY <1>2, <2>2, OwnerMoves DEF LockMove
  <2>3. CASE lock # NoOne /\ lock # t
    <3>1. at[t] \notin Holding /\ lock \in Tasks
      BY <2>3
    <3>2. lock' = lock /\ \E p : Goto(t, p)
      BY <1>2, <3>1 DEF Proceed, HeartbeatWakes, HeartbeatHealthy, HeartbeatUnhealthy,
         HeartbeatRestarts, OperationSucceeds, OperationFails, ConnectionError, Disconnected,
         ConnectSucceeds, ConnectFails, RestoreSucceeds, RestoreFails, Unwound, Announced,
         DrainReturns, HeartbeatStopped, DrainWithin, ShutdownDrains, ShutdownCloses,
         ShutdownFails, ShutdownReturns
    <3>3. at'[lock] = at[lock]
      BY <2>3, <3>1, <3>2 DEF Goto
    <3>. QED
      BY <3>2, <3>3, OthersMove
  <2>. QED
    BY <2>1, <2>2, <2>3
<1>3. ASSUME NEW t \in Tasks, Cancel(t) PROVE LockMove
  <2>1. Goto(t, "cancelled") /\ (lock' = NoOne \/ (lock' = lock /\ at[t] \notin Holding))
    BY <1>3 DEF Cancel, Release
  <2>2. CASE lock' = NoOne
    BY <2>2 DEF LockMove
  <2>3. CASE lock' = lock /\ at[t] \notin Holding
    <3>1. lock # NoOne => at'[lock] = at[lock]
      BY <2>1, <2>3 DEF Goto
    <3>. QED
      BY <2>3, <3>1, OthersMove
  <2>. QED
    BY <2>1, <2>2, <2>3
<1>4. ASSUME NEW t \in Tasks, Run(t) \/ Drain(t) \/ Shutdown(t)
      PROVE  LockMove
  <2>1. at[t] \in Outside /\ lock' = lock
    BY <1>4 DEF Run, Drain, Shutdown
  <2>2. \E p : Goto(t, p)
    BY <1>4 DEF Run, Lease, ConnectionError, Drain, Shutdown
  <2>3. lock # NoOne => at'[lock] = at[lock]
    BY <2>1, <2>2 DEF Goto, Outside
  <2>. QED
    BY <2>1, <2>3, OthersMove
<1>5. ASSUME NEW t \in Tasks, ShutdownTimesOut(t) PROVE LockMove
  <2>1. lock = t /\ lock' = lock /\ at'[t] = "closing" /\ at[t] = "draining"
    BY <1>5 DEF ShutdownTimesOut, Goto
  <2>. QED
    BY <2>1 DEF LockMove, AwaitsLeft
<1>. QED
  BY <1>1, <1>2, <1>3, <1>4, <1>5 DEF Next, Tasks

(* Whoever takes the operation lock gives it back: its owner is always at  *)
(* an await of its own inside, and each of its steps leaves it fewer, with *)
(* which no other task interferes (reconnect, _connect_locked, shutdown).  *)
THEOREM LockIsGivenBack == Spec => LockComesFree
<1>. DEFINE Step ==
       lock # NoOne =>
         /\ AwaitsLeft(at[lock]) > 0
         /\ \/ lock' = NoOne
            \/ lock' = lock /\ AwaitsLeft(at'[lock]) \in 1..AwaitsLeft(at[lock])
         /\ Proceed(lock) => lock' = NoOne \/ AwaitsLeft(at'[lock]) < AwaitsLeft(at[lock])
<1>1. IInv /\ [Next]_vars => [Step]_vars
  <2>. SUFFICES ASSUME IInv, Next, lock # NoOne PROVE Step
    OBVIOUS
  <2>1. Discipline
    BY DEF IInv
  <2>2. AwaitsLeft(at[lock]) > 0
    BY <2>1, OwnerAwaits
  <2>3. LockMove
    BY <2>1, LockMoves
  <2>4. Proceed(lock) => lock' = NoOne \/ AwaitsLeft(at'[lock]) < AwaitsLeft(at[lock])
    BY <2>1, OwnerMoves
  <2>. QED
    BY <2>2, <2>3, <2>4 DEF LockMove
<1>. HIDE DEF Step
<1>2. Spec => [][Step]_vars
  BY <1>1, Invariance, PTL DEF Spec
<1>. QED
  BY <1>2, PTL DEF LockComesFree, Step

-----------------------------------------------------------------------------
(* Only a cancellation strands.                                            *)

Midway == {"connecting", "reconnecting"}

Announcing == {"announcing", "farewell"}

\* Once connected or closed, the state says something else, whoever writes it.
AnnouncesOutcome == \A t \in Tasks : at[t] \in Announcing => state \notin Midway

\* A step that leaves a state of connecting either leaves it and the lock alone, or takes the
\* lock for it.
MidwayMove == (state' = state /\ lock' = lock) \/ (lock = NoOne /\ lock' \in Tasks)

\* Without the lock only FAILED and DRAINING are written, and who releases it has written
\* the outcome.
LEMMA MidwayUnderLock ==
  ASSUME Discipline, AnnouncesOutcome, Next, ~ \E t \in Tasks : Cancel(t)
  PROVE  state' \in Midway => MidwayMove
<1>. USE ProcessAssumption DEF Discipline, Types, Midway, MidwayMove
<1>1. ASSUME NEW t \in Tasks, Acquire(t)
      PROVE  state' \in Midway => MidwayMove
  <2>1. CASE StartupEnters(t)
    BY <2>1 DEF StartupEnters, Waits, Lease, ConnectionError
  <2>2. CASE ReconnectEnters(t)
    BY <2>2 DEF ReconnectEnters, Waits
  <2>3. CASE ShutdownEnters(t)
    BY <2>3 DEF ShutdownEnters, Waits, DrainWithin
  <2>. QED
    BY <1>1, <2>1, <2>2, <2>3 DEF Acquire
<1>2. ASSUME NEW t \in Tasks, Proceed(t)
      PROVE  state' \in Midway => MidwayMove
  <2>1. CASE HeartbeatWakes \/ HeartbeatHealthy \/ HeartbeatUnhealthy \/ HeartbeatRestarts
    BY <2>1 DEF HeartbeatWakes, HeartbeatHealthy, HeartbeatUnhealthy, HeartbeatRestarts
  <2>2. CASE OperationSucceeds(t) \/ OperationFails(t) \/ DrainReturns(t)
    BY <2>2 DEF OperationSucceeds, OperationFails, ConnectionError, DrainReturns
  <2>3. CASE Disconnected(t) \/ ConnectSucceeds(t) \/ RestoreSucceeds(t) \/ RestoreFails(t)
    BY <2>3 DEF Disconnected, ConnectSucceeds, RestoreSucceeds, RestoreFails
  <2>4. CASE ConnectFails(t) \/ Unwound(t)
    BY <2>4 DEF ConnectFails, Unwound, Raise, ConnectionError
  <2>5. CASE Announced(t)
    <3>1. state' = state \/ state' = "failed"
      BY <2>5 DEF Announced, Lease, ConnectionError
    <3>2. state \notin Midway
      BY <2>5 DEF Announced, AnnouncesOutcome, Announcing
    <3>. QED
      BY <3>1, <3>2
  <2>6. CASE \/ HeartbeatStopped(t) \/ ShutdownDrains(t)
             \/ ShutdownCloses(t) \/ ShutdownFails(t) \/ ShutdownReturns(t)
    <3>1. state' = state \/ state' \notin Midway
      BY <2>6 DEF HeartbeatStopped, DrainWithin, ShutdownDrains, ShutdownCloses, ShutdownFails,
        ShutdownReturns
    <3>2. CASE ShutdownReturns(t)
      BY <3>1, <3>2 DEF ShutdownReturns, AnnouncesOutcome, Announcing
    <3>. QED
      BY <2>6, <3>2 DEF HeartbeatStopped, DrainWithin, ShutdownDrains, ShutdownCloses,
        ShutdownFails
  <2>. QED
    BY <1>2, <2>1, <2>2, <2>3, <2>4, <2>5, <2>6 DEF Proceed
<1>3. ASSUME NEW t \in Tasks, Run(t) \/ Drain(t) \/ Shutdown(t) \/ ShutdownTimesOut(t)
      PROVE  state' \in Midway => MidwayMove
  BY <1>3 DEF Run, Lease, ConnectionError, Drain, Shutdown, ShutdownTimesOut
<1>. QED
  BY <1>1, <1>2, <1>3 DEF Next, Tasks

LEMMA AnnouncesInit == Init => AnnouncesOutcome
BY DEF Init, AnnouncesOutcome, Announcing, Midway

\* Who announces has just connected or closed.
LEMMA AnnouncesFrom ==
  ASSUME Discipline, Next, NEW u \in Tasks, at'[u] \in Announcing
  PROVE  at[u] \in Announcing \/ state' \in {"connected", "closed"}
<1>. USE ProcessAssumption DEF Announcing, Discipline, Types, Goto, Tasks, Connectors
<1>1. ASSUME NEW t \in Tasks, Acquire(t) PROVE at[u] \in Announcing
  <2>1. CASE StartupEnters(t)
    BY <2>1 DEF StartupEnters, Lease, ConnectionError
  <2>2. CASE ReconnectEnters(t)
    BY <2>2 DEF ReconnectEnters, ReconnectRaises, HeartbeatFails
  <2>3. CASE ShutdownEnters(t)
    BY <2>3 DEF ShutdownEnters, Waits, DrainWithin
  <2>. QED
    BY <1>1, <2>1, <2>2, <2>3 DEF Acquire
<1>2. ASSUME NEW t \in Tasks, Proceed(t)
      PROVE  at[u] \in Announcing \/ state' \in {"connected", "closed"}
  <2>1. CASE HeartbeatWakes \/ HeartbeatHealthy \/ HeartbeatUnhealthy \/ HeartbeatRestarts
    BY <2>1 DEF HeartbeatWakes, HeartbeatHealthy, HeartbeatUnhealthy, HeartbeatRestarts, LoopHead
  <2>2. CASE OperationSucceeds(t) \/ OperationFails(t) \/ DrainReturns(t)
    BY <2>2 DEF OperationSucceeds, OperationFails, ConnectionError, DrainReturns
  <2>3. CASE Disconnected(t) \/ ConnectSucceeds(t) \/ RestoreSucceeds(t) \/ RestoreFails(t)
    BY <2>3 DEF Disconnected, ConnectSucceeds, RestoreSucceeds, RestoreFails
  <2>4. CASE ConnectFails(t) \/ Unwound(t)
    BY <2>4 DEF ConnectFails, Unwound, Raise, ReconnectRaises, HeartbeatFails, ConnectionError
  <2>5. CASE Announced(t)
    BY <2>5 DEF Announced, Lease, ConnectionError, LoopHead
  <2>6. CASE \/ HeartbeatStopped(t) \/ ShutdownDrains(t)
             \/ ShutdownCloses(t) \/ ShutdownFails(t) \/ ShutdownReturns(t)
    BY <2>6 DEF HeartbeatStopped, DrainWithin, ShutdownDrains, ShutdownCloses, ShutdownFails,
      ShutdownReturns
  <2>. QED
    BY <1>2, <2>1, <2>2, <2>3, <2>4, <2>5, <2>6 DEF Proceed
<1>3. ASSUME NEW t \in Tasks,
             Run(t) \/ Drain(t) \/ Shutdown(t) \/ ShutdownTimesOut(t) \/ Cancel(t)
      PROVE  at[u] \in Announcing
  BY <1>3 DEF Run, Lease, ConnectionError, Drain, Shutdown, ShutdownTimesOut, Cancel
<1>. QED
  BY <1>1, <1>2, <1>3 DEF Next

LEMMA AnnouncesNext ==
  ASSUME Discipline, AnnouncesOutcome, [Next]_vars
  PROVE  AnnouncesOutcome'
<1>1. CASE UNCHANGED vars
  BY <1>1 DEF vars, AnnouncesOutcome
<1>2. CASE Next
  <2>. SUFFICES ASSUME NEW u \in Tasks, at'[u] \in Announcing PROVE state' \notin Midway
    BY DEF AnnouncesOutcome
  <2>1. CASE state' \in {"connected", "closed"}
    BY <2>1 DEF Midway
  <2>2. CASE at[u] \in Announcing
    <3>1. lock = u /\ lock # NoOne /\ state \notin Midway
      BY <2>2, ProcessAssumption DEF Discipline, LockOwner, Holding, Tasks, AnnouncesOutcome, Announcing
    <3>2. CASE \E t \in Tasks : Cancel(t)
      BY <3>1, <3>2 DEF Cancel, Midway
    <3>3. CASE ~ \E t \in Tasks : Cancel(t)
      BY <1>2, <3>1, <3>3, MidwayUnderLock DEF MidwayMove
    <3>. QED
      BY <3>2, <3>3
  <2>. QED
    BY <1>2, <2>1, <2>2, AnnouncesFrom
<1>. QED
  BY <1>1, <1>2

(* Whatever connect, restore, disconnect or an operation raises, the       *)
(* manager is not left CONNECTING or RECONNECTING with nobody connecting:  *)
(* only a cancellation of the owner of the lock does that (reconnect,      *)
(* _connect_locked, run).                                                  *)
THEOREM FailuresDoNotStrand == Spec => OnlyCancellationsStrand
<1>. DEFINE Step == Stranded' /\ ~Stranded => \E t \in Tasks : Cancel(t)
            SInv == IInv /\ AnnouncesOutcome
<1>1. Init => SInv
  BY InitIInv, AnnouncesInit
<1>2. SInv /\ [Next]_vars => SInv'
  BY NextIInv, AnnouncesNext DEF IInv
<1>3. SInv /\ [Next]_vars => [Step]_vars
  <2>. SUFFICES ASSUME SInv, Next, Stranded', ~Stranded, ~ \E t \in Tasks : Cancel(t)
                PROVE  FALSE
    OBVIOUS
  <2>1. state' \in Midway => MidwayMove
    BY MidwayUnderLock DEF IInv
  <2>2. NoOne \notin Tasks
    BY ProcessAssumption DEF Tasks
  <2>. QED
    BY <2>1, <2>2 DEF Stranded, Midway, MidwayMove
<1>. HIDE DEF Step, SInv
<1>4. Spec => [][Step]_vars
  BY <1>1, <1>2, <1>3, PTL DEF Spec
<1>. QED
  BY <1>4, PTL DEF OnlyCancellationsStrand, Step

-----------------------------------------------------------------------------
(* CircuitBreaker: its slots, counted against the callers that hold them.  *)

(* A caller that is not inside call holds no probe, and nobody holds one   *)
(* outside HALF_OPEN: the strengthening that makes the slot accounting     *)
(* inductive, since AdmitProbe must add a caller that is not in probes.    *)
IdleHoldsNoProbe ==
  /\ \A c \in probes : pc[c] # "idle"
  /\ circuit # "half_open" => probes = {}

BreakerInv == BreakerTypeOK /\ ClosedIsBelowThreshold /\ IdleHoldsNoProbe /\ ProbeAccounting

(* deque(maxlen): appending never exceeds the window size.                 *)
LEMMA PushType ==
  ASSUME NEW w \in Seq(BOOLEAN), Len(w) <= WindowSize, NEW b \in BOOLEAN
  PROVE  Push(w, b) \in Seq(BOOLEAN) /\ Len(Push(w, b)) <= WindowSize
<1>1. WindowSize \in Nat \ {0}
  BY ConfigAssumption
<1>2. CASE Len(w) < WindowSize
  BY <1>1, <1>2 DEF Push
<1>3. CASE ~(Len(w) < WindowSize)
  <2>1. Len(w) > 0
    BY <1>1, <1>3
  <2>2. Tail(w) \in Seq(BOOLEAN) /\ Len(Tail(w)) = Len(w) - 1
    BY <2>1
  <2>. QED
    BY <1>1, <1>3, <2>2 DEF Push
<1>. QED
  BY <1>2, <1>3

(* The sets of probes are finite, so their cardinalities are numbers.      *)
LEMMA ProbesFinite ==
  ASSUME probes \in SUBSET Callers
  PROVE  /\ IsFiniteSet(probes)
         /\ Cardinality(probes) \in Nat
         /\ \A c \in probes : /\ Cardinality(probes \ {c}) = Cardinality(probes) - 1
                              /\ Cardinality(probes) > 0
         /\ \A c : c \notin probes => /\ Cardinality(probes \cup {c}) = Cardinality(probes) + 1
                                      /\ probes \ {c} = probes
<1>1. IsFiniteSet(probes)
  BY FS_Subset, ConfigAssumption
<1>2. Cardinality(probes) \in Nat
  BY <1>1, FS_CardinalityType
<1>3. ASSUME NEW c \in probes
      PROVE  /\ Cardinality(probes \ {c}) = Cardinality(probes) - 1
             /\ Cardinality(probes) > 0
  <2>1. Cardinality(probes \ {c}) = Cardinality(probes) - 1
    BY <1>1, FS_RemoveElement
  <2>2. IsFiniteSet(probes \ {c})
    BY <1>1, FS_Subset
  <2>3. Cardinality(probes \ {c}) \in Nat
    BY <2>2, FS_CardinalityType
  <2>. QED
    BY <1>2, <2>1, <2>3
<1>4. ASSUME NEW c, c \notin probes
      PROVE  /\ Cardinality(probes \cup {c}) = Cardinality(probes) + 1
             /\ probes \ {c} = probes
  BY <1>1, <1>4, FS_AddElement
<1>. QED
  BY <1>1, <1>2, <1>3, <1>4

LEMMA InitBreakerInv == BreakerInit => BreakerInv
<1> SUFFICES ASSUME BreakerInit PROVE BreakerInv
  OBVIOUS
<1>1. BreakerTypeOK
  BY ConfigAssumption DEF BreakerInit, BreakerTypeOK, States, Places
<1>2. ClosedIsBelowThreshold /\ IdleHoldsNoProbe /\ ProbeAccounting
  BY ConfigAssumption DEF BreakerInit, ClosedIsBelowThreshold, IdleHoldsNoProbe, ProbeAccounting
<1>. QED
  BY <1>1, <1>2 DEF BreakerInv

(* Steps that leave HALF_OPEN, or never enter it, reset the accounting.    *)
LEMMA OpenStep ==
  ASSUME BreakerInv, Open, pc' \in [Callers -> Places], consecutive' \in Nat,
         window' \in Seq(BOOLEAN), Len(window') <= WindowSize
  PROVE  BreakerInv'
BY ConfigAssumption
   DEF BreakerInv, BreakerTypeOK, States, ClosedIsBelowThreshold, IdleHoldsNoProbe, ProbeAccounting,
       Open, NewPeriod

LEMMA CloseStep ==
  ASSUME BreakerInv, Close, pc' \in [Callers -> Places]
  PROVE  BreakerInv'
BY ConfigAssumption
   DEF BreakerInv, BreakerTypeOK, States, ClosedIsBelowThreshold, IdleHoldsNoProbe, ProbeAccounting,
       Close, NewPeriod

(* The outcome of one caller in HALF_OPEN: its slot is returned and        *)
(* accounted, whoever it is.                                               *)
LEMMA OutcomeStep ==
  ASSUME BreakerInv, circuit = "half_open", NEW c \in Callers, Account(c),
         inflight' = ReturnedSlot, successes' \in Nat,
         pc' = [pc EXCEPT ![c] = "idle"],
         UNCHANGED <<circuit, window, consecutive, age>>
  PROVE  BreakerInv'
<1>0. /\ inflight \in Nat /\ late \in Nat /\ leaked \in Nat
      /\ probes \in SUBSET Callers /\ HalfOpenMaxCalls \in Nat
  BY ConfigAssumption DEF BreakerInv, BreakerTypeOK
<1>1. BreakerTypeOK'
  BY <1>0 DEF BreakerInv, BreakerTypeOK, Account, ReturnedSlot, Places, States
<1>2. IdleHoldsNoProbe'
  BY DEF BreakerInv, BreakerTypeOK, IdleHoldsNoProbe, Account
<1>3. ProbeAccounting'
  <2>0. Cardinality(probes) \in Nat
    BY <1>0, ProbesFinite
  <2>1. CASE c \in probes
    <3>1. Cardinality(probes') = Cardinality(probes) - 1 /\ Cardinality(probes) > 0
      BY <1>0, <2>1, ProbesFinite DEF Account
    <3>. QED
      BY <1>0, <2>0, <2>1, <3>1 DEF BreakerInv, ProbeAccounting, Account, ReturnedSlot
  <2>2. CASE c \notin probes
    <3>1. probes' = probes
      BY <2>2 DEF Account
    <3>. QED
      BY <1>0, <2>0, <2>2, <3>1 DEF BreakerInv, ProbeAccounting, Account, ReturnedSlot
  <2>. QED
    BY <2>1, <2>2
<1>4. ClosedIsBelowThreshold'
  BY DEF ClosedIsBelowThreshold
<1>. QED
  BY <1>1, <1>2, <1>3, <1>4 DEF BreakerInv

LEMMA AdmitStep ==
  ASSUME BreakerInv, NEW c \in Callers, Admit(c)
  PROVE  BreakerInv'
<1>0. /\ inflight \in Nat /\ late \in Nat /\ leaked \in Nat
      /\ probes \in SUBSET Callers /\ HalfOpenMaxCalls \in Nat \ {0}
  BY ConfigAssumption DEF BreakerInv, BreakerTypeOK
<1>1. CASE AdmitClosed(c)
  <2>1. pc' \in [Callers -> Places] /\ pc'[c] = "running"
        /\ \A d \in Callers \ {c} : pc'[d] = pc[d]
    BY <1>1 DEF AdmitClosed, BreakerInv, BreakerTypeOK, Places
  <2>. QED
    BY <1>0, <1>1, <2>1
       DEF AdmitClosed, BreakerInv, BreakerTypeOK, ClosedIsBelowThreshold, IdleHoldsNoProbe,
           ProbeAccounting, breaker, ghosts
<1>2. CASE AdmitFirstProbe(c)
  <2>1. BreakerTypeOK'
    BY <1>0, <1>2 DEF AdmitFirstProbe, BreakerInv, BreakerTypeOK, Places, States
  <2>2. ClosedIsBelowThreshold'
    BY <1>2 DEF AdmitFirstProbe, ClosedIsBelowThreshold
  <2>3. IdleHoldsNoProbe'
    BY <1>2 DEF AdmitFirstProbe, BreakerInv, BreakerTypeOK, IdleHoldsNoProbe
  <2>4. ProbeAccounting'
    <3>1. Cardinality({c}) = 1
      BY FS_Singleton
    <3>. QED
      BY <1>0, <1>2, <3>1 DEF AdmitFirstProbe, ProbeAccounting
  <2>. QED
    BY <2>1, <2>2, <2>3, <2>4 DEF BreakerInv
<1>3. CASE AdmitProbe(c)
  <2>1. BreakerTypeOK'
    BY <1>0, <1>3 DEF AdmitProbe, BreakerInv, BreakerTypeOK, Places
  <2>2. ClosedIsBelowThreshold'
    BY <1>3 DEF AdmitProbe, ClosedIsBelowThreshold
  <2>3. IdleHoldsNoProbe'
    BY <1>3 DEF AdmitProbe, BreakerInv, BreakerTypeOK, IdleHoldsNoProbe
  <2>4. ProbeAccounting'
    <3>1. c \notin probes
      BY <1>3 DEF AdmitProbe, BreakerInv, IdleHoldsNoProbe
    <3>2. Cardinality(probes') = Cardinality(probes) + 1 /\ Cardinality(probes) \in Nat
      BY <1>0, <1>3, <3>1, ProbesFinite DEF AdmitProbe
    <3>. QED
      BY <1>0, <1>3, <3>2 DEF AdmitProbe, SlotFree, BreakerInv, ProbeAccounting
  <2>. QED
    BY <2>1, <2>2, <2>3, <2>4 DEF BreakerInv
<1>. QED
  BY <1>1, <1>2, <1>3 DEF Admit

LEMMA NotifiedStep ==
  ASSUME BreakerInv, NEW c \in Callers, Notified(c)
  PROVE  BreakerInv'
<1>0. /\ inflight \in Nat /\ late \in Nat /\ leaked \in Nat
      /\ probes \in SUBSET Callers /\ HalfOpenMaxCalls \in Nat \ {0}
  BY ConfigAssumption DEF BreakerInv, BreakerTypeOK
<1>1. CASE ListenerReturns(c)
  BY <1>0, <1>1
     DEF ListenerReturns, BreakerInv, BreakerTypeOK, Places, ClosedIsBelowThreshold, IdleHoldsNoProbe,
         ProbeAccounting, breaker, ghosts
<1>2. CASE ListenerRaises(c)
  <2>1. BreakerTypeOK' /\ ClosedIsBelowThreshold' /\ IdleHoldsNoProbe'
    BY <1>0, <1>2
       DEF ListenerRaises, BreakerInv, BreakerTypeOK, Places, ClosedIsBelowThreshold, IdleHoldsNoProbe,
           breaker
  <2>2. ProbeAccounting'
    <3>0. Cardinality(probes) \in Nat
      BY <1>0, ProbesFinite
    <3>1. Cardinality(probes') + leaked' = Cardinality(probes) + leaked
      <4>1. CASE c \in probes
        BY <1>0, <1>2, <3>0, <4>1, ProbesFinite DEF ListenerRaises
      <4>2. CASE c \notin probes
        <5>1. probes' = probes
          BY <1>2, <4>2 DEF ListenerRaises
        <5>. QED
          BY <1>2, <4>2, <5>1 DEF ListenerRaises
      <4>. QED
        BY <4>1, <4>2
    <3>. QED
      BY <1>2, <3>1 DEF ListenerRaises, BreakerInv, ProbeAccounting, breaker
  <2>. QED
    BY <2>1, <2>2 DEF BreakerInv
<1>. QED
  BY <1>1, <1>2 DEF Notified

LEMMA FinishStep ==
  ASSUME BreakerInv, NEW c \in Callers, Finish(c)
  PROVE  BreakerInv'
<1>0. /\ inflight \in Nat /\ late \in Nat /\ leaked \in Nat /\ successes \in Nat
      /\ consecutive \in Nat /\ window \in Seq(BOOLEAN) /\ Len(window) <= WindowSize
      /\ probes \in SUBSET Callers /\ circuit \in States
      /\ pc' = [pc EXCEPT ![c] = "idle"] /\ pc' \in [Callers -> Places]
  BY DEF BreakerInv, BreakerTypeOK, Places, Finish, Succeed, Fail, CancelCall
\* In CLOSED and OPEN the accounting says nothing and probes do not change.
<1>1. ASSUME circuit # "half_open", UNCHANGED <<circuit, age, inflight, successes, ghosts>>,
             window' \in Seq(BOOLEAN), Len(window') <= WindowSize, consecutive' \in Nat,
             ClosedIsBelowThreshold'
      PROVE  BreakerInv'
  BY <1>0, <1>1 DEF BreakerInv, BreakerTypeOK, ProbeAccounting, IdleHoldsNoProbe, ghosts
<1>2. CASE Succeed(c)
  <2>1. CASE circuit = "half_open" /\ Close
    BY <1>0, <2>1, CloseStep
  <2>2. CASE circuit = "half_open" /\ ~Close
    <3>1. /\ Account(c) /\ inflight' = ReturnedSlot /\ successes' = successes + 1
          /\ UNCHANGED <<circuit, window, consecutive, age>>
      BY <1>2, <2>2 DEF Succeed
    <3>2. successes' \in Nat
      BY <1>0, <3>1
    <3>. QED
      BY <1>0, <2>2, <3>1, <3>2, OutcomeStep
  <2>3. CASE circuit = "closed"
    <3>1. /\ window' = Push(window, TRUE) /\ consecutive' = 0
          /\ UNCHANGED <<circuit, age, inflight, successes, ghosts>>
      BY <1>2, <2>3 DEF Succeed
    <3>2. window' \in Seq(BOOLEAN) /\ Len(window') <= WindowSize
      BY <1>0, <3>1, PushType
    <3>. QED
      BY <1>1, <2>3, <3>1, <3>2, ConfigAssumption DEF ClosedIsBelowThreshold
  <2>4. CASE circuit = "open"
    BY <1>0, <1>1, <1>2, <2>4 DEF Succeed, breaker, ClosedIsBelowThreshold
  <2>. QED
    BY <1>0, <2>1, <2>2, <2>3, <2>4 DEF States
<1>3. CASE Fail(c)
  <2>1. CASE circuit = "half_open"
    <3>1. Open /\ UNCHANGED <<window, consecutive>>
      BY <1>3, <2>1 DEF Fail
    <3>. QED
      BY <1>0, <3>1, OpenStep
  <2>2. CASE circuit = "closed"
    <3>1. /\ window' = Push(window, FALSE) /\ consecutive' = consecutive + 1
          /\ \/ Open
             \/ /\ ~ShouldOpen(window', consecutive')
                /\ UNCHANGED <<circuit, age, inflight, successes, ghosts>>
      BY <1>3, <2>2 DEF Fail
    <3>2. window' \in Seq(BOOLEAN) /\ Len(window') <= WindowSize
      BY <1>0, <3>1, PushType
    <3>3. consecutive' \in Nat
      BY <1>0, <3>1
    <3>4. CASE Open
      BY <1>0, <3>2, <3>4, <3>3, OpenStep
    <3>5. CASE ~Open
      <4>0. ~(consecutive' >= FailureThreshold)
        BY <3>1, <3>5, Zenon DEF ShouldOpen
      <4>1. consecutive' < FailureThreshold
        BY <3>3, <4>0, ConfigAssumption
      <4>. QED
        BY <1>1, <2>2, <3>1, <3>2, <3>5, <3>3, <4>1 DEF ClosedIsBelowThreshold
    <3>. QED
      BY <3>4, <3>5
  <2>3. CASE circuit = "open"
    BY <1>0, <1>1, <1>3, <2>3 DEF Fail, breaker, ClosedIsBelowThreshold
  <2>. QED
    BY <1>0, <2>1, <2>2, <2>3 DEF States
<1>4. CASE CancelCall(c)
  <2>1. CASE circuit = "half_open"
    BY <1>0, <1>4, <2>1, OutcomeStep DEF CancelCall
  <2>2. CASE circuit # "half_open"
    BY <1>0, <1>1, <1>4, <2>2 DEF CancelCall, BreakerInv, ClosedIsBelowThreshold
  <2>. QED
    BY <2>1, <2>2
<1>. QED
  BY <1>2, <1>3, <1>4 DEF Finish

LEMMA NextBreakerInv == BreakerInv /\ [BreakerNext]_breakerVars => BreakerInv'
<1> SUFFICES ASSUME BreakerInv, [BreakerNext]_breakerVars PROVE BreakerInv'
  OBVIOUS
<1>0. /\ window \in Seq(BOOLEAN) /\ Len(window) <= WindowSize /\ consecutive \in Nat
      /\ pc \in [Callers -> Places]
  BY DEF BreakerInv, BreakerTypeOK
<1>1. ASSUME NEW c \in Callers, Admit(c) PROVE BreakerInv'
  BY <1>1, AdmitStep
<1>2. ASSUME NEW c \in Callers, Notified(c) PROVE BreakerInv'
  BY <1>2, NotifiedStep
<1>3. ASSUME NEW c \in Callers, Finish(c) PROVE BreakerInv'
  BY <1>3, FinishStep
<1>4. CASE Reset
  BY <1>0, <1>4, CloseStep DEF Reset
<1>5. CASE Trip
  BY <1>0, <1>5, OpenStep DEF Trip
<1>6. CASE Tick
  BY <1>6, ConfigAssumption
     DEF Tick, BreakerInv, BreakerTypeOK, ClosedIsBelowThreshold, IdleHoldsNoProbe, ProbeAccounting, ghosts
<1>7. CASE UNCHANGED breakerVars
  BY <1>7
     DEF breakerVars, breaker, ghosts, BreakerInv, BreakerTypeOK, ClosedIsBelowThreshold, IdleHoldsNoProbe,
         ProbeAccounting
<1>. QED
  BY <1>1, <1>2, <1>3, <1>4, <1>5, <1>6, <1>7 DEF BreakerNext

LEMMA BreakerInvariance == BreakerSpec => []BreakerInv
BY InitBreakerInv, NextBreakerInv, PTL DEF BreakerSpec

-----------------------------------------------------------------------------
(* The breaker's counters, its window bounded by deque(maxlen) and its     *)
(* callers keep their types for every number of callers and every config.  *)
THEOREM BreakerTypeCorrect == BreakerSpec => []BreakerTypeOK
<1>1. BreakerInv => BreakerTypeOK
  BY DEF BreakerInv
<1>. QED
  BY <1>1, BreakerInvariance, PTL

(* record_failure never leaves a circuit closed at or above its threshold, *)
(* whatever the interleaving of late reports, resets and trips.            *)
THEOREM ClosedBelowThreshold == BreakerSpec => []ClosedIsBelowThreshold
<1>1. BreakerInv => ClosedIsBelowThreshold
  BY DEF BreakerInv
<1>. QED
  BY <1>1, BreakerInvariance, PTL

(* before_call, record_success and _release_probe keep the half-open slot  *)
(* counter between the live probes and the live probes less late reports.  *)
THEOREM SlotsAreAccounted == BreakerSpec => []ProbeAccounting
<1>1. BreakerInv => ProbeAccounting
  BY DEF BreakerInv
<1>. QED
  BY <1>1, BreakerInvariance, PTL

(* The documented bound on half-open probes holds up to the outcomes that  *)
(* calls admitted before the period report during it.                      *)
THEOREM ProbesAreBounded == BreakerSpec => []ProbesBoundedUpToLateReports
<1>1. BreakerInv => ProbesBoundedUpToLateReports
  <2> SUFFICES ASSUME BreakerInv, circuit = "half_open"
               PROVE  Cardinality(probes) <= HalfOpenMaxCalls + late
    BY DEF ProbesBoundedUpToLateReports
  <2>1. Cardinality(probes) \in Nat /\ inflight \in Nat /\ late \in Nat /\ leaked \in Nat
        /\ HalfOpenMaxCalls \in Nat
    BY ProbesFinite, ConfigAssumption DEF BreakerInv, BreakerTypeOK
  <2>. QED
    BY <2>1 DEF BreakerInv, ProbeAccounting
<1>. QED
  BY <1>1, BreakerInvariance, PTL

=============================================================================
