------------------------------ MODULE Lifecycle ------------------------------
(***************************************************************************)
(* broka.lifecycle: LifecycleManager, which starts components in order and *)
(* stops them in reverse, and its TaskSupervisor, which owns and restarts  *)
(* background tasks.                                                       *)
(*                                                                         *)
(* The manager's lock is held across every await of startup, drain and     *)
(* shutdown, so one variable tells which of them is under way and where;   *)
(* a caller that waits for the lock is a call made later.  The supervisor  *)
(* has no lock: its tasks take their steps, and tasks are started and      *)
(* cancelled, between any two steps of the manager.  Components are the    *)
(* application's: startup that raises is taken to have acquired nothing,   *)
(* shutdown that raises or times out leaves the component up.  Tasks with  *)
(* the policy "never" may also be coroutines that cannot be restarted.     *)
(***************************************************************************)
EXTENDS Naturals, FiniteSets

CONSTANTS
  NumComponents,  \* components the application registers, in this order
  Spawner,        \* components whose startup starts the task of that number
  Tasks,          \* names of supervised tasks
  MaxRestarts,    \* max_restarts
  MaxFaults       \* bound: cancelled calls, raising listeners and handlers

Components == 1..NumComponents

Policies == {"never", "on_failure", "always"}

ASSUME LifecycleAssumption ==
  /\ NumComponents \in Nat
  /\ \A c \in DOMAIN Spawner : c \in Components /\ Spawner[c] \in Tasks
  /\ IsFiniteSet(Tasks)
  /\ MaxRestarts \in Nat
  /\ MaxFaults \in Nat

VARIABLES
  state,       \* LifecycleManager.state
  op,          \* what the holder of the lock awaits; "none" when it is free
  pos,         \* the component it is at
  registered,  \* length of _components
  started,     \* length of _started, a prefix of _components
  comp,        \* whether each component holds its resources
  refused,     \* history: components whose last shutdown raised or timed out
  stopping,    \* TaskSupervisor._stopping
  phase,       \* where the asyncio task of each record is
  status,      \* state of each task record
  restarts,    \* restart_count
  policy,      \* restart_policy
  cancelled,   \* tasks asked to cancel
  waited,      \* pending of TaskSupervisor.shutdown
  faults

managerVars == <<state, op, pos, registered, started, comp, refused>>
taskVars == <<phase, status, restarts, policy, cancelled>>
vars == <<managerVars, taskVars, stopping, waited, faults>>

Unfinished == {t \in Tasks : phase[t] \notin {"none", "done"}}

Fault == faults < MaxFaults /\ faults' = faults + 1

-----------------------------------------------------------------------------
(* TaskSupervisor                                                          *)

\* Faulty variant, for mutation: a supervisor that stops accepts tasks.
MayStartAlways(t) == t \notin Unfinished

\* start_soon raises when the supervisor stops or the name is taken.
MayStart(t) == ~stopping /\ t \notin Unfinished

\* A new record replaces the finished one; the runner waits at its gate.
Install(t, p) ==
  /\ phase' = [phase EXCEPT ![t] = "gated"]
  /\ status' = [status EXCEPT ![t] = "running"]
  /\ restarts' = [restarts EXCEPT ![t] = 0]
  /\ policy' = [policy EXCEPT ![t] = p]
  /\ cancelled' = cancelled \ {t}

StartSoon(t) ==
  /\ MayStart(t)
  /\ \E p \in Policies : Install(t, p)
  /\ UNCHANGED <<managerVars, stopping, waited, faults>>

\* The loop of _run goes round, or ends because the supervisor stops.
Enter(t) ==
  /\ phase[t] \in {"gated", "sleeping"}
  /\ phase' = [phase EXCEPT ![t] = IF stopping THEN "done" ELSE "factory"]
  /\ status' = [status EXCEPT ![t] = "running"]
  /\ UNCHANGED <<managerVars, restarts, policy, cancelled, stopping, waited, faults>>

ShouldRestart(t, failed) ==
  /\ policy[t] = "always" \/ (policy[t] = "on_failure" /\ failed)
  /\ restarts[t] < MaxRestarts

\* Restart after a backoff, or end with a final state.
Conclude(t, failed) ==
  /\ IF ShouldRestart(t, failed)
       THEN /\ restarts' = [restarts EXCEPT ![t] = @ + 1]
            /\ status' = [status EXCEPT ![t] = "restarting"]
            /\ phase' = [phase EXCEPT ![t] = "sleeping"]
       ELSE /\ status' = [status EXCEPT ![t] = IF failed THEN "failed" ELSE "completed"]
            /\ phase' = [phase EXCEPT ![t] = "done"]
            /\ UNCHANGED restarts
  /\ UNCHANGED <<managerVars, policy, stopping, waited, faults>>

\* The factory returns; it may have absorbed a cancellation.
FactoryReturns(t) ==
  /\ phase[t] = "factory"
  /\ cancelled' = cancelled \ {t}
  /\ Conclude(t, FALSE)

\* It raises: _report_failure awaits the failure handler and the listeners.
FactoryRaises(t) ==
  /\ phase[t] = "factory"
  /\ phase' = [phase EXCEPT ![t] = "reporting"]
  /\ cancelled' = cancelled \ {t}
  /\ UNCHANGED <<managerVars, status, restarts, policy, stopping, waited, faults>>

Reported(t) ==
  /\ phase[t] = "reporting"
  /\ UNCHANGED cancelled
  /\ Conclude(t, TRUE)

\* An exception of the failure handler ends the task with its state as it was.
HandlerRaises(t) ==
  /\ phase[t] = "reporting"
  /\ Fault
  /\ phase' = [phase EXCEPT ![t] = "done"]
  /\ UNCHANGED <<managerVars, status, restarts, policy, cancelled, stopping, waited>>

\* CancelledError is caught around the factory only.
CancelLands(t) ==
  /\ t \in Unfinished \cap cancelled
  /\ status' = IF phase[t] = "factory" THEN [status EXCEPT ![t] = "cancelled"] ELSE status
  /\ phase' = [phase EXCEPT ![t] = "done"]
  /\ cancelled' = cancelled \ {t}
  /\ UNCHANGED <<managerVars, restarts, policy, stopping, waited, faults>>

\* cancel
CancelTask(t) ==
  /\ t \in Unfinished \ cancelled
  /\ cancelled' = cancelled \cup {t}
  /\ UNCHANGED <<managerVars, phase, status, restarts, policy, stopping, waited, faults>>

-----------------------------------------------------------------------------
(* LifecycleManager: register and startup                                  *)

Register ==
  /\ state \in {"new", "stopped"}
  /\ registered < NumComponents
  /\ registered' = registered + 1
  /\ UNCHANGED <<state, op, pos, started, comp, refused, taskVars, stopping, waited, faults>>

\* A call returns or raises at once in the states that are not listed.
Startup ==
  /\ op = "none"
  /\ state \in {"new", "stopped", "failed"}
  /\ state' = "starting"
  /\ op' = "start_emit"
  /\ UNCHANGED <<pos, registered, started, comp, refused, taskVars, stopping, waited, faults>>

\* n components are up: go on with the next, or the startup is complete.
GoOn(n) ==
  /\ started' = n
  /\ IF n = registered THEN state' = "running" /\ op' = "started_emit" /\ pos' = 0
                       ELSE op' = "starting" /\ pos' = n + 1 /\ UNCHANGED state

StartEmitted ==
  /\ op = "start_emit"
  /\ GoOn(0)
  /\ UNCHANGED <<registered, comp, refused, taskVars, stopping, waited, faults>>

ComponentStarts ==
  /\ op = "starting"
  /\ comp' = [comp EXCEPT ![pos] = TRUE]
  /\ refused' = refused \ {pos}
  /\ IF pos \in DOMAIN Spawner
       THEN MayStart(Spawner[pos]) /\ Install(Spawner[pos], "always")
       ELSE UNCHANGED taskVars
  /\ GoOn(pos)
  /\ UNCHANGED <<registered, stopping, waited, faults>>

\* Faulty variant, for mutation: the first started component is not unwound.
UnwindFromSkipping(n) ==
  IF n <= 1 THEN state' = "failed" /\ op' = "none" /\ started' = 0 /\ pos' = 0
            ELSE op' = "unwinding" /\ pos' = n /\ UNCHANGED <<state, started>>

\* The reversed iteration of _unwind has n components left.
UnwindFrom(n) ==
  IF n = 0 THEN state' = "failed" /\ op' = "none" /\ started' = 0 /\ pos' = 0
           ELSE op' = "unwinding" /\ pos' = n /\ UNCHANGED <<state, started>>

\* Among others because start_soon refuses the task it needs.
ComponentFails ==
  /\ op = "starting"
  /\ UnwindFrom(started)
  /\ UNCHANGED <<registered, comp, refused, taskVars, stopping, waited, faults>>

\* shutdown of the component returns, or raises and leaves it up.
ShutdownComponent ==
  \/ comp' = [comp EXCEPT ![pos] = FALSE] /\ UNCHANGED refused
  \/ refused' = refused \cup {pos} /\ UNCHANGED comp

Unwind ==
  /\ op = "unwinding"
  /\ ShutdownComponent
  /\ UnwindFrom(pos - 1)
  /\ UNCHANGED <<registered, taskVars, stopping, waited, faults>>

-----------------------------------------------------------------------------
(* drain and shutdown                                                      *)

Drain ==
  /\ op = "none"
  /\ state = "running"
  /\ state' = "draining"
  /\ op' = "drain_emit"
  /\ UNCHANGED <<pos, registered, started, comp, refused, taskVars, stopping, waited, faults>>

\* The hooks return, raise or time out: drain_completed is sent in any case.
Drained ==
  /\ op \in {"drain_emit", "draining"}
  /\ op' = IF op = "drain_emit" THEN "draining" ELSE "drained_emit"
  /\ UNCHANGED <<state, pos, registered, started, comp, refused, taskVars, stopping, waited,
                 faults>>

ShutdownUnstarted ==
  /\ op = "none"
  /\ state \in {"new", "stopped"}
  /\ state' = "stopped"
  /\ UNCHANGED <<op, pos, registered, started, comp, refused, taskVars, stopping, waited, faults>>

Shutdown ==
  /\ op = "none"
  /\ state \in {"starting", "running", "draining", "failed"}
  /\ state' = "stopping"
  /\ op' = "stop_emit"
  /\ UNCHANGED <<pos, registered, started, comp, refused, taskVars, stopping, waited, faults>>

\* Faulty variant, for mutation: components are stopped in startup order.
StopInOrderFrom(n) ==
  IF n = 0 THEN state' = "stopped" /\ op' = "stopped_emit" /\ started' = 0 /\ pos' = 0
           ELSE /\ op' = "stopping"
                /\ pos' = started + 1 - n
                /\ UNCHANGED <<state, started>>

\* The reversed iteration of shutdown has n components left.
StopFrom(n) ==
  IF n = 0 THEN state' = "stopped" /\ op' = "stopped_emit" /\ started' = 0 /\ pos' = 0
           ELSE op' = "stopping" /\ pos' = n /\ UNCHANGED <<state, started>>

\* TaskSupervisor.shutdown; with a grace period the tasks may end by themselves,
\* and a second call only waits for them.
StopTasks ==
  /\ op = "stop_emit"
  /\ stopping' = TRUE
  /\ waited' = Unfinished
  /\ IF Unfinished = {}
       THEN StopFrom(started) /\ UNCHANGED cancelled
       ELSE /\ \/ ~stopping /\ op' = "grace" /\ UNCHANGED cancelled
               \/ op' = "gather" /\ cancelled' = IF stopping THEN cancelled
                                                            ELSE cancelled \cup Unfinished
            /\ UNCHANGED <<state, pos, started>>
  /\ UNCHANGED <<registered, comp, refused, phase, status, restarts, policy, faults>>

\* Faulty variant, for mutation: tasks that outlive the grace period are not cancelled.
GraceOverQuietly ==
  /\ op = "grace"
  /\ op' = "gather"
  /\ UNCHANGED <<state, pos, registered, started, comp, refused, taskVars, stopping, waited,
                 faults>>

GraceOver ==
  /\ op = "grace"
  /\ op' = "gather"
  /\ cancelled' = cancelled \cup (waited \cap Unfinished)
  /\ UNCHANGED <<state, pos, registered, started, comp, refused, phase, status, restarts, policy,
                 stopping, waited, faults>>

Gathered ==
  /\ op = "gather"
  /\ waited \cap Unfinished = {}
  /\ waited' = {}
  /\ StopFrom(started)
  /\ UNCHANGED <<registered, comp, refused, taskVars, stopping, faults>>

\* With what is left of the grace period, at least a millisecond.
StopComponent ==
  /\ op = "stopping"
  /\ ShutdownComponent
  /\ StopFrom(pos - 1)
  /\ UNCHANGED <<registered, taskVars, stopping, waited, faults>>

-----------------------------------------------------------------------------
(* The end of a call                                                       *)

LastEmits == {"started_emit", "drained_emit", "stopped_emit"}

Return ==
  /\ op \in LastEmits
  /\ op' = "none"
  /\ UNCHANGED <<state, pos, registered, started, comp, refused, taskVars, stopping, waited,
                 faults>>

\* A critical listener raises: no emit is inside a try that handles it.
ListenerRaises ==
  /\ op \in LastEmits \cup {"start_emit", "drain_emit", "stop_emit"}
  /\ Fault
  /\ op' = "none"
  /\ UNCHANGED <<state, pos, registered, started, comp, refused, taskVars, stopping, waited>>

\* The caller is cancelled, which gather passes on to the tasks.
CallCancelled ==
  /\ op # "none"
  /\ Fault
  /\ op' = "none"
  /\ cancelled' = IF op = "gather" THEN cancelled \cup (waited \cap Unfinished) ELSE cancelled
  /\ IF op \in {"unwinding", "stopping"} THEN comp' \in {comp, [comp EXCEPT ![pos] = FALSE]}
                                         ELSE UNCHANGED comp
  /\ pos' = 0
  /\ waited' = {}
  /\ UNCHANGED <<state, registered, started, refused, phase, status, restarts, policy, stopping>>

-----------------------------------------------------------------------------
Init ==
  /\ state = "new"
  /\ op = "none"
  /\ pos = 0
  /\ registered = 0
  /\ started = 0
  /\ comp = [c \in Components |-> FALSE]
  /\ refused = {}
  /\ stopping = FALSE
  /\ phase = [t \in Tasks |-> "none"]
  /\ status = [t \in Tasks |-> "none"]
  /\ restarts = [t \in Tasks |-> 0]
  /\ policy = [t \in Tasks |-> "never"]
  /\ cancelled = {}
  /\ waited = {}
  /\ faults = 0

TaskStep(t) == Enter(t) \/ Reported(t) \/ CancelLands(t)

TaskNext(t) ==
  TaskStep(t) \/ StartSoon(t) \/ FactoryReturns(t) \/ FactoryRaises(t) \/ HandlerRaises(t)
    \/ CancelTask(t)

Startups == Startup \/ StartEmitted \/ ComponentStarts \/ ComponentFails \/ Unwind

Proceed == StopTasks \/ GraceOver \/ Gathered \/ StopComponent \/ Return

Next ==
  \/ Register \/ Startups \/ Drain \/ Drained \/ Shutdown \/ ShutdownUnstarted \/ Proceed
  \/ ListenerRaises \/ CallCancelled
  \/ \E t \in Tasks : TaskNext(t)

Spec == Init /\ [][Next]_vars

(***************************************************************************)
(* A shutdown goes on: listeners and components return or are timed out,   *)
(* the grace period ends.  A task takes its own steps, and ends when it is *)
(* cancelled; nothing makes a factory return that is not.                  *)
(***************************************************************************)
FairSpec == Spec /\ WF_vars(Proceed) /\ \A t \in Tasks : WF_vars(TaskStep(t))

-----------------------------------------------------------------------------
(* Properties                                                              *)

TypeOK ==
  /\ state \in {"new", "starting", "running", "draining", "stopping", "stopped", "failed"}
  /\ registered \in 0..NumComponents /\ started \in 0..registered
  /\ comp \in [Components -> BOOLEAN] /\ refused \subseteq Components
  /\ phase \in [Tasks -> {"none", "gated", "factory", "reporting", "sleeping", "done"}]
  /\ status \in [Tasks -> {"none", "running", "restarting", "completed", "failed", "cancelled"}]
  /\ restarts \in [Tasks -> 0..MaxRestarts]
  /\ cancelled \subseteq Tasks /\ waited \subseteq Tasks

(* "Stop tasks and components without leaving orphaned resources": a       *)
(* component that is up is one the manager still owns, and in the states   *)
(* in which it owns none nothing is up, whatever call was cut short by a   *)
(* failure, a cancellation or a listener, except for components whose own  *)
(* shutdown raised or timed out.                                           *)
NothingOrphaned ==
  /\ TypeOK
  /\ \A c \in Components :
       comp[c] /\ c \notin refused => c <= started /\ state \notin {"new", "stopped", "failed"}

(* "Start components transactionally and stop them in reverse order": no   *)
(* component is up without the ones registered before it, also while a     *)
(* failed startup is unwound and when a restart follows.                   *)
DependenciesAreUp ==
  \A c, d \in Components : c < d /\ comp[d] /\ d \notin refused => comp[c]

CutShort == state = "stopping" /\ op = "none"

(* "Guarantee bounded, deterministic shutdown": once supervisor.shutdown   *)
(* is over no supervised task is alive, so no component is stopped under a *)
(* task, and none is started later by a task that was about to restart or  *)
(* by a caller; unless the call itself was cut short.                      *)
TasksEndFirst ==
  stopping /\ op \notin {"grace", "gather"} /\ ~CutShort => Unfinished = {}

(* shutdown comes to an end in every state of the tasks: it reaches        *)
(* STOPPED or is cut short by its caller or a listener, never waiting for  *)
(* a task that nobody cancels.                                             *)
ShutdownEnds == (state = "stopping") ~> (state = "stopped" \/ CutShort)

(* shutdown never waits for a task that nobody stops: each task it gathers *)
(* is cancelled, or has left its factory and will not enter it again.      *)
GatheredTasksEnd ==
  op = "gather" =>
    stopping /\ \A t \in waited \cap Unfinished : t \in cancelled \/ phase[t] # "factory"

\* How far a task of a supervisor that stops is from its end.
RoundsLeft(p) ==
  CASE p = "factory" -> 3
    [] p = "reporting" -> 2
    [] p \in {"gated", "sleeping"} -> 1
    [] OTHER -> 0

(* Tasks only wind down once the supervisor stops: whatever they do and    *)
(* whoever starts tasks, none comes back, and each step of its own brings  *)
(* a task nearer to its end.                                               *)
TasksWindDown ==
  [][stopping =>
       \A t \in Tasks :
         /\ RoundsLeft(phase'[t]) <= RoundsLeft(phase[t])
         /\ TaskStep(t) => RoundsLeft(phase'[t]) < RoundsLeft(phase[t])]_vars

=============================================================================
