-------------------------- MODULE LifecycleProofs ---------------------------
(***************************************************************************)
(* Safety of Lifecycle, for any number of components and tasks.  What is   *)
(* up is a prefix of the components wherever a startup is, and what a      *)
(* reversed iteration has passed is down; a supervisor that stops starts   *)
(* nothing more, so the tasks it waits for are all there are.              *)
(***************************************************************************)
EXTENDS Lifecycle, TLAPS

Starting == {"start_emit", "starting", "unwinding"}

Stopping == {"stop_emit", "grace", "gather", "stopping"}

Draining == {"drain_emit", "draining", "drained_emit"}

Types ==
  /\ state \in {"new", "starting", "running", "draining", "stopping", "stopped", "failed"}
  /\ op \in {"none", "started_emit", "stopped_emit"} \cup Starting \cup Stopping \cup Draining
  /\ pos \in 0..NumComponents
  /\ registered \in 0..NumComponents /\ started \in 0..registered
  /\ refused \subseteq Components
  /\ phase \in [Tasks -> {"none", "gated", "factory", "reporting", "sleeping", "done"}]
  /\ status \in [Tasks -> {"none", "running", "restarting", "completed", "failed", "cancelled"}]
  /\ restarts \in [Tasks -> 0..MaxRestarts]
  /\ policy \in [Tasks -> Policies]
  /\ cancelled \subseteq Tasks /\ waited \subseteq Tasks

Flags == comp \in [Components -> BOOLEAN] /\ stopping \in BOOLEAN

\* The state that goes with each await of the holder of the lock.
StateOfCall ==
  /\ op \in Starting => state = "starting"
  /\ op \in Stopping => state = "stopping"
  /\ op = "stopped_emit" => state = "stopped"

\* Where the iteration of the call is.
PositionOfCall ==
  /\ op = "starting" => pos = started + 1 /\ started < registered
  /\ op \in {"unwinding", "stopping"} => pos \in 1..started

Down(c) == comp[c] => c \in refused

\* Only what the manager owns is up.
OwnedIsUp ==
  \A c \in Components : comp[c] /\ c \notin refused => c <= started

\* Nothing is up before a startup and after everything was stopped.
UnownedIsDown ==
  state \in {"new", "stopped", "failed"} \/ op = "start_emit" => \A c \in Components : Down(c)

\* A startup has all of its prefix up; a reversed iteration has passed what is down.
PrefixOfCall ==
  /\ op = "starting" => \A c \in Components : c <= started => comp[c]
  /\ op \in {"unwinding", "stopping"} => \A c \in Components : c > pos => Down(c)

ComponentInv ==
  OwnedIsUp /\ UnownedIsDown /\ PrefixOfCall /\ DependenciesAreUp

\* While shutdown waits for tasks, it waits for all of them.
WaitsForAll ==
  op \in {"grace", "gather"} => stopping /\ Unfinished \subseteq waited

TaskInv == WaitsForAll /\ TasksEndFirst

IInv == Types /\ Flags /\ StateOfCall /\ PositionOfCall /\ ComponentInv /\ TaskInv

-----------------------------------------------------------------------------
LEMMA InitInv == Init => IInv
<1>. SUFFICES ASSUME Init PROVE IInv
  OBVIOUS
<1>. USE LifecycleAssumption DEF Init, Components, Policies
<1>1. Types
  BY DEF Types, Starting, Stopping, Draining
<1>f. Flags
  BY DEF Flags
<1>2. StateOfCall /\ PositionOfCall
  BY DEF StateOfCall, PositionOfCall, Starting, Stopping
<1>3. ComponentInv
  BY DEF ComponentInv, OwnedIsUp, UnownedIsDown, PrefixOfCall, DependenciesAreUp, Down
<1>4. TaskInv
  BY DEF TaskInv, WaitsForAll, TasksEndFirst
<1>. QED
  BY <1>1, <1>f, <1>2, <1>3, <1>4 DEF IInv

\* A step of a task leaves the manager alone and starts nothing once tasks are stopped.
LEMMA TaskMoves ==
  ASSUME Types, NEW t \in Tasks, TaskNext(t)
  PROVE  /\ Types' /\ UNCHANGED <<managerVars, stopping, waited>>
         /\ stopping => Unfinished' \subseteq Unfinished
<1>. USE DEF Types, Policies, managerVars, Unfinished
<1>1. CASE StartSoon(t)
  <2>1. PICK p \in Policies : Install(t, p)
    BY <1>1 DEF StartSoon
  <2>2. Types'
    BY <1>1, <2>1, LifecycleAssumption DEF StartSoon, Install
  <2>. QED
    BY <1>1, <2>2 DEF StartSoon, MayStart
<1>2. CASE Enter(t)
  BY <1>2 DEF Enter
<1>3. CASE FactoryReturns(t)
  BY <1>3, LifecycleAssumption DEF FactoryReturns, Conclude, ShouldRestart
<1>4. CASE FactoryRaises(t)
  BY <1>4 DEF FactoryRaises
<1>5. CASE Reported(t)
  BY <1>5, LifecycleAssumption DEF Reported, Conclude, ShouldRestart
<1>6. CASE HandlerRaises(t)
  BY <1>6 DEF HandlerRaises
<1>7. CASE CancelLands(t)
  BY <1>7 DEF CancelLands
<1>8. CASE CancelTask(t)
  BY <1>8 DEF CancelTask
<1>. QED
  BY <1>1, <1>2, <1>3, <1>4, <1>5, <1>6, <1>7, <1>8 DEF TaskNext, TaskStep

\* The actions of the manager.
ManagerNext ==
  \/ Register \/ Startups \/ Drain \/ Drained \/ Shutdown \/ ShutdownUnstarted \/ Proceed
  \/ ListenerRaises \/ CallCancelled

LEMMA ManagerFlags ==
  ASSUME Types, Flags, ManagerNext
  PROVE  Flags'
<1>. USE DEF Flags
<1>1. CASE Register \/ Startup \/ Drain \/ Drained \/ Shutdown \/ ShutdownUnstarted
  BY <1>1 DEF Register, Startup, Drain, Drained, Shutdown, ShutdownUnstarted
<1>2. CASE StartEmitted
  BY <1>2 DEF StartEmitted, GoOn
<1>3. CASE ComponentStarts
  BY <1>3 DEF ComponentStarts
<1>4. CASE ComponentFails
  BY <1>4 DEF ComponentFails
<1>5. CASE Unwind
  BY <1>5 DEF Unwind, ShutdownComponent
<1>6. CASE StopTasks
  BY <1>6 DEF StopTasks
<1>7. CASE GraceOver \/ Gathered
  BY <1>7 DEF GraceOver, Gathered
<1>8. CASE StopComponent
  BY <1>8 DEF StopComponent, ShutdownComponent
<1>9. CASE Return \/ ListenerRaises
  BY <1>9 DEF Return, ListenerRaises
<1>10. CASE CallCancelled
  BY <1>10 DEF CallCancelled
<1>. QED
  BY <1>1, <1>2, <1>3, <1>4, <1>5, <1>6, <1>7, <1>8, <1>9, <1>10
     DEF ManagerNext, Startups, Proceed

LEMMA ManagerTypes ==
  ASSUME Types, PositionOfCall, ManagerNext
  PROVE  Types'
<1>. USE LifecycleAssumption DEF Types, PositionOfCall, Starting, Stopping, Draining, Policies,
  Components, taskVars
<1>1. CASE Register
  BY <1>1 DEF Register
<1>14. CASE Drained
  BY <1>14 DEF Drained
<1>11. CASE Startup \/ Drain
  BY <1>11 DEF Startup, Drain
<1>12. CASE Shutdown \/ ShutdownUnstarted
  BY <1>12 DEF Shutdown, ShutdownUnstarted
<1>2. CASE StartEmitted
  BY <1>2 DEF StartEmitted, GoOn
<1>3. CASE ComponentStarts
  BY <1>3 DEF ComponentStarts, GoOn, Install
<1>4. CASE ComponentFails
  BY <1>4 DEF ComponentFails, UnwindFrom
<1>5. CASE Unwind
  <2>0. pos \in Components
    BY <1>5 DEF Unwind
  <2>1. refused' = refused \/ refused' = refused \cup {pos}
    BY <1>5 DEF Unwind, ShutdownComponent
  <2>2. refused' \subseteq Components
    BY <2>0, <2>1
  <2>. QED
    BY <1>5, <2>0, <2>2 DEF Unwind, UnwindFrom
<1>6. CASE StopTasks
  BY <1>6 DEF StopTasks, StopFrom, Unfinished
<1>7. CASE GraceOver
  BY <1>7 DEF GraceOver
<1>13. CASE Gathered
  BY <1>13 DEF Gathered, StopFrom
<1>8. CASE StopComponent
  <2>0. pos \in Components
    BY <1>8 DEF StopComponent
  <2>1. refused' = refused \/ refused' = refused \cup {pos}
    BY <1>8 DEF StopComponent, ShutdownComponent
  <2>2. refused' \subseteq Components
    BY <2>0, <2>1
  <2>. QED
    BY <1>8, <2>0, <2>2 DEF StopComponent, StopFrom
<1>9. CASE Return \/ ListenerRaises
  BY <1>9 DEF Return, ListenerRaises, LastEmits
<1>10. CASE CallCancelled
  BY <1>10 DEF CallCancelled
<1>. QED
  BY <1>1, <1>2, <1>3, <1>4, <1>5, <1>6, <1>7, <1>8, <1>9, <1>10,
     <1>11, <1>12, <1>13, <1>14
     DEF ManagerNext, Startups, Proceed

LEMMA ManagerControl ==
  ASSUME Types, StateOfCall, PositionOfCall, ManagerNext
  PROVE  StateOfCall' /\ PositionOfCall'
<1>. USE LifecycleAssumption DEF Types, StateOfCall, PositionOfCall, Starting, Stopping, Draining
<1>1. CASE Register \/ Startup \/ Drain \/ Drained \/ Shutdown \/ ShutdownUnstarted
  BY <1>1 DEF Register, Startup, Drain, Drained, Shutdown, ShutdownUnstarted
<1>2. CASE StartEmitted \/ ComponentStarts
  BY <1>2 DEF StartEmitted, ComponentStarts, GoOn
<1>3. CASE ComponentFails \/ Unwind
  BY <1>3 DEF ComponentFails, Unwind, UnwindFrom
<1>4. CASE StopTasks \/ GraceOver \/ Gathered \/ StopComponent
  BY <1>4 DEF StopTasks, GraceOver, Gathered, StopComponent, StopFrom
<1>5. CASE Return \/ ListenerRaises \/ CallCancelled
  BY <1>5 DEF Return, ListenerRaises, LastEmits, CallCancelled
<1>. QED
  BY <1>1, <1>2, <1>3, <1>4, <1>5 DEF ManagerNext, Startups, Proceed

\* What a shutdown of the component at hand leaves: it is down, or refused.
LEMMA PositionIsDown ==
  ASSUME Types, Flags, PositionOfCall, op \in {"unwinding", "stopping"}, ShutdownComponent
  PROVE  /\ pos \in Components
         /\ comp'[pos] => pos \in refused'
         /\ \A c \in Components : (comp'[c] => comp[c]) /\ (c \in refused => c \in refused')
         /\ \A c \in Components \ {pos} : comp'[c] = comp[c] /\ (c \in refused' => c \in refused)
<1>1. pos \in Components
  BY LifecycleAssumption DEF Types, PositionOfCall, Components
<1>2. CASE comp' = [comp EXCEPT ![pos] = FALSE] /\ UNCHANGED refused
  BY <1>1, <1>2 DEF Flags
<1>3. CASE refused' = refused \cup {pos} /\ UNCHANGED comp
  BY <1>1, <1>3 DEF Flags
<1>. QED
  BY <1>1, <1>2, <1>3 DEF ShutdownComponent

LEMMA ManagerComponents ==
  ASSUME Types, Flags, StateOfCall, PositionOfCall, ComponentInv, ManagerNext
  PROVE  ComponentInv'
<1>. USE LifecycleAssumption DEF ComponentInv, OwnedIsUp, UnownedIsDown, PrefixOfCall,
  DependenciesAreUp, Down
<1>1. CASE Register \/ Startup \/ Drain \/ Drained \/ Shutdown \/ ShutdownUnstarted
  BY <1>1 DEF Register, Startup, Drain, Drained, Shutdown, ShutdownUnstarted
<1>2. CASE StartEmitted
  BY <1>2 DEF StartEmitted, GoOn, Types, Components
<1>3. CASE ComponentStarts
  <2>1. pos = started + 1 /\ pos \in Components /\ state = "starting" /\ started' = pos
    BY <1>3 DEF ComponentStarts, GoOn, Types, PositionOfCall, StateOfCall, Starting, Components
  <2>2. comp'[pos] /\ \A c \in Components \ {pos} : comp'[c] = comp[c]
    BY <1>3, <2>1 DEF ComponentStarts, Flags
  <2>3. refused' = refused \ {pos}
    BY <1>3 DEF ComponentStarts
  <2>4. \A c \in Components : c <= pos => comp'[c]
    BY <1>3, <2>1, <2>2 DEF ComponentStarts, Types, Components
  <2>5. state' \in {"starting", "running"} /\ op' \in {"starting", "started_emit"}
    BY <1>3, <2>1 DEF ComponentStarts, GoOn
  <2>6. \A c \in Components : comp'[c] /\ c \notin refused' => c <= pos
    BY <2>1, <2>2, <2>3 DEF Types, Components
  <2>7. DependenciesAreUp'
    BY <2>1, <2>4, <2>6 DEF Components
  <2>. QED
    BY <2>1, <2>4, <2>5, <2>6, <2>7
<1>4. CASE ComponentFails
  BY <1>4 DEF ComponentFails, UnwindFrom, Types, Components
<1>5. CASE Unwind \/ StopComponent
  <2>1. op \in {"unwinding", "stopping"} /\ ShutdownComponent
    BY <1>5 DEF Unwind, StopComponent
  <2>2. /\ pos \in Components
        /\ comp'[pos] => pos \in refused'
        /\ \A c \in Components : (comp'[c] => comp[c]) /\ (c \in refused => c \in refused')
        /\ \A c \in Components \ {pos} : comp'[c] = comp[c] /\ (c \in refused' => c \in refused)
    BY <2>1, PositionIsDown
  <2>3. \A c \in Components : c > pos - 1 => (comp'[c] => c \in refused')
    BY <2>1, <2>2 DEF Types, Components
  <2>4. DependenciesAreUp'
    BY <2>1, <2>2, <2>3 DEF Types, Components
  <2>5. \/ pos > 1 /\ op' = op /\ pos' = pos - 1 /\ state' = state /\ started' = started
        \/ /\ pos = 1 /\ op' \in {"none", "stopped_emit"} /\ state' \in {"failed", "stopped"}
           /\ started' = 0
    BY <1>5, <2>2 DEF Unwind, StopComponent, UnwindFrom, StopFrom, Components
  <2>6. state \in {"starting", "stopping"}
    BY <2>1 DEF StateOfCall, Starting, Stopping
  <2>. QED
    BY <2>1, <2>2, <2>3, <2>4, <2>5, <2>6 DEF Components
<1>6. CASE StopTasks \/ GraceOver \/ Gathered
  <2>1. state = "stopping" /\ UNCHANGED <<comp, refused>>
    BY <1>6 DEF StopTasks, GraceOver, Gathered, StateOfCall, Stopping
  <2>2. \/ op' \in {"grace", "gather"} /\ UNCHANGED <<state, pos, started>>
        \/ StopFrom(started)
    BY <1>6 DEF StopTasks, GraceOver, Gathered
  <2>. QED
    BY <2>1, <2>2 DEF StopFrom, Types, Components
<1>7. CASE Return \/ ListenerRaises
  BY <1>7 DEF Return, ListenerRaises, LastEmits
<1>8. CASE CallCancelled
  <2>1. op' = "none" /\ UNCHANGED <<state, started, refused>>
    BY <1>8 DEF CallCancelled
  <2>2. CASE UNCHANGED comp
    BY <2>1, <2>2, <1>8 DEF CallCancelled
  <2>3. CASE op \in {"unwinding", "stopping"} /\ comp' = [comp EXCEPT ![pos] = FALSE]
    <3>1. /\ pos \in Components
          /\ ~comp'[pos]
          /\ \A c \in Components \ {pos} : comp'[c] = comp[c]
      BY <2>3 DEF Types, Flags, PositionOfCall, Components
    <3>2. DependenciesAreUp'
      BY <2>1, <2>3, <3>1 DEF Types, Components
    <3>. QED
      BY <2>1, <3>1, <3>2
  <2>. QED
    BY <1>8, <2>2, <2>3 DEF CallCancelled
<1>. QED
  BY <1>1, <1>2, <1>3, <1>4, <1>5, <1>6, <1>7, <1>8 DEF ManagerNext, Startups, Proceed

LEMMA ManagerTasks ==
  ASSUME Types, Flags, StateOfCall, TaskInv, ManagerNext
  PROVE  TaskInv'
<1>. USE DEF TaskInv, WaitsForAll, TasksEndFirst, CutShort, StateOfCall, Starting, Stopping
<1>1. CASE Register \/ Startup \/ Drain \/ Drained \/ Shutdown \/ ShutdownUnstarted
  BY <1>1 DEF Register, Startup, Drain, Drained, Shutdown, ShutdownUnstarted, Unfinished, taskVars
<1>2. CASE StartEmitted \/ ComponentFails \/ Unwind
  BY <1>2 DEF StartEmitted, ComponentFails, Unwind, GoOn, UnwindFrom, Unfinished, taskVars
<1>3. CASE ComponentStarts
  <2>1. op' \notin {"grace", "gather"} /\ UNCHANGED stopping
    BY <1>3 DEF ComponentStarts, GoOn
  <2>2. stopping => UNCHANGED phase
    BY <1>3 DEF ComponentStarts, MayStart, taskVars
  <2>. QED
    BY <1>3, <2>1, <2>2 DEF ComponentStarts, Unfinished
<1>4. CASE StopTasks
  <2>1. UNCHANGED phase /\ stopping' /\ waited' = Unfinished
    BY <1>4 DEF StopTasks
  <2>2. Unfinished' = Unfinished
    BY <2>1 DEF Unfinished
  <2>3. Unfinished # {} => op' \in {"grace", "gather"}
    BY <1>4 DEF StopTasks
  <2>. QED
    BY <2>1, <2>2, <2>3
<1>5. CASE GraceOver
  BY <1>5 DEF GraceOver, Unfinished
<1>6. CASE Gathered
  <2>1. Unfinished = {} /\ UNCHANGED phase
    BY <1>6 DEF Gathered, taskVars
  <2>2. Unfinished' = {}
    BY <2>1 DEF Unfinished
  <2>. QED
    BY <1>6, <2>2 DEF Gathered, StopFrom
<1>7. CASE StopComponent
  BY <1>7 DEF StopComponent, StopFrom, Unfinished, taskVars
<1>8. CASE Return \/ ListenerRaises \/ CallCancelled
  BY <1>8 DEF Return, ListenerRaises, LastEmits, CallCancelled, Unfinished, taskVars
<1>. QED
  BY <1>1, <1>2, <1>3, <1>4, <1>5, <1>6, <1>7, <1>8 DEF ManagerNext, Startups, Proceed

LEMMA NextInv ==
  ASSUME IInv, [Next]_vars
  PROVE  IInv'
<1>. USE DEF IInv
<1>1. CASE ManagerNext
  BY <1>1, ManagerTypes, ManagerFlags, ManagerControl, ManagerComponents, ManagerTasks
<1>2. ASSUME NEW t \in Tasks, TaskNext(t) PROVE IInv'
  <2>1. /\ Types' /\ UNCHANGED <<managerVars, stopping, waited>>
        /\ stopping => Unfinished' \subseteq Unfinished
    BY <1>2, TaskMoves
  <2>2. Flags' /\ StateOfCall' /\ PositionOfCall'
    BY <2>1 DEF Flags, StateOfCall, PositionOfCall, managerVars
  <2>3. ComponentInv'
    BY <2>1 DEF ComponentInv, OwnedIsUp, UnownedIsDown, PrefixOfCall, DependenciesAreUp, Down,
                managerVars
  <2>4. TaskInv'
    BY <2>1 DEF TaskInv, WaitsForAll, TasksEndFirst, CutShort, managerVars
  <2>. QED
    BY <2>1, <2>2, <2>3, <2>4
<1>3. CASE UNCHANGED vars
  <2>1. Types' /\ Flags' /\ StateOfCall' /\ PositionOfCall'
    BY <1>3 DEF vars, managerVars, taskVars, Types, Flags, StateOfCall, PositionOfCall
  <2>2. ComponentInv'
    BY <1>3 DEF vars, managerVars, ComponentInv, OwnedIsUp, UnownedIsDown, PrefixOfCall,
                DependenciesAreUp, Down
  <2>3. TaskInv'
    BY <1>3 DEF vars, managerVars, taskVars, TaskInv, WaitsForAll, TasksEndFirst, CutShort,
                Unfinished
  <2>. QED
    BY <2>1, <2>2, <2>3
<1>. QED
  BY <1>1, <1>2, <1>3 DEF Next, ManagerNext

LEMMA Invariance == Spec => []IInv
BY InitInv, NextInv, PTL DEF Spec

-----------------------------------------------------------------------------
(* lifecycle.py leaves nothing behind: a component that is up is one that  *)
(* the manager will stop, however startup, drain and shutdown are cut      *)
(* short, for any number of components and of faults.                      *)
THEOREM NothingIsOrphaned == Spec => []NothingOrphaned
<1>1. ASSUME Types, Flags, ComponentInv PROVE NothingOrphaned
  <2>1. TypeOK
    BY <1>1 DEF Types, Flags, TypeOK
  <2>. QED
    BY <1>1, <2>1 DEF NothingOrphaned, ComponentInv, OwnedIsUp, UnownedIsDown, Down
<1>. QED
  BY <1>1, Invariance, PTL DEF IInv

(* Components start in their order and stop in reverse, unwinding and      *)
(* restarts included: none is up without those registered before it.       *)
THEOREM DependenciesStayUp == Spec => []DependenciesAreUp
<1>1. IInv => DependenciesAreUp
  BY DEF IInv, ComponentInv
<1>. QED
  BY <1>1, Invariance, PTL

(* Once the supervisor has stopped its tasks, none of them is alive: a     *)
(* restart never slips through, for any number of tasks and restarts.      *)
THEOREM TasksEndBeforeComponents == Spec => []TasksEndFirst
<1>1. IInv => TasksEndFirst
  BY DEF IInv, TaskInv
<1>. QED
  BY <1>1, Invariance, PTL

-----------------------------------------------------------------------------
(* Shutdown comes to an end                                                *)

\* After a round the task backs off or has ended.
LEMMA RoundEnds ==
  ASSUME Types, NEW t \in Tasks, NEW failed, Conclude(t, failed)
  PROVE  /\ phase'[t] = "sleeping" \/ phase'[t] = "done"
         /\ \A u \in Tasks \ {t} : phase'[u] = phase[u]
<1>1. \E p \in {"sleeping", "done"} : phase' = [phase EXCEPT ![t] = p]
  BY DEF Conclude
<1>. QED
  BY <1>1 DEF Types

\* The step of a task of a supervisor that stops.
LEMMA TaskWindsDown ==
  ASSUME Types, stopping, NEW t \in Tasks, TaskNext(t)
  PROVE  /\ \A u \in Tasks \ {t} : phase'[u] = phase[u]
         /\ RoundsLeft(phase'[t]) <= RoundsLeft(phase[t])
         /\ TaskStep(t) => RoundsLeft(phase'[t]) < RoundsLeft(phase[t])
<1>1. phase \in [Tasks -> {"none", "gated", "factory", "reporting", "sleeping", "done"}]
  BY DEF Types
<1>2. CASE TaskStep(t)
  <2>1. CASE Enter(t)
    BY <1>1, <2>1 DEF Enter, RoundsLeft
  <2>2. CASE Reported(t)
    <3>1. phase[t] = "reporting" /\ Conclude(t, TRUE)
      BY <2>2 DEF Reported
    <3>2. (phase'[t] = "sleeping" \/ phase'[t] = "done")
          /\ \A u \in Tasks \ {t} : phase'[u] = phase[u]
      BY <3>1, RoundEnds
    <3>. QED
      BY <3>1, <3>2 DEF RoundsLeft
  <2>3. CASE CancelLands(t)
    BY <1>1, <2>3 DEF CancelLands, Unfinished, RoundsLeft
  <2>. QED
    BY <1>2, <2>1, <2>2, <2>3 DEF TaskStep
<1>3. CASE ~TaskStep(t)
  <2>1. CASE StartSoon(t)
    BY <2>1 DEF StartSoon, MayStart
  <2>2. CASE FactoryReturns(t)
    <3>1. phase[t] = "factory" /\ Conclude(t, FALSE)
      BY <2>2 DEF FactoryReturns
    <3>2. (phase'[t] = "sleeping" \/ phase'[t] = "done")
          /\ \A u \in Tasks \ {t} : phase'[u] = phase[u]
      BY <3>1, RoundEnds
    <3>. QED
      BY <1>3, <3>1, <3>2 DEF RoundsLeft
  <2>3. CASE FactoryRaises(t)
    BY <1>1, <1>3, <2>3 DEF FactoryRaises, RoundsLeft
  <2>4. CASE HandlerRaises(t)
    BY <1>1, <1>3, <2>4 DEF HandlerRaises, RoundsLeft
  <2>5. CASE CancelTask(t)
    BY <1>1, <1>3, <2>5 DEF CancelTask, RoundsLeft
  <2>. QED
    BY <1>3, <2>1, <2>2, <2>3, <2>4, <2>5 DEF TaskNext
<1>. QED
  BY <1>2, <1>3

\* The manager leaves the tasks of a supervisor that stops where they are.
LEMMA ManagerStartsNothing ==
  ASSUME Types, stopping, ManagerNext
  PROVE  phase' = phase
<1>1. CASE ComponentStarts
  BY <1>1 DEF ComponentStarts, MayStart, taskVars
<1>2. CASE Register \/ Startup \/ Drain \/ Drained \/ Shutdown \/ ShutdownUnstarted
  BY <1>2 DEF Register, Startup, Drain, Drained, Shutdown, ShutdownUnstarted, taskVars
<1>3. CASE StartEmitted \/ ComponentFails \/ Unwind
  BY <1>3 DEF StartEmitted, ComponentFails, Unwind, taskVars
<1>4. CASE StopTasks \/ GraceOver \/ Gathered \/ StopComponent
  BY <1>4 DEF StopTasks, GraceOver, Gathered, StopComponent, taskVars
<1>5. CASE Return \/ ListenerRaises \/ CallCancelled
  BY <1>5 DEF Return, ListenerRaises, CallCancelled, taskVars
<1>. QED
  BY <1>1, <1>2, <1>3, <1>4, <1>5 DEF ManagerNext, Startups, Proceed

(* A supervisor that stops starts and restarts nothing: TaskSupervisor     *)
(* refuses new tasks, and the loop of _run ends at its next round.         *)
THEOREM TasksOnlyWindDown == Spec => TasksWindDown
<1>. DEFINE Step ==
       stopping =>
         \A t \in Tasks :
           /\ RoundsLeft(phase'[t]) <= RoundsLeft(phase[t])
           /\ TaskStep(t) => RoundsLeft(phase'[t]) < RoundsLeft(phase[t])
<1>1. ASSUME Types, Next, stopping, NEW t \in Tasks
      PROVE  /\ RoundsLeft(phase'[t]) <= RoundsLeft(phase[t])
             /\ TaskStep(t) => RoundsLeft(phase'[t]) < RoundsLeft(phase[t])
  <2>0. RoundsLeft(phase[t]) \in Nat
    BY DEF RoundsLeft
  <2>1. CASE TaskStep(t)
    BY <1>1, <2>1, TaskWindsDown DEF TaskNext
  <2>2. CASE ~TaskStep(t)
    <3>1. CASE ManagerNext
      <4>1. phase' = phase
        BY <1>1, <3>1, ManagerStartsNothing
      <4>. QED
        BY <2>0, <2>2, <4>1
    <3>2. ASSUME NEW u \in Tasks, TaskNext(u)
          PROVE  RoundsLeft(phase'[t]) <= RoundsLeft(phase[t])
      <4>1. CASE u = t
        BY <1>1, <3>2, <4>1, TaskWindsDown
      <4>2. CASE u # t
        <5>1. phase'[t] = phase[t]
          BY <1>1, <3>2, <4>2, TaskWindsDown
        <5>. QED
          BY <2>0, <5>1
      <4>. QED
        BY <4>1, <4>2
    <3>. QED
      BY <1>1, <2>2, <3>1, <3>2 DEF Next, ManagerNext
  <2>. QED
    BY <2>1, <2>2
<1>2. IInv /\ [Next]_vars => [Step]_vars
  BY <1>1 DEF IInv
<1>. QED
  BY <1>2, Invariance, PTL DEF Spec, TasksWindDown

LEMMA GatheredNext ==
  ASSUME IInv, GatheredTasksEnd, [Next]_vars
  PROVE  GatheredTasksEnd'
<1>. USE DEF IInv, Types, GatheredTasksEnd, Unfinished
<1>1. CASE ManagerNext
  <2>1. CASE op' # "gather"
    BY <2>1
  <2>2. CASE StopTasks /\ op' = "gather"
    <3>1. ~stopping
      BY <2>2 DEF StopTasks, StopFrom, TaskInv, TasksEndFirst, CutShort
    <3>. QED
      BY <2>2, <3>1 DEF StopTasks, StopFrom
  <2>3. CASE GraceOver
    BY <2>3 DEF GraceOver, TaskInv, WaitsForAll
  <2>4. CASE op = "gather" /\ op' = "gather" /\ ManagerNext /\ ~StopTasks /\ ~GraceOver
    <3>1. Register
      BY <2>4 DEF ManagerNext, Startups, Proceed, Startup, StartEmitted, ComponentStarts,
         ComponentFails, Unwind, Drain, Drained, Shutdown, ShutdownUnstarted, Gathered, StopFrom,
         StopComponent, Return, LastEmits, ListenerRaises, CallCancelled
    <3>. QED
      BY <2>4, <3>1 DEF Register, StateOfCall, Stopping
  <2>5. op' = "gather" /\ op # "gather" => StopTasks \/ GraceOver
    BY <1>1 DEF ManagerNext, Startups, Proceed, Register, Startup, StartEmitted, GoOn,
       ComponentStarts, ComponentFails, Unwind, UnwindFrom, Drain, Drained, Shutdown,
       ShutdownUnstarted, Gathered, StopFrom, StopComponent, Return, ListenerRaises, CallCancelled
  <2>6. op = "gather" => ~StopTasks /\ ~GraceOver
    BY DEF StopTasks, GraceOver
  <2>. QED
    BY <1>1, <2>1, <2>2, <2>3, <2>4, <2>5, <2>6
<1>2. ASSUME NEW t \in Tasks, TaskNext(t)
      PROVE  GatheredTasksEnd'
  <2>0. UNCHANGED <<op, stopping, waited>> /\ (stopping => Unfinished' \subseteq Unfinished)
    BY <1>2, TaskMoves DEF managerVars
  <2>1. CASE op # "gather"
    BY <2>0, <2>1
  <2>2. CASE op = "gather"
    <3>1. stopping /\ ~StartSoon(t)
      BY <2>2 DEF StartSoon, MayStart
    <3>2. \A u \in Tasks \ {t} : phase'[u] = phase[u] /\ (u \in cancelled => u \in cancelled')
      BY <1>2, <3>1 DEF TaskNext, TaskStep, Enter, Reported, CancelLands, FactoryReturns,
         FactoryRaises, HandlerRaises, CancelTask, Conclude
    <3>3. phase'[t] = "factory" => phase[t] = "factory" /\ t \in cancelled'
      BY <1>2, <2>2, <3>1 DEF TaskNext, TaskStep, Enter, Reported, CancelLands, FactoryReturns,
         FactoryRaises, HandlerRaises, CancelTask, Conclude
    <3>. QED
      BY <2>0, <2>2, <3>1, <3>2, <3>3
  <2>. QED
    BY <2>1, <2>2
<1>3. CASE UNCHANGED vars
  BY <1>3 DEF vars, managerVars, taskVars
<1>. QED
  BY <1>1, <1>2, <1>3 DEF Next, ManagerNext

(* TaskSupervisor.shutdown gathers no task that nobody stops: what it      *)
(* waits for is cancelled or past its factory, whatever the grace period,  *)
(* the restarts and the calls cut short before it have left.               *)
THEOREM GatherNeverHangs == Spec => []GatheredTasksEnd
<1>1. Init => GatheredTasksEnd
  BY DEF Init, GatheredTasksEnd
<1>2. IInv /\ GatheredTasksEnd /\ [Next]_vars => GatheredTasksEnd'
  BY GatheredNext
<1>. QED
  BY <1>1, <1>2, Invariance, PTL DEF Spec
=============================================================================
