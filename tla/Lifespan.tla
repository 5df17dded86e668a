------------------------------ MODULE Lifespan ------------------------------
(***************************************************************************)
(* One ASGI worker of a Django application (broka.integrations.django):    *)
(* DjangoBrokerASGI starts and stops the broker with the lifespan, and     *)
(* publish_on_commit leaves a task in _background_tasks for each committed *)
(* transaction, which the shutdown drains first.                           *)
(***************************************************************************)
EXTENDS Integers, FiniteSets

CONSTANTS Deferred   \* publishes scheduled by transaction.on_commit

VARIABLES
  lifespan,      \* "waiting", "starting", "serving", "draining", "stopping", "complete",
                 \* "startup_failed", "shutdown_failed" or, with no answer sent, "aborted"
  brokerUp,      \* the broker runs
  task,          \* of each publish: "none", "running", "published", "failed" or "cancelled"
  background,    \* _background_tasks
  drained,       \* the tasks that drain_publish_tasks gathers
  refused        \* history: the shutdown of the broker itself raised

lifespanVars == <<lifespan, brokerUp, task, background, drained, refused>>

Startup ==
  /\ lifespan = "waiting"
  /\ lifespan' = "starting"
  /\ UNCHANGED <<brokerUp, task, background, drained, refused>>

\* broker.startup raises before the broker runs, or, in a critical listener of
\* engine_selected or startup_completed, with the broker running.
StartupEnds ==
  /\ lifespan = "starting"
  /\ \/ lifespan' = "serving" /\ brokerUp' = TRUE
     \/ lifespan' = "startup_failed" /\ brokerUp' \in BOOLEAN
  /\ UNCHANGED <<task, background, drained, refused>>

\* The transaction of an async request commits; requests may outlast the shutdown message.
Commit(t) ==
  /\ lifespan \in {"serving", "draining", "stopping"} /\ task[t] = "none"
  /\ task' = [task EXCEPT ![t] = "running"]
  /\ background' = background \cup {t}
  /\ UNCHANGED <<lifespan, brokerUp, drained, refused>>

\* broker.publish ends, or the task is cancelled.  A publish under way outlives the shutdown
\* of the broker and may connect its engine again.
PublishEnds(t) ==
  /\ task[t] = "running"
  /\ \E outcome \in {"published", "failed", "cancelled"} : task' = [task EXCEPT ![t] = outcome]
  /\ UNCHANGED <<lifespan, brokerUp, background, drained, refused>>

\* _task_done, one turn of the loop later
TaskDone(t) ==
  /\ t \in background /\ task[t] # "running"
  /\ background' = background \ {t}
  /\ UNCHANGED <<lifespan, brokerUp, task, drained, refused>>

\* drain_publish_tasks gathers the tasks there are.
ShutdownMessage ==
  /\ lifespan = "serving"
  /\ drained' = background
  /\ lifespan' = IF background = {} THEN "stopping" ELSE "draining"
  /\ UNCHANGED <<brokerUp, task, background, refused>>

\* Faulty variant, for mutation: the first publish that ends will do.
GatheredOne == \E t \in drained : task[t] # "running"

Gathered == \A t \in drained : task[t] = "published"

DrainReturns ==
  /\ lifespan = "draining" /\ Gathered
  /\ lifespan' = "stopping"
  /\ UNCHANGED <<brokerUp, task, background, drained, refused>>

\* gather passes the first failure on: the broker is not shut down.
DrainRaises ==
  /\ lifespan = "draining" /\ \E t \in drained : task[t] = "failed"
  /\ lifespan' = "shutdown_failed"
  /\ UNCHANGED <<brokerUp, task, background, drained, refused>>

\* The CancelledError of a cancelled publish is no Exception: it leaves the application
\* without an answer to the server.
DrainAborts ==
  /\ lifespan = "draining" /\ \E t \in drained : task[t] = "cancelled"
  /\ lifespan' = "aborted"
  /\ UNCHANGED <<brokerUp, task, background, drained, refused>>

ShutdownEnds ==
  /\ lifespan = "stopping"
  /\ \/ lifespan' = "complete" /\ brokerUp' = FALSE /\ UNCHANGED refused
     \/ lifespan' = "shutdown_failed" /\ refused' = TRUE /\ brokerUp' \in BOOLEAN
  /\ UNCHANGED <<task, background, drained>>

LifespanInit ==
  /\ lifespan = "waiting" /\ brokerUp = FALSE /\ refused = FALSE
  /\ task = [t \in Deferred |-> "none"] /\ background = {} /\ drained = {}

LifespanNext ==
  \/ Startup \/ StartupEnds \/ ShutdownMessage
  \/ DrainReturns \/ DrainRaises \/ DrainAborts \/ ShutdownEnds
  \/ \E t \in Deferred : Commit(t) \/ PublishEnds(t) \/ TaskDone(t)

-----------------------------------------------------------------------------
(* Properties                                                              *)

(* A completed shutdown has waited for every publish that was scheduled    *)
(* when it began, and none of them failed while it drained; one that ends  *)
(* without shutting the broker down does so for a publish it was draining: *)
(* one that failed, reported, or one that was cancelled, unreported.       *)
ShutdownDrains ==
  /\ lifespan = "complete" => ~brokerUp /\ \A t \in drained : task[t] = "published"
  /\ lifespan = "shutdown_failed" /\ ~refused =>
       brokerUp /\ \E t \in drained : task[t] = "failed"
  /\ lifespan = "aborted" => brokerUp /\ \E t \in drained : task[t] = "cancelled"
  /\ \A t \in Deferred : task[t] = "running" => t \in background

=============================================================================
