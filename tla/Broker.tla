------------------------------- MODULE Broker --------------------------------
(***************************************************************************)
(* broka.broker: startup, shutdown, subscribe, unsubscribe and request of  *)
(* the Broker facade, over one engine and its ConnectionManagers.          *)
(*                                                                         *)
(* The lifecycle lock is held across the awaits of startup and shutdown,   *)
(* so Boot stands for whoever holds it.  Every other operation checks once *)
(* that the broker runs and then awaits: the engine lock and a connect,    *)
(* the creation of a consumer, a publish, a reply.  A step goes from one   *)
(* suspension to the next.  Every connect makes a new ConnectionManager,   *)
(* numbered here; a publish alone is the engine look-up of a request.  A   *)
(* connection is lost, connected again and restored while calls go on; how *)
(* one restore interleaves with pauses and closes is in Subscriptions.  A  *)
(* subscription made anew on another connection is another subscription.   *)
(* Events after which nothing is left to do are left out.                  *)
(***************************************************************************)
EXTENDS Naturals, FiniteSets

CONSTANTS
  Boot,            \* the caller of startup or shutdown
  Reply,           \* the shared reply subscription
  Subscribers,     \* subscribe calls of the application
  Requests,        \* request calls; each has its own correlation_id
  MaxPending,      \* rpc_max_pending
  MaxStarts,       \* bound: calls of startup
  MaxCalls,        \* bound: calls of subscribe and request, of those the sets name
  MaxFaults        \* bound: cancelled and raising calls, connections lost, and those
                   \* connected again in no table

Subs == Subscribers \cup {Reply}
Callers == Subs \cup Requests
Actors == Callers \cup {Boot}
Connections == 1..(MaxStarts + Cardinality(Callers))

ASSUME BrokerAssumption ==
  /\ IsFiniteSet(Actors)
  /\ Boot \notin Callers /\ Reply \notin Subscribers /\ Subs \cap Requests = {}
  /\ MaxPending \in Nat \ {0}
  /\ MaxStarts \in Nat /\ MaxCalls \in Nat
  /\ MaxFaults \in Nat

VARIABLES
  state,       \* BrokerState
  pc,          \* what each call awaits
  conn,        \* the connection a call works with
  table,       \* _engines and _connections: the connection of the engine, or 0
  opened,      \* connections opened so far
  alive,       \* connections whose transport is up
  restoring,   \* those of them that are calling their restore callbacks
  dying,       \* the connection _disconnect_all shuts down, or 0
  records,     \* _subscriptions, as <<subscription, connection of its consumer>>
  consumers,   \* engine consumers that exist
  closing,     \* subscriptions whose consumer.close is awaited
  todo,        \* the snapshot shutdown closes
  replySet,    \* _reply_subscription is not None
  pending,     \* _pending_replies
  future,      \* the future of each request
  sent,        \* history: requests the transport accepted
  missed,      \* history: subscriptions, like records, that a reconnect may pass over
  leaked,      \* history: requests that raised between their entry and the try
  abandoned,   \* history: connections that have been up in no table
  overlapped,  \* history: calls were under way when the last shutdown began
  starts,      \* calls of startup so far
  faults

connVars == <<table, opened, alive, dying, restoring>>
subVars == <<records, consumers, closing, missed>>
rpcVars == <<replySet, pending, future, sent>>
history == <<abandoned, overlapped>>
counters == <<starts, faults>>
vars == <<state, pc, conn, connVars, subVars, todo, rpcVars, leaked, history, counters>>

Fault == faults < MaxFaults /\ faults' = faults + 1

Goto(a, where) == pc' = [pc EXCEPT ![a] = where]

MayCall == Cardinality({c \in Subscribers \cup Requests : pc[c] # "idle"}) < MaxCalls

\* The request that holds the reply lock while it subscribes.
ReplyOwner == {r \in Requests : pc[r] = "subscribing"}

-----------------------------------------------------------------------------
(* request: the entry into the bounded table                               *)

\* Full; or entered and raised outside the try; or on its way to the engine.
Entries(t) ==
  IF Cardinality(pending) >= MaxPending
    THEN {[to |-> "done", listed |-> FALSE]}
    ELSE {[to |-> "done", listed |-> TRUE],
          [to |-> IF t = 0 THEN "connect" ELSE "publish", listed |-> TRUE]}

\* What r does once the reply subscription exists; freed are callers it releases.
EnterTable(r, freed) ==
  \E e \in Entries(table) :
    /\ pc' = [a \in Actors |-> IF a = r THEN e.to ELSE IF a \in freed THEN "idle" ELSE pc[a]]
    /\ conn' = [conn EXCEPT ![r] = table]
    /\ pending' = IF e.listed THEN pending \cup {r} ELSE pending
    /\ future' = IF e.listed THEN [future EXCEPT ![r] = "open"] ELSE future
    /\ leaked' = IF e.listed /\ e.to = "done" THEN leaked \cup {r} ELSE leaked

-----------------------------------------------------------------------------
(* subscribe                                                               *)

\* router.register and _get_engine, which returns an existing engine at once
StartSubscribe(s, r) ==
  /\ pc' = [a \in Actors |-> IF a = s THEN (IF table = 0 THEN "connect" ELSE "create")
                             ELSE IF a = r THEN "subscribing" ELSE pc[a]]
  /\ conn' = [conn EXCEPT ![s] = table]
  /\ missed' = missed \ {<<s, table>>}

Subscribe(s) ==
  /\ s \in Subscribers
  /\ pc[s] = "idle" /\ MayCall
  /\ state = "running"
  /\ StartSubscribe(s, s)
  /\ UNCHANGED <<state, connVars, records, consumers, closing, todo, rpcVars, leaked, history,
                 counters>>

\* A subscribe that ends without a subscription, and with it the request that waits for it.
Unsubscribed(s) ==
  pc' = [a \in Actors |-> IF a = s THEN (IF s = Reply THEN "idle" ELSE "done")
                          ELSE IF s = Reply /\ a \in ReplyOwner THEN "done" ELSE pc[a]]

\* The subscriptions of connection c, which have a restore callback, and those on their way.
Recorded(c) == {p \in records : p[2] = c}
InCreation(c) == {<<s, c>> : s \in {q \in Subs : pc[q] = "create" /\ conn[q] = c}}

\* create_consumer returns: record, restore callback and activation follow.  If the
\* connection was lost or shut down meanwhile, its disconnect may have closed the consumer.
Created(s) ==
  /\ s \in Subs
  /\ pc[s] = "create"
  /\ conn[s] \in alive \ restoring \/ <<s, conn[s]>> \in missed
  /\ records' = records \cup {<<s, conn[s]>>}
  /\ \/ consumers' = consumers \cup {<<s, conn[s]>>} /\ missed' = missed \ {<<s, conn[s]>>}
     \/ <<s, conn[s]>> \in missed /\ UNCHANGED <<consumers, missed>>
  /\ IF s = Reply
       THEN /\ replySet' = TRUE
            /\ \E r \in ReplyOwner : EnterTable(r, {Reply})
       ELSE Goto(s, "done") /\ UNCHANGED <<conn, replySet, pending, future, leaked>>
  /\ UNCHANGED <<state, connVars, closing, todo, sent, history, counters>>

\* connection.run raises: the registration is taken back.
CreateFails(s) ==
  /\ s \in Subs
  /\ pc[s] = "create"
  /\ Unsubscribed(s)
  /\ UNCHANGED <<state, conn, connVars, subVars, todo, rpcVars, leaked,
                 history, counters>>

\* unregister_restore_callback: the iteration of a restore may pass the next one over.
RemoveCallback(p) ==
  \/ UNCHANGED missed
  \/ /\ p[2] \in restoring
     /\ \E q \in Recorded(p[2]) \ {p} : missed' = missed \cup {q}

\* Subscription.close by its owner pops the record and awaits consumer.close.
Unsubscribe(p) ==
  /\ p \in records
  /\ p[1] # Reply
  /\ records' = records \ {p}
  /\ closing' = closing \cup {p}
  /\ RemoveCallback(p)
  /\ UNCHANGED <<state, pc, conn, connVars, consumers, todo, rpcVars, leaked, history, counters>>

\* consumer.close returns, or raises before the registration is removed.
CloseEnds(p) ==
  /\ p \in closing
  /\ closing' = closing \ {p}
  /\ consumers' = consumers \ {p}
  /\ UNCHANGED <<state, pc, conn, connVars, records, missed, todo, rpcVars, leaked, history,
                 counters>>

-----------------------------------------------------------------------------
(* request                                                                 *)

\* _ensure_reply_subscription with the reply lock in hand; subscribe checks the state again.
EnsureReply(r) ==
  \/ /\ replySet
     /\ EnterTable(r, {})
     /\ UNCHANGED missed
  \/ /\ ~replySet
     /\ state = "running"
     /\ StartSubscribe(Reply, r)
     /\ UNCHANGED <<pending, future, leaked>>
  \/ /\ ~replySet
     /\ state # "running"
     /\ Goto(r, "done")
     /\ UNCHANGED <<conn, missed, pending, future, leaked>>

Request(r) ==
  /\ r \in Requests
  /\ pc[r] = "idle" /\ MayCall
  /\ state = "running"
  /\ IF ReplyOwner = {}
       THEN EnsureReply(r)
       ELSE Goto(r, "ensure") /\ UNCHANGED <<conn, missed, pending, future, leaked>>
  /\ UNCHANGED <<state, connVars, records, consumers, closing, todo, replySet, sent, history,
                 counters>>

\* The reply lock is handed on.
GotReplyLock(r) ==
  /\ r \in Requests
  /\ pc[r] = "ensure"
  /\ ReplyOwner = {}
  /\ EnsureReply(r)
  /\ UNCHANGED <<state, connVars, records, consumers, closing, todo, replySet, sent, history,
                 counters>>

\* Faulty variant, for mutation: the entry stays in the table.
FinishKeepingEntry(r) ==
  /\ future' = IF future[r] = "open" THEN [future EXCEPT ![r] = "cancelled"] ELSE future
  /\ Goto(r, "done")
  /\ UNCHANGED pending

\* The finally clause of request.
Finish(r) ==
  /\ pending' = pending \ {r}
  /\ future' = IF future[r] = "open" THEN [future EXCEPT ![r] = "cancelled"] ELSE future
  /\ Goto(r, "done")

\* The transport accepts the request while publish is awaited.
Transmit(r) ==
  /\ r \in Requests \ sent
  /\ pc[r] = "publish"
  /\ conn[r] \in alive \ restoring
  /\ sent' = sent \cup {r}
  /\ UNCHANGED <<state, pc, conn, connVars, subVars, todo, replySet, pending, future, leaked,
                 history, counters>>

\* _publish_envelope returns and the future is awaited, or it raises.
PublishEnds(r) ==
  /\ r \in Requests
  /\ pc[r] = "publish"
  /\ \/ r \in sent /\ Goto(r, "wait") /\ UNCHANGED <<pending, future>>
     \/ Finish(r)
  /\ UNCHANGED <<state, conn, connVars, subVars, todo, replySet, sent, leaked, history, counters>>

\* dispatch_reply, which drops replies nobody waits for and duplicates
DispatchReply(r) ==
  /\ r \in sent \cap pending
  /\ future[r] = "open"
  /\ \E c \in Connections : <<Reply, c>> \in consumers
  /\ future' = [future EXCEPT ![r] = "result"]
  /\ UNCHANGED <<state, pc, conn, connVars, subVars, todo, replySet, pending, sent, leaked,
                 history, counters>>

\* Faulty variant, for mutation: a request without a timeout.
EndsWhenDone(r) ==
  /\ r \in Requests
  /\ pc[r] = "wait"
  /\ future[r] # "open"
  /\ Finish(r)
  /\ UNCHANGED <<state, conn, connVars, subVars, todo, replySet, sent, leaked, history, counters>>

\* The future is done, or the timeout expires.
WaitEnds(r) ==
  /\ r \in Requests
  /\ pc[r] = "wait"
  /\ Finish(r)
  /\ UNCHANGED <<state, conn, connVars, subVars, todo, replySet, sent, leaked, history, counters>>

-----------------------------------------------------------------------------
(* _connect_engine, under the engine lock                                  *)

Connecting == {a \in Actors : pc[a] = "connecting"}

\* Where the caller of _get_engine goes on with connection c.
Proceed(a, c) ==
  /\ conn' = [conn EXCEPT ![a] = c]
  /\ IF a = Boot
       THEN \/ Goto(a, "idle") /\ state' = "running" /\ table' = c /\ UNCHANGED dying
            \/ Goto(a, "failing") /\ state' = "failed" /\ table' = 0 /\ dying' = c
       ELSE /\ Goto(a, IF a \in Subs THEN "create" ELSE "publish")
            /\ table' = c
            /\ UNCHANGED <<state, dying>>

\* The lock is free: somebody has connected meanwhile, or it is done now.
GotEngineLock(a) ==
  /\ pc[a] = "connect"
  /\ Connecting = {}
  /\ IF table # 0
       THEN Proceed(a, table)
       ELSE Goto(a, "connecting") /\ UNCHANGED <<state, conn, table, dying>>
  /\ UNCHANGED <<opened, alive, restoring, subVars, todo, rpcVars, leaked, history, counters>>

Connected(a) ==
  /\ pc[a] = "connecting"
  /\ opened' = opened + 1
  /\ alive' = alive \cup {opened + 1}
  /\ Proceed(a, opened + 1)
  /\ UNCHANGED <<restoring, subVars, todo, rpcVars, leaked, history, counters>>

\* The manager is CONNECTED before it emits "connected" and before the tables know it.
LeftUp ==
  /\ opened' = opened + 1
  /\ alive' = alive \cup {opened + 1}
  /\ abandoned' = abandoned \cup {opened + 1}

\* A failed startup has nothing to disconnect; a failed subscribe keeps its registration.
\* With a listener of "connected" and then the shutdown raising, the transport stays up.
ConnectFails(a) ==
  /\ pc[a] = "connecting"
  /\ \/ UNCHANGED <<opened, alive, abandoned, faults>>
     \/ LeftUp /\ Fault
  /\ CASE a = Boot -> Goto(a, "idle") /\ state' = "failed" /\ UNCHANGED <<pending, future, leaked>>
       [] a \in Subs -> Unsubscribed(a) /\ UNCHANGED <<state, pending, future, leaked>>
       [] OTHER -> Finish(a) /\ UNCHANGED <<state, leaked>>
  /\ UNCHANGED <<conn, table, dying, restoring, subVars, todo, replySet, sent, overlapped, starts>>

-----------------------------------------------------------------------------
(* The connection managers                                                 *)

\* The transport of c fails, or a restore callback raises; the engine is disconnected.
Lost(c) ==
  /\ c \in alive
  /\ IF c \in restoring THEN UNCHANGED faults ELSE Fault
  /\ alive' = alive \ {c} /\ restoring' = restoring \ {c}
  /\ consumers' = {p \in consumers : p[2] # c}
  /\ missed' = missed \cup InCreation(c)
  /\ UNCHANGED <<state, pc, conn, table, opened, dying, records, closing, todo, rpcVars, leaked,
                 history, starts>>

\* The heartbeat, or a call that goes on with its manager, closed or not, connects c again.
Redial(c) ==
  /\ c \in 1..opened \ alive
  /\ \/ c \in {table, dying} \cup abandoned
     \/ \E a \in Callers : pc[a] \in {"create", "publish"} /\ conn[a] = c
  /\ alive' = alive \cup {c} /\ restoring' = restoring \cup {c}
  /\ missed' = missed \ Recorded(c)
  /\ IF c \in {table, dying}
       THEN UNCHANGED <<abandoned, faults>>
       ELSE Fault /\ abandoned' = abandoned \cup {c}
  /\ UNCHANGED <<state, pc, conn, table, opened, dying, records, consumers, closing, todo, rpcVars,
                 leaked, overlapped, starts>>

\* The restore callbacks have returned.
Restored(c) ==
  /\ c \in restoring
  /\ restoring' = restoring \ {c}
  /\ \E late \in SUBSET (Recorded(c) \cap missed) :
       /\ consumers' = consumers \cup (Recorded(c) \ missed) \cup late
       /\ missed' = missed \ late
  /\ UNCHANGED <<state, pc, conn, table, opened, alive, dying, records, closing, todo, rpcVars,
                 leaked, history, counters>>

-----------------------------------------------------------------------------
(* startup and shutdown                                                    *)

Startup ==
  /\ pc[Boot] = "idle"
  /\ state \in {"new", "stopped", "failed"}
  /\ starts < MaxStarts
  /\ starts' = starts + 1
  /\ state' = "starting"
  /\ Goto(Boot, "start_emit")
  /\ UNCHANGED <<conn, connVars, subVars, todo, rpcVars, leaked, history, faults>>

StartEmitted ==
  /\ pc[Boot] = "start_emit"
  /\ Goto(Boot, "connect")
  /\ UNCHANGED <<state, conn, connVars, subVars, todo, rpcVars, leaked, history, counters>>

ShutdownUnstarted ==
  /\ pc[Boot] = "idle"
  /\ state = "new"
  /\ state' = "stopped"
  /\ UNCHANGED <<pc, conn, connVars, subVars, todo, rpcVars, leaked, history, counters>>

UnderWay == {a \in Callers : pc[a] \notin {"idle", "wait", "done"}}

Shutdown ==
  /\ pc[Boot] = "idle"
  /\ state \in {"starting", "running", "failed"}
  /\ state' = "draining"
  /\ overlapped' = (UnderWay # {})
  /\ Goto(Boot, "stop_emit")
  /\ UNCHANGED <<conn, connVars, subVars, todo, rpcVars, leaked, abandoned, counters>>

\* Faulty variant, for mutation: the reply subscription is kept.
FinishClosingKeepingReply ==
  /\ future' = [r \in Requests |-> IF r \in pending /\ future[r] = "open" THEN "failed"
                                                                          ELSE future[r]]
  /\ pending' = {}
  /\ dying' = table
  /\ table' = 0
  /\ IF table = 0 THEN Goto(Boot, "idle") /\ state' = "stopped"
                  ELSE Goto(Boot, "disconnect") /\ UNCHANGED state
  /\ UNCHANGED replySet

\* Faulty variant, for mutation: the engines are forgotten, not disconnected.
FinishClosingForgetting ==
  /\ replySet' = FALSE
  /\ future' = [r \in Requests |-> IF r \in pending /\ future[r] = "open" THEN "failed"
                                                                          ELSE future[r]]
  /\ pending' = {}
  /\ table' = 0
  /\ Goto(Boot, "idle") /\ state' = "stopped"
  /\ UNCHANGED dying

\* Pending requests fail and the engines are disconnected.
FinishClosing ==
  /\ replySet' = FALSE
  /\ future' = [r \in Requests |-> IF r \in pending /\ future[r] = "open" THEN "failed"
                                                                          ELSE future[r]]
  /\ pending' = {}
  /\ dying' = table
  /\ table' = 0
  /\ IF table = 0 THEN Goto(Boot, "idle") /\ state' = "stopped"
                  ELSE Goto(Boot, "disconnect") /\ UNCHANGED state

StopEmitted ==
  /\ pc[Boot] = "stop_emit"
  /\ todo' = records
  /\ IF records = {} THEN FinishClosing
                     ELSE Goto(Boot, "closing")
                            /\ UNCHANGED <<state, table, dying, replySet, pending, future>>
  /\ UNCHANGED <<conn, opened, alive, restoring, subVars, sent, leaked, history, counters>>

\* Subscriptions are closed one by one; Subscription.close waits for a close under way.
CloseNext(p) ==
  /\ pc[Boot] = "closing"
  /\ p \in todo \cap records
  /\ todo \cap closing = {}
  /\ records' = records \ {p}
  /\ closing' = closing \cup {p}
  /\ RemoveCallback(p)
  /\ UNCHANGED <<state, pc, conn, connVars, consumers, todo, rpcVars, leaked, history, counters>>

AllClosed ==
  /\ pc[Boot] = "closing"
  /\ todo \cap (records \cup closing) = {}
  /\ todo' = {}
  /\ FinishClosing
  /\ UNCHANGED <<conn, opened, alive, restoring, subVars, sent, leaked, history, counters>>

\* connection.shutdown is over, after a restore under way; the consumers end with the
\* connection.  If it raises, nobody hears of it and the transport may still be up.
Disconnected ==
  /\ pc[Boot] \in {"disconnect", "failing"}
  /\ dying \notin restoring
  /\ \/ /\ alive' = alive \ {dying}
        /\ consumers' = {p \in consumers : p[2] # dying}
        /\ missed' = missed \cup InCreation(dying)
        /\ UNCHANGED <<abandoned, faults>>
     \/ /\ Fault
        /\ abandoned' = abandoned \cup {dying}
        /\ UNCHANGED <<alive, consumers, missed>>
  /\ dying' = 0
  /\ state' = IF pc[Boot] = "disconnect" THEN "stopped" ELSE state
  /\ Goto(Boot, "idle")
  /\ UNCHANGED <<conn, table, opened, restoring, records, closing, todo, rpcVars, leaked,
                 overlapped, starts>>

-----------------------------------------------------------------------------
(* Faults                                                                  *)

\* A critical listener raises at an event sent outside the try: the state stays behind.
ListenerRaises ==
  /\ pc[Boot] \in {"start_emit", "stop_emit"}
  /\ Fault
  /\ Goto(Boot, "idle")
  /\ UNCHANGED <<state, conn, connVars, subVars, todo, rpcVars, leaked, history, starts>>

\* The caller of startup or shutdown is cancelled: the state stays behind, and a connection
\* that was just made or was being shut down is in no table.
BootCancelled ==
  /\ pc[Boot] # "idle"
  /\ Fault
  /\ Goto(Boot, "idle")
  /\ todo' = {}
  /\ dying' = 0
  /\ \/ abandoned' = abandoned \cup ({dying} \ {0}) /\ UNCHANGED <<opened, alive>>
     \/ pc[Boot] = "connecting" /\ LeftUp
  /\ UNCHANGED <<state, conn, table, restoring, subVars, rpcVars, leaked, overlapped, starts>>

\* A request is cancelled, and with it the subscribe it awaits, whose registration stays,
\* or the connect, whose connection may be up.
RequestCancelled(r) ==
  /\ pc[r] \in {"ensure", "subscribing", "connect", "connecting", "publish", "wait"}
  /\ Fault
  /\ \/ UNCHANGED <<opened, alive, abandoned>>
     \/ pc[r] = "connecting" /\ LeftUp
  /\ IF pc[r] = "subscribing"
       THEN Unsubscribed(Reply) /\ UNCHANGED <<pending, future>>
       ELSE Finish(r)
  /\ UNCHANGED <<state, conn, table, dying, restoring, subVars, todo, replySet, sent, leaked,
                 overlapped, starts>>

-----------------------------------------------------------------------------
Init ==
  /\ state = "new"
  /\ starts = 0
  /\ pc = [a \in Actors |-> "idle"]
  /\ conn = [a \in Actors |-> 0]
  /\ table = 0 /\ opened = 0 /\ alive = {} /\ dying = 0 /\ restoring = {}
  /\ records = {} /\ consumers = {} /\ closing = {} /\ todo = {} /\ missed = {}
  /\ replySet = FALSE
  /\ pending = {}
  /\ future = [r \in Requests |-> "none"]
  /\ sent = {} /\ leaked = {} /\ abandoned = {}
  /\ overlapped = FALSE
  /\ faults = 0

Lookup(a) == GotEngineLock(a) \/ Connected(a) \/ ConnectFails(a)

Setup(s) == Created(s) \/ CreateFails(s)

Answer(r) == GotReplyLock(r) \/ PublishEnds(r) \/ WaitEnds(r)

Next ==
  \/ Startup \/ StartEmitted \/ ShutdownUnstarted \/ Shutdown \/ StopEmitted \/ AllClosed
  \/ Disconnected \/ ListenerRaises \/ BootCancelled
  \/ \E a \in Actors : Lookup(a)
  \/ \E c \in Connections : Lost(c) \/ Redial(c) \/ Restored(c)
  \/ \E s \in Subs : Subscribe(s) \/ Setup(s)
  \/ \E p \in records : Unsubscribe(p) \/ CloseNext(p)
  \/ \E p \in closing : CloseEnds(p)
  \/ \E r \in Requests : \/ Request(r) \/ Transmit(r) \/ DispatchReply(r) \/ Answer(r)
                         \/ RequestCancelled(r)

Spec == Init /\ [][Next]_vars

(***************************************************************************)
(* A connect, the creation of a consumer, a publish and a wait end, by     *)
(* timeout if not otherwise.  asyncio.Lock is first come, first served, so *)
(* the locks are fair to everyone who waits for them.                      *)
(***************************************************************************)
Fairness ==
  /\ \A a \in Actors : WF_vars(Lookup(a))
  /\ \A s \in Subs : WF_vars(Setup(s))
  /\ \A r \in Requests : WF_vars(Answer(r))

FairSpec == Spec /\ Fairness

-----------------------------------------------------------------------------
(* Properties                                                              *)

TypeOK ==
  /\ state \in {"new", "starting", "running", "draining", "stopped", "failed"}
  /\ {table, dying} \subseteq {0} \cup Connections /\ restoring \subseteq alive
  /\ alive \cup abandoned \subseteq Connections
  /\ records \cup consumers \cup closing \subseteq Subs \X Connections
  /\ pending \subseteq Requests
  /\ future \in [Requests -> {"none", "open", "result", "failed", "cancelled"}]
  /\ Cardinality(Connecting) <= 1 /\ Cardinality(ReplyOwner) <= 1

Stopped == state = "stopped" /\ pc[Boot] = "idle"

(* What a shutdown that begins while no call is under way releases: the     *)
(* connection of the table, wherever cancelled, failed and overlapped      *)
(* startups, shutdowns and calls before it had left one, lost or not;      *)
(* every subscription, and every consumer but those being closed by their  *)
(* owner; every waiting request.  Up may only be a connection that was in  *)
(* no table before: one whose shutdown or first connect was cancelled or   *)
(* raised, or that a call which outlived a shutdown has connected again.   *)
NothingLeft ==
  /\ TypeOK
  /\ Stopped /\ ~overlapped =>
       /\ table = 0 /\ alive \subseteq abandoned
       /\ records = {} /\ \A p \in consumers : p[2] \in abandoned \/ p \in closing
       /\ pending = {} /\ \A r \in Requests : future[r] # "open"

(* The bounded table of pending requests: it never exceeds its limit, it   *)
(* holds no request that is over except those that raised between their    *)
(* entry and the try, and every request that still waits is in it, so that *)
(* its reply finds it.                                                     *)
PendingIsExact ==
  /\ Cardinality(pending) <= MaxPending
  /\ \A r \in pending \ leaked : pc[r] \in {"connect", "connecting", "publish", "wait"}
  /\ \A r \in Requests : pc[r] = "wait" /\ future[r] = "open" => r \in pending

(* A request of a running broker waits only while the reply subscription   *)
(* is recorded with the connection of the table, so that each reconnect    *)
(* restores it, and has its consumer whenever that connection is up, also  *)
(* after losses, failed restores, shutdowns and restarts; provided no call *)
(* was under way in the last shutdown, and unless a reconnect passed it    *)
(* over: its creation overlapped the loss, or another callback was removed *)
(* while the callbacks ran.                                                *)
ReplyPathExists ==
  \A r \in Requests : state = "running" /\ ~overlapped /\ pc[r] = "wait" /\ future[r] = "open" =>
    /\ <<Reply, table>> \in records
    /\ table \in alive \ restoring => <<Reply, table>> \in consumers \cup missed

(* Every request returns or raises, whatever happens to the broker, the    *)
(* reply subscription and the engine meanwhile.                            *)
RequestEnds == \A r \in Requests : (pc[r] \notin {"idle", "done"}) ~> (pc[r] = "done")

\* The await of call a may end: it waits for no lock, or for one that is free.
MayGoOn(a) ==
  \/ pc[a] \in {"connecting", "create", "publish", "wait"}
  \/ pc[a] = "connect" /\ Connecting = {}
  \/ pc[a] = "ensure" /\ ReplyOwner = {}

(* No circular wait: a request that waits for the reply lock or with it    *)
(* waits for a subscribe that goes on, and one that waits for the engine   *)
(* lock for a call that connects.                                          *)
RequestsGoOn ==
  \A r \in Requests : pc[r] \notin {"idle", "done"} =>
    \/ MayGoOn(r)
    \/ pc[r] \in {"ensure", "subscribing"} /\ ReplyOwner # {} /\ MayGoOn(Reply)
    \/ pc[r] = "connect" /\ \E a \in Connecting : MayGoOn(a)

\* How far a call is from its end.
StepsLeft(where) ==
  CASE where = "idle" -> 7
    [] where = "ensure" -> 6
    [] where = "subscribing" -> 5
    [] where = "connect" -> 4
    [] where = "connecting" -> 3
    [] where \in {"create", "publish"} -> 2
    [] where = "wait" -> 1
    [] OTHER -> 0

(* No call is sent back: whatever the others do, a cancelled subscribe and *)
(* a shutdown included, a call that moves comes nearer to its end, and so  *)
(* each of its own steps brings it there.                                  *)
CallsMoveForward ==
  [][\A c \in Subscribers \cup Requests :
       /\ pc'[c] = pc[c] \/ StepsLeft(pc'[c]) < StepsLeft(pc[c])
       /\ Lookup(c) \/ Setup(c) \/ Answer(c) => StepsLeft(pc'[c]) < StepsLeft(pc[c])]_vars

=============================================================================
