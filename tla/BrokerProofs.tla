---------------------------- MODULE BrokerProofs ----------------------------
(***************************************************************************)
(* Safety of Broker, for any number of subscribers, requests, startups and *)
(* faults: what a shutdown leaves behind, the bounded table of pending     *)
(* requests, the path of a reply; and of MemoryQueue, the queue of its     *)
(* in-memory engine, for any number of publishers and workers, every       *)
(* capacity and every overflow policy.                                     *)
(***************************************************************************)
EXTENDS Broker, MemoryQueue, FiniteSetTheorems, SequenceTheorems, WellFoundedInduction, TLAPS

-----------------------------------------------------------------------------
(* The inductive invariant                                                 *)

BootPlaces == {"idle", "start_emit", "connect", "connecting", "stop_emit", "closing",
               "disconnect", "failing"}

RequestPlaces == {"idle", "ensure", "subscribing", "connect", "connecting", "publish", "wait",
                  "done"}

Places == BootPlaces \cup RequestPlaces \cup {"create"}

\* A subscribe never connects: the broker it runs on has its connection.
PlacesOK ==
  /\ pc \in [Actors -> Places]
  /\ pc[Boot] \in BootPlaces
  /\ \A s \in Subs : pc[s] \in {"idle", "create", "done"}
  /\ \A r \in Requests : pc[r] \in RequestPlaces

\* The calls that may have opened a connection, other than startups.
Past == {r \in Requests : pc[r] \in {"publish", "wait", "done"}}

\* A startup under way may open one yet.
Booting == IF pc[Boot] \in {"start_emit", "connect", "connecting"} THEN 1 ELSE 0

ConnectionsOK ==
  /\ opened \in Nat /\ starts \in Nat
  /\ opened + Booting <= starts + Cardinality(Past)
  /\ starts <= MaxStarts
  /\ conn \in [Actors -> Nat]
  /\ alive \cup abandoned \subseteq 1..opened /\ restoring \subseteq alive
  /\ table \in 0..opened /\ dying \in 0..opened
  /\ alive \subseteq {table, dying} \cup abandoned
  /\ dying # 0 <=> pc[Boot] \in {"disconnect", "failing"}

\* The engine lock and the reply lock.
LocksOK ==
  /\ \A a, b \in Connecting : a = b
  /\ \A q, r \in ReplyOwner : q = r
  /\ Connecting # {} => table = 0

PhasesOK ==
  /\ state \in {"new", "starting", "running", "draining", "stopped", "failed"}
  /\ pc[Boot] \in {"start_emit", "connect", "connecting"} => state = "starting"
  /\ pc[Boot] \in {"stop_emit", "closing", "disconnect"} => state = "draining"
  /\ pc[Boot] = "failing" => state = "failed"
  /\ state = "running" => table # 0

SubscriptionsOK ==
  /\ records \cup consumers \cup closing \cup todo \cup missed \subseteq Subs \X (1..opened)
  /\ \A p \in consumers : p[2] \in alive \/ p \in records \cup closing
  /\ \A p \in closing :
       p[1] = Reply => /\ state = "draining"
                       /\ pc[Boot] = "idle" \/ (pc[Boot] = "closing" /\ p \in todo)

Futures == {"none", "open", "result", "failed", "cancelled"}

TableOK ==
  /\ pending \subseteq Requests
  /\ future \in [Requests -> Futures]
  /\ Cardinality(pending) <= MaxPending
  /\ \A r \in pending \ leaked : pc[r] \in {"connect", "connecting", "publish", "wait"}
  /\ \A r \in Requests : future[r] = "open" => r \in pending

Flags == replySet \in BOOLEAN /\ overlapped \in BOOLEAN

\* Nobody waits for a reply without a reply subscription.
FuturesOK == \A r \in Requests : future[r] = "open" => replySet

\* Outside of a run no call is under way, once a shutdown saw none.
QuietOK == ~overlapped /\ state # "running" => UnderWay = {}

\* In a run like that, the reply subscription is made on the connection of the table.
CreatorOK == ~overlapped /\ state = "running" /\ pc[Reply] = "create" => conn[Reply] = table

ReplyUp ==
  /\ <<Reply, table>> \in records
  /\ table \in alive \ restoring => <<Reply, table>> \in consumers \cup missed

ReplyOK == ~overlapped /\ replySet => state = "draining" \/ (state = "running" /\ ReplyUp)

Released == table = 0 /\ records = {} /\ pending = {} /\ ~replySet

ShutdownOK ==
  /\ ~overlapped /\ pc[Boot] = "closing" => records \subseteq todo
  /\ ~overlapped /\ (pc[Boot] = "disconnect" \/ state \in {"new", "stopped"}) => Released

IInv ==
  /\ PlacesOK /\ ConnectionsOK /\ LocksOK /\ PhasesOK /\ SubscriptionsOK
  /\ TableOK /\ Flags /\ FuturesOK /\ QuietOK /\ CreatorOK /\ ReplyOK /\ ShutdownOK

-----------------------------------------------------------------------------
(* Kinds of calls, counts and locks                                        *)

(* The caller of startup, the subscribe calls and the requests differ.     *)
LEMMA Kinds ==
  /\ Boot \notin Subs /\ Boot \notin Requests /\ Subs \cap Requests = {}
  /\ Actors = Subs \cup Requests \cup {Boot} /\ Callers = Subs \cup Requests
  /\ Reply \in Subs /\ IsFiniteSet(Requests) /\ IsFiniteSet(Callers)
  /\ Reply \notin Requests /\ Reply # Boot
<1>1. Requests \subseteq Actors /\ Callers \subseteq Actors
  BY DEF Actors, Callers
<1>2. IsFiniteSet(Requests) /\ IsFiniteSet(Callers)
  BY <1>1, FS_Subset, BrokerAssumption
<1> QED
  BY <1>2, BrokerAssumption DEF Actors, Callers, Subs

(* A set without two members has at most one.                              *)
LEMMA AtMostOne ==
  ASSUME NEW S, \A x, y \in S : x = y
  PROVE  Cardinality(S) <= 1
<1>1. CASE S = {}
  BY <1>1, FS_EmptySet
<1>2. CASE S # {}
  <2>1. PICK x \in S : TRUE
    BY <1>2
  <2>2. S = {x}
    BY <2>1
  <2> QED
    BY <2>2, FS_Singleton
<1> QED
  BY <1>1, <1>2

(* The connections that requests may have opened are counted.              *)
LEMMA PastCounted ==
  /\ IsFiniteSet(Past) /\ Cardinality(Past) \in Nat
  /\ Cardinality(Past) <= Cardinality(Callers) /\ Cardinality(Callers) \in Nat
<1>1. Past \subseteq Callers
  BY Kinds DEF Past
<1> QED
  BY <1>1, Kinds, FS_Subset, FS_CardinalityType

LEMMA PastCountedNext ==
  /\ IsFiniteSet(Past') /\ Cardinality(Past') \in Nat
<1>1. Past' \subseteq Callers
  BY Kinds DEF Past
<1> QED
  BY <1>1, Kinds, FS_Subset, FS_CardinalityType

(* Requests that are past the connect stay past it.                        *)
LEMMA PastGrows ==
  ASSUME Past \subseteq Past'
  PROVE  Cardinality(Past) <= Cardinality(Past')
BY PastCounted, PastCountedNext, FS_Subset

(* One more request is past the connect.                                   *)
LEMMA PastGains ==
  ASSUME NEW r, r \notin Past, r \in Past', Past \subseteq Past'
  PROVE  Cardinality(Past) + 1 <= Cardinality(Past')
<1>1. IsFiniteSet(Past \cup {r}) /\ Cardinality(Past \cup {r}) = Cardinality(Past) + 1
  BY PastCounted, FS_AddElement
<1>2. Past \cup {r} \subseteq Past'
  OBVIOUS
<1> QED
  BY <1>1, <1>2, PastCountedNext, FS_Subset

(* Connections that are not touched stay in order while requests go on.    *)
LEMMA ConnectionsKept ==
  ASSUME ConnectionsOK, Past \subseteq Past', pc'[Boot] = pc[Boot],
         UNCHANGED <<connVars, abandoned, starts>>, conn' \in [Actors -> Nat]
  PROVE  ConnectionsOK'
<1>1. Booting' = Booting /\ Booting \in Nat
  BY DEF Booting
<1>2. opened' = opened /\ alive' = alive /\ table' = table /\ dying' = dying
  /\ abandoned' = abandoned /\ starts' = starts /\ restoring' = restoring
  BY DEF connVars
<1>3. opened + Booting <= starts + Cardinality(Past')
  BY <1>1, PastCounted, PastCountedNext, PastGrows DEF ConnectionsOK
<1> QED
  BY <1>1, <1>2, <1>3 DEF ConnectionsOK

(* A move of the caller of startup or shutdown leaves the others alone.    *)
LEMMA BootMoves ==
  ASSUME PlacesOK, NEW w \in BootPlaces, Goto(Boot, w)
  PROVE  /\ PlacesOK' /\ pc'[Boot] = w /\ Past' = Past
         /\ \A a \in Callers : pc'[a] = pc[a]
         /\ UnderWay' = UnderWay /\ ReplyOwner' = ReplyOwner
         /\ Connecting' \subseteq Connecting \cup {Boot}
         /\ (Connecting' \subseteq Connecting) \/ w = "connecting"
<1>1. pc' = [pc EXCEPT ![Boot] = w] /\ pc \in [Actors -> Places]
  BY DEF Goto, PlacesOK
<1>2. Boot \in Actors /\ w \in Places
  BY Kinds DEF Places
<1>3. pc' \in [Actors -> Places] /\ pc'[Boot] = w
  BY <1>1, <1>2
<1>4. \A a \in Callers : pc'[a] = pc[a]
  BY <1>1, Kinds
<1>5. Past' = Past /\ ReplyOwner' = ReplyOwner /\ UnderWay' = UnderWay
  BY <1>4, Kinds DEF Past, ReplyOwner, UnderWay
<1>6. PlacesOK'
  BY <1>3, <1>4, Kinds DEF PlacesOK
<1>7. /\ Connecting' \subseteq Connecting \cup {Boot}
      /\ (Connecting' \subseteq Connecting) \/ w = "connecting"
  BY <1>3, <1>4, Kinds DEF Connecting
<1> QED
  BY <1>3, <1>4, <1>5, <1>6, <1>7

-----------------------------------------------------------------------------
(* What the parts of an action do to the calls and the table               *)

(* What r meets at the table: it is full, r raises, or r goes on.          *)
LEMMA EntriesAre ==
  ASSUME NEW t, NEW e \in Entries(t)
  PROVE  /\ e.to \in {"done", "connect", "publish"} /\ e.listed \in BOOLEAN
         /\ e.listed => ~(Cardinality(pending) >= MaxPending)
         /\ ~e.listed => e.to = "done"
<1>1. CASE Cardinality(pending) >= MaxPending
  <2>1. e = [to |-> "done", listed |-> FALSE]
    BY <1>1 DEF Entries
  <2> QED
    BY <2>1
<1>2. CASE ~(Cardinality(pending) >= MaxPending)
  <2>1. \/ e = [to |-> "done", listed |-> TRUE]
        \/ e = [to |-> "connect", listed |-> TRUE]
        \/ e = [to |-> "publish", listed |-> TRUE]
    BY <1>2 DEF Entries
  <2>2. e.to \in {"done", "connect", "publish"} /\ e.listed = TRUE
    BY <2>1
  <2> QED
    BY <2>2, <1>2
<1> QED
  BY <1>1, <1>2

(* Entering the table keeps it bounded and exact.                          *)
LEMMA EnterTableOK ==
  ASSUME PlacesOK, TableOK, conn \in [Actors -> Nat], table \in Nat,
         NEW r \in Requests, pc[r] \in {"idle", "ensure", "subscribing"},
         NEW freed \in {{}, {Reply}}, EnterTable(r, freed)
  PROVE  /\ PlacesOK' /\ TableOK' /\ conn' \in [Actors -> Nat]
         /\ pc'[Boot] = pc[Boot] /\ Past \subseteq Past'
         /\ Connecting' \subseteq Connecting /\ ReplyOwner' = ReplyOwner \ {r}
         /\ \A q \in Requests : future'[q] = "open" => q = r \/ future[q] = "open"
         /\ conn'[Reply] = conn[Reply]
         /\ pc'[Reply] = IF freed = {} THEN pc[Reply] ELSE "idle"
<1>1. PICK e \in Entries(table) :
        /\ pc' = [a \in Actors |-> IF a = r THEN e.to ELSE IF a \in freed THEN "idle" ELSE pc[a]]
        /\ conn' = [conn EXCEPT ![r] = table]
        /\ pending' = IF e.listed THEN pending \cup {r} ELSE pending
        /\ future' = IF e.listed THEN [future EXCEPT ![r] = "open"] ELSE future
        /\ leaked' = IF e.listed /\ e.to = "done" THEN leaked \cup {r} ELSE leaked
  BY DEF EnterTable
<1>2. /\ e.to \in {"done", "connect", "publish"} /\ e.listed \in BOOLEAN
      /\ e.listed => ~(Cardinality(pending) >= MaxPending)
      /\ ~e.listed => e.to = "done"
  BY EntriesAre
<1>3. \A a \in Actors : pc'[a] = IF a = r THEN e.to ELSE IF a \in freed THEN "idle" ELSE pc[a]
  BY <1>1
<1>4. /\ pc'[r] = e.to /\ pc'[Boot] = pc[Boot]
      /\ \A q \in Requests \ {r} : pc'[q] = pc[q]
      /\ \A s \in Subs : pc'[s] \in {pc[s], "idle"}
  BY <1>3, Kinds
<1>5. PlacesOK'
  <2>1. pc' \in [Actors -> Places]
    BY <1>1, <1>2, Kinds DEF PlacesOK, Places, BootPlaces, RequestPlaces
  <2> QED
    BY <2>1, <1>2, <1>4, Kinds DEF PlacesOK, RequestPlaces
<1>6. TableOK'
  <2>1. pending' \subseteq Requests
    BY <1>1 DEF TableOK
  <2>2. future' \in [Requests -> Futures]
    BY <1>1 DEF TableOK, Futures
  <2>3. Cardinality(pending') <= MaxPending
    <3>1. CASE e.listed
      <4>1. IsFiniteSet(pending)
        BY Kinds, FS_Subset DEF TableOK
      <4>2. Cardinality(pending) \in Nat /\ Cardinality(pending) < MaxPending
        <5>1. ~(Cardinality(pending) >= MaxPending)
          BY <3>1, <1>2, Zenon
        <5>2. Cardinality(pending) \in Nat
          BY <4>1, FS_CardinalityType
        <5> QED
          BY <5>1, <5>2, BrokerAssumption
      <4>3. Cardinality(pending \cup {r}) <= Cardinality(pending) + 1
        <5>1. CASE r \in pending
          <6>1. pending \cup {r} = pending
            BY <5>1
          <6>2. Cardinality(pending \cup {r}) = Cardinality(pending)
            BY <6>1, Zenon
          <6> QED
            BY <6>2, <4>2
        <5>2. CASE r \notin pending
          <6>1. Cardinality(pending \cup {r}) = Cardinality(pending) + 1
            BY <5>2, <4>1, FS_AddElement
          <6> QED
            BY <6>1, <4>2
        <5> QED
          BY <5>1, <5>2
      <4>4. Cardinality(pending \cup {r}) \in Nat
        BY <4>1, FS_AddElement, FS_CardinalityType
      <4> QED
        BY <4>2, <4>3, <4>4, <3>1, <1>1, BrokerAssumption
    <3> QED
      BY <3>1, <1>1 DEF TableOK
  <2>4. \A q \in pending' \ leaked' : pc'[q] \in {"connect", "connecting", "publish", "wait"}
    <3> SUFFICES ASSUME NEW q \in pending', q \notin leaked'
                 PROVE  pc'[q] \in {"connect", "connecting", "publish", "wait"}
      OBVIOUS
    <3>1. q \in Requests
      BY <2>1
    <3>2. CASE q = r
      <4>1. r \notin leaked
        BY <3>2, <1>1
      <4>2. r \notin pending
        BY <4>1 DEF TableOK
      <4>3. e.listed
        BY <4>2, <3>2, <1>1
      <4> QED
        BY <4>3, <3>2, <1>1, <1>2, <1>4
    <3>3. CASE q # r
      BY <3>1, <3>3, <1>1, <1>4 DEF TableOK
    <3> QED
      BY <3>2, <3>3
  <2>5. \A q \in Requests : future'[q] = "open" => q \in pending'
    BY <1>1 DEF TableOK
  <2> QED
    BY <2>1, <2>2, <2>3, <2>4, <2>5 DEF TableOK
<1>7. Past \subseteq Past'
  BY <1>4 DEF Past
<1>8. Connecting' \subseteq Connecting
  BY <1>2, <1>4, Kinds, <1>3 DEF Connecting
<1>9. ReplyOwner' = ReplyOwner \ {r}
  BY <1>2, <1>4 DEF ReplyOwner
<1>10. conn' \in [Actors -> Nat]
  BY <1>1
<1>11. \A q \in Requests : future'[q] = "open" => q = r \/ future[q] = "open"
  BY <1>1 DEF TableOK
<1>12. conn'[Reply] = conn[Reply]
  BY <1>1, Kinds
<1>13. pc'[Reply] = IF freed = {} THEN pc[Reply] ELSE "idle"
  BY <1>3, Kinds
<1> QED
  BY <1>4, <1>5, <1>6, <1>7, <1>8, <1>9, <1>10, <1>11, <1>12, <1>13

(* The finally clause of request takes it out of the table.                *)
LEMMA FinishOK ==
  ASSUME PlacesOK, TableOK, NEW r \in Requests, leaked' = leaked, Finish(r)
  PROVE  /\ PlacesOK' /\ TableOK'
         /\ pc'[Boot] = pc[Boot] /\ Past \subseteq Past' /\ UnderWay' \subseteq UnderWay
         /\ Connecting' \subseteq Connecting /\ ReplyOwner' \subseteq ReplyOwner
         /\ pending' \subseteq pending /\ pc'[Reply] = pc[Reply]
         /\ \A q \in Requests : future'[q] = "open" => future[q] = "open"
<1>1. /\ pending' = pending \ {r}
      /\ future' = IF future[r] = "open" THEN [future EXCEPT ![r] = "cancelled"] ELSE future
      /\ pc' = [pc EXCEPT ![r] = "done"]
  BY DEF Finish, Goto
<1>2. \A a \in Actors : pc'[a] = IF a = r THEN "done" ELSE pc[a]
  BY <1>1 DEF PlacesOK
<1>3. PlacesOK'
  BY <1>1, Kinds DEF PlacesOK, Places, RequestPlaces
<1>4. /\ pc'[Boot] = pc[Boot] /\ Past \subseteq Past' /\ UnderWay' \subseteq UnderWay
      /\ pc'[Reply] = pc[Reply]
  BY <1>2, Kinds DEF Past, UnderWay
<1>5. Connecting' \subseteq Connecting /\ ReplyOwner' \subseteq ReplyOwner
  BY <1>2, Kinds DEF Connecting, ReplyOwner
<1>6. \A q \in Requests : future'[q] = "open" => future[q] = "open" /\ q # r
  BY <1>1 DEF TableOK
<1>7. TableOK'
  <2>1. pending' \subseteq Requests /\ future' \in [Requests -> Futures]
    BY <1>1 DEF TableOK, Futures
  <2>2. Cardinality(pending') <= MaxPending
    <3>1. IsFiniteSet(pending)
      BY Kinds, FS_Subset DEF TableOK
    <3>2. /\ Cardinality(pending') <= Cardinality(pending)
          /\ Cardinality(pending') \in Nat /\ Cardinality(pending) \in Nat
      BY <3>1, <1>1, FS_Subset, FS_CardinalityType
    <3> QED
      BY <3>2, BrokerAssumption DEF TableOK
  <2>3. \A q \in pending' \ leaked' : pc'[q] \in {"connect", "connecting", "publish", "wait"}
    BY <2>1, <1>1, <1>2, Kinds DEF TableOK
  <2>4. \A q \in Requests : future'[q] = "open" => q \in pending'
    BY <1>1, <1>6 DEF TableOK
  <2> QED
    BY <2>1, <2>2, <2>3, <2>4 DEF TableOK
<1> QED
  BY <1>1, <1>3, <1>4, <1>5, <1>6, <1>7

(* A subscribe that fails, and the request that waited for it.             *)
LEMMA UnsubscribedOK ==
  ASSUME PlacesOK, TableOK, NEW s \in Subs, UNCHANGED <<pending, future, leaked>>, Unsubscribed(s)
  PROVE  /\ PlacesOK' /\ TableOK' /\ pc'[Reply] \in {pc[Reply], "idle"}
         /\ pc'[Boot] = pc[Boot] /\ Past \subseteq Past' /\ UnderWay' \subseteq UnderWay
         /\ Connecting' \subseteq Connecting /\ ReplyOwner' \subseteq ReplyOwner
<1>1. \A a \in Actors : pc'[a] = IF a = s THEN (IF s = Reply THEN "idle" ELSE "done")
                                 ELSE IF s = Reply /\ a \in ReplyOwner THEN "done" ELSE pc[a]
  BY DEF Unsubscribed
<1>2. /\ pc'[s] \in {"idle", "done"} /\ pc'[Boot] = pc[Boot]
      /\ \A q \in Subs \ {s} : pc'[q] = pc[q]
      /\ \A r \in Requests : pc'[r] = pc[r] \/ (pc[r] = "subscribing" /\ pc'[r] = "done")
  BY <1>1, Kinds DEF ReplyOwner
<1>3. pc' \in [Actors -> Places]
  BY Kinds DEF Unsubscribed, PlacesOK, Places, RequestPlaces, BootPlaces
<1>4. PlacesOK'
  BY <1>2, <1>3, Kinds DEF PlacesOK, RequestPlaces
<1>5. Past \subseteq Past' /\ UnderWay' \subseteq UnderWay
  BY <1>2, Kinds DEF Past, UnderWay
<1>6. Connecting' \subseteq Connecting /\ ReplyOwner' \subseteq ReplyOwner
  BY <1>2, Kinds DEF Connecting, ReplyOwner
<1>7. TableOK'
  BY <1>2 DEF TableOK
<1>8. pc'[Reply] \in {pc[Reply], "idle"}
  BY <1>1, Kinds
<1> QED
  BY <1>2, <1>4, <1>5, <1>6, <1>7, <1>8

(* A subscribe on a broker with a connection creates its consumer.         *)
LEMMA StartSubscribeOK ==
  ASSUME PlacesOK, table \in Nat \ {0}, conn \in [Actors -> Nat],
         NEW s \in Subs, NEW r \in Requests \cup {s}, pc[r] \in {"idle", "ensure"},
         StartSubscribe(s, r)
  PROVE  /\ PlacesOK' /\ conn' \in [Actors -> Nat]
         /\ pc'[Boot] = pc[Boot] /\ Past \subseteq Past'
         /\ Connecting' \subseteq Connecting /\ ReplyOwner' \subseteq ReplyOwner \cup {r}
         /\ \A q \in Requests : pc'[q] = pc[q] \/ pc[q] \in {"idle", "ensure"}
         /\ conn'[s] = table /\ missed' = missed \ {<<s, table>>}
         /\ s # Reply => pc'[Reply] = pc[Reply] /\ conn'[Reply] = conn[Reply]
<1>1. \A a \in Actors : pc'[a] = IF a = s THEN "create"
                                 ELSE IF a = r THEN "subscribing" ELSE pc[a]
  BY DEF StartSubscribe
<1>2. /\ pc'[s] = "create" /\ pc'[Boot] = pc[Boot]
      /\ \A q \in Subs \ {s} : pc'[q] = pc[q]
      /\ \A q \in Requests \ {r} : pc'[q] = pc[q]
      /\ r \in Requests => pc'[r] = "subscribing"
  BY <1>1, Kinds
<1>3. pc' \in [Actors -> Places]
  BY Kinds DEF StartSubscribe, PlacesOK, Places, RequestPlaces, BootPlaces
<1>4. PlacesOK'
  BY <1>2, <1>3, Kinds DEF PlacesOK, RequestPlaces
<1>5. Past \subseteq Past' /\ ReplyOwner' \subseteq ReplyOwner \cup {r}
  BY <1>2 DEF Past, ReplyOwner
<1>6. Connecting' \subseteq Connecting
  BY <1>1, Kinds DEF Connecting
<1>7. /\ conn' \in [Actors -> Nat] /\ conn'[s] = table /\ missed' = missed \ {<<s, table>>}
      /\ s # Reply => conn'[Reply] = conn[Reply]
  BY Kinds DEF StartSubscribe
<1>8. s # Reply => pc'[Reply] = pc[Reply]
  BY <1>1, Kinds
<1> QED
  BY <1>2, <1>4, <1>5, <1>6, <1>7, <1>8

-----------------------------------------------------------------------------
(* What a step of a caller leaves alone                                    *)

(* Connections, phases and locks.                                          *)
LEMMA CallerStep ==
  ASSUME IInv, UNCHANGED <<state, connVars, history, starts>>, pc'[Boot] = pc[Boot],
         Past \subseteq Past', conn' \in [Actors -> Nat], Connecting' \subseteq Connecting,
         \A q, r \in ReplyOwner' : q = r
  PROVE  ConnectionsOK' /\ PhasesOK' /\ LocksOK'
<1>1. UNCHANGED <<connVars, abandoned, starts>> /\ table' = table /\ state' = state
  BY DEF history, connVars
<1>2. ConnectionsOK'
  BY <1>1, ConnectionsKept DEF IInv
<1>3. PhasesOK'
  BY <1>1 DEF IInv, PhasesOK
<1>4. LocksOK'
  BY <1>1 DEF IInv, LocksOK
<1> QED
  BY <1>2, <1>3, <1>4

(* A call is under way only in a run, or after a shutdown that saw one.    *)
LEMMA CallsInRun ==
  ASSUME IInv, NEW a \in Callers, pc[a] \notin {"idle", "wait", "done"}
  PROVE  overlapped \/ state = "running"
<1>1. a \in UnderWay
  BY DEF UnderWay
<1> QED
  BY <1>1 DEF IInv, QuietOK

LEMMA QuietKept ==
  ASSUME IInv, state' = state, overlapped' = overlapped,
         (UnderWay' \subseteq UnderWay) \/ overlapped \/ state = "running"
  PROVE  QuietOK'
BY DEF IInv, QuietOK

LEMMA ShutdownKept ==
  ASSUME IInv, state' = state, overlapped' = overlapped, pc'[Boot] = pc[Boot],
         \/ overlapped \/ state = "running"
         \/ /\ records' \subseteq records /\ todo' = todo /\ table' = table
            /\ pending' \subseteq pending /\ replySet' = replySet
  PROVE  ShutdownOK'
<1>1. CASE overlapped
  BY <1>1 DEF ShutdownOK
<1>2. CASE state = "running"
  BY <1>2 DEF ShutdownOK, IInv, PhasesOK
<1>3. CASE /\ records' \subseteq records /\ todo' = todo /\ table' = table
           /\ pending' \subseteq pending /\ replySet' = replySet
  BY <1>3 DEF ShutdownOK, IInv, Released
<1> QED
  BY <1>1, <1>2, <1>3

(* The reply subscription is made where it was.                            *)
LEMMA CreatorKept ==
  ASSUME IInv,
         \/ overlapped'
         \/ state' # "running"
         \/ /\ state' = state /\ overlapped' = overlapped /\ table' = table
            /\ conn'[Reply] = conn[Reply] /\ pc'[Reply] \in {pc[Reply], "idle"}
  PROVE  CreatorOK'
BY DEF IInv, CreatorOK

(* Subscriptions and the reply path.                                       *)
LEMMA SubscriptionsKept ==
  ASSUME IInv, UNCHANGED <<state, table, dying, restoring, records, consumers, closing, todo,
                           replySet, overlapped>>,
         pc'[Boot] = pc[Boot], opened' \in Nat, opened <= opened', alive \subseteq alive',
         table \in alive' => table \in alive,
         missed' \subseteq missed,
         replySet /\ <<Reply, table>> \in missed => <<Reply, table>> \in missed'
  PROVE  SubscriptionsOK' /\ ReplyOK' /\ Flags'
<1>1. SubscriptionsOK'
  <2>1. 1..opened \subseteq 1..opened'
    BY DEF IInv, ConnectionsOK
  <2> QED
    BY <2>1 DEF IInv, SubscriptionsOK
<1>2. ReplyOK'
  <2>1. replySet /\ ReplyUp => ReplyUp'
    BY DEF ReplyUp
  <2> QED
    BY <2>1 DEF IInv, ReplyOK
<1>3. Flags'
  BY DEF IInv, Flags
<1> QED
  BY <1>1, <1>2, <1>3

-----------------------------------------------------------------------------
(* The steps of requests                                                   *)

(* A step of a request that only ends it, or that touches the future only; *)
(* a connection that it leaves up is another one.                          *)
LEMMA RequestLeaves ==
  ASSUME IInv, UNCHANGED <<state, conn, table, dying, restoring, subVars, todo, replySet,
                           overlapped, starts>>,
         ConnectionsOK', opened' \in Nat, opened <= opened', alive \subseteq alive',
         table \in alive' => table \in alive,
         PlacesOK', TableOK', pc'[Boot] = pc[Boot], pc'[Reply] \in {pc[Reply], "idle"},
         UnderWay' \subseteq UnderWay, Connecting' \subseteq Connecting,
         ReplyOwner' \subseteq ReplyOwner, pending' \subseteq pending,
         \A q \in Requests : future'[q] = "open" => future[q] = "open"
  PROVE  IInv'
<1>1. /\ state' = state /\ overlapped' = overlapped /\ records' = records /\ todo' = todo
      /\ table' = table /\ replySet' = replySet /\ conn' = conn /\ missed' = missed
      /\ consumers' = consumers /\ closing' = closing
  BY DEF subVars
<1>2. PhasesOK' /\ LocksOK'
  BY <1>1 DEF IInv, PhasesOK, LocksOK
<1>3. SubscriptionsOK' /\ ReplyOK' /\ Flags'
  BY <1>1, SubscriptionsKept
<1>4. QuietOK'
  BY <1>1, QuietKept
<1>5. ShutdownOK'
  BY <1>1, ShutdownKept
<1>6. FuturesOK'
  BY <1>1 DEF IInv, FuturesOK
<1>7. CreatorOK'
  BY <1>1, CreatorKept
<1> QED
  BY <1>2, <1>3, <1>4, <1>5, <1>6, <1>7 DEF IInv

(* A step of a request that touches no connection.                         *)
LEMMA RequestOver ==
  ASSUME IInv, UNCHANGED <<state, conn, connVars, subVars, todo, replySet, history, starts>>,
         PlacesOK', TableOK', pc'[Boot] = pc[Boot], Past \subseteq Past',
         pc'[Reply] \in {pc[Reply], "idle"},
         UnderWay' \subseteq UnderWay, Connecting' \subseteq Connecting,
         ReplyOwner' \subseteq ReplyOwner, pending' \subseteq pending,
         \A q \in Requests : future'[q] = "open" => future[q] = "open"
  PROVE  IInv'
<1>1. /\ UNCHANGED <<state, conn, table, dying, restoring, subVars, todo, replySet,
                     overlapped, starts>>
      /\ UNCHANGED <<connVars, abandoned, starts>>
      /\ opened' = opened /\ alive' = alive
  BY DEF connVars, history
<1>2. conn' \in [Actors -> Nat]
  BY DEF IInv, ConnectionsOK
<1>3. ConnectionsOK'
  BY <1>1, <1>2, ConnectionsKept DEF IInv
<1>4. opened' \in Nat /\ opened <= opened'
  BY <1>1 DEF IInv, ConnectionsOK
<1> QED
  BY <1>1, <1>3, <1>4, RequestLeaves

(* A connection is left up in no table.                                    *)
LEMMA LeftUpOK ==
  ASSUME IInv, LeftUp, UNCHANGED <<table, restoring, starts>>,
         conn' \in [Actors -> Nat],
         opened' + Booting' <= starts + Cardinality(Past'),
         \/ dying' = dying /\ pc'[Boot] = pc[Boot]
         \/ dying = 0 /\ dying' = 0 /\ pc'[Boot] = "idle"
  PROVE  /\ ConnectionsOK' /\ opened' \in Nat /\ opened <= opened' /\ alive \subseteq alive'
         /\ table \in alive' => table \in alive
<1>1. /\ opened' = opened + 1 /\ alive' = alive \cup {opened + 1}
      /\ abandoned' = abandoned \cup {opened + 1} /\ opened \in Nat /\ starts \in Nat
  BY DEF LeftUp, IInv, ConnectionsOK
<1>2. 1..opened \subseteq 1..opened' /\ opened + 1 \in 1..opened' /\ 0..opened \subseteq 0..opened'
  BY <1>1
<1>3. /\ alive' \cup abandoned' \subseteq 1..opened' /\ restoring' \subseteq alive'
      /\ table' \in 0..opened' /\ dying' \in 0..opened'
      /\ alive' \subseteq {table', dying'} \cup abandoned'
  BY <1>1, <1>2 DEF IInv, ConnectionsOK
<1>4. dying' # 0 <=> pc'[Boot] \in {"disconnect", "failing"}
  BY DEF IInv, ConnectionsOK
<1>5. table # opened + 1
  BY <1>1 DEF IInv, ConnectionsOK
<1> QED
  BY <1>1, <1>3, <1>4, <1>5 DEF IInv, ConnectionsOK

LEMMA TransmitStep ==
  ASSUME IInv, NEW r \in Requests, Transmit(r)
  PROVE  IInv'
<1>1. UNCHANGED <<state, pc, conn, connVars, subVars, todo, replySet, pending, future, leaked,
                  history, counters>>
  BY DEF Transmit
<1>2. UNCHANGED <<state, conn, connVars, subVars, todo, replySet, history, starts>>
  BY <1>1 DEF counters
<1>3. /\ pc' = pc /\ Past' = Past /\ UnderWay' = UnderWay /\ Connecting' = Connecting
      /\ ReplyOwner' = ReplyOwner /\ PlacesOK'
  BY <1>1 DEF Past, UnderWay, Connecting, ReplyOwner, PlacesOK, IInv
<1>4. pending' = pending /\ future' = future /\ TableOK'
  BY <1>1 DEF TableOK, IInv
<1> QED
  BY <1>2, <1>3, <1>4, RequestOver

LEMMA DispatchReplyStep ==
  ASSUME IInv, NEW r \in Requests, DispatchReply(r)
  PROVE  IInv'
<1>1. /\ future' = [future EXCEPT ![r] = "result"]
      /\ UNCHANGED <<state, pc, conn, connVars, subVars, todo, replySet, pending, sent, leaked,
                     history, counters>>
  BY DEF DispatchReply
<1>2. UNCHANGED <<state, conn, connVars, subVars, todo, replySet, history, starts>>
  BY <1>1 DEF counters
<1>3. /\ pc' = pc /\ Past' = Past /\ UnderWay' = UnderWay /\ Connecting' = Connecting
      /\ ReplyOwner' = ReplyOwner /\ PlacesOK'
  BY <1>1 DEF Past, UnderWay, Connecting, ReplyOwner, PlacesOK, IInv
<1>4. \A q \in Requests : future'[q] = "open" => future[q] = "open"
  BY <1>1 DEF TableOK, IInv
<1>5. pending' = pending /\ TableOK'
  BY <1>1, <1>4 DEF TableOK, IInv, Futures
<1> QED
  BY <1>2, <1>3, <1>4, <1>5, RequestOver

(* The finally clause, whatever has ended the request.                     *)
LEMMA FinishStep ==
  ASSUME IInv, NEW r \in Requests, Finish(r), leaked' = leaked,
         UNCHANGED <<state, conn, connVars, subVars, todo, replySet, history, starts>>
  PROVE  IInv'
BY FinishOK, RequestOver DEF IInv

(* The finally clause of a request whose connection is left up.            *)
LEMMA FinishLeavingUp ==
  ASSUME IInv, NEW r \in Requests, Finish(r), leaked' = leaked, LeftUp, pc[r] = "connecting",
         UNCHANGED <<state, conn, table, dying, restoring, subVars, todo, replySet, overlapped,
                     starts>>
  PROVE  IInv'
<1>1. /\ PlacesOK' /\ TableOK' /\ pc'[Boot] = pc[Boot] /\ Past \subseteq Past'
      /\ UnderWay' \subseteq UnderWay /\ Connecting' \subseteq Connecting
      /\ ReplyOwner' \subseteq ReplyOwner /\ pending' \subseteq pending /\ pc'[Reply] = pc[Reply]
      /\ \A q \in Requests : future'[q] = "open" => future[q] = "open"
  BY FinishOK DEF IInv
<1>2. pc'[r] = "done" /\ r \notin Past /\ r \in Past'
  <2>1. pc'[r] = "done"
    BY Kinds DEF Finish, Goto, IInv, PlacesOK
  <2> QED
    BY <2>1 DEF Past
<1>3. opened' + Booting' <= starts + Cardinality(Past')
  <2>1. Cardinality(Past) + 1 <= Cardinality(Past')
    BY <1>1, <1>2, PastGains
  <2>2. /\ opened \in Nat /\ starts \in Nat /\ Booting' = Booting /\ Booting \in Nat
        /\ opened + Booting <= starts + Cardinality(Past) /\ opened' = opened + 1
    BY <1>1 DEF IInv, ConnectionsOK, Booting, LeftUp
  <2> QED
    BY <2>1, <2>2, PastCounted, PastCountedNext
<1>4. conn' \in [Actors -> Nat]
  BY DEF IInv, ConnectionsOK
<1>5. /\ ConnectionsOK' /\ opened' \in Nat /\ opened <= opened' /\ alive \subseteq alive'
      /\ table \in alive' => table \in alive
  BY <1>1, <1>3, <1>4, LeftUpOK
<1> QED
  BY <1>1, <1>5, RequestLeaves

LEMMA WaitEndsStep ==
  ASSUME IInv, NEW r \in Requests, WaitEnds(r)
  PROVE  IInv'
BY FinishStep DEF WaitEnds, counters

LEMMA PublishEndsStep ==
  ASSUME IInv, NEW r \in Requests, PublishEnds(r)
  PROVE  IInv'
<1>1. /\ pc[r] = "publish" /\ leaked' = leaked
      /\ UNCHANGED <<state, conn, connVars, subVars, todo, replySet, history, starts>>
  BY DEF PublishEnds, counters
<1>2. CASE Finish(r)
  BY <1>1, <1>2, FinishStep
<1>3. CASE Goto(r, "wait") /\ UNCHANGED <<pending, future>>
  <2>1. \A a \in Actors : pc'[a] = IF a = r THEN "wait" ELSE pc[a]
    BY <1>3 DEF Goto, IInv, PlacesOK
  <2>2. PlacesOK'
    BY <1>3, Kinds DEF Goto, IInv, PlacesOK, Places, RequestPlaces
  <2>3. /\ pc'[Boot] = pc[Boot] /\ Past \subseteq Past' /\ UnderWay' \subseteq UnderWay
        /\ pc'[Reply] = pc[Reply]
    BY <2>1, <1>1, Kinds DEF Past, UnderWay
  <2>4. Connecting' \subseteq Connecting /\ ReplyOwner' \subseteq ReplyOwner
    BY <2>1, Kinds DEF Connecting, ReplyOwner
  <2>5. TableOK'
    BY <2>1, <1>1, <1>3, Kinds DEF IInv, TableOK
  <2> QED
    BY <1>1, <1>3, <2>2, <2>3, <2>4, <2>5, RequestOver
<1> QED
  BY <1>2, <1>3 DEF PublishEnds

(* A cancelled request: what it awaits ends with it.                       *)
LEMMA RequestCancelledStep ==
  ASSUME IInv, NEW r \in Requests, RequestCancelled(r)
  PROVE  IInv'
<1>1. /\ leaked' = leaked
      /\ UNCHANGED <<state, conn, table, dying, restoring, subVars, todo, replySet, overlapped,
                     starts>>
  BY DEF RequestCancelled
<1>2. CASE pc[r] = "subscribing"
  <2>1. /\ Unsubscribed(Reply) /\ UNCHANGED <<pending, future>>
        /\ UNCHANGED <<opened, alive, abandoned>>
    BY <1>2 DEF RequestCancelled
  <2>2. UNCHANGED <<state, conn, connVars, subVars, todo, replySet, history, starts>>
    BY <1>1, <2>1 DEF connVars, history
  <2> QED
    BY <1>1, <2>1, <2>2, Kinds, UnsubscribedOK, RequestOver DEF IInv
<1>3. CASE pc[r] # "subscribing"
  <2>1. Finish(r)
    BY <1>3 DEF RequestCancelled
  <2>2. CASE UNCHANGED <<opened, alive, abandoned>>
    BY <1>1, <2>1, <2>2, FinishStep DEF connVars, history
  <2>3. CASE pc[r] = "connecting" /\ LeftUp
    BY <1>1, <2>1, <2>3, FinishLeavingUp
  <2> QED
    BY <2>2, <2>3 DEF RequestCancelled
<1> QED
  BY <1>2, <1>3

LEMMA CreateFailsStep ==
  ASSUME IInv, NEW s \in Subs, CreateFails(s)
  PROVE  IInv'
<1>1. /\ Unsubscribed(s) /\ UNCHANGED <<pending, future, leaked>>
      /\ UNCHANGED <<state, conn, connVars, subVars, todo, replySet, history, starts>>
  BY DEF CreateFails, rpcVars, counters
<1> QED
  BY <1>1, UnsubscribedOK, RequestOver DEF IInv

(* Where a request goes on once it holds the reply lock.                   *)
LEMMA EnsureReplyStep ==
  ASSUME IInv, NEW r \in Requests, pc[r] \in {"idle", "ensure"}, EnsureReply(r),
         state = "running" \/ pc[r] = "ensure", ReplyOwner = {},
         UNCHANGED <<state, connVars, records, consumers, closing, todo, replySet, history,
                     starts>>
  PROVE  IInv'
<1>1. overlapped \/ state = "running"
  BY CallsInRun, Kinds
<1>2. /\ state' = state /\ overlapped' = overlapped /\ table' = table /\ replySet' = replySet
      /\ UNCHANGED <<state, connVars, history, starts>>
  BY DEF connVars, history
<1>3. table \in Nat /\ conn \in [Actors -> Nat]
  BY DEF IInv, ConnectionsOK
<1>4. SUFFICES ASSUME PlacesOK', TableOK', conn' \in [Actors -> Nat], pc'[Boot] = pc[Boot],
                      Past \subseteq Past', Connecting' \subseteq Connecting,
                      \A p, q \in ReplyOwner' : p = q, FuturesOK', CreatorOK',
                      missed' \subseteq missed, ~replySet \/ missed' = missed
               PROVE  IInv'
  <2>1. CASE replySet /\ EnterTable(r, {}) /\ UNCHANGED missed
    <3>1. /\ PlacesOK' /\ TableOK' /\ conn' \in [Actors -> Nat]
          /\ pc'[Boot] = pc[Boot] /\ Past \subseteq Past'
          /\ Connecting' \subseteq Connecting /\ ReplyOwner' = ReplyOwner \ {r}
          /\ conn'[Reply] = conn[Reply] /\ pc'[Reply] = pc[Reply]
      BY <2>1, <1>3, EnterTableOK DEF IInv
    <3>3. CreatorOK' /\ missed' = missed
      BY <1>2, <2>1, <3>1, CreatorKept
    <3>2. FuturesOK'
      BY <1>2, <2>1 DEF FuturesOK
    <3> QED
      BY <3>1, <3>2, <3>3, <1>4
  <2>2. CASE ~replySet /\ state = "running" /\ StartSubscribe(Reply, r)
             /\ UNCHANGED <<pending, future, leaked>>
    <3>1. table \in Nat \ {0}
      BY <2>2, <1>3 DEF IInv, PhasesOK
    <3>2. /\ PlacesOK' /\ conn' \in [Actors -> Nat]
          /\ pc'[Boot] = pc[Boot] /\ Past \subseteq Past'
          /\ Connecting' \subseteq Connecting /\ ReplyOwner' \subseteq ReplyOwner \cup {r}
          /\ \A q \in Requests : pc'[q] = pc[q] \/ pc[q] \in {"idle", "ensure"}
          /\ conn'[Reply] = table /\ missed' = missed \ {<<Reply, table>>}
      BY <2>2, <3>1, <1>3, Kinds, StartSubscribeOK DEF IInv
    <3>3. TableOK' /\ FuturesOK'
      BY <3>2, <2>2, <1>2 DEF IInv, TableOK, FuturesOK
    <3>4. CreatorOK'
      BY <1>2, <3>2 DEF CreatorOK
    <3> QED
      BY <2>2, <3>2, <3>3, <3>4, <1>4
  <2>3. CASE Goto(r, "done") /\ UNCHANGED <<conn, missed, pending, future, leaked>>
    <3>1. \A a \in Actors : pc'[a] = IF a = r THEN "done" ELSE pc[a]
      BY <2>3 DEF Goto, IInv, PlacesOK
    <3>2. PlacesOK'
      BY <2>3, Kinds DEF Goto, IInv, PlacesOK, Places, RequestPlaces
    <3>3. pc'[Boot] = pc[Boot] /\ Past \subseteq Past' /\ Connecting' \subseteq Connecting
      BY <3>1, Kinds DEF Past, Connecting
    <3>4. \A p, q \in ReplyOwner' : p = q
      BY <3>1, Kinds DEF ReplyOwner
    <3>5. TableOK' /\ FuturesOK'
      BY <3>1, <2>3, <1>2, Kinds DEF IInv, TableOK, FuturesOK
    <3>6. CreatorOK'
      BY <2>3, <3>1, <1>2, Kinds, CreatorKept
    <3> QED
      BY <2>3, <3>2, <3>3, <3>4, <3>5, <3>6, <1>3, <1>4
  <2> QED
    BY <2>1, <2>2, <2>3 DEF EnsureReply
<1>5. ConnectionsOK' /\ PhasesOK' /\ LocksOK'
  BY <1>2, <1>4, CallerStep
<1>6. SubscriptionsOK' /\ ReplyOK' /\ Flags'
  <2>1. /\ opened' = opened /\ alive' = alive /\ opened \in Nat /\ dying' = dying
        /\ restoring' = restoring
    BY <1>2 DEF connVars, IInv, ConnectionsOK
  <2> QED
    BY <2>1, <1>2, <1>4, SubscriptionsKept
<1>7. QuietOK' /\ ShutdownOK'
  BY <1>1, <1>2, <1>4, QuietKept, ShutdownKept
<1> QED
  BY <1>4, <1>5, <1>6, <1>7 DEF IInv

LEMMA GotReplyLockStep ==
  ASSUME IInv, NEW r \in Requests, GotReplyLock(r)
  PROVE  IInv'
BY EnsureReplyStep DEF GotReplyLock, counters

LEMMA RequestStep ==
  ASSUME IInv, NEW r \in Requests, Request(r)
  PROVE  IInv'
<1>1. /\ pc[r] = "idle" /\ state = "running"
      /\ UNCHANGED <<state, connVars, records, consumers, closing, todo, replySet, history, starts>>
  BY DEF Request, counters
<1>2. CASE ReplyOwner = {}
  BY <1>1, <1>2, EnsureReplyStep DEF Request
<1>3. CASE ReplyOwner # {}
  <2>1. Goto(r, "ensure") /\ UNCHANGED <<conn, missed, pending, future, leaked>>
    BY <1>3 DEF Request
  <2>2. \A a \in Actors : pc'[a] = IF a = r THEN "ensure" ELSE pc[a]
    BY <2>1 DEF Goto, IInv, PlacesOK
  <2>3. PlacesOK'
    BY <2>1, Kinds DEF Goto, IInv, PlacesOK, Places, RequestPlaces
  <2>4. pc'[Boot] = pc[Boot] /\ Past \subseteq Past' /\ Connecting' \subseteq Connecting
    BY <1>1, <2>2, Kinds DEF Past, Connecting
  <2>5. \A p, q \in ReplyOwner' : p = q
    BY <2>2, Kinds DEF ReplyOwner, IInv, LocksOK
  <2>6. TableOK' /\ FuturesOK'
    BY <2>2, <2>1, <1>1, Kinds DEF IInv, TableOK, FuturesOK
  <2>7. conn' \in [Actors -> Nat]
    BY <2>1 DEF IInv, ConnectionsOK
  <2>8. ConnectionsOK' /\ PhasesOK' /\ LocksOK'
    BY <1>1, <2>4, <2>5, <2>7, CallerStep
  <2>9. SubscriptionsOK' /\ ReplyOK' /\ Flags'
    BY <1>1, <2>1, <2>4, SubscriptionsKept DEF connVars, history, IInv, ConnectionsOK
  <2>10. QuietOK' /\ ShutdownOK'
    BY <1>1, <2>4, QuietKept, ShutdownKept DEF history
  <2>11. CreatorOK'
    BY <1>1, <2>1, <2>2, Kinds, CreatorKept DEF connVars, history
  <2> QED
    BY <2>3, <2>6, <2>8, <2>9, <2>10, <2>11 DEF IInv
<1> QED
  BY <1>2, <1>3

-----------------------------------------------------------------------------
(* The steps of subscriptions                                              *)

LEMMA SubscribeStep ==
  ASSUME IInv, NEW s \in Subs, Subscribe(s)
  PROVE  IInv'
<1>1. /\ s \in Subscribers /\ pc[s] = "idle" /\ state = "running" /\ StartSubscribe(s, s)
      /\ UNCHANGED <<state, connVars, records, consumers, closing, todo, replySet, history, starts>>
      /\ s # Reply
      /\ UNCHANGED <<pending, future, leaked>>
  BY BrokerAssumption DEF Subscribe, rpcVars, counters
<1>2. table \in Nat \ {0} /\ conn \in [Actors -> Nat]
  BY <1>1 DEF IInv, PhasesOK, ConnectionsOK
<1>3. /\ PlacesOK' /\ conn' \in [Actors -> Nat]
      /\ pc'[Boot] = pc[Boot] /\ Past \subseteq Past'
      /\ Connecting' \subseteq Connecting /\ ReplyOwner' \subseteq ReplyOwner \cup {s}
      /\ \A q \in Requests : pc'[q] = pc[q] \/ pc[q] \in {"idle", "ensure"}
      /\ pc'[Reply] = pc[Reply] /\ conn'[Reply] = conn[Reply]
      /\ missed' = missed \ {<<s, table>>}
  BY <1>1, <1>2, StartSubscribeOK DEF IInv
<1>4. ReplyOwner' \subseteq ReplyOwner
  BY <1>3, Kinds DEF ReplyOwner
<1>5. TableOK' /\ FuturesOK'
  BY <1>1, <1>3 DEF IInv, TableOK, FuturesOK
<1>6. \A p, q \in ReplyOwner' : p = q
  BY <1>4 DEF IInv, LocksOK
<1>7. ConnectionsOK' /\ PhasesOK' /\ LocksOK'
  BY <1>1, <1>3, <1>6, CallerStep
<1>8. SubscriptionsOK' /\ ReplyOK' /\ Flags'
  BY <1>1, <1>3, SubscriptionsKept DEF connVars, history, IInv, ConnectionsOK
<1>10. CreatorOK'
  BY <1>1, <1>3, CreatorKept DEF connVars, history
<1>9. QuietOK' /\ ShutdownOK'
  BY <1>1, <1>3, QuietKept, ShutdownKept DEF history
<1> QED
  BY <1>3, <1>5, <1>7, <1>8, <1>9, <1>10 DEF IInv

LEMMA CreatedStep ==
  ASSUME IInv, NEW s \in Subs, Created(s)
  PROVE  IInv'
<1>1. /\ pc[s] = "create"
      /\ conn[s] \in alive \/ <<s, conn[s]>> \in missed
      /\ records' = records \cup {<<s, conn[s]>>}
      /\ \/ consumers' = consumers \cup {<<s, conn[s]>>} /\ missed' = missed \ {<<s, conn[s]>>}
         \/ <<s, conn[s]>> \in missed /\ consumers' = consumers /\ missed' = missed
      /\ UNCHANGED <<state, connVars, closing, todo, history, starts>>
  BY DEF Created, counters
<1>2. overlapped \/ state = "running"
  BY <1>1, CallsInRun, Kinds
<1>3. /\ state' = state /\ overlapped' = overlapped /\ table' = table /\ closing' = closing
      /\ alive' = alive /\ opened' = opened /\ todo' = todo /\ restoring' = restoring
      /\ UNCHANGED <<state, connVars, history, starts>>
  BY <1>1 DEF connVars, history
<1>4. table \in Nat /\ conn \in [Actors -> Nat]
  BY DEF IInv, ConnectionsOK
<1>5. SUFFICES ASSUME PlacesOK', TableOK', conn' \in [Actors -> Nat], pc'[Boot] = pc[Boot],
                      Past \subseteq Past', Connecting' \subseteq Connecting,
                      ReplyOwner' \subseteq ReplyOwner, FuturesOK', Flags', ReplyOK',
                      CreatorOK'
               PROVE  IInv'
  <2>1. CASE s = Reply
    <3>1. replySet' = TRUE
      BY <2>1 DEF Created
    <3>2. PICK r \in ReplyOwner : EnterTable(r, {Reply})
      BY <2>1 DEF Created
    <3>3. r \in Requests /\ pc[r] = "subscribing"
      BY DEF ReplyOwner
    <3>4. /\ PlacesOK' /\ TableOK' /\ conn' \in [Actors -> Nat]
          /\ pc'[Boot] = pc[Boot] /\ Past \subseteq Past'
          /\ Connecting' \subseteq Connecting /\ ReplyOwner' = ReplyOwner \ {r}
          /\ pc'[Reply] = "idle"
      BY <3>2, <3>3, <1>4, EnterTableOK DEF IInv
    <3>5. FuturesOK'
      BY <3>1 DEF FuturesOK
    <3>6. Flags'
      BY <3>1, <1>3 DEF Flags, IInv
    <3>7. ReplyOK'
      <4> SUFFICES ASSUME ~overlapped
                   PROVE  state' = "running" /\ ReplyUp'
        BY <1>3 DEF ReplyOK
      <4>1. state = "running" /\ conn[s] = table
        BY <1>1, <1>2, <2>1 DEF IInv, CreatorOK
      <4>2. <<Reply, table>> \in records' /\ <<Reply, table>> \in consumers' \cup missed'
        BY <4>1, <1>1, <2>1
      <4> QED
        BY <4>1, <4>2, <1>3 DEF ReplyUp
    <3>8. CreatorOK'
      BY <3>4 DEF CreatorOK
    <3> QED
      BY <3>4, <3>5, <3>6, <3>7, <3>8, <1>5
  <2>2. CASE s # Reply
    <3>1. Goto(s, "done") /\ UNCHANGED <<conn, replySet, pending, future, leaked>>
      BY <2>2 DEF Created
    <3>2. \A a \in Actors : pc'[a] = IF a = s THEN "done" ELSE pc[a]
      BY <3>1 DEF Goto, IInv, PlacesOK
    <3>3. PlacesOK'
      BY <3>1, Kinds DEF Goto, IInv, PlacesOK, Places, RequestPlaces
    <3>4. pc'[Boot] = pc[Boot] /\ Past \subseteq Past' /\ Connecting' \subseteq Connecting
      BY <3>2, Kinds DEF Past, Connecting
    <3>5. ReplyOwner' \subseteq ReplyOwner
      BY <3>2, Kinds DEF ReplyOwner
    <3>6. TableOK' /\ FuturesOK'
      BY <3>2, <3>1, Kinds DEF IInv, TableOK, FuturesOK
    <3>7. Flags'
      BY <3>1, <1>3 DEF IInv, Flags
    <3>8. ReplyUp => ReplyUp'
      BY <1>1, <1>3, <2>2 DEF ReplyUp
    <3>10. CreatorOK'
      BY <3>1, <3>2, <1>3, <2>2, Kinds, CreatorKept
    <3>9. ReplyOK'
      BY <3>1, <3>8, <1>3 DEF IInv, ReplyOK
    <3> QED
      BY <3>1, <3>3, <3>4, <3>5, <3>6, <3>7, <3>9, <3>10, <1>4, <1>5
  <2> QED
    BY <2>1, <2>2
<1>6. \A p, q \in ReplyOwner' : p = q
  BY <1>5 DEF IInv, LocksOK
<1>7. ConnectionsOK' /\ PhasesOK' /\ LocksOK'
  BY <1>3, <1>5, <1>6, CallerStep
<1>8. QuietOK' /\ ShutdownOK'
  BY <1>2, <1>3, <1>5, QuietKept, ShutdownKept
<1>9. SubscriptionsOK'
  <2>1. conn[s] \in 1..opened
    BY <1>1 DEF IInv, ConnectionsOK, SubscriptionsOK
  <2>2. <<s, conn[s]>> \in Subs \X (1..opened)
    BY <2>1
  <2>3. records' \cup consumers' \cup closing' \cup todo' \cup missed'
          \subseteq Subs \X (1..opened')
    BY <2>2, <1>1, <1>3 DEF IInv, SubscriptionsOK
  <2>4. \A p \in consumers' : p[2] \in alive' \/ p \in records' \cup closing'
    BY <1>1, <1>3 DEF IInv, SubscriptionsOK
  <2> QED
    BY <2>3, <2>4, <1>3, <1>5 DEF IInv, SubscriptionsOK
<1> QED
  BY <1>5, <1>7, <1>8, <1>9 DEF IInv

(* A step that leaves the calls and their table where they are.            *)
LEMMA CallsRest ==
  ASSUME IInv, UNCHANGED <<state, pc, conn, table, todo, replySet, pending, future, leaked,
                           overlapped>>,
         records' \subseteq records, ConnectionsOK', SubscriptionsOK',
         ReplyUp => ReplyUp' \/ state # "running"
  PROVE  IInv'
<1>1. /\ state' = state /\ overlapped' = overlapped /\ table' = table /\ replySet' = replySet
      /\ todo' = todo /\ pending' = pending /\ future' = future /\ leaked' = leaked /\ pc' = pc
      /\ conn' = conn
  OBVIOUS
<1>2. /\ UnderWay' = UnderWay /\ Connecting' = Connecting
      /\ ReplyOwner' = ReplyOwner /\ PlacesOK'
  BY <1>1 DEF UnderWay, Connecting, ReplyOwner, PlacesOK, IInv
<1>3. TableOK' /\ FuturesOK' /\ Flags' /\ PhasesOK'
  BY <1>1 DEF TableOK, FuturesOK, Flags, PhasesOK, IInv
<1>4. LocksOK' /\ CreatorOK'
  BY <1>1, <1>2, CreatorKept DEF IInv, LocksOK
<1>5. QuietOK' /\ ShutdownOK'
  BY <1>1, <1>2, QuietKept, ShutdownKept
<1>6. ReplyOK'
  BY <1>1 DEF IInv, ReplyOK
<1> QED
  BY <1>2, <1>3, <1>4, <1>5, <1>6 DEF IInv

(* A step that only closes a subscription.                                 *)
LEMMA ClosingStep ==
  ASSUME IInv, UNCHANGED <<state, pc, conn, connVars, todo, rpcVars, leaked, history, counters>>,
         records' \subseteq records, SubscriptionsOK', ReplyUp => ReplyUp' \/ state # "running"
  PROVE  IInv'
<1>1. /\ UNCHANGED <<state, pc, conn, table, todo, replySet, pending, future, leaked, overlapped>>
      /\ Past' = Past /\ UNCHANGED <<connVars, abandoned, starts>>
  BY DEF connVars, history, counters, rpcVars, Past
<1>2. conn' \in [Actors -> Nat]
  BY DEF IInv, ConnectionsOK
<1>3. ConnectionsOK'
  BY <1>1, <1>2, ConnectionsKept DEF IInv
<1> QED
  BY <1>1, <1>3, CallsRest

(* What a restore may pass over are subscriptions that exist.              *)
LEMMA RemoveCallbackOK ==
  ASSUME NEW p, RemoveCallback(p)
  PROVE  missed \subseteq missed' /\ missed' \subseteq missed \cup records
BY DEF RemoveCallback, Recorded

LEMMA UnsubscribeStep ==
  ASSUME IInv, NEW p \in records, Unsubscribe(p)
  PROVE  IInv'
<1>1. /\ p[1] # Reply /\ records' = records \ {p} /\ closing' = closing \cup {p}
      /\ consumers' = consumers /\ todo' = todo /\ pc' = pc /\ state' = state
      /\ table' = table /\ restoring' = restoring /\ RemoveCallback(p)
      /\ UNCHANGED <<state, pc, conn, connVars, todo, rpcVars, leaked, history, counters>>
      /\ opened' = opened /\ alive' = alive
  BY DEF Unsubscribe, connVars
<1>4. missed \subseteq missed' /\ missed' \subseteq missed \cup records
  BY <1>1, RemoveCallbackOK
<1>2. SubscriptionsOK'
  BY <1>1, <1>4 DEF IInv, SubscriptionsOK
<1>3. ReplyUp => ReplyUp'
  BY <1>1, <1>4 DEF ReplyUp
<1> QED
  BY <1>1, <1>2, <1>3, ClosingStep

LEMMA CloseNextStep ==
  ASSUME IInv, NEW p \in records, CloseNext(p)
  PROVE  IInv'
<1>1. /\ pc[Boot] = "closing" /\ p \in todo /\ records' = records \ {p}
      /\ closing' = closing \cup {p}
      /\ consumers' = consumers /\ todo' = todo /\ pc' = pc /\ state' = state
      /\ table' = table /\ restoring' = restoring /\ RemoveCallback(p)
      /\ UNCHANGED <<state, pc, conn, connVars, todo, rpcVars, leaked, history, counters>>
      /\ opened' = opened /\ alive' = alive
  BY DEF CloseNext, connVars
<1>4. missed \subseteq missed' /\ missed' \subseteq missed \cup records
  BY <1>1, RemoveCallbackOK
<1>2. SubscriptionsOK'
  BY <1>1, <1>4 DEF IInv, SubscriptionsOK, PhasesOK
<1>3. state # "running"
  BY <1>1 DEF IInv, PhasesOK
<1> QED
  BY <1>1, <1>2, <1>3, ClosingStep

LEMMA CloseEndsStep ==
  ASSUME IInv, NEW p \in closing, CloseEnds(p)
  PROVE  IInv'
<1>1. /\ closing' = closing \ {p} /\ consumers' = consumers \ {p} /\ records' = records
      /\ todo' = todo /\ pc' = pc /\ state' = state /\ missed' = missed
      /\ table' = table /\ restoring' = restoring
      /\ UNCHANGED <<state, pc, conn, connVars, todo, rpcVars, leaked, history, counters>>
      /\ opened' = opened /\ alive' = alive
  BY DEF CloseEnds, connVars
<1>2. SubscriptionsOK'
  BY <1>1 DEF IInv, SubscriptionsOK
<1>3. ReplyUp => ReplyUp' \/ state # "running"
  <2> SUFFICES ASSUME state = "running", ReplyUp
               PROVE  ReplyUp'
    OBVIOUS
  <2>1. p # <<Reply, table>>
    BY DEF IInv, SubscriptionsOK
  <2> QED
    BY <2>1, <1>1 DEF ReplyUp
<1> QED
  BY <1>1, <1>2, <1>3, ClosingStep

-----------------------------------------------------------------------------
(* The steps under the engine lock                                         *)

(* Only requests and startup connect.                                      *)
LEMMA WhoConnects ==
  ASSUME IInv, NEW a \in Actors, pc[a] \in {"connect", "connecting"}
  PROVE  a = Boot \/ a \in Requests
BY Kinds DEF IInv, PlacesOK

(* What a request does with its connection.                                *)
LEMMA RequestProceeds ==
  ASSUME IInv, NEW r \in Requests, pc[r] \in {"connect", "connecting"},
         NEW w \in {"connecting", "publish"}, Goto(r, w)
  PROVE  /\ PlacesOK' /\ pc'[Boot] = pc[Boot] /\ Past \subseteq Past' /\ pc'[Reply] = pc[Reply]
         /\ w = "publish" => r \notin Past /\ r \in Past' /\ Connecting' \subseteq Connecting
         /\ Connecting' \subseteq Connecting \cup {r}
         /\ ReplyOwner' \subseteq ReplyOwner
         /\ \A q \in Requests \ {r} : pc'[q] = pc[q]
         /\ pc'[r] = w
<1>1. \A a \in Actors : pc'[a] = IF a = r THEN w ELSE pc[a]
  BY DEF Goto, IInv, PlacesOK
<1>2. PlacesOK'
  BY Kinds DEF Goto, IInv, PlacesOK, Places, RequestPlaces
<1>3. pc'[Boot] = pc[Boot] /\ pc'[Reply] = pc[Reply] /\ Past \subseteq Past'
  BY <1>1, Kinds DEF Past
<1>4. w = "publish" => r \notin Past /\ r \in Past' /\ Connecting' \subseteq Connecting
  BY <1>1, Kinds DEF Past, Connecting
<1>5. Connecting' \subseteq Connecting \cup {r} /\ ReplyOwner' \subseteq ReplyOwner
  BY <1>1, Kinds DEF Connecting, ReplyOwner
<1> QED
  BY <1>1, <1>2, <1>3, <1>4, <1>5, Kinds

(* The table of pending requests is not touched by a connect.              *)
LEMMA TableKept ==
  ASSUME IInv, UNCHANGED <<pending, future, leaked, replySet, overlapped>>,
         \A q \in Requests : pc'[q] = pc[q] \/ pc'[q] \in {"connect", "connecting", "publish", "wait"}
  PROVE  TableOK' /\ FuturesOK' /\ Flags'
BY DEF IInv, TableOK, FuturesOK, Flags

(* A request finds the connection, or is the one that connects.            *)
LEMMA RequestGotEngineLock ==
  ASSUME IInv, NEW r \in Requests, GotEngineLock(r)
  PROVE  IInv'
<1>1. /\ pc[r] = "connect" /\ Connecting = {}
      /\ UNCHANGED <<opened, alive, restoring, subVars, todo, rpcVars, leaked, history, counters>>
  BY DEF GotEngineLock
<1>2. PICK w \in {"connecting", "publish"} :
        /\ Goto(r, w) /\ UNCHANGED <<state, table, dying>>
        /\ conn' \in [Actors -> Nat] /\ conn'[Reply] = conn[Reply]
        /\ w = "connecting" => table = 0
  <2>1. CASE table # 0
    BY <2>1, Kinds DEF GotEngineLock, Proceed, IInv, ConnectionsOK
  <2>2. CASE table = 0
    BY <2>2 DEF GotEngineLock, IInv, ConnectionsOK
  <2> QED
    BY <2>1, <2>2
<1>3. /\ PlacesOK' /\ pc'[Boot] = pc[Boot] /\ Past \subseteq Past'
      /\ w = "publish" => Connecting' \subseteq Connecting
      /\ Connecting' \subseteq Connecting \cup {r}
      /\ ReplyOwner' \subseteq ReplyOwner
      /\ \A q \in Requests \ {r} : pc'[q] = pc[q]
      /\ pc'[r] = w /\ pc'[Reply] = pc[Reply]
  BY <1>1, <1>2, RequestProceeds
<1>4. overlapped \/ state = "running"
  BY <1>1, CallsInRun, Kinds
<1>5. /\ UNCHANGED <<state, connVars, subVars, todo, replySet, history, abandoned, starts>>
      /\ UNCHANGED <<pending, future, leaked, replySet, overlapped>>
      /\ state' = state /\ overlapped' = overlapped /\ table' = table
      /\ UNCHANGED <<table, dying, restoring, records, consumers, closing>>
      /\ missed' = missed /\ opened' = opened /\ alive' = alive /\ opened \in Nat
  BY <1>1, <1>2 DEF connVars, subVars, rpcVars, counters, history, IInv, ConnectionsOK
<1>6. TableOK' /\ FuturesOK' /\ Flags'
  BY <1>2, <1>3, <1>5, TableKept
<1>7. ConnectionsOK'
  BY <1>2, <1>3, <1>5, ConnectionsKept DEF IInv
<1>8. PhasesOK'
  BY <1>3, <1>5 DEF IInv, PhasesOK
<1>9. LocksOK'
  BY <1>1, <1>2, <1>3, <1>5 DEF IInv, LocksOK
<1>10. SubscriptionsOK' /\ ReplyOK'
  BY <1>3, <1>5, SubscriptionsKept
<1>11. QuietOK' /\ ShutdownOK'
  BY <1>3, <1>4, <1>5, QuietKept, ShutdownKept
<1>12. CreatorOK'
  BY <1>2, <1>3, <1>5, CreatorKept
<1> QED
  BY <1>3, <1>6, <1>7, <1>8, <1>9, <1>10, <1>11, <1>12 DEF IInv

(* A request has connected: the engine has a connection again.             *)
LEMMA RequestConnected ==
  ASSUME IInv, NEW r \in Requests, Connected(r)
  PROVE  IInv'
<1>1. /\ pc[r] = "connecting" /\ opened' = opened + 1 /\ alive' = alive \cup {opened + 1}
      /\ Goto(r, "publish") /\ table' = opened + 1 /\ UNCHANGED <<state, dying>>
      /\ conn' = [conn EXCEPT ![r] = opened + 1]
      /\ UNCHANGED <<restoring, subVars, todo, rpcVars, leaked, history, counters>>
  BY Kinds DEF Connected, Proceed
<1>2. /\ PlacesOK' /\ pc'[Boot] = pc[Boot] /\ Past \subseteq Past'
      /\ r \notin Past /\ r \in Past'
      /\ Connecting' \subseteq Connecting
      /\ ReplyOwner' \subseteq ReplyOwner
      /\ \A q \in Requests \ {r} : pc'[q] = pc[q]
      /\ pc'[r] = "publish"
  BY <1>1, RequestProceeds
<1>3. overlapped \/ state = "running"
  BY <1>1, CallsInRun, Kinds
<1>4. /\ UNCHANGED <<pending, future, leaked, replySet, overlapped>>
      /\ starts' = starts /\ abandoned' = abandoned
      /\ records' = records /\ consumers' = consumers /\ closing' = closing /\ todo' = todo
      /\ missed' = missed /\ restoring' = restoring
  BY <1>1 DEF rpcVars, counters, history, subVars
<1>5. TableOK' /\ FuturesOK' /\ Flags'
  BY <1>2, <1>4, TableKept
<1>6. table = 0 /\ r \in Connecting
  BY <1>1, Kinds DEF IInv, LocksOK, Connecting
<1>7. ConnectionsOK'
  <2>1. opened \in Nat /\ starts \in Nat /\ Booting' = Booting /\ Booting \in Nat
    BY <1>2 DEF IInv, ConnectionsOK, Booting
  <2>2. opened' + Booting' <= starts' + Cardinality(Past')
    <3>1. Cardinality(Past) + 1 <= Cardinality(Past')
      BY <1>2, PastGains
    <3> QED
      BY <3>1, <2>1, <1>1, <1>4, PastCounted, PastCountedNext DEF IInv, ConnectionsOK
  <2>3. /\ alive' \cup abandoned' \subseteq 1..opened' /\ restoring' \subseteq alive'
        /\ table' \in 0..opened' /\ dying' \in 0..opened'
        /\ alive' \subseteq {table', dying'} \cup abandoned'
        /\ dying' # 0 <=> pc'[Boot] \in {"disconnect", "failing"}
    BY <2>1, <1>1, <1>2, <1>4, <1>6 DEF IInv, ConnectionsOK
  <2>4. conn' \in [Actors -> Nat]
    <3>1. opened + 1 \in Nat /\ conn \in [Actors -> Nat]
      BY <2>1 DEF IInv, ConnectionsOK
    <3> QED
      BY <3>1, <1>1
  <2> QED
    BY <2>1, <2>2, <2>3, <2>4, <1>1, <1>2, <1>4 DEF IInv, ConnectionsOK
<1>8. PhasesOK'
  <2>1. table' # 0
    BY <1>1 DEF IInv, ConnectionsOK
  <2> QED
    BY <2>1, <1>1, <1>2 DEF IInv, PhasesOK
<1>9. LocksOK'
  <2>1. Connecting' = {}
    BY <1>2, <1>6, Kinds DEF IInv, LocksOK, Connecting
  <2> QED
    BY <2>1, <1>2 DEF IInv, LocksOK
<1>10. SubscriptionsOK'
  <2>1. 1..opened \subseteq 1..opened' /\ alive \subseteq alive'
    BY <1>1 DEF IInv, ConnectionsOK
  <2> QED
    BY <2>1, <1>1, <1>2, <1>4 DEF IInv, SubscriptionsOK
<1>11. overlapped /\ overlapped' = overlapped
  BY <1>3, <1>4, <1>6 DEF IInv, PhasesOK
<1>12. QuietOK' /\ ShutdownOK' /\ ReplyOK' /\ CreatorOK'
  BY <1>11 DEF QuietOK, ShutdownOK, ReplyOK, CreatorOK
<1> QED
  BY <1>2, <1>5, <1>7, <1>8, <1>9, <1>10, <1>12 DEF IInv

(* The connect of a request fails.                                         *)
LEMMA RequestConnectFails ==
  ASSUME IInv, NEW r \in Requests, ConnectFails(r)
  PROVE  IInv'
<1>1. /\ pc[r] = "connecting" /\ Finish(r) /\ UNCHANGED <<state, leaked>>
      /\ UNCHANGED <<conn, table, dying, restoring, subVars, todo, replySet, overlapped, starts>>
  BY Kinds DEF ConnectFails
<1>2. CASE UNCHANGED <<opened, alive, abandoned>>
  BY <1>1, <1>2, FinishStep DEF connVars, history
<1>3. CASE LeftUp
  BY <1>1, <1>3, FinishLeavingUp
<1> QED
  BY <1>2, <1>3 DEF ConnectFails

-----------------------------------------------------------------------------
(* The steps of startup and shutdown                                       *)

(* A reply subscription is closed by a shutdown only.                      *)
LEMMA NoReplyCloses ==
  ASSUME IInv, state # "draining" \/ pc[Boot] \notin {"idle", "closing"}
  PROVE  \A p \in closing : p[1] # Reply
BY DEF IInv, SubscriptionsOK

(* A move of the caller of startup or shutdown that leaves the table alone. *)
LEMMA BootStep ==
  ASSUME IInv, NEW w \in BootPlaces, Goto(Boot, w),
         UNCHANGED <<pending, future, leaked, replySet, overlapped>>
  PROVE  /\ PlacesOK' /\ TableOK' /\ FuturesOK' /\ Flags'
         /\ pc'[Boot] = w /\ Past' = Past /\ UnderWay' = UnderWay /\ ReplyOwner' = ReplyOwner
         /\ Connecting' \subseteq Connecting \cup {Boot}
         /\ (Connecting' \subseteq Connecting) \/ w = "connecting"
<1>1. /\ PlacesOK' /\ pc'[Boot] = w /\ Past' = Past
      /\ \A a \in Callers : pc'[a] = pc[a]
      /\ UnderWay' = UnderWay /\ ReplyOwner' = ReplyOwner
      /\ Connecting' \subseteq Connecting \cup {Boot}
      /\ (Connecting' \subseteq Connecting) \/ w = "connecting"
  BY BootMoves DEF IInv
<1>2. TableOK' /\ FuturesOK' /\ Flags'
  BY <1>1, Kinds DEF IInv, TableOK, FuturesOK, Flags
<1> QED
  BY <1>1, <1>2

(* Subscriptions are not touched, while none of them is a reply closing.   *)
LEMMA SubscriptionsStay ==
  ASSUME IInv, UNCHANGED subVars, todo' \subseteq todo \cup records,
         alive \subseteq alive', opened' \in Nat, opened <= opened',
         \A p \in closing : p[1] # Reply
  PROVE  SubscriptionsOK'
<1>1. records' = records /\ consumers' = consumers /\ closing' = closing /\ missed' = missed
  BY DEF subVars
<1>2. 1..opened \subseteq 1..opened'
  BY DEF IInv, ConnectionsOK
<1> QED
  BY <1>1, <1>2 DEF IInv, SubscriptionsOK

(* No run begins or ends but by the caller of startup and shutdown.        *)
LEMMA QuietStays ==
  ASSUME IInv, overlapped' = overlapped, UnderWay' = UnderWay,
         state # "running" \/ state' = "running"
  PROVE  QuietOK'
BY DEF IInv, QuietOK

(* A start that is counted pays for a connection that may come.            *)
LEMMA Balance ==
  ASSUME NEW o \in Nat, NEW b \in Nat, NEW c \in Nat, NEW s \in Nat, NEW t \in Nat,
         NEW n \in Nat, o + b <= s + n, c - b <= t - s
  PROVE  o + c <= t + n
OBVIOUS

(* A step of startup or shutdown, whatever it does to the connections.     *)
LEMMA BootSteps ==
  ASSUME IInv, NEW w \in BootPlaces, Goto(Boot, w),
         w # "connecting" \/ (Connecting = {} /\ table = 0),
         UNCHANGED <<table, pending, future, leaked, replySet, overlapped>>,
         state # "running", state' # "running",
         ConnectionsOK', SubscriptionsOK', PhasesOK', ReplyOK', ShutdownOK'
  PROVE  IInv'
<1>1. /\ PlacesOK' /\ TableOK' /\ FuturesOK' /\ Flags'
      /\ UnderWay' = UnderWay /\ ReplyOwner' = ReplyOwner
      /\ Connecting' \subseteq Connecting \cup {Boot}
      /\ (Connecting' \subseteq Connecting) \/ w = "connecting"
  BY BootStep
<1>2. LocksOK'
  BY <1>1 DEF IInv, LocksOK
<1>3. QuietOK' /\ CreatorOK'
  BY <1>1, QuietStays, CreatorKept
<1> QED
  BY <1>1, <1>2, <1>3 DEF IInv

(* Steps before the connection: start, the event, and their ends.          *)
LEMMA BootStays ==
  ASSUME IInv, NEW w \in BootPlaces, Goto(Boot, w),
         w # "connecting" \/ (Connecting = {} /\ table = 0),
         UNCHANGED <<connVars, subVars, rpcVars, leaked, history>>,
         conn' \in [Actors -> Nat], todo' \subseteq todo \cup records,
         state # "running", state' # "running", \A p \in closing : p[1] # Reply,
         starts' \in Nat, starts' <= MaxStarts, w \notin {"disconnect", "failing"},
         Booting' - Booting <= starts' - starts, dying = 0, PhasesOK', ReplyOK', ShutdownOK'
  PROVE  IInv'
<1>1. /\ UNCHANGED <<table, pending, future, leaked, replySet, overlapped>>
      /\ opened' = opened /\ alive' = alive /\ table' = table /\ dying' = dying
      /\ abandoned' = abandoned /\ restoring' = restoring
  BY DEF rpcVars, history, connVars
<1>2. pc'[Boot] = w /\ Past' = Past
  BY <1>1, BootStep
<1>3. ConnectionsOK'
  <2>1. Booting \in Nat /\ Booting' \in Nat
    BY DEF Booting
  <2>2. opened + Booting' <= starts' + Cardinality(Past)
    <3>1. /\ opened \in Nat /\ starts \in Nat
          /\ opened + Booting <= starts + Cardinality(Past)
      BY DEF IInv, ConnectionsOK
    <3>2. Cardinality(Past) \in Nat
      BY PastCounted
    <3> QED
      BY <3>1, <3>2, <2>1, Balance
  <2> QED
    BY <2>2, <1>1, <1>2 DEF IInv, ConnectionsOK
<1>4. SubscriptionsOK'
  BY <1>1, SubscriptionsStay DEF IInv, ConnectionsOK
<1> QED
  BY <1>1, <1>3, <1>4, BootSteps

(* A startup ends and leaves its connection up.                            *)
LEMMA BootLeavesUp ==
  ASSUME IInv, pc[Boot] = "connecting", Goto(Boot, "idle"), LeftUp,
         UNCHANGED <<conn, table, restoring, starts>>, dying' = 0
  PROVE  ConnectionsOK' /\ opened' \in Nat /\ opened <= opened' /\ alive \subseteq alive'
<1>1. pc'[Boot] = "idle" /\ Past' = Past
  BY BootMoves DEF IInv, BootPlaces
<1>2. Booting = 1 /\ Booting' = 0
  BY <1>1 DEF Booting
<1>3. opened' + Booting' <= starts + Cardinality(Past')
  BY <1>1, <1>2, PastCounted DEF IInv, ConnectionsOK, LeftUp
<1>4. dying = 0 /\ conn' \in [Actors -> Nat]
  BY DEF IInv, ConnectionsOK
<1> QED
  BY <1>1, <1>3, <1>4, LeftUpOK

LEMMA StartupStep ==
  ASSUME IInv, Startup
  PROVE  IInv'
<1>1. /\ pc[Boot] = "idle" /\ state \in {"new", "stopped", "failed"} /\ starts < MaxStarts
      /\ starts' = starts + 1 /\ state' = "starting" /\ Goto(Boot, "start_emit")
      /\ UNCHANGED <<conn, connVars, subVars, todo, rpcVars, leaked, history>>
      /\ replySet' = replySet /\ overlapped' = overlapped
  BY DEF Startup, rpcVars, history
<1>2. pc'[Boot] = "start_emit"
  BY <1>1, Kinds DEF Goto, IInv, PlacesOK
<1>3. starts' \in Nat /\ starts' <= MaxStarts /\ Booting' - Booting <= starts' - starts
  BY <1>1, <1>2, BrokerAssumption DEF IInv, ConnectionsOK, Booting
<1>4. PhasesOK'
  BY <1>1, <1>2 DEF PhasesOK
<1>5. ReplyOK'
  BY <1>1 DEF IInv, ReplyOK
<1>6. ShutdownOK'
  BY <1>1, <1>2 DEF ShutdownOK
<1>7. dying = 0
  BY <1>1 DEF IInv, ConnectionsOK
<1>9. conn' \in [Actors -> Nat] /\ todo' \subseteq todo \cup records
  BY <1>1 DEF IInv, ConnectionsOK
<1> QED
  BY <1>1, <1>9, <1>3, <1>4, <1>5, <1>6, <1>7, NoReplyCloses, BootStays DEF BootPlaces

LEMMA StartEmittedStep ==
  ASSUME IInv, StartEmitted
  PROVE  IInv'
<1>1. /\ pc[Boot] = "start_emit" /\ Goto(Boot, "connect") /\ state' = state /\ starts' = starts
      /\ UNCHANGED <<conn, connVars, subVars, todo, rpcVars, leaked, history>>
      /\ replySet' = replySet /\ overlapped' = overlapped
  BY DEF StartEmitted, rpcVars, history, counters
<1>2. state = "starting"
  BY <1>1 DEF IInv, PhasesOK
<1>3. pc'[Boot] = "connect"
  BY <1>1, Kinds DEF Goto, IInv, PlacesOK
<1>4. starts' \in Nat /\ starts' <= MaxStarts /\ Booting' - Booting <= starts' - starts
  BY <1>1, <1>3 DEF IInv, ConnectionsOK, Booting
<1>5. PhasesOK'
  BY <1>1, <1>2, <1>3 DEF PhasesOK
<1>6. ReplyOK'
  BY <1>1, <1>2 DEF IInv, ReplyOK
<1>7. ShutdownOK'
  BY <1>1, <1>2, <1>3 DEF ShutdownOK
<1>8. dying = 0
  BY <1>1 DEF IInv, ConnectionsOK
<1>9. conn' \in [Actors -> Nat] /\ todo' \subseteq todo \cup records
  BY <1>1 DEF IInv, ConnectionsOK
<1> QED
  BY <1>1, <1>9, <1>2, <1>4, <1>5, <1>6, <1>7, <1>8, NoReplyCloses, BootStays DEF BootPlaces

LEMMA ShutdownUnstartedStep ==
  ASSUME IInv, ShutdownUnstarted
  PROVE  IInv'
<1>1. /\ pc[Boot] = "idle" /\ state = "new" /\ state' = "stopped" /\ pc' = pc
      /\ starts' = starts
      /\ UNCHANGED <<pending, future, leaked, replySet, overlapped>>
      /\ UNCHANGED <<conn, connVars, subVars, todo, rpcVars, leaked, history>>
      /\ records' = records /\ table' = table
  BY DEF ShutdownUnstarted, rpcVars, history, counters, connVars, subVars
<1>2. Goto(Boot, "idle")
  BY <1>1 DEF Goto, IInv, PlacesOK
<1>3. starts' \in Nat /\ starts' <= MaxStarts /\ Booting' - Booting <= starts' - starts
  BY <1>1 DEF IInv, ConnectionsOK, Booting
<1>4. PhasesOK'
  BY <1>1 DEF PhasesOK
<1>5. ReplyOK'
  BY <1>1 DEF IInv, ReplyOK
<1>6. ShutdownOK'
  BY <1>1 DEF IInv, ShutdownOK, Released
<1>7. dying = 0
  BY <1>1 DEF IInv, ConnectionsOK
<1>9. conn' \in [Actors -> Nat] /\ todo' \subseteq todo \cup records
  BY <1>1 DEF IInv, ConnectionsOK
<1> QED
  BY <1>1, <1>9, <1>2, <1>3, <1>4, <1>5, <1>6, <1>7, NoReplyCloses, BootStays DEF BootPlaces

LEMMA ListenerRaisesStep ==
  ASSUME IInv, ListenerRaises
  PROVE  IInv'
<1>1. /\ pc[Boot] \in {"start_emit", "stop_emit"} /\ Goto(Boot, "idle") /\ state' = state
      /\ starts' = starts
      /\ UNCHANGED <<conn, connVars, subVars, todo, rpcVars, leaked, history>>
      /\ replySet' = replySet /\ overlapped' = overlapped
      /\ alive' = alive /\ consumers' = consumers
  BY DEF ListenerRaises, Fault, rpcVars, history, connVars, subVars
<1>2. state \in {"starting", "draining"}
  BY <1>1 DEF IInv, PhasesOK
<1>3. pc'[Boot] = "idle"
  BY <1>1, Kinds DEF Goto, IInv, PlacesOK
<1>4. starts' \in Nat /\ starts' <= MaxStarts /\ Booting' - Booting <= starts' - starts
  BY <1>1, <1>3 DEF IInv, ConnectionsOK, Booting
<1>5. PhasesOK'
  BY <1>1, <1>2, <1>3 DEF PhasesOK
<1>6. ReplyOK'
  BY <1>1, <1>2 DEF IInv, ReplyOK
<1>7. ShutdownOK'
  BY <1>1, <1>2, <1>3 DEF ShutdownOK
<1>8. dying = 0
  BY <1>1 DEF IInv, ConnectionsOK
<1>9. conn' \in [Actors -> Nat] /\ todo' \subseteq todo \cup records
  BY <1>1 DEF IInv, ConnectionsOK
<1> QED
  BY <1>1, <1>9, <1>2, <1>4, <1>5, <1>6, <1>7, <1>8, NoReplyCloses, BootStays DEF BootPlaces

LEMMA ShutdownStep ==
  ASSUME IInv, Shutdown
  PROVE  IInv'
<1>1. /\ pc[Boot] = "idle" /\ state \in {"starting", "running", "failed"}
      /\ state' = "draining" /\ overlapped' = (UnderWay # {}) /\ Goto(Boot, "stop_emit")
      /\ pending' = pending /\ future' = future /\ leaked' = leaked /\ replySet' = replySet
      /\ opened' = opened /\ alive' = alive /\ table' = table /\ dying' = dying
      /\ abandoned' = abandoned /\ starts' = starts /\ conn' = conn
      /\ todo' = todo /\ UNCHANGED subVars /\ restoring' = restoring
  BY DEF Shutdown, rpcVars, connVars, counters
<1>2. /\ PlacesOK' /\ pc'[Boot] = "stop_emit" /\ Past' = Past
      /\ \A a \in Callers : pc'[a] = pc[a]
      /\ UnderWay' = UnderWay /\ ReplyOwner' = ReplyOwner
      /\ (Connecting' \subseteq Connecting)
  BY <1>1, BootMoves DEF IInv, BootPlaces
<1>3. TableOK' /\ FuturesOK'
  BY <1>1, <1>2, Kinds DEF IInv, TableOK, FuturesOK
<1>4. Flags'
  BY <1>1 DEF IInv, Flags
<1>5. QuietOK'
  BY <1>1, <1>2, Zenon DEF QuietOK
<1>6. ReplyOK' /\ ShutdownOK' /\ PhasesOK'
  BY <1>1, <1>2 DEF ReplyOK, ShutdownOK, PhasesOK
<1>7. LocksOK'
  BY <1>1, <1>2 DEF IInv, LocksOK
<1>8. ConnectionsOK'
  <2>1. Booting = 0 /\ Booting' = 0
    BY <1>1, <1>2 DEF Booting
  <2> QED
    BY <2>1, <1>1, <1>2 DEF IInv, ConnectionsOK
<1>9. SubscriptionsOK'
  BY <1>1, NoReplyCloses, SubscriptionsStay DEF IInv, ConnectionsOK
<1>10. CreatorOK'
  BY <1>1, CreatorKept
<1> QED
  BY <1>2, <1>3, <1>4, <1>5, <1>6, <1>7, <1>8, <1>9, <1>10 DEF IInv

(* The connection of a startup is there, or its last event is refused.     *)
LEMMA BootProceeds ==
  ASSUME IInv, pc[Boot] \in {"connect", "connecting"}, NEW c \in Nat \ {0}, Proceed(Boot, c),
         Connecting \subseteq {Boot}, opened' \in Nat, opened <= opened',
         opened' <= opened + 1, alive \subseteq alive', alive' \subseteq 1..opened',
         c \in 1..opened', alive' \subseteq {c} \cup abandoned, restoring' = restoring,
         UNCHANGED <<subVars, todo, rpcVars, leaked, history, counters>>
  PROVE  IInv'
<1>1. /\ UNCHANGED <<pending, future, leaked, replySet, overlapped>> /\ todo' = todo
      /\ abandoned' = abandoned /\ starts' = starts /\ UNCHANGED subVars
      /\ conn' = [conn EXCEPT ![Boot] = c]
  BY DEF Proceed, rpcVars, history, counters
<1>2. state = "starting" /\ dying = 0
  BY DEF IInv, PhasesOK, ConnectionsOK
<1>3. PICK w \in {"idle", "failing"} :
        /\ Goto(Boot, w)
        /\ w = "idle" => state' = "running" /\ table' = c /\ dying' = dying
        /\ w = "failing" => state' = "failed" /\ table' = 0 /\ dying' = c
  BY DEF Proceed
<1>4. /\ PlacesOK' /\ TableOK' /\ FuturesOK' /\ Flags'
      /\ pc'[Boot] = w /\ Past' = Past /\ UnderWay' = UnderWay /\ ReplyOwner' = ReplyOwner
      /\ Connecting' \subseteq Connecting
  BY <1>1, <1>3, BootStep DEF BootPlaces
<1>5. LocksOK'
  <2>1. Connecting' = {}
    BY <1>3, <1>4 DEF Connecting
  <2> QED
    BY <2>1, <1>4 DEF IInv, LocksOK
<1>6. PhasesOK'
  BY <1>3, <1>4 DEF PhasesOK
<1>7. ConnectionsOK'
  <2>1. Booting = 1 /\ Booting' = 0
    BY <1>4, <1>3 DEF Booting
  <2>2. opened' + Booting' <= starts' + Cardinality(Past')
    <3>1. /\ opened \in Nat /\ starts \in Nat
          /\ opened + 1 <= starts + Cardinality(Past)
      BY <2>1 DEF IInv, ConnectionsOK
    <3>2. opened' + 0 <= starts + Cardinality(Past)
      BY <3>1, PastCounted
    <3> QED
      BY <3>2, <2>1, <1>1, <1>4
  <2>3. conn' \in [Actors -> Nat]
    BY <1>1 DEF IInv, ConnectionsOK
  <2>4. /\ table' \in 0..opened' /\ dying' \in 0..opened'
        /\ alive' \subseteq {table', dying'} \cup abandoned'
        /\ dying' # 0 <=> pc'[Boot] \in {"disconnect", "failing"}
    BY <1>1, <1>2, <1>3, <1>4
  <2>5. alive' \cup abandoned' \subseteq 1..opened' /\ restoring' \subseteq alive'
    <3>1. opened \in Nat /\ abandoned \subseteq 1..opened /\ restoring \subseteq alive
      BY DEF IInv, ConnectionsOK
    <3>2. 1..opened \subseteq 1..opened'
      BY <3>1
    <3> QED
      BY <3>1, <3>2, <1>1
  <2>6. opened' \in Nat /\ starts' \in Nat /\ starts' <= MaxStarts
    BY <1>1 DEF IInv, ConnectionsOK
  <2> QED
    BY <2>2, <2>3, <2>4, <2>5, <2>6 DEF ConnectionsOK
<1>8. SubscriptionsOK'
  BY <1>1, <1>2, NoReplyCloses, SubscriptionsStay
<1>9. QuietOK'
  BY <1>1, <1>2, <1>4, QuietStays
<1>10. ReplyOK'
  BY <1>1, <1>2 DEF IInv, ReplyOK
<1>11. ShutdownOK'
  BY <1>3, <1>4 DEF ShutdownOK
<1>12. CreatorOK'
  <2>1. ~overlapped => UnderWay' = {}
    BY <1>2, <1>4 DEF IInv, QuietOK
  <2>2. pc'[Reply] = "create" => Reply \in UnderWay'
    BY Kinds DEF UnderWay
  <2> QED
    BY <2>1, <2>2, <1>1 DEF CreatorOK
<1> QED
  BY <1>4, <1>5, <1>6, <1>7, <1>8, <1>9, <1>10, <1>11, <1>12 DEF IInv

LEMMA BootGotEngineLock ==
  ASSUME IInv, GotEngineLock(Boot)
  PROVE  IInv'
<1>1. /\ pc[Boot] = "connect" /\ Connecting = {} /\ opened' = opened /\ alive' = alive
      /\ restoring' = restoring
      /\ UNCHANGED <<subVars, todo, rpcVars, leaked, history, counters>>
  BY DEF GotEngineLock
<1>2. state = "starting" /\ dying = 0
  BY <1>1 DEF IInv, PhasesOK, ConnectionsOK
<1>3. CASE table # 0
  <2>1. Proceed(Boot, table)
    BY <1>3 DEF GotEngineLock
  <2>2. /\ table \in Nat \ {0} /\ opened \in Nat /\ alive \subseteq 1..opened
        /\ table \in 1..opened /\ alive \subseteq {table} \cup abandoned
    BY <1>2, <1>3 DEF IInv, ConnectionsOK
  <2> QED
    BY <2>1, <2>2, <1>1, BootProceeds
<1>4. CASE table = 0
  <2>1. /\ Goto(Boot, "connecting") /\ conn' = conn /\ state' = state /\ starts' = starts
        /\ UNCHANGED <<connVars, subVars, rpcVars, leaked, history>>
        /\ todo' = todo /\ replySet' = replySet /\ overlapped' = overlapped
    BY <1>1, <1>4 DEF GotEngineLock, connVars, counters, rpcVars, history
  <2>2. pc'[Boot] = "connecting"
    BY <2>1, Kinds DEF Goto, IInv, PlacesOK
  <2>3. starts' \in Nat /\ starts' <= MaxStarts /\ Booting' - Booting <= starts' - starts
    BY <1>1, <2>1, <2>2 DEF IInv, ConnectionsOK, Booting
  <2>4. PhasesOK'
    BY <2>1, <2>2, <1>2 DEF PhasesOK
  <2>5. ReplyOK' /\ ShutdownOK'
    BY <2>1, <2>2, <1>2 DEF IInv, ReplyOK, ShutdownOK
  <2>6. conn' \in [Actors -> Nat]
    BY <2>1 DEF IInv, ConnectionsOK
  <2> QED
    BY <2>1, <2>3, <2>4, <2>5, <2>6, <1>1, <1>2, <1>4, NoReplyCloses, BootStays DEF BootPlaces
<1> QED
  BY <1>3, <1>4

LEMMA BootConnected ==
  ASSUME IInv, Connected(Boot)
  PROVE  IInv'
<1>1. /\ pc[Boot] = "connecting" /\ opened' = opened + 1 /\ alive' = alive \cup {opened + 1}
      /\ Proceed(Boot, opened + 1) /\ restoring' = restoring
      /\ UNCHANGED <<subVars, todo, rpcVars, leaked, history, counters>>
  BY DEF Connected
<1>2. Boot \in Connecting
  BY <1>1, Kinds DEF Connecting
<1>3. Connecting \subseteq {Boot} /\ table = 0 /\ dying = 0
  BY <1>1, <1>2 DEF IInv, LocksOK, ConnectionsOK
<1>4. /\ opened \in Nat /\ alive \subseteq 1..opened
      /\ alive \subseteq {opened + 1} \cup abandoned
  BY <1>3 DEF IInv, ConnectionsOK
<1> QED
  BY <1>1, <1>3, <1>4, BootProceeds

LEMMA BootConnectFails ==
  ASSUME IInv, ConnectFails(Boot)
  PROVE  IInv'
<1>1. /\ pc[Boot] = "connecting" /\ Goto(Boot, "idle") /\ state' = "failed" /\ conn' = conn
      /\ UNCHANGED <<table, dying, restoring, subVars, pending, future, leaked, replySet, sent>>
      /\ todo' = todo /\ overlapped' = overlapped /\ starts' = starts
  BY Kinds DEF ConnectFails
<1>2. state = "starting" /\ dying = 0
  BY <1>1 DEF IInv, PhasesOK, ConnectionsOK
<1>3. pc'[Boot] = "idle"
  BY <1>1, Kinds DEF Goto, IInv, PlacesOK
<1>4. PhasesOK'
  BY <1>1, <1>3 DEF PhasesOK
<1>5. ReplyOK' /\ ShutdownOK'
  BY <1>1, <1>2, <1>3 DEF IInv, ReplyOK, ShutdownOK
<1>6. conn' \in [Actors -> Nat]
  BY <1>1 DEF IInv, ConnectionsOK
<1>7. \A p \in closing : p[1] # Reply
  BY <1>2, NoReplyCloses
<1>8. CASE UNCHANGED <<opened, alive, abandoned>>
  <2>1. starts' \in Nat /\ starts' <= MaxStarts /\ Booting' - Booting <= starts' - starts
    BY <1>1, <1>3 DEF IInv, ConnectionsOK, Booting
  <2>2. UNCHANGED <<connVars, subVars, rpcVars, leaked, history>>
    BY <1>1, <1>8 DEF connVars, rpcVars, history
  <2> QED
    BY <1>1, <1>2, <1>4, <1>5, <1>6, <1>7, <2>1, <2>2, BootStays DEF BootPlaces
<1>9. CASE LeftUp
  <2>1. ConnectionsOK' /\ opened' \in Nat /\ opened <= opened' /\ alive \subseteq alive'
    BY <1>1, <1>2, <1>9, BootLeavesUp
  <2>2. SubscriptionsOK'
    BY <2>1, <1>1, <1>7, SubscriptionsStay
  <2> QED
    BY <1>1, <1>2, <1>4, <1>5, <2>1, <2>2, BootSteps DEF BootPlaces
<1> QED
  BY <1>8, <1>9 DEF ConnectFails

(* The end of shutdown: every subscription is closed, and nobody waits.    *)
LEMMA FinishClosingStep ==
  ASSUME IInv, FinishClosing, pc[Boot] \in {"stop_emit", "closing"},
         \A p \in closing : p[1] # Reply, todo' \subseteq todo \cup records,
         overlapped \/ records = {},
         UNCHANGED <<conn, opened, alive, restoring, subVars, sent, leaked, history, counters>>
  PROVE  IInv'
<1>1. /\ records' = records /\ overlapped' = overlapped /\ abandoned' = abandoned
      /\ starts' = starts /\ opened' = opened /\ alive' = alive /\ conn' = conn
      /\ leaked' = leaked /\ UNCHANGED subVars /\ restoring' = restoring
  BY DEF subVars, history, counters
<1>2. /\ replySet' = FALSE /\ pending' = {} /\ dying' = table /\ table' = 0
      /\ future' = [r \in Requests |-> IF r \in pending /\ future[r] = "open" THEN "failed"
                                                                              ELSE future[r]]
  BY DEF FinishClosing
<1>3. state = "draining" /\ dying = 0
  BY DEF IInv, PhasesOK, ConnectionsOK
<1>4. PICK w \in {"idle", "disconnect"} :
        /\ Goto(Boot, w)
        /\ w = "idle" => table = 0 /\ state' = "stopped"
        /\ w = "disconnect" => table # 0 /\ state' = "draining"
  BY <1>3 DEF FinishClosing
<1>5. /\ PlacesOK' /\ pc'[Boot] = w /\ Past' = Past
      /\ UnderWay' = UnderWay /\ ReplyOwner' = ReplyOwner
      /\ Connecting' \subseteq Connecting
  BY <1>4, BootMoves DEF IInv, BootPlaces
<1>6. \A r \in Requests : future'[r] # "open"
  BY <1>2 DEF IInv, TableOK
<1>7. TableOK'
  <2>1. future' \in [Requests -> Futures]
    BY <1>2 DEF IInv, TableOK, Futures
  <2>2. Cardinality(pending') <= MaxPending
    <3>1. Cardinality({}) = 0
      BY FS_EmptySet
    <3> QED
      BY <3>1, <1>2, BrokerAssumption
  <2> QED
    BY <2>1, <2>2, <1>2, <1>6 DEF TableOK
<1>8. FuturesOK' /\ Flags'
  BY <1>1, <1>2, <1>6 DEF FuturesOK, Flags, IInv
<1>9. ConnectionsOK'
  <2>1. Booting = 0 /\ Booting' = 0
    BY <1>4, <1>5 DEF Booting
  <2> QED
    BY <2>1, <1>1, <1>2, <1>3, <1>4, <1>5 DEF IInv, ConnectionsOK
<1>10. LocksOK'
  BY <1>2, <1>5 DEF IInv, LocksOK
<1>11. PhasesOK'
  BY <1>4, <1>5 DEF PhasesOK
<1>12. SubscriptionsOK'
  BY <1>1, SubscriptionsStay DEF IInv, ConnectionsOK
<1>13. QuietOK'
  BY <1>1, <1>3, <1>5, QuietStays
<1>15. CreatorOK'
  BY <1>4 DEF CreatorOK
<1>14. ReplyOK' /\ ShutdownOK'
  BY <1>1, <1>2, <1>4, <1>5 DEF ReplyOK, ShutdownOK, Released
<1> QED
  BY <1>5, <1>7, <1>8, <1>9, <1>10, <1>11, <1>12, <1>13, <1>14, <1>15 DEF IInv

LEMMA StopEmittedStep ==
  ASSUME IInv, StopEmitted
  PROVE  IInv'
<1>1. /\ pc[Boot] = "stop_emit" /\ todo' = records
      /\ UNCHANGED <<conn, opened, alive, restoring, subVars, sent, leaked, history, counters>>
  BY DEF StopEmitted
<1>2. state = "draining" /\ dying = 0 /\ \A p \in closing : p[1] # Reply
  BY <1>1, NoReplyCloses DEF IInv, PhasesOK, ConnectionsOK
<1>3. CASE records = {}
  BY <1>1, <1>2, <1>3, FinishClosingStep DEF StopEmitted
<1>4. CASE records # {}
  <2>1. /\ Goto(Boot, "closing") /\ state' = state /\ conn' = conn /\ starts' = starts
        /\ UNCHANGED <<connVars, subVars, rpcVars, leaked, history>>
        /\ replySet' = replySet /\ overlapped' = overlapped /\ table' = table
        /\ records' = records /\ consumers' = consumers /\ alive' = alive
    BY <1>1, <1>4 DEF StopEmitted, connVars, rpcVars, history, counters, subVars
  <2>2. pc'[Boot] = "closing"
    BY <2>1, Kinds DEF Goto, IInv, PlacesOK
  <2>3. starts' \in Nat /\ starts' <= MaxStarts /\ Booting' - Booting <= starts' - starts
    BY <1>1, <2>1, <2>2 DEF IInv, ConnectionsOK, Booting
  <2>4. PhasesOK'
    BY <2>1, <2>2, <1>2 DEF PhasesOK
  <2>5. ReplyOK' /\ ShutdownOK'
    BY <2>1, <2>2, <1>1, <1>2 DEF IInv, ReplyOK, ShutdownOK
  <2>6. conn' \in [Actors -> Nat]
    BY <2>1 DEF IInv, ConnectionsOK
  <2> QED
    BY <2>1, <2>3, <2>4, <2>5, <2>6, <1>1, <1>2, BootStays DEF BootPlaces
<1> QED
  BY <1>3, <1>4

LEMMA AllClosedStep ==
  ASSUME IInv, AllClosed
  PROVE  IInv'
<1>1. /\ pc[Boot] = "closing" /\ todo \cap (records \cup closing) = {} /\ todo' = {}
      /\ FinishClosing
      /\ UNCHANGED <<conn, opened, alive, restoring, subVars, sent, leaked, history, counters>>
  BY DEF AllClosed
<1>2. \A p \in closing : p[1] # Reply
  BY <1>1 DEF IInv, SubscriptionsOK
<1>3. overlapped \/ records = {}
  BY <1>1 DEF IInv, ShutdownOK
<1> QED
  BY <1>1, <1>2, <1>3, FinishClosingStep

(* The connection of shutdown, or of a failed startup, is down.            *)
LEMMA DisconnectedStep ==
  ASSUME IInv, Disconnected
  PROVE  IInv'
<1>1. /\ pc[Boot] \in {"disconnect", "failing"} /\ dying \notin restoring /\ dying' = 0
      /\ state' = (IF pc[Boot] = "disconnect" THEN "stopped" ELSE state)
      /\ Goto(Boot, "idle") /\ table' = table /\ opened' = opened /\ records' = records
      /\ closing' = closing /\ todo' = todo /\ conn' = conn /\ starts' = starts
      /\ restoring' = restoring /\ overlapped' = overlapped
      /\ UNCHANGED <<pending, future, leaked, replySet, overlapped>>
  BY DEF Disconnected, rpcVars
<1>12. \/ /\ alive' = alive \ {dying} /\ consumers' = {p \in consumers : p[2] # dying}
          /\ missed' = missed \cup InCreation(dying) /\ abandoned' = abandoned
       \/ /\ abandoned' = abandoned \cup {dying}
          /\ alive' = alive /\ consumers' = consumers /\ missed' = missed
  BY DEF Disconnected
<1>13. dying \in 1..opened
  BY <1>1 DEF IInv, ConnectionsOK
<1>2. \/ pc[Boot] = "disconnect" /\ state = "draining"
      \/ pc[Boot] = "failing" /\ state = "failed"
  BY <1>1 DEF IInv, PhasesOK
<1>3. /\ PlacesOK' /\ TableOK' /\ FuturesOK' /\ Flags'
      /\ pc'[Boot] = "idle" /\ Past' = Past /\ UnderWay' = UnderWay /\ ReplyOwner' = ReplyOwner
      /\ Connecting' \subseteq Connecting
  BY <1>1, BootStep DEF BootPlaces
<1>4. ConnectionsOK'
  <2>1. Booting = 0 /\ Booting' = 0
    BY <1>1, <1>3 DEF Booting
  <2> QED
    BY <2>1, <1>1, <1>3, <1>12, <1>13 DEF IInv, ConnectionsOK
<1>5. LocksOK'
  BY <1>1, <1>3 DEF IInv, LocksOK
<1>6. PhasesOK'
  BY <1>1, <1>2, <1>3 DEF PhasesOK
<1>7. SubscriptionsOK'
  <2>1. \A p \in closing : p[1] # Reply
    BY <1>1, NoReplyCloses
  <2>2. InCreation(dying) \subseteq Subs \X (1..opened)
    BY <1>13 DEF InCreation
  <2> QED
    BY <2>1, <2>2, <1>1, <1>12 DEF IInv, SubscriptionsOK
<1>8. QuietOK'
  BY <1>1, <1>2, <1>3, QuietStays
<1>9. ~overlapped => ~replySet
  BY <1>2 DEF IInv, ReplyOK, ShutdownOK, Released
<1>10. ReplyOK'
  BY <1>1, <1>9 DEF ReplyOK
<1>11. ShutdownOK'
  BY <1>1, <1>2, <1>3 DEF IInv, ShutdownOK, Released
<1>14. CreatorOK'
  BY <1>1, <1>2 DEF CreatorOK
<1> QED
  BY <1>3, <1>4, <1>5, <1>6, <1>7, <1>8, <1>10, <1>11, <1>14 DEF IInv

(* The caller of startup or shutdown is cancelled.                         *)
LEMMA BootCancelledStep ==
  ASSUME IInv, BootCancelled
  PROVE  IInv'
<1>1. /\ pc[Boot] # "idle" /\ Goto(Boot, "idle") /\ todo' = {} /\ dying' = 0
      /\ starts' = starts /\ state' = state /\ conn' = conn /\ table' = table
      /\ restoring' = restoring /\ overlapped' = overlapped
      /\ UNCHANGED <<table, pending, future, leaked, replySet, overlapped>>
      /\ records' = records /\ consumers' = consumers /\ closing' = closing
      /\ missed' = missed
  BY DEF BootCancelled, Fault, rpcVars, subVars
<1>2. state \in {"starting", "draining", "failed"}
  BY <1>1 DEF IInv, PhasesOK, PlacesOK, BootPlaces
<1>3. pc'[Boot] = "idle" /\ Past' = Past
  BY <1>1, BootStep DEF BootPlaces
<1>4. ConnectionsOK' /\ opened' \in Nat /\ opened <= opened' /\ alive \subseteq alive'
  <2>1. CASE abandoned' = abandoned \cup ({dying} \ {0}) /\ UNCHANGED <<opened, alive>>
    <3>1. Booting \in Nat /\ Booting' = 0
      BY <1>3 DEF Booting
    <3>2. opened' + Booting' <= starts' + Cardinality(Past')
      <4>1. /\ opened \in Nat /\ starts \in Nat
            /\ opened + Booting <= starts + Cardinality(Past)
        BY DEF IInv, ConnectionsOK
      <4>2. opened + 0 <= starts + Cardinality(Past)
        BY <4>1, <3>1, PastCounted
      <4> QED
        BY <4>2, <3>1, <2>1, <1>1, <1>3
    <3> QED
      BY <3>2, <2>1, <1>1, <1>3 DEF IInv, ConnectionsOK
  <2>2. CASE pc[Boot] = "connecting" /\ LeftUp
    BY <2>2, <1>1, BootLeavesUp
  <2> QED
    BY <2>1, <2>2 DEF BootCancelled
<1>5. PhasesOK'
  BY <1>1, <1>2, <1>3 DEF IInv, PhasesOK
<1>6. SubscriptionsOK'
  <2>1. 1..opened \subseteq 1..opened'
    BY <1>4 DEF IInv, ConnectionsOK
  <2> QED
    BY <2>1, <1>1, <1>2, <1>3, <1>4 DEF IInv, SubscriptionsOK
<1>7. ReplyOK'
  BY <1>1, <1>2 DEF IInv, ReplyOK
<1>8. ShutdownOK'
  BY <1>1, <1>2, <1>3 DEF ShutdownOK
<1> QED
  BY <1>1, <1>2, <1>4, <1>5, <1>6, <1>7, <1>8, BootSteps DEF BootPlaces

-----------------------------------------------------------------------------
(* The steps of the connection managers                                    *)

(* A connection is lost: its consumers are closed.                         *)
LEMMA LostStep ==
  ASSUME IInv, NEW c \in Connections, Lost(c)
  PROVE  IInv'
<1>1. /\ c \in alive /\ alive' = alive \ {c} /\ restoring' = restoring \ {c}
      /\ consumers' = {p \in consumers : p[2] # c} /\ missed' = missed \cup InCreation(c)
      /\ UNCHANGED <<state, pc, conn, table, todo, replySet, pending, future, leaked, overlapped>>
      /\ UNCHANGED <<opened, dying, records, closing, abandoned, starts>>
  BY DEF Lost, rpcVars, history
<1>2. ConnectionsOK'
  <2>1. Past' = Past /\ Booting' = Booting
    BY <1>1 DEF Past, Booting
  <2> QED
    BY <2>1, <1>1 DEF IInv, ConnectionsOK
<1>3. SubscriptionsOK'
  <2>1. c \in 1..opened
    BY <1>1 DEF IInv, ConnectionsOK
  <2>2. InCreation(c) \subseteq Subs \X (1..opened)
    BY <2>1 DEF InCreation
  <2> QED
    BY <2>2, <1>1 DEF IInv, SubscriptionsOK
<1>4. ReplyUp => ReplyUp'
  BY <1>1 DEF ReplyUp
<1> QED
  BY <1>1, <1>2, <1>3, <1>4, CallsRest

(* A connection is up again, and its callbacks begin.                      *)
LEMMA RedialStep ==
  ASSUME IInv, NEW c \in Connections, Redial(c)
  PROVE  IInv'
<1>1. /\ c \in 1..opened /\ alive' = alive \cup {c} /\ restoring' = restoring \cup {c}
      /\ missed' = missed \ Recorded(c) /\ consumers' = consumers
      /\ UNCHANGED <<state, pc, conn, table, todo, replySet, pending, future, leaked, overlapped>>
      /\ UNCHANGED <<opened, dying, records, closing, starts>>
      /\ \/ c \in {table, dying} /\ abandoned' = abandoned
         \/ abandoned' = abandoned \cup {c}
  BY DEF Redial, rpcVars
<1>2. ConnectionsOK'
  <2>1. Past' = Past /\ Booting' = Booting
    BY <1>1 DEF Past, Booting
  <2> QED
    BY <2>1, <1>1 DEF IInv, ConnectionsOK
<1>3. SubscriptionsOK'
  BY <1>1 DEF IInv, SubscriptionsOK
<1>4. ReplyUp => ReplyUp'
  BY <1>1 DEF ReplyUp, Recorded
<1> QED
  BY <1>1, <1>2, <1>3, <1>4, CallsRest

(* The callbacks have run: what they did not pass over has its consumer.   *)
LEMMA RestoredStep ==
  ASSUME IInv, NEW c \in Connections, Restored(c)
  PROVE  IInv'
<1>1. /\ c \in restoring /\ restoring' = restoring \ {c}
      /\ UNCHANGED <<state, pc, conn, table, todo, replySet, pending, future, leaked, overlapped>>
      /\ UNCHANGED <<opened, alive, dying, records, closing, abandoned, starts>>
  BY DEF Restored, rpcVars, history, counters
<1>2. PICK late \in SUBSET (Recorded(c) \cap missed) :
        /\ consumers' = consumers \cup (Recorded(c) \ missed) \cup late
        /\ missed' = missed \ late
  BY DEF Restored
<1>3. ConnectionsOK'
  <2>1. Past' = Past /\ Booting' = Booting
    BY <1>1 DEF Past, Booting
  <2> QED
    BY <2>1, <1>1 DEF IInv, ConnectionsOK
<1>4. consumers' \subseteq consumers \cup records
  BY <1>2 DEF Recorded
<1>5. SubscriptionsOK'
  BY <1>1, <1>2, <1>4 DEF IInv, SubscriptionsOK
<1>6. ReplyUp => ReplyUp'
  <2> SUFFICES ASSUME ReplyUp, table \in alive \ restoring'
               PROVE  <<Reply, table>> \in consumers' \cup missed'
    BY <1>1 DEF ReplyUp
  <2>1. CASE table = c
    <3>1. <<Reply, table>> \in Recorded(c)
      BY <2>1 DEF ReplyUp, Recorded
    <3> QED
      BY <3>1, <1>2
  <2>2. CASE table # c
    <3>1. <<Reply, table>> \in consumers \cup missed
      BY <2>2, <1>1 DEF ReplyUp
    <3>2. <<Reply, table>> \notin late
      BY <2>2 DEF Recorded
    <3> QED
      BY <3>1, <3>2, <1>2
  <2> QED
    BY <2>1, <2>2
<1> QED
  BY <1>1, <1>3, <1>5, <1>6, CallsRest

-----------------------------------------------------------------------------
(* The invariant                                                           *)

LEMMA InitIInv ==
  ASSUME Init
  PROVE  IInv
<1>1. \A a \in Actors : pc[a] = "idle" /\ conn[a] = 0
  BY DEF Init
<1>2. PlacesOK
  BY <1>1, Kinds DEF Init, PlacesOK, Places, BootPlaces, RequestPlaces
<1>3. ConnectionsOK
  <2>1. Booting = 0
    BY <1>1, Kinds DEF Booting
  <2>2. opened + Booting <= starts + Cardinality(Past)
    BY <2>1, PastCounted DEF Init
  <2> QED
    BY <1>1, <2>2, Kinds, BrokerAssumption DEF Init, ConnectionsOK
<1>4. LocksOK
  BY <1>1, Kinds DEF LocksOK, Connecting, ReplyOwner
<1>5. PhasesOK
  BY <1>1, Kinds DEF Init, PhasesOK
<1>6. SubscriptionsOK
  BY DEF Init, SubscriptionsOK
<1>7. TableOK
  <2>1. Cardinality({}) = 0
    BY FS_EmptySet
  <2>2. Cardinality(pending) <= MaxPending
    BY <2>1, BrokerAssumption DEF Init
  <2> QED
    BY <2>2 DEF Init, TableOK, Futures
<1>8. Flags /\ FuturesOK /\ ReplyOK
  BY DEF Init, Flags, FuturesOK, ReplyOK
<1>9. QuietOK
  BY <1>1, Kinds DEF QuietOK, UnderWay
<1>10. ShutdownOK
  BY <1>1, Kinds DEF Init, ShutdownOK, Released
<1>11. CreatorOK
  BY DEF Init, CreatorOK
<1> QED
  BY <1>11, <1>2, <1>3, <1>4, <1>5, <1>6, <1>7, <1>8, <1>9, <1>10 DEF IInv

(* A stuttering step.                                                      *)
LEMMA StutterIInv ==
  ASSUME IInv, UNCHANGED vars
  PROVE  IInv'
<1>1. /\ UNCHANGED <<state, pc, conn, connVars, todo, rpcVars, leaked, history, counters>>
      /\ pc' = pc /\ Past' = Past /\ todo' = todo /\ state' = state
      /\ records' = records /\ consumers' = consumers /\ closing' = closing
      /\ opened' = opened /\ alive' = alive /\ missed' = missed
      /\ table' = table /\ restoring' = restoring
  BY DEF vars, subVars, connVars, Past
<1>2. SubscriptionsOK' /\ (ReplyUp => ReplyUp')
  BY <1>1 DEF IInv, SubscriptionsOK, ReplyUp
<1> QED
  BY <1>1, <1>2, ClosingStep

(* A look-up of the engine, by whoever waits for it.                       *)
LEMMA LookupStep ==
  ASSUME IInv, NEW a \in Actors, Lookup(a)
  PROVE  IInv'
<1>1. pc[a] \in {"connect", "connecting"}
  BY DEF Lookup, GotEngineLock, Connected, ConnectFails
<1>2. CASE a = Boot
  BY <1>2, BootGotEngineLock, BootConnected, BootConnectFails DEF Lookup
<1>3. CASE a \in Requests
  BY <1>3, RequestGotEngineLock, RequestConnected, RequestConnectFails DEF Lookup
<1> QED
  BY <1>1, <1>2, <1>3, WhoConnects

LEMMA NextIInv ==
  ASSUME IInv, [Next]_vars
  PROVE  IInv'
<1>1. CASE Startup
  BY <1>1, StartupStep
<1>2. CASE StartEmitted
  BY <1>2, StartEmittedStep
<1>3. CASE ShutdownUnstarted
  BY <1>3, ShutdownUnstartedStep
<1>4. CASE Shutdown
  BY <1>4, ShutdownStep
<1>5. CASE StopEmitted
  BY <1>5, StopEmittedStep
<1>6. CASE AllClosed
  BY <1>6, AllClosedStep
<1>7. CASE Disconnected
  BY <1>7, DisconnectedStep
<1>8. CASE ListenerRaises
  BY <1>8, ListenerRaisesStep
<1>9. CASE BootCancelled
  BY <1>9, BootCancelledStep
<1>10. CASE \E a \in Actors : Lookup(a)
  BY <1>10, LookupStep
<1>11. CASE \E s \in Subs : Subscribe(s) \/ Setup(s)
  BY <1>11, SubscribeStep, CreatedStep, CreateFailsStep DEF Setup
<1>12. CASE \E p \in records : Unsubscribe(p) \/ CloseNext(p)
  BY <1>12, UnsubscribeStep, CloseNextStep
<1>13. CASE \E p \in closing : CloseEnds(p)
  BY <1>13, CloseEndsStep
<1>14. CASE \E r \in Requests : \/ Request(r) \/ Transmit(r) \/ DispatchReply(r) \/ Answer(r)
                                \/ RequestCancelled(r)
  <2> SUFFICES ASSUME NEW r \in Requests,
                      \/ Request(r) \/ Transmit(r) \/ DispatchReply(r) \/ Answer(r)
                      \/ RequestCancelled(r)
               PROVE  IInv'
    BY <1>14
  <2>1. CASE Answer(r)
    BY <2>1, GotReplyLockStep, PublishEndsStep, WaitEndsStep DEF Answer
  <2> QED
    BY <2>1, RequestStep, TransmitStep, DispatchReplyStep, RequestCancelledStep
<1>15. CASE \E c \in Connections : Lost(c) \/ Redial(c) \/ Restored(c)
  BY <1>15, LostStep, RedialStep, RestoredStep
<1>16. CASE UNCHANGED vars
  BY <1>16, StutterIInv
<1> QED
  BY <1>1, <1>2, <1>3, <1>4, <1>5, <1>6, <1>7, <1>8, <1>9, <1>10, <1>11, <1>12, <1>13, <1>14,
     <1>15, <1>16 DEF Next

LEMMA Invariance == Spec => []IInv
<1>1. Init => IInv
  BY InitIInv
<1>2. IInv /\ [Next]_vars => IInv'
  BY NextIInv
<1> QED
  BY <1>1, <1>2, PTL DEF Spec

-----------------------------------------------------------------------------
(* What follows from it                                                    *)

(* Every subscription names a connection that some call has opened.        *)
LEMMA IInvTypeOK ==
  ASSUME IInv
  PROVE  TypeOK
<1>1. 1..opened \subseteq Connections
  <2>1. opened <= MaxStarts + Cardinality(Callers)
    <3>1. /\ opened \in Nat /\ starts \in Nat /\ starts <= MaxStarts
          /\ opened + Booting <= starts + Cardinality(Past)
      BY DEF IInv, ConnectionsOK
    <3>2. Booting \in Nat
      BY DEF Booting
    <3> QED
      BY <3>1, <3>2, PastCounted, BrokerAssumption
  <2>2. opened \in Nat /\ MaxStarts \in Nat /\ Cardinality(Callers) \in Nat
    BY PastCounted, BrokerAssumption DEF IInv, ConnectionsOK
  <2> QED
    BY <2>1, <2>2 DEF Connections
<1>2. records \cup consumers \cup closing \subseteq Subs \X Connections
  BY <1>1 DEF IInv, SubscriptionsOK
<1>3. Cardinality(Connecting) <= 1 /\ Cardinality(ReplyOwner) <= 1
  BY AtMostOne DEF IInv, LocksOK
<1>4. /\ {table, dying} \subseteq {0} \cup Connections /\ restoring \subseteq alive
      /\ alive \cup abandoned \subseteq Connections
  BY <1>1 DEF IInv, ConnectionsOK
<1> QED
  BY <1>2, <1>3, <1>4 DEF TypeOK, IInv, PhasesOK, TableOK, Futures

(* A shutdown that begins while no call is under way leaves no connection  *)
(* of the table, no subscription and no waiting request behind, and no     *)
(* consumer but those their owners are closing, for any number of          *)
(* subscribers, requests, losses and reconnects: Broker.shutdown finds and *)
(* releases what cancelled and failed calls left in its tables.  What is   *)
(* still up was in no table: its first connect or its shutdown was         *)
(* cancelled or raised, or a call has connected it again.                  *)
THEOREM QuietShutdownReleasesAll == Spec => []NothingLeft
<1>1. ASSUME IInv
      PROVE  NothingLeft
  <2>1. ASSUME Stopped, ~overlapped
        PROVE  /\ table = 0 /\ alive \subseteq abandoned
               /\ records = {}
               /\ \A p \in consumers : p[2] \in abandoned \/ p \in closing
               /\ pending = {} /\ \A r \in Requests : future[r] # "open"
    <3>1. table = 0 /\ records = {} /\ pending = {}
      BY <1>1, <2>1 DEF Stopped, IInv, ShutdownOK, Released
    <3>2. alive \subseteq abandoned
      BY <1>1, <2>1, <3>1 DEF Stopped, IInv, ConnectionsOK
    <3>3. \A p \in consumers : p[2] \in abandoned \/ p \in closing
      BY <1>1, <3>1, <3>2 DEF IInv, SubscriptionsOK
    <3>4. \A r \in Requests : future[r] # "open"
      BY <1>1, <3>1 DEF IInv, TableOK
    <3> QED
      BY <3>1, <3>2, <3>3, <3>4
  <2> QED
    BY <1>1, <2>1, IInvTypeOK DEF NothingLeft
<1>2. IInv => NothingLeft
  BY <1>1
<1> QED
  BY <1>2, Invariance, PTL

(* The table of pending requests never exceeds rpc_max_pending, holds no   *)
(* request that is over but those that raised before the try of            *)
(* Broker.request, and holds every request that still waits.               *)
THEOREM PendingTableIsExact == Spec => []PendingIsExact
<1>1. IInv => PendingIsExact
  BY DEF IInv, TableOK, PendingIsExact
<1> QED
  BY <1>1, Invariance, PTL

(* In a run whose preceding shutdown saw no call under way, a request      *)
(* waits only while the shared reply subscription is recorded with the     *)
(* connection of the table, and has its consumer whenever that connection  *)
(* is up and restored, across any number of losses, reconnects and         *)
(* restarts; but for a reconnect that passed the subscription over.        *)
THEOREM RepliesHaveAPath == Spec => []ReplyPathExists
<1>1. IInv => ReplyPathExists
  BY DEF IInv, FuturesOK, ReplyOK, ReplyUp, ReplyPathExists
<1> QED
  BY <1>1, Invariance, PTL

-----------------------------------------------------------------------------
(* Requests go on                                                          *)

\* Whoever holds the reply lock waits for the subscribe that is under way.
ReplyAwaited == ReplyOwner # {} => pc[Reply] = "create"

\* What a step does to the calls.
Forward ==
  \A c \in Subscribers \cup Requests : pc'[c] = pc[c] \/ StepsLeft(pc'[c]) < StepsLeft(pc[c])

(* A step of startup or shutdown leaves the calls where they are.          *)
LEMMA CallsStay ==
  ASSUME ReplyAwaited, \A a \in Callers : pc'[a] = pc[a]
  PROVE  ReplyAwaited' /\ Forward
<1>1. ReplyOwner' = ReplyOwner /\ pc'[Reply] = pc[Reply]
  BY Kinds DEF ReplyOwner
<1>. QED
  BY <1>1, Kinds DEF ReplyAwaited, Forward, Subs

(* One call other than the subscription for replies moves.                 *)
LEMMA CallMoves ==
  ASSUME IInv, ReplyAwaited, NEW c \in Callers \ {Reply}, NEW w, Goto(c, w),
         w # "subscribing", StepsLeft(w) < StepsLeft(pc[c])
  PROVE  ReplyAwaited' /\ Forward
<1>1. pc \in [Actors -> Places] /\ c \in Actors
  BY Kinds DEF IInv, PlacesOK
<1>2. pc'[c] = w /\ \A a \in Actors \ {c} : pc'[a] = pc[a]
  BY <1>1 DEF Goto
<1>3. ReplyOwner' \subseteq ReplyOwner
  BY <1>2, Kinds DEF ReplyOwner
<1>4. pc'[Reply] = pc[Reply]
  BY <1>2, Kinds
<1>. QED
  BY <1>2, <1>3, <1>4, Kinds DEF ReplyAwaited, Forward, Subs

(* A request enters the table.                                             *)
LEMMA EnteringMoves ==
  ASSUME IInv, ReplyAwaited, NEW r \in Requests, NEW freed \in SUBSET {Reply},
         EnterTable(r, freed), pc[r] \in {"idle", "ensure", "subscribing"},
         freed = {} \/ ReplyOwner = {r}
  PROVE  ReplyAwaited' /\ Forward
<1>1. PICK e \in Entries(table) :
        pc' = [a \in Actors |-> IF a = r THEN e.to ELSE IF a \in freed THEN "idle" ELSE pc[a]]
  BY DEF EnterTable
<1>2. e.to \in {"done", "connect", "publish"}
  BY <1>1 DEF Entries
<1>3. /\ r \in Actors /\ r # Reply /\ pc'[r] = e.to
      /\ \A a \in Actors \ {r, Reply} : pc'[a] = pc[a]
      /\ freed = {} => pc'[Reply] = pc[Reply]
  BY <1>1, Kinds
<1>4. ReplyOwner' = ReplyOwner \ {r}
  BY <1>2, <1>3, Kinds DEF ReplyOwner
<1>5. ReplyAwaited'
  BY <1>3, <1>4 DEF ReplyAwaited
<1>6. StepsLeft(e.to) < StepsLeft(pc[r])
  BY <1>2 DEF StepsLeft
<1>7. Subscribers \cup Requests \subseteq Actors \ {Reply}
  BY Kinds, BrokerAssumption DEF Subs
<1>. QED
  BY <1>3, <1>5, <1>6, <1>7 DEF Forward

(* A subscribe ends without a subscription.                                *)
LEMMA UnsubscribedMoves ==
  ASSUME IInv, ReplyAwaited, NEW s \in Subs, Unsubscribed(s), s # Reply => pc[s] = "create"
  PROVE  ReplyAwaited' /\ Forward
<1>1. /\ \A a \in Actors : pc'[a] = IF a = s THEN (IF s = Reply THEN "idle" ELSE "done")
                                    ELSE IF s = Reply /\ a \in ReplyOwner THEN "done" ELSE pc[a]
  BY DEF Unsubscribed
<1>2. \A r \in Requests : r # s /\ r \in Actors
  BY Kinds
<1>3. Subscribers \cup Requests \subseteq Actors \ {Reply} /\ Reply \in Actors
  BY Kinds, BrokerAssumption DEF Subs
<1>4. CASE s = Reply
  <2>1. ReplyOwner' = {}
    BY <1>1, <1>2, <1>4 DEF ReplyOwner
  <2>2. \A c \in Subscribers \cup Requests :
          pc'[c] = pc[c] \/ (pc[c] = "subscribing" /\ pc'[c] = "done")
    BY <1>1, <1>3, <1>4 DEF ReplyOwner
  <2>. QED
    BY <2>1, <2>2 DEF ReplyAwaited, Forward, StepsLeft
<1>5. CASE s # Reply
  <2>1. ReplyOwner' = ReplyOwner /\ pc'[Reply] = pc[Reply]
    BY <1>1, <1>2, <1>3, <1>5 DEF ReplyOwner
  <2>2. \A c \in Subscribers \cup Requests :
          pc'[c] = pc[c] \/ (pc[c] = "create" /\ pc'[c] = "done")
    BY <1>1, <1>3, <1>5
  <2>. QED
    BY <2>1, <2>2 DEF ReplyAwaited, Forward, StepsLeft
<1>. QED
  BY <1>4, <1>5

(* A subscribe begins, for the application or for a request.               *)
LEMMA SubscribingMoves ==
  ASSUME IInv, ReplyAwaited, NEW s \in Subs, NEW r, StartSubscribe(s, r), state = "running",
         \/ r = s /\ s # Reply /\ pc[s] = "idle"
         \/ s = Reply /\ r \in Requests /\ pc[r] \in {"idle", "ensure"}
  PROVE  ReplyAwaited' /\ Forward
<1>1. table # 0
  BY DEF IInv, PhasesOK
<1>2. \A a \in Actors : pc'[a] = IF a = s THEN "create" ELSE IF a = r THEN "subscribing" ELSE pc[a]
  BY <1>1 DEF StartSubscribe
<1>3. Subscribers \cup Requests \subseteq Actors \ {Reply} /\ Reply \in Actors
  BY Kinds, BrokerAssumption DEF Subs
<1>4. ReplyAwaited'
  <2>1. CASE s = Reply
    BY <1>2, <1>3, <2>1 DEF ReplyAwaited
  <2>2. CASE s # Reply
    <3>1. ReplyOwner' = ReplyOwner /\ pc'[Reply] = pc[Reply]
      BY <1>2, <1>3, <2>2, Kinds DEF ReplyOwner
    <3>. QED
      BY <3>1 DEF ReplyAwaited
  <2>. QED
    BY <2>1, <2>2
<1>5. \A c \in Subscribers \cup Requests :
        \/ pc'[c] = pc[c]
        \/ pc[c] = "idle" /\ pc'[c] = "create"
        \/ pc[c] \in {"idle", "ensure"} /\ pc'[c] = "subscribing"
  BY <1>2, <1>3
<1>. QED
  BY <1>4, <1>5 DEF Forward, StepsLeft

(* A request moves on to the reply subscription or the table.              *)
LEMMA EnsuringMoves ==
  ASSUME IInv, ReplyAwaited, NEW r \in Requests, EnsureReply(r), pc[r] \in {"idle", "ensure"}
  PROVE  ReplyAwaited' /\ Forward
<1>1. r \in Callers \ {Reply} /\ Reply \in Subs
  BY Kinds
<1>2. CASE EnterTable(r, {})
  BY <1>2, EnteringMoves
<1>3. CASE state = "running" /\ StartSubscribe(Reply, r)
  BY <1>1, <1>3, SubscribingMoves
<1>4. CASE Goto(r, "done")
  <2>1. StepsLeft("done") < StepsLeft(pc[r])
    BY DEF StepsLeft
  <2>. QED
    BY <1>1, <1>4, <2>1, CallMoves
<1>. QED
  BY <1>2, <1>3, <1>4 DEF EnsureReply
(* A request ends.                                                         *)
LEMMA FinishingMoves ==
  ASSUME IInv, ReplyAwaited, NEW r \in Requests, Finish(r),
         pc[r] \in {"ensure", "connect", "connecting", "publish", "wait"}
  PROVE  ReplyAwaited' /\ Forward
<1>1. Goto(r, "done") /\ StepsLeft("done") < StepsLeft(pc[r])
  BY DEF Finish, StepsLeft
<1>. QED
  BY <1>1, CallMoves, Kinds

(* A look-up of the engine moves startup or a request.                     *)
LEMMA LookupMoves ==
  ASSUME IInv, ReplyAwaited, NEW a \in Actors, Lookup(a)
  PROVE  ReplyAwaited' /\ Forward
<1>1. pc[a] \in {"connect", "connecting"}
  BY DEF Lookup, GotEngineLock, Connected, ConnectFails
<1>2. CASE a = Boot
  <2>1. \E w : Goto(Boot, w)
    BY <1>2, Kinds DEF Lookup, GotEngineLock, Connected, ConnectFails, Proceed
  <2>2. \A b \in Callers : pc'[b] = pc[b]
    BY <2>1, Kinds DEF Goto
  <2>. QED
    BY <2>2, CallsStay
<1>3. CASE a \in Requests
  <2>0. a # Boot /\ a \notin Subs /\ a \in Callers \ {Reply}
    BY <1>3, Kinds
  <2>1. CASE GotEngineLock(a)
    <3>1. \E w \in {"connecting", "publish"} : Goto(a, w) /\ pc[a] = "connect"
      BY <2>0, <2>1 DEF GotEngineLock, Proceed
    <3>. QED
      BY <2>0, <3>1, CallMoves DEF StepsLeft
  <2>2. CASE Connected(a)
    <3>1. Goto(a, "publish") /\ pc[a] = "connecting"
      BY <2>0, <2>2 DEF Connected, Proceed
    <3>. QED
      BY <2>0, <3>1, CallMoves DEF StepsLeft
  <2>3. CASE ConnectFails(a)
    <3>1. Finish(a)
      BY <2>0, <2>3 DEF ConnectFails
    <3>. QED
      BY <1>1, <1>3, <3>1, FinishingMoves
  <2>. QED
    BY <2>1, <2>2, <2>3 DEF Lookup
<1>. QED
  BY <1>1, <1>2, <1>3, WhoConnects

(* The consumer of a subscription is created.                              *)
LEMMA CreatedMoves ==
  ASSUME IInv, ReplyAwaited, NEW s \in Subs, Created(s)
  PROVE  ReplyAwaited' /\ Forward
<1>1. CASE s = Reply
  <2>1. PICK r \in ReplyOwner : EnterTable(r, {Reply})
    BY <1>1 DEF Created
  <2>2. ReplyOwner = {r} /\ r \in Requests /\ pc[r] = "subscribing"
    BY <2>1 DEF IInv, LocksOK, ReplyOwner
  <2>. QED
    BY <2>1, <2>2, EnteringMoves
<1>2. CASE s # Reply
  <2>1. Goto(s, "done") /\ pc[s] = "create"
    BY <1>2 DEF Created
  <2>. QED
    BY <1>2, <2>1, CallMoves, Kinds DEF StepsLeft
<1>. QED
  BY <1>1, <1>2

LEMMA RequestMoves ==
  ASSUME IInv, ReplyAwaited, NEW r \in Requests,
         \/ Request(r) \/ Transmit(r) \/ DispatchReply(r) \/ Answer(r) \/ RequestCancelled(r)
  PROVE  ReplyAwaited' /\ Forward
<1>0. r \in Callers \ {Reply}
  BY Kinds
<1>1. CASE Request(r)
  <2>1. CASE EnsureReply(r)
    BY <1>1, <2>1, EnsuringMoves DEF Request
  <2>2. CASE Goto(r, "ensure")
    BY <1>0, <1>1, <2>2, CallMoves DEF Request, StepsLeft
  <2>. QED
    BY <1>1, <2>1, <2>2 DEF Request
<1>2. CASE Transmit(r) \/ DispatchReply(r)
  <2>1. pc' = pc
    BY <1>2 DEF Transmit, DispatchReply
  <2>. QED
    BY <2>1, CallsStay
<1>3. CASE GotReplyLock(r)
  BY <1>3, EnsuringMoves DEF GotReplyLock
<1>4. CASE PublishEnds(r)
  <2>1. CASE Finish(r)
    BY <1>4, <2>1, FinishingMoves DEF PublishEnds
  <2>2. CASE Goto(r, "wait")
    BY <1>0, <1>4, <2>2, CallMoves DEF PublishEnds, StepsLeft
  <2>. QED
    BY <1>4, <2>1, <2>2 DEF PublishEnds
<1>5. CASE WaitEnds(r)
  BY <1>5, FinishingMoves DEF WaitEnds
<1>6. CASE RequestCancelled(r)
  <2>1. CASE pc[r] = "subscribing"
    <3>1. Unsubscribed(Reply)
      BY <1>6, <2>1 DEF RequestCancelled
    <3>. QED
      BY <3>1, UnsubscribedMoves, Kinds
  <2>2. CASE pc[r] # "subscribing"
    BY <1>6, <2>2, FinishingMoves DEF RequestCancelled
  <2>. QED
    BY <2>1, <2>2
<1>. QED
  BY <1>1, <1>2, <1>3, <1>4, <1>5, <1>6 DEF Answer

LEMMA CallsForward ==
  ASSUME IInv, ReplyAwaited, [Next]_vars
  PROVE  ReplyAwaited' /\ Forward
<1>1. CASE \/ Startup \/ StartEmitted \/ Shutdown \/ StopEmitted \/ AllClosed
           \/ Disconnected \/ ListenerRaises \/ BootCancelled
  <2>1. (\E w : Goto(Boot, w)) \/ pc' = pc
    BY <1>1 DEF Startup, StartEmitted, Shutdown, StopEmitted, AllClosed, FinishClosing,
       Disconnected, ListenerRaises, BootCancelled
  <2>2. \A b \in Callers : pc'[b] = pc[b]
    <3>1. pc \in [Actors -> Places] /\ \A b \in Callers : b \in Actors /\ b # Boot
      BY Kinds DEF IInv, PlacesOK
    <3>2. ASSUME NEW w, Goto(Boot, w)
          PROVE  \A b \in Callers : pc'[b] = pc[b]
      BY <3>1, <3>2 DEF Goto
    <3>. QED
      BY <2>1, <3>2
  <2>. QED
    BY <2>2, CallsStay
<1>2. CASE \/ ShutdownUnstarted \/ \E p \in records : Unsubscribe(p) \/ CloseNext(p)
           \/ \E p \in closing : CloseEnds(p)
           \/ \E c \in Connections : Lost(c) \/ Redial(c) \/ Restored(c)
           \/ UNCHANGED vars
  <2>1. pc' = pc
    BY <1>2 DEF ShutdownUnstarted, Unsubscribe, CloseNext, CloseEnds, Lost, Redial, Restored, vars
  <2>. QED
    BY <2>1, CallsStay
<1>3. CASE \E a \in Actors : Lookup(a)
  BY <1>3, LookupMoves
<1>4. ASSUME NEW s \in Subs, Subscribe(s)
      PROVE  ReplyAwaited' /\ Forward
  <2>1. /\ StartSubscribe(s, s) /\ state = "running" /\ pc[s] = "idle"
        /\ s # Reply
    BY <1>4, BrokerAssumption DEF Subscribe
  <2>. QED
    BY <2>1, SubscribingMoves
<1>5. ASSUME NEW s \in Subs, Setup(s)
      PROVE  ReplyAwaited' /\ Forward
  BY <1>5, CreatedMoves, UnsubscribedMoves DEF Setup, CreateFails
<1>6. CASE \E r \in Requests : \/ Request(r) \/ Transmit(r) \/ DispatchReply(r) \/ Answer(r)
                               \/ RequestCancelled(r)
  BY <1>6, RequestMoves
<1>. QED
  BY <1>1, <1>2, <1>3, <1>4, <1>5, <1>6 DEF Next

LEMMA GoingInv == Spec => [](IInv /\ ReplyAwaited)
<1>1. Init => IInv /\ ReplyAwaited
  BY InitIInv, Kinds DEF Init, ReplyAwaited, ReplyOwner
<1>2. IInv /\ ReplyAwaited /\ [Next]_vars => (IInv /\ ReplyAwaited)'
  BY NextIInv, CallsForward
<1>. QED
  BY <1>1, <1>2, PTL DEF Spec

(* A request never waits in a circle: whoever holds the reply lock waits   *)
(* for a subscribe that goes on, and that ends or is cancelled with the    *)
(* lock given back (_ensure_reply_subscription, _get_engine).              *)
THEOREM NoRequestIsStuck == Spec => []RequestsGoOn
<1>1. ASSUME IInv, ReplyAwaited, NEW r \in Requests, pc[r] \notin {"idle", "done"}
      PROVE  \/ MayGoOn(r)
             \/ pc[r] \in {"ensure", "subscribing"} /\ ReplyOwner # {} /\ MayGoOn(Reply)
             \/ pc[r] = "connect" /\ \E a \in Connecting : MayGoOn(a)
  <2>1. pc[r] \in RequestPlaces
    BY <1>1 DEF IInv, PlacesOK
  <2>2. CASE pc[r] = "ensure" \/ pc[r] = "subscribing"
    <3>1. pc[r] = "subscribing" => ReplyOwner # {}
      BY DEF ReplyOwner
    <3>2. ReplyOwner # {} => MayGoOn(Reply)
      BY <1>1 DEF ReplyAwaited, MayGoOn
    <3>. QED
      BY <2>2, <3>1, <3>2 DEF MayGoOn
  <2>3. CASE pc[r] = "connect"
    <3>1. \A a \in Connecting : MayGoOn(a)
      BY DEF Connecting, MayGoOn
    <3>. QED
      BY <2>3, <3>1 DEF MayGoOn
  <2>. QED
    BY <1>1, <2>1, <2>2, <2>3 DEF RequestPlaces, MayGoOn
<1>2. IInv /\ ReplyAwaited => RequestsGoOn
  BY <1>1 DEF RequestsGoOn
<1>. QED
  BY <1>2, GoingInv, PTL

(* Own steps of a call move it.                                            *)
LEMMA OwnStepsMove ==
  ASSUME IInv, NEW c \in Subscribers \cup Requests, Lookup(c) \/ Setup(c) \/ Answer(c)
  PROVE  pc'[c] # pc[c]
<1>1. /\ pc \in [Actors -> Places] /\ c \in Actors /\ c # Boot /\ c # Reply
      /\ c \in Subs \/ c \in Requests
  BY Kinds, BrokerAssumption DEF IInv, PlacesOK, Subs
<1>2. ASSUME NEW w, Goto(c, w), w # pc[c]
      PROVE  pc'[c] # pc[c]
  BY <1>1, <1>2 DEF Goto
<1>3. CASE GotEngineLock(c)
  BY <1>1, <1>2, <1>3 DEF GotEngineLock, Proceed
<1>4. CASE Connected(c)
  BY <1>1, <1>2, <1>4 DEF Connected, Proceed
<1>5. CASE ConnectFails(c)
  BY <1>1, <1>2, <1>5 DEF ConnectFails, Finish, Unsubscribed
<1>6. CASE Created(c)
  BY <1>1, <1>2, <1>6 DEF Created
<1>7. CASE CreateFails(c)
  BY <1>1, <1>7 DEF CreateFails, Unsubscribed
<1>8. CASE GotReplyLock(c)
  <2>1. pc[c] = "ensure" /\ EnsureReply(c) /\ c \in Requests
    BY <1>8 DEF GotReplyLock
  <2>2. CASE EnterTable(c, {})
    <3>1. \E e \in Entries(table) : pc'[c] = e.to
      BY <1>1, <2>2 DEF EnterTable
    <3>. QED
      BY <2>1, <3>1 DEF Entries
  <2>3. CASE StartSubscribe(Reply, c)
    BY <1>1, <2>1, <2>3 DEF StartSubscribe
  <2>4. CASE Goto(c, "done")
    BY <1>2, <2>1, <2>4
  <2>. QED
    BY <2>1, <2>2, <2>3, <2>4 DEF EnsureReply
<1>9. CASE PublishEnds(c) \/ WaitEnds(c)
  BY <1>2, <1>9 DEF PublishEnds, WaitEnds, Finish
<1>. QED
  BY <1>3, <1>4, <1>5, <1>6, <1>7, <1>8, <1>9 DEF Lookup, Setup, Answer

(* No call is sent back: whatever startup, shutdown and the other calls    *)
(* do, a subscribe or a request that moves comes nearer to its end, and    *)
(* each step of its own moves it.                                          *)
THEOREM CallsComeNearer == Spec => CallsMoveForward
<1>. DEFINE Step ==
       \A c \in Subscribers \cup Requests :
         /\ pc'[c] = pc[c] \/ StepsLeft(pc'[c]) < StepsLeft(pc[c])
         /\ Lookup(c) \/ Setup(c) \/ Answer(c) => StepsLeft(pc'[c]) < StepsLeft(pc[c])
<1>1. IInv /\ ReplyAwaited /\ [Next]_vars => Step
  BY CallsForward, OwnStepsMove DEF Forward
<1>2. IInv /\ ReplyAwaited /\ [Next]_vars => [Step]_vars
  BY <1>1
<1>. QED
  BY <1>2, GoingInv, PTL DEF Spec, CallsMoveForward

-----------------------------------------------------------------------------
(* The queue of the memory consumer: counting in sequences and sets        *)

Occurrences(s, x) == {n \in 1..Len(s) : s[n] = x}

One(b) == IF b THEN 1 ELSE 0

LEMMA MinimumExists ==
  ASSUME NEW I \in SUBSET Nat, I # {}
  PROVE  Min(I) \in I /\ \A i \in I : Min(I) <= i
<1>. DEFINE Less == {ss \in Nat \X Nat : ss[1] < ss[2]}
<1>1. IsWellFoundedOn(Less, Nat)
  BY Zenon, NatLessThanWellFounded DEF OpToRel
<1>2. PICK x \in I : \A y \in I : <<y, x>> \notin Less
  BY <1>1, WFMin, Zenon
<1>3. ASSUME NEW y \in I
      PROVE  x <= y
  <2>1. <<y, x>> \notin Less /\ x \in Nat /\ y \in Nat
    BY <1>2
  <2>. QED
    BY <2>1
<1>. QED
  BY <1>3 DEF Min

LEMMA CountIsNatural ==
  ASSUME NEW S, NEW s \in Seq(S), NEW x
  PROVE  /\ IsFiniteSet(Occurrences(s, x))
         /\ Count(s, x) = Cardinality(Occurrences(s, x))
         /\ Count(s, x) \in Nat
<1>1. Len(s) \in Nat
  BY LenProperties
<1>2. IsFiniteSet(1..Len(s))
  BY <1>1, FS_Interval
<1>3. IsFiniteSet(Occurrences(s, x))
  BY <1>2, FS_Subset DEF Occurrences
<1>. QED
  BY <1>3, FS_CardinalityType DEF Count, Occurrences

LEMMA CountNone ==
  ASSUME NEW S, NEW s \in Seq(S), NEW x
  PROVE  Count(s, x) = 0 <=> \A n \in 1..Len(s) : s[n] # x
<1>1. Count(s, x) = 0 <=> Occurrences(s, x) = {}
  BY CountIsNatural, FS_EmptySet
<1>. QED
  BY <1>1 DEF Occurrences

LEMMA CountEmpty == \A x : Count(<<>>, x) = 0
<1>. SUFFICES ASSUME NEW x PROVE Count(<<>>, x) = 0
  OBVIOUS
<1>1. <<>> \in Seq({x}) /\ Len(<<>>) = 0
  BY EmptySeq
<1>2. 1..Len(<<>>) = {}
  BY <1>1
<1>. QED
  BY <1>1, <1>2, CountNone, Zenon

LEMMA CountSingle ==
  ASSUME NEW y, NEW x
  PROVE  Count(<<y>>, x) = One(y = x)
<1>1. <<y>> \in Seq({y}) /\ Len(<<y>>) = 1 /\ <<y>>[1] = y
  OBVIOUS
<1>2. Occurrences(<<y>>, x) = IF y = x THEN {1} ELSE {}
  BY <1>1 DEF Occurrences
<1>3. Count(<<y>>, x) = Cardinality(Occurrences(<<y>>, x))
  BY <1>1, CountIsNatural
<1>. QED
  BY <1>2, <1>3, FS_EmptySet, FS_Singleton DEF One

LEMMA CountConcat ==
  ASSUME NEW S, NEW s \in Seq(S), NEW t \in Seq(S), NEW x
  PROVE  Count(s \o t, x) = Count(s, x) + Count(t, x)
<1>. DEFINE A == Occurrences(s, x)
            B == Occurrences(t, x)
            m == Len(s)
            C == {n \in (m + 1)..(m + Len(t)) : t[n - m] = x}
<1>1. /\ m \in Nat /\ Len(t) \in Nat
      /\ s \o t \in Seq(S)
      /\ Len(s \o t) = m + Len(t)
      /\ \A n \in 1..(m + Len(t)) : (s \o t)[n] = IF n <= m THEN s[n] ELSE t[n - m]
  BY ConcatProperties, LenProperties
<1>2. Occurrences(s \o t, x) = A \cup C
  <2>. HIDE DEF A, C
  <2>1. ASSUME NEW n \in 1..(m + Len(t))
        PROVE  (s \o t)[n] = x <=> n \in A \cup C
    <3>1. CASE n <= m
      BY <1>1, <3>1 DEF A, C, Occurrences
    <3>2. CASE ~(n <= m)
      BY <1>1, <3>2 DEF A, C, Occurrences
    <3>. QED
      BY <3>1, <3>2
  <2>2. A \cup C \subseteq 1..(m + Len(t))
    BY <1>1 DEF A, C, Occurrences
  <2>. QED
    BY <1>1, <2>1, <2>2 DEF Occurrences
<1>3. ExistsBijection(B, C)
  <2>. DEFINE f == [n \in B |-> n + m]
  <2>1. f \in Injection(B, C)
    BY <1>1 DEF Injection, IsInjective, Occurrences
  <2>2. f \in Surjection(B, C)
    <3>1. ASSUME NEW k \in C PROVE \E n \in B : f[n] = k
      <4>1. k - m \in B /\ f[k - m] = k
        BY <1>1 DEF Occurrences
      <4>. QED
        BY <4>1
    <3>. QED
      BY <2>1, <3>1 DEF Surjection, Injection
  <2>. QED
    BY <2>1, <2>2 DEF ExistsBijection, Bijection
<1>4. IsFiniteSet(A) /\ IsFiniteSet(B) /\ Count(s, x) = Cardinality(A) /\ Count(t, x) = Cardinality(B)
  BY CountIsNatural
<1>5. IsFiniteSet(C) /\ Cardinality(C) = Cardinality(B)
  BY <1>3, <1>4, FS_Bijection
<1>6. A \cap C = {}
  BY <1>1 DEF Occurrences
<1>7. Cardinality(A \cup C) = Cardinality(A) + Cardinality(C) - Cardinality(A \cap C)
  BY <1>4, <1>5, FS_Union
<1>8. Count(s \o t, x) = Cardinality(A \cup C)
  BY <1>1, <1>2, CountIsNatural
<1>9. Count(s, x) \in Nat /\ Count(t, x) \in Nat /\ Cardinality(A \cap C) = 0
  BY <1>6, CountIsNatural, FS_EmptySet
<1>. HIDE DEF A, B, C
<1>. QED
  BY <1>4, <1>5, <1>7, <1>8, <1>9

LEMMA CountAppend ==
  ASSUME NEW S, NEW s \in Seq(S), NEW y \in S, NEW x
  PROVE  Count(Append(s, y), x) = Count(s, x) + One(y = x)
<1>1. Append(s, y) = s \o <<y>> /\ <<y>> \in Seq(S)
  BY AppendIsConcat
<1>2. Count(s \o <<y>>, x) = Count(s, x) + Count(<<y>>, x)
  BY <1>1, CountConcat
<1>. QED
  BY <1>1, <1>2, CountSingle

\* The element at n parts a sequence in two.
LEMMA CountSplit ==
  ASSUME NEW S, NEW s \in Seq(S), NEW n \in 1..Len(s), NEW x
  PROVE  /\ SubSeq(s, 1, n - 1) \in Seq(S) /\ SubSeq(s, n + 1, Len(s)) \in Seq(S)
         /\ Count(s, x) = Count(SubSeq(s, 1, n - 1), x) + One(s[n] = x)
                            + Count(SubSeq(s, n + 1, Len(s)), x)
<1>. DEFINE a == SubSeq(s, 1, n - 1)
            b == SubSeq(s, n + 1, Len(s))
            c == SubSeq(s, n, Len(s))
<1>1. Len(s) \in Nat /\ \A i \in 1..Len(s) : s[i] \in S
  BY LenProperties, ElementOfSeq
<1>2. a \in Seq(S)
  BY <1>1, SubSeqProperties
<1>3. b \in Seq(S)
  <2>1. n + 1 \in Int /\ Len(s) \in Int /\ \A i \in (n + 1)..Len(s) : s[i] \in S
    BY <1>1
  <2>. QED
    BY <2>1, SubSeqProperties
<1>4. c = <<s[n]>> \o b
  BY <1>1, SubSeqRecursiveFirst
<1>5. s = a \o c
  <2>1. 1 \in 1..(Len(s) + 1) /\ n - 1 \in (1 - 1)..Len(s) /\ Len(s) \in (n - 1)..Len(s)
    BY <1>1
  <2>2. SubSeq(s, 1, n - 1) \o SubSeq(s, (n - 1) + 1, Len(s)) = SubSeq(s, 1, Len(s))
    BY <2>1, ConcatAdjacentSubSeq
  <2>3. (n - 1) + 1 = n
    OBVIOUS
  <2>. QED
    BY <2>2, <2>3, SubSeqFull
<1>. HIDE DEF a, b, c
<1>6. <<s[n]>> \in Seq(S) /\ c \in Seq(S)
  <2>1. <<s[n]>> \in Seq(S)
    BY <1>1
  <2>. QED
    BY <1>3, <1>4, <2>1, ConcatProperties
<1>7. Count(s, x) = Count(a, x) + Count(c, x)
  BY <1>2, <1>5, <1>6, CountConcat
<1>8. Count(c, x) = Count(<<s[n]>>, x) + Count(b, x)
  BY <1>3, <1>4, <1>6, CountConcat
<1>9. Count(<<s[n]>>, x) = One(s[n] = x)
  BY CountSingle
<1>10. Count(a, x) \in Nat /\ Count(b, x) \in Nat /\ One(s[n] = x) \in Nat
  BY <1>2, <1>3, CountIsNatural DEF One
<1>11. Count(s, x) = Count(a, x) + One(s[n] = x) + Count(b, x)
  BY <1>7, <1>8, <1>9, <1>10
<1>. QED
  BY <1>2, <1>3, <1>11 DEF a, b

LEMMA CountRemoved ==
  ASSUME NEW S, NEW s \in Seq(S), NEW n \in 1..Len(s), NEW x
  PROVE  /\ RemoveAt(s, n) \in Seq(S)
         /\ Count(s, x) = Count(RemoveAt(s, n), x) + One(s[n] = x)
<1>. DEFINE a == SubSeq(s, 1, n - 1)
            b == SubSeq(s, n + 1, Len(s))
<1>1. /\ a \in Seq(S) /\ b \in Seq(S)
      /\ Count(s, x) = Count(a, x) + One(s[n] = x) + Count(b, x)
  BY CountSplit
<1>2. RemoveAt(s, n) = a \o b
  BY DEF RemoveAt
<1>3. a \o b \in Seq(S) /\ Count(a \o b, x) = Count(a, x) + Count(b, x)
  BY <1>1, CountConcat, ConcatProperties
<1>4. Count(a, x) \in Nat /\ Count(b, x) \in Nat /\ One(s[n] = x) \in Nat
  BY <1>1, CountIsNatural DEF One
<1>. HIDE DEF a, b
<1>. QED
  BY <1>1, <1>2, <1>3, <1>4

LEMMA CountTail ==
  ASSUME NEW S, NEW s \in Seq(S), s # <<>>, NEW x
  PROVE  /\ Head(s) \in S /\ Tail(s) \in Seq(S) /\ Len(Tail(s)) = Len(s) - 1
         /\ Count(s, x) = One(Head(s) = x) + Count(Tail(s), x)
<1>1. Len(s) \in Nat \ {0}
  BY EmptySeq
<1>2. /\ Head(s) \in S /\ Tail(s) \in Seq(S) /\ Len(Tail(s)) = Len(s) - 1
      /\ Tail(s) = SubSeq(s, 2, Len(s)) /\ Head(s) = s[1]
  BY <1>1, HeadTailProperties, TailIsSubSeq
<1>3. s = <<Head(s)>> \o Tail(s)
  <2>1. 1 \in 1..Len(s) /\ Len(s) \in 1..Len(s)
    BY <1>1
  <2>2. SubSeq(s, 1, Len(s)) = <<s[1]>> \o SubSeq(s, 1 + 1, Len(s))
    BY <2>1, SubSeqRecursiveFirst
  <2>3. SubSeq(s, 1, Len(s)) = s
    BY SubSeqFull
  <2>4. SubSeq(s, 1 + 1, Len(s)) = SubSeq(s, 2, Len(s))
    OBVIOUS
  <2>. QED
    BY <1>2, <2>2, <2>3, <2>4, Zenon
<1>4. <<Head(s)>> \in Seq(S)
  BY <1>2
<1>5. Count(<<Head(s)>> \o Tail(s), x) = Count(<<Head(s)>>, x) + Count(Tail(s), x)
  BY <1>2, <1>4, CountConcat
<1>6. Count(s, x) = Count(<<Head(s)>>, x) + Count(Tail(s), x)
  BY <1>3, <1>5, Zenon
<1>7. Count(<<Head(s)>>, x) = One(Head(s) = x)
  BY CountSingle
<1>. QED
  BY <1>2, <1>6, <1>7, Zenon

\* What else is put does not count.
LEMMA CountOthers ==
  ASSUME NEW S, NEW s \in Seq(S), NEW t \in Seq(S), NEW x, \A n \in 1..Len(t) : t[n] # x
  PROVE  /\ s \o t \in Seq(S) /\ Len(s \o t) = Len(s) + Len(t)
         /\ Count(s \o t, x) = Count(s, x)
<1>1. Count(t, x) = 0
  BY CountNone
<1>2. Count(s \o t, x) = Count(s, x) + Count(t, x)
  BY CountConcat
<1>3. s \o t \in Seq(S) /\ Len(s \o t) = Len(s) + Len(t)
  BY ConcatProperties
<1>4. Count(s, x) \in Nat
  BY CountIsNatural
<1>5. Count(s \o t, x) = Count(s, x)
  BY <1>1, <1>2, <1>4
<1>. QED
  BY <1>3, <1>5

\* Workers that hold message i, and workers that hold any.
Held(h, i) == Cardinality({w \in Workers : h[w] = i})
Busy(h) == Cardinality({w \in Workers : h[w] # NoItem})

Hands == [Workers -> Items \cup {NoItem}]

LEMMA PlaceHolders ==
  /\ NoItem \notin Items /\ Stop \notin Items /\ Closer \notin Items
  /\ Stop # Closer /\ Stop # NoItem /\ Closer # NoItem
  /\ Stop \notin Workers /\ Closer \notin Workers
  /\ \A i \in Items : i \notin Workers
  /\ Capacity \in Nat \ {0} /\ MaxAttempts \in Nat \ {0}
  /\ Cardinality(Workers) \in Nat \ {0}
<1>1. \A x, y : Cardinality({x, y}) # 3
  <2>1. ASSUME NEW x, NEW y PROVE Cardinality({x, y}) # 3
    <3>1. IsFiniteSet({x}) /\ Cardinality({x}) = 1
      BY FS_Singleton
    <3>2. Cardinality({x} \cup {y}) = IF y \in {x} THEN 1 ELSE 1 + 1
      BY <3>1, FS_AddElement
    <3>3. {x, y} = {x} \cup {y}
      OBVIOUS
    <3>. QED
      BY <3>2, <3>3
  <2>. QED
    BY <2>1
<1>2. Cardinality({Stop, Closer, NoItem}) = 3
  BY MemoryQueueAssumption
<1>3. Stop # Closer
  <2>1. Stop = Closer => {Stop, Closer, NoItem} = {Stop, NoItem}
    OBVIOUS
  <2>. QED
    BY <1>1, <1>2, <2>1, Zenon
<1>4. Stop # NoItem
  <2>1. Stop = NoItem => {Stop, Closer, NoItem} = {Stop, Closer}
    OBVIOUS
  <2>. QED
    BY <1>1, <1>2, <2>1, Zenon
<1>5. Closer # NoItem
  <2>1. Closer = NoItem => {Stop, Closer, NoItem} = {Stop, Closer}
    OBVIOUS
  <2>. QED
    BY <1>1, <1>2, <2>1, Zenon
<1>6. Cardinality(Workers) \in Nat \ {0}
  BY MemoryQueueAssumption, FS_CardinalityType, FS_EmptySet
<1>. QED
  BY <1>3, <1>4, <1>5, <1>6, MemoryQueueAssumption

LEMMA HandsAreFinite ==
  ASSUME NEW h, NEW i
  PROVE  Held(h, i) \in Nat /\ Busy(h) \in Nat
<1>1. IsFiniteSet(Workers)
  BY MemoryQueueAssumption
<1>2. /\ IsFiniteSet({w \in Workers : h[w] = i})
      /\ IsFiniteSet({w \in Workers : h[w] # NoItem})
  BY <1>1, FS_Subset
<1>. QED
  BY <1>2, FS_CardinalityType DEF Held, Busy

\* One more hand holds a message in g than in h, and that is the hand of w.
Takes(h, g, w) ==
  /\ h \in Hands /\ g \in Hands
  /\ h[w] = NoItem /\ g[w] \in Items
  /\ \A v \in Workers \ {w} : g[v] = h[v]

LEMMA HandTakes ==
  ASSUME NEW h, NEW g, NEW w \in Workers, Takes(h, g, w)
  PROVE  /\ Busy(g) = Busy(h) + 1
         /\ \A j \in Items : Held(g, j) = Held(h, j) + One(g[w] = j)
<1>1. IsFiniteSet(Workers)
  BY MemoryQueueAssumption
<1>2. Busy(g) = Busy(h) + 1
  <2>. DEFINE B == {v \in Workers : h[v] # NoItem}
  <2>1. {v \in Workers : g[v] # NoItem} = B \cup {w} /\ w \notin B
    BY PlaceHolders DEF Takes
  <2>2. IsFiniteSet(B)
    BY <1>1, FS_Subset
  <2>. QED
    BY <2>1, <2>2, FS_AddElement DEF Busy
<1>3. ASSUME NEW j \in Items PROVE Held(g, j) = Held(h, j) + One(g[w] = j)
  <2>. DEFINE H == {v \in Workers : h[v] = j}
  <2>1. IsFiniteSet(H) /\ Cardinality(H) = Held(h, j) /\ Held(h, j) \in Nat
    <3>1. H \in SUBSET Workers
      OBVIOUS
    <3>2. IsFiniteSet(H)
      BY <1>1, <3>1, FS_Subset, Zenon
    <3>3. Cardinality(H) = Held(h, j)
      BY DEF Held
    <3>. QED
      BY <3>2, <3>3, HandsAreFinite, Zenon
  <2>2. CASE g[w] = j
    <3>1. {v \in Workers : g[v] = j} = H \cup {w} /\ w \notin H
      BY <2>2, PlaceHolders DEF Takes
    <3>. QED
      BY <2>1, <2>2, <3>1, FS_AddElement DEF Held, One
  <2>3. CASE g[w] # j
    <3>1. {v \in Workers : g[v] = j} = H
      BY <2>3, PlaceHolders DEF Takes
    <3>. QED
      BY <2>1, <2>3, <3>1 DEF Held, One
  <2>. QED
    BY <2>2, <2>3
<1>. QED
  BY <1>2, <1>3

LEMMA HeldSomewhere ==
  ASSUME NEW h \in Hands, NEW i \in Items
  PROVE  /\ Held(h, i) = 0 <=> \A w \in Workers : h[w] # i
         /\ Busy(h) = 0 <=> \A w \in Workers : h[w] = NoItem
         /\ Held(h, i) <= 1 => \A v, w \in Workers : h[v] = i /\ h[w] = i => v = w
<1>1. IsFiniteSet(Workers)
  BY MemoryQueueAssumption
<1>2. /\ IsFiniteSet({w \in Workers : h[w] = i})
      /\ IsFiniteSet({w \in Workers : h[w] # NoItem})
  BY <1>1, FS_Subset
<1>3. /\ Held(h, i) = 0 <=> {w \in Workers : h[w] = i} = {}
      /\ Busy(h) = 0 <=> {w \in Workers : h[w] # NoItem} = {}
  BY <1>2, FS_EmptySet DEF Held, Busy
<1>4. ASSUME Held(h, i) <= 1, NEW v \in Workers, NEW w \in Workers, h[v] = i, h[w] = i
      PROVE  v = w
  <2>1. Held(h, i) \in Nat /\ Held(h, i) # 0
    BY <1>3, <1>4, HandsAreFinite
  <2>2. Held(h, i) = 1
    BY <1>4, <2>1
  <2>3. PICK x : {u \in Workers : h[u] = i} = {x}
    BY <1>2, <2>2, FS_Singleton DEF Held
  <2>. QED
    BY <1>4, <2>3
<1>5. Held(h, i) = 0 <=> \A w \in Workers : h[w] # i
  BY <1>3
<1>6. Busy(h) = 0 <=> \A w \in Workers : h[w] = NoItem
  BY <1>3
<1>. QED
  BY <1>4, <1>5, <1>6

-----------------------------------------------------------------------------
(* The line of waiting puts                                                *)

Standing(l, k, x) == Count(l, x) + Count(k, x)

LEMMA StandingIsNatural ==
  ASSUME NEW l \in Seq(Puts), NEW k \in Seq(Puts), NEW x
  PROVE  Count(l, x) \in Nat /\ Count(k, x) \in Nat /\ Standing(l, k, x) \in Nat
BY CountIsNatural DEF Standing

\* Waking moves a put from one list to the other; only those of cancelled workers go.
LEMMA WakeMoves ==
  ASSUME line \in Seq(Puts), NEW others \in Seq(Puts), WakeNext(others)
  PROVE  /\ line' \in Seq(Puts) /\ woken' \in Seq(Puts)
         /\ \A x : /\ Standing(line', woken', x) <= Standing(line, others, x)
                   /\ x \notin Workers \/ phase # "gathering" =>
                        Standing(line', woken', x) = Standing(line, others, x)
<1>. DEFINE Gone(x) == x \in Workers /\ phase = "gathering"
<1>1. CASE Waiting = {}
  <2>1. line' = <<>> /\ woken' = others
    BY <1>1 DEF WakeNext
  <2>2. line' \in Seq(Puts) /\ woken' \in Seq(Puts)
    BY <2>1
  <2>3. ASSUME NEW x
        PROVE  /\ Standing(line', woken', x) = Count(others, x)
               /\ ~Gone(x) => Count(line, x) = 0
    <3>1. Count(line', x) = 0 /\ Count(others, x) \in Nat
      BY <2>1, CountEmpty, CountIsNatural
    <3>2. ASSUME ~Gone(x) PROVE \A n \in 1..Len(line) : line[n] # x
      BY <1>1, <3>2 DEF Waiting
    <3>. QED
      BY <2>1, <3>1, <3>2, CountNone DEF Standing
  <2>. QED
    BY <2>2, <2>3, CountIsNatural DEF Standing
<1>2. CASE Waiting # {}
  <2>. DEFINE n == Min(Waiting)
              a == SubSeq(line, 1, n - 1)
              b == SubSeq(line, n + 1, Len(line))
  <2>1. Len(line) \in Nat /\ Waiting \in SUBSET Nat
    BY LenProperties DEF Waiting
  <2>2. n \in Waiting /\ \A i \in Waiting : n <= i
    BY <1>2, <2>1, MinimumExists
  <2>3. n \in 1..Len(line)
    BY <2>2 DEF Waiting
  <2>4. line' = b /\ woken' = Append(others, line[n])
    BY <1>2 DEF WakeNext
  <2>. HIDE DEF n
  <2>5. a \in Seq(Puts) /\ b \in Seq(Puts) /\ line[n] \in Puts
    BY <2>3, CountSplit, ElementOfSeq
  <2>6. ASSUME NEW x
        PROVE  Count(line, x) = Count(a, x) + One(line[n] = x) + Count(b, x)
    BY <2>3, CountSplit
  <2>7. Len(a) = n - 1 /\ \A i \in 1..(n - 1) : a[i] = line[i]
    <3>1. \A i \in 1..(n - 1) : line[i] \in Puts
      BY <2>1, <2>3, ElementOfSeq
    <3>. QED
      BY <2>3, <3>1, SubSeqProperties
  <2>. HIDE DEF a, b
  <2>8. ASSUME NEW x, ~Gone(x)
        PROVE  Count(a, x) = 0
    <3>1. ASSUME NEW i \in 1..Len(a) PROVE a[i] # x
      <4>1. i \in 1..(n - 1) /\ i \in 1..Len(line) /\ ~(n <= i)
        BY <2>1, <2>3, <2>7
      <4>2. i \notin Waiting
        BY <2>2, <4>1
      <4>3. Gone(line[i]) /\ a[i] = line[i]
        BY <2>7, <4>1, <4>2 DEF Waiting
      <4>. QED
        BY <2>8, <4>3
    <3>. QED
      BY <2>5, <3>1, CountNone
  <2>9. ASSUME NEW x
        PROVE  Standing(line', woken', x) = Count(b, x) + Count(others, x) + One(line[n] = x)
    <3>1. Count(woken', x) = Count(others, x) + One(line[n] = x)
      BY <2>4, <2>5, CountAppend
    <3>2. Count(b, x) \in Nat /\ Count(others, x) \in Nat /\ One(line[n] = x) \in Nat
      BY <2>5, CountIsNatural DEF One
    <3>. QED
      BY <2>4, <3>1, <3>2 DEF Standing
  <2>10. line' \in Seq(Puts) /\ woken' \in Seq(Puts)
    BY <2>4, <2>5, AppendProperties
  <2>11. ASSUME NEW x
         PROVE  /\ Standing(line', woken', x) <= Standing(line, others, x)
                /\ ~Gone(x) => Standing(line', woken', x) = Standing(line, others, x)
    <3>1. /\ Count(a, x) \in Nat /\ Count(b, x) \in Nat /\ Count(others, x) \in Nat
          /\ One(line[n] = x) \in Nat
      BY <2>5, CountIsNatural DEF One
    <3>. QED
      BY <2>6, <2>8, <2>9, <3>1 DEF Standing
  <2>. QED
    BY <2>10, <2>11
<1>. QED
  BY <1>1, <1>2

\* Whoever leaves the line leaves it once, and nobody else does but cancelled workers.
LEMMA LeaveMoves ==
  ASSUME line \in Seq(Puts), woken \in Seq(Puts), NEW p, LeaveLine(p)
  PROVE  /\ line' \in Seq(Puts) /\ woken' \in Seq(Puts)
         /\ \A x : /\ Standing(line', woken', x) + One(p = x) <= Standing(line, woken, x)
                   /\ x \notin Workers =>
                        Standing(line', woken', x) + One(p = x) = Standing(line, woken, x)
<1>0. \A x : One(p = x) \in Nat
  BY DEF One
<1>1. ASSUME NEW n \in 1..Len(line), line[n] = p, line' = RemoveAt(line, n), woken' = woken
      PROVE  /\ line' \in Seq(Puts)
             /\ \A x : Standing(line', woken', x) + One(p = x) = Standing(line, woken, x)
  <2>1. line' \in Seq(Puts) /\ \A x : Count(line, x) = Count(line', x) + One(p = x)
    BY <1>1, CountRemoved
  <2>2. ASSUME NEW x
        PROVE  Standing(line', woken', x) + One(p = x) = Standing(line, woken, x)
    <3>1. Count(line', x) \in Nat /\ Count(woken, x) \in Nat /\ One(p = x) \in Nat
      BY <1>0, <2>1, CountIsNatural
    <3>2. Count(line, x) = Count(line', x) + One(p = x) /\ woken' = woken
      BY <1>1, <2>1
    <3>. QED
      BY <3>1, <3>2 DEF Standing
  <2>. QED
    BY <2>1, <2>2
<1>2. ASSUME NEW n \in 1..Len(woken), woken[n] = p
      PROVE  /\ RemoveAt(woken, n) \in Seq(Puts)
             /\ \A x : Standing(line, RemoveAt(woken, n), x) + One(p = x) = Standing(line, woken, x)
  <2>. DEFINE others == RemoveAt(woken, n)
  <2>1. others \in Seq(Puts) /\ \A x : Count(woken, x) = Count(others, x) + One(p = x)
    BY <1>2, CountRemoved
  <2>. HIDE DEF others
  <2>3. ASSUME NEW x
        PROVE  Standing(line, others, x) + One(p = x) = Standing(line, woken, x)
    <3>1. Count(line, x) \in Nat /\ Count(others, x) \in Nat /\ One(p = x) \in Nat
      BY <1>0, <2>1, CountIsNatural
    <3>2. Count(woken, x) = Count(others, x) + One(p = x)
      BY <2>1
    <3>. QED
      BY <3>1, <3>2 DEF Standing
  <2>. QED
    BY <2>1, <2>3 DEF others
<1>3. CASE \E n \in 1..Len(line) : line[n] = p /\ line' = RemoveAt(line, n) /\ UNCHANGED woken
  BY <1>0, <1>1, <1>3, StandingIsNatural
<1>4. ASSUME NEW n \in 1..Len(woken), woken[n] = p, woken' = RemoveAt(woken, n), line' = line
      PROVE  /\ woken' \in Seq(Puts)
             /\ \A x : Standing(line', woken', x) + One(p = x) = Standing(line, woken, x)
  BY <1>2, <1>4, Zenon
<1>5. ASSUME NEW n \in 1..Len(woken), woken[n] = p, WakeNext(RemoveAt(woken, n))
      PROVE  /\ line' \in Seq(Puts) /\ woken' \in Seq(Puts)
             /\ \A x : /\ Standing(line', woken', x) + One(p = x) <= Standing(line, woken, x)
                       /\ x \notin Workers =>
                            Standing(line', woken', x) + One(p = x) = Standing(line, woken, x)
  <2>. DEFINE others == RemoveAt(woken, n)
  <2>1. others \in Seq(Puts) /\ WakeNext(others)
    BY <1>2, <1>5, Zenon
  <2>2. \A x : Standing(line, others, x) + One(p = x) = Standing(line, woken, x)
    BY <1>2, <1>5, Zenon
  <2>. HIDE DEF others
  <2>3. /\ line' \in Seq(Puts) /\ woken' \in Seq(Puts)
        /\ \A x : /\ Standing(line', woken', x) <= Standing(line, others, x)
                  /\ x \notin Workers => Standing(line', woken', x) = Standing(line, others, x)
    BY <2>1, WakeMoves, Zenon
  <2>4. ASSUME NEW x
        PROVE  /\ Standing(line', woken', x) + One(p = x) <= Standing(line, woken, x)
               /\ x \notin Workers =>
                    Standing(line', woken', x) + One(p = x) = Standing(line, woken, x)
    <3>1. /\ Standing(line', woken', x) \in Nat /\ Standing(line, others, x) \in Nat
          /\ One(p = x) \in Nat
      BY <1>0, <2>1, <2>3, StandingIsNatural
    <3>2. Standing(line, others, x) + One(p = x) = Standing(line, woken, x)
      BY <2>2
    <3>3. /\ Standing(line', woken', x) <= Standing(line, others, x)
          /\ x \notin Workers => Standing(line', woken', x) = Standing(line, others, x)
      BY <2>3
    <3>. QED
      BY <3>1, <3>2, <3>3
  <2>. QED
    BY <2>3, <2>4
<1>6. CASE \E n \in 1..Len(woken) :
             /\ woken[n] = p
             /\ IF Full THEN woken' = RemoveAt(woken, n) /\ UNCHANGED line
                        ELSE WakeNext(RemoveAt(woken, n))
  <2>1. PICK n \in 1..Len(woken) :
          /\ woken[n] = p
          /\ IF Full THEN woken' = RemoveAt(woken, n) /\ UNCHANGED line
                     ELSE WakeNext(RemoveAt(woken, n))
    BY <1>6
  <2>2. CASE Full
    <3>1. /\ woken' \in Seq(Puts) /\ line' = line
          /\ \A x : Standing(line', woken', x) + One(p = x) = Standing(line, woken, x)
      BY <1>4, <2>1, <2>2, Zenon
    <3>2. \A x : Standing(line, woken, x) \in Nat
      BY StandingIsNatural
    <3>. QED
      BY <3>1, <3>2
  <2>3. CASE ~Full
    BY <1>5, <2>1, <2>3, Zenon
  <2>. QED
    BY <2>2, <2>3
<1>. QED
  BY <1>3, <1>6 DEF LeaveLine

-----------------------------------------------------------------------------
(* The inductive invariant                                                 *)

\* Every put stands in the line once, in line or woken, and only while its caller awaits
\* it; that of a cancelled worker may have been passed over.
PutsStand ==
  /\ \A i \in Items : Standing(line, woken, i) = One(fate[i] = "blocked")
  /\ \A w \in Workers : Standing(line, woken, w) <= One(worker[w] = "requeueing")
  /\ Standing(line, woken, Closer) <= One(phase \in {"joined", "drained"} /\ stops > 0)

\* An accepted message is in one place until it is settled.
MessagesPlaced ==
  \A i \in Items : Count(queue, i) + Held(hand, i) = One(fate[i] = "accepted" /\ ~Settled(i))

WorkCounted == unfinished = Len(queue) + Busy(hand)

\* A message is tried again only as long as it may be.
AttemptsLeft ==
  /\ \A i \in Items : fate[i] # "accepted" => attempts[i] = 0 /\ disposition[i] = "pending"
  /\ \A n \in 1..Len(queue) : queue[n] \in Items => attempts[queue[n]] < MaxAttempts
  /\ \A w \in Workers : worker[w] \in {"holding", "deferring", "requeueing"}
                          => attempts[hand[w]] < MaxAttempts

\* Once join has returned, what was accepted before close is settled.
EarlySettled ==
  /\ \A i \in early : i \in Items /\ fate[i] = "accepted"
  /\ phase = "gathering" => timedOut
  /\ phase \in {"joined", "drained"} \/ (phase = "closed" /\ ~timedOut)
       => \A i \in early : Settled(i)

LineTypes == line \in Seq(Puts) /\ woken \in Seq(Puts)
QueueTypes == queue \in Seq(Items \cup {Stop}) /\ Len(queue) <= Capacity
ItemTypes ==
  /\ fate \in [Items -> {"idle", "blocked", "accepted", "refused"}]
  /\ attempts \in [Items -> 0..MaxAttempts]
  /\ disposition \in [Items -> {"pending", "settled", "failed", "dropped", "abandoned"}]
WorkerTypes ==
  /\ worker \in [Workers -> {"getting", "holding", "handling", "deferring", "requeueing", "exited"}]
  /\ hand \in Hands
  /\ \A w \in Workers : hand[w] = NoItem <=> worker[w] \in {"getting", "exited"}
CloseTypes ==
  /\ policy \in Policies
  /\ phase \in {"open", "joining", "joined", "drained", "gathering", "closed"}
  /\ stops \in 0..Cardinality(Workers)
  /\ phase \in {"joining", "joined"} => stops > 0
  /\ subscription \in {"active", "paused", "closed"}
CloseFlags == resumed \in BOOLEAN /\ timedOut \in BOOLEAN /\ bySub \in BOOLEAN

MessageInv ==
  /\ LineTypes /\ QueueTypes /\ ItemTypes /\ WorkerTypes
  /\ PutsStand /\ MessagesPlaced /\ WorkCounted /\ AttemptsLeft

QueueInv == MessageInv /\ CloseTypes /\ CloseFlags /\ EarlySettled

\* What the invariant says about sizes, for the arithmetic.
LEMMA Sizes ==
  ASSUME MessageInv
  PROVE  /\ Len(queue) \in Nat /\ Busy(hand) \in Nat /\ unfinished \in Nat
         /\ Capacity \in Nat \ {0}
         /\ \A i : Count(queue, i) \in Nat /\ Held(hand, i) \in Nat
         /\ \A x : Standing(line, woken, x) \in Nat
<1>1. Len(queue) \in Nat /\ \A i : Count(queue, i) \in Nat
  BY LenProperties, CountIsNatural DEF MessageInv, QueueTypes
<1>2. Busy(hand) \in Nat /\ \A i : Held(hand, i) \in Nat
  BY HandsAreFinite
<1>3. \A x : Standing(line, woken, x) \in Nat
  BY StandingIsNatural DEF MessageInv, LineTypes
<1>4. unfinished = Len(queue) + Busy(hand)
  BY DEF MessageInv, WorkCounted
<1>. QED
  BY <1>1, <1>2, <1>3, <1>4, PlaceHolders

\* A worker's message is in no other place.
LEMMA HolderIsAlone ==
  ASSUME MessageInv, NEW w \in Workers, hand[w] # NoItem
  PROVE  /\ hand[w] \in Items /\ fate[hand[w]] = "accepted" /\ ~Settled(hand[w])
         /\ Count(queue, hand[w]) = 0
         /\ \A n \in 1..Len(queue) : queue[n] # hand[w]
         /\ \A v \in Workers : hand[v] = hand[w] => v = w
<1>. DEFINE i == hand[w]
<1>1. hand \in Hands /\ i \in Items
  BY DEF MessageInv, WorkerTypes, Hands
<1>. HIDE DEF i
<1>2. hand[w] = i
  BY DEF i
<1>3. Held(hand, i) # 0 /\ Held(hand, i) \in Nat /\ Count(queue, i) \in Nat
  BY <1>1, <1>2, HeldSomewhere, Sizes
<1>4. Count(queue, i) + Held(hand, i) = One(fate[i] = "accepted" /\ ~Settled(i))
  BY <1>1 DEF MessageInv, MessagesPlaced
<1>5. fate[i] = "accepted" /\ ~Settled(i) /\ Count(queue, i) = 0 /\ Held(hand, i) <= 1
  BY <1>3, <1>4 DEF One
<1>6. \A v \in Workers : hand[v] = i => v = w
  BY <1>1, <1>2, <1>5, HeldSomewhere
<1>7. \A n \in 1..Len(queue) : queue[n] # i
  <2>1. queue \in Seq(Items \cup {Stop})
    BY DEF MessageInv, QueueTypes
  <2>. QED
    BY <1>5, <2>1, CountNone
<1>. QED
  BY <1>1, <1>2, <1>5, <1>6, <1>7

\* So is a message in the queue.
LEMMA QueuedIsAlone ==
  ASSUME MessageInv, queue # <<>>, Head(queue) \in Items
  PROVE  /\ fate[Head(queue)] = "accepted" /\ ~Settled(Head(queue))
         /\ attempts[Head(queue)] < MaxAttempts
<1>. DEFINE i == Head(queue)
<1>1. queue \in Seq(Items \cup {Stop})
  BY DEF MessageInv, QueueTypes
<1>2. /\ i \in Items /\ i = queue[1] /\ 1 \in 1..Len(queue)
  BY <1>1, EmptySeq
<1>. HIDE DEF i
<1>3. Count(queue, i) # 0 /\ Held(hand, i) \in Nat /\ Count(queue, i) \in Nat
  BY <1>1, <1>2, CountNone, Sizes
<1>4. Count(queue, i) + Held(hand, i) = One(fate[i] = "accepted" /\ ~Settled(i))
  BY <1>2 DEF MessageInv, MessagesPlaced
<1>5. fate[i] = "accepted" /\ ~Settled(i)
  BY <1>3, <1>4 DEF One
<1>6. attempts[i] < MaxAttempts
  BY <1>2 DEF MessageInv, AttemptsLeft
<1>. QED
  BY <1>5, <1>6 DEF i

\* Whoever is woken next awaits its put.
LEMMA HeadWoken ==
  ASSUME MessageInv, woken # <<>>
  PROVE  /\ Head(woken) \in Puts /\ Tail(woken) \in Seq(Puts)
         /\ \A x : Standing(line, Tail(woken), x) + One(Head(woken) = x) = Standing(line, woken, x)
         /\ Head(woken) \in Items => fate[Head(woken)] = "blocked"
         /\ Head(woken) \in Workers => worker[Head(woken)] = "requeueing"
         /\ Head(woken) = Closer => phase \in {"joined", "drained"} /\ stops > 0
<1>1. /\ Head(woken) \in Puts /\ Tail(woken) \in Seq(Puts)
      /\ \A x : Count(woken, x) = One(Head(woken) = x) + Count(Tail(woken), x)
  BY CountTail DEF MessageInv, LineTypes
<1>2. ASSUME NEW x
      PROVE  Standing(line, Tail(woken), x) + One(Head(woken) = x) = Standing(line, woken, x)
  <2>1. Count(line, x) \in Nat /\ Count(Tail(woken), x) \in Nat /\ One(Head(woken) = x) \in Nat
    BY <1>1, CountIsNatural DEF MessageInv, LineTypes, One
  <2>2. Count(woken, x) = One(Head(woken) = x) + Count(Tail(woken), x)
    BY <1>1
  <2>. QED
    BY <2>1, <2>2 DEF Standing
<1>3. Standing(line, woken, Head(woken)) > 0
  <2>. DEFINE x == Head(woken)
  <2>1. Standing(line, Tail(woken), x) + 1 = Standing(line, woken, x)
    BY <1>2 DEF One
  <2>2. Standing(line, Tail(woken), x) \in Nat /\ Standing(line, woken, x) \in Nat
    BY <1>1, StandingIsNatural DEF MessageInv, LineTypes
  <2>. HIDE DEF x
  <2>3. Standing(line, woken, x) > 0
    BY <2>1, <2>2
  <2>. QED
    BY <2>3 DEF x
<1>4. PutsStand
  BY DEF MessageInv
<1>5. Head(woken) \in Items => fate[Head(woken)] = "blocked"
  BY <1>3, <1>4 DEF PutsStand, One
<1>6. Head(woken) \in Workers => worker[Head(woken)] = "requeueing"
  BY <1>3, <1>4, Sizes DEF PutsStand, One
<1>7. Head(woken) = Closer => phase \in {"joined", "drained"} /\ stops > 0
  BY <1>3, <1>4, Sizes DEF PutsStand, One
<1>. QED
  BY <1>1, <1>2, <1>5, <1>6, <1>7

\* A put joins the line, or is woken.
LEMMA PutStands ==
  ASSUME NEW l \in Seq(Puts), NEW k \in Seq(Puts), NEW p \in Puts
  PROVE  /\ Append(l, p) \in Seq(Puts) /\ Append(k, p) \in Seq(Puts)
         /\ \A x : /\ Standing(Append(l, p), k, x) = Standing(l, k, x) + One(p = x)
                   /\ Standing(l, Append(k, p), x) = Standing(l, k, x) + One(p = x)
<1>1. Append(l, p) \in Seq(Puts) /\ Append(k, p) \in Seq(Puts)
  BY AppendProperties
<1>2. ASSUME NEW x
      PROVE  /\ Standing(Append(l, p), k, x) = Standing(l, k, x) + One(p = x)
             /\ Standing(l, Append(k, p), x) = Standing(l, k, x) + One(p = x)
  <2>1. Count(l, x) \in Nat /\ Count(k, x) \in Nat /\ One(p = x) \in Nat
    BY CountIsNatural DEF One
  <2>2. /\ Count(Append(l, p), x) = Count(l, x) + One(p = x)
        /\ Count(Append(k, p), x) = Count(k, x) + One(p = x)
    BY CountAppend
  <2>. QED
    BY <2>1, <2>2 DEF Standing
<1>. QED
  BY <1>1, <1>2

-----------------------------------------------------------------------------
(* Publishers                                                              *)

\* An accepted message enters the queue.
LEMMA Enqueued ==
  ASSUME MessageInv, NEW i \in Items, fate[i] # "accepted", ~Full, PutAccepted(i),
         UNCHANGED <<attempts, disposition, worker, hand>>
  PROVE  /\ QueueTypes' /\ ItemTypes' /\ WorkerTypes'
         /\ MessagesPlaced' /\ WorkCounted' /\ AttemptsLeft'
<1>1. /\ queue' = Append(queue, i) /\ unfinished' = unfinished + 1
      /\ fate' = [fate EXCEPT ![i] = "accepted"]
      /\ UNCHANGED <<attempts, disposition, worker, hand>>
  BY DEF PutAccepted, Enqueue
<1>2. queue \in Seq(Items \cup {Stop}) /\ Len(queue) < Capacity
  BY Sizes DEF MessageInv, QueueTypes, Full
<1>3. /\ queue' \in Seq(Items \cup {Stop}) /\ Len(queue') = Len(queue) + 1
      /\ \A n \in 1..Len(queue) : queue'[n] = queue[n]
      /\ queue'[Len(queue) + 1] = i
  BY <1>1, <1>2, AppendProperties
<1>4. QueueTypes'
  BY <1>2, <1>3, Sizes DEF QueueTypes
<1>5. ItemTypes'
  BY <1>1 DEF MessageInv, ItemTypes
<1>6. WorkerTypes'
  BY <1>1 DEF MessageInv, WorkerTypes
<1>7. WorkCounted'
  BY <1>1, <1>3, Sizes DEF MessageInv, WorkCounted
<1>8. attempts[i] = 0 /\ disposition[i] = "pending"
  BY DEF MessageInv, AttemptsLeft
<1>9. MessagesPlaced'
  <2>. SUFFICES ASSUME NEW j \in Items
                PROVE  Count(queue', j) + Held(hand', j)
                         = One(fate'[j] = "accepted" /\ disposition'[j] = "pending")
    BY DEF MessagesPlaced, Settled
  <2>1. Count(queue', j) = Count(queue, j) + One(i = j)
    BY <1>1, <1>2, CountAppend
  <2>2. /\ Count(queue, j) \in Nat /\ Held(hand, j) \in Nat
        /\ Count(queue, j) + Held(hand, j) = One(fate[j] = "accepted" /\ disposition[j] = "pending")
    BY Sizes DEF MessageInv, MessagesPlaced, Settled
  <2>3. fate'[j] = IF i = j THEN "accepted" ELSE fate[j]
    BY <1>1 DEF MessageInv, ItemTypes
  <2>. QED
    BY <1>1, <1>8, <2>1, <2>2, <2>3 DEF One
<1>10. AttemptsLeft'
  <2>1. \A j \in Items : fate'[j] # "accepted" => fate[j] # "accepted"
    BY <1>1 DEF MessageInv, ItemTypes
  <2>2. \A n \in 1..Len(queue') : n \in 1..Len(queue) \/ queue'[n] = i
    BY <1>3, Sizes
  <2>3. attempts[i] < MaxAttempts
    BY <1>8, PlaceHolders
  <2>4. /\ \A j \in Items : fate[j] # "accepted" => attempts[j] = 0 /\ disposition[j] = "pending"
        /\ \A n \in 1..Len(queue) : queue[n] \in Items => attempts[queue[n]] < MaxAttempts
        /\ \A w \in Workers : worker[w] \in {"holding", "deferring", "requeueing"}
                                => attempts[hand[w]] < MaxAttempts
    BY DEF MessageInv, AttemptsLeft
  <2>5. \A n \in 1..Len(queue') : queue'[n] \in Items => attempts'[queue'[n]] < MaxAttempts
    BY <1>1, <1>3, <2>2, <2>3, <2>4
  <2>. QED
    BY <1>1, <2>1, <2>4, <2>5 DEF AttemptsLeft
<1>. QED
  BY <1>4, <1>5, <1>6, <1>7, <1>9, <1>10

\* The fate of a message that was never accepted changes, and its place is nowhere.
LEMMA NotAccepted ==
  ASSUME MessageInv, NEW i \in Items, fate[i] # "accepted",
         NEW f \in {"blocked", "refused"}, fate' = [fate EXCEPT ![i] = f],
         UNCHANGED <<queue, unfinished, attempts, disposition, worker, hand>>
  PROVE  /\ QueueTypes' /\ ItemTypes' /\ WorkerTypes'
         /\ MessagesPlaced' /\ WorkCounted' /\ AttemptsLeft'
<1>1. \A j \in Items : fate'[j] = "accepted" <=> fate[j] = "accepted"
  BY DEF MessageInv, ItemTypes
<1>2. QueueTypes' /\ WorkerTypes' /\ WorkCounted'
  BY DEF MessageInv, QueueTypes, WorkerTypes, WorkCounted
<1>3. ItemTypes'
  BY DEF MessageInv, ItemTypes
<1>4. MessagesPlaced'
  BY <1>1 DEF MessageInv, MessagesPlaced, Settled, One
<1>5. AttemptsLeft'
  BY <1>1 DEF MessageInv, AttemptsLeft
<1>. QED
  BY <1>2, <1>3, <1>4, <1>5

\* A message that was accepted early stays so.
LEMMA EarlyKept ==
  ASSUME QueueInv, NEW i \in Items, fate[i] # "accepted", NEW f, fate' = [fate EXCEPT ![i] = f],
         UNCHANGED <<disposition, control>>
  PROVE  CloseTypes /\ policy' = policy => CloseTypes' /\ EarlySettled'
<1>1. \A j \in early : j \in Items /\ fate[j] = "accepted" /\ fate'[j] = fate[j]
  BY DEF QueueInv, EarlySettled, MessageInv, ItemTypes
<1>. QED
  BY <1>1 DEF QueueInv, EarlySettled, CloseTypes, control, Settled

LEMMA FlagsKept ==
  ASSUME CloseFlags, UNCHANGED <<resumed, timedOut, bySub>>
  PROVE  CloseFlags'
BY Zenon DEF CloseFlags

LEMMA Published ==
  ASSUME QueueInv, NEW i \in Items, Publish(i)
  PROVE  QueueInv'
<1>1. /\ fate[i] = "idle" /\ MessageInv
      /\ UNCHANGED <<policy, woken, attempts, disposition, worker, hand, control>>
  BY DEF Publish, QueueInv
<1>2. CloseFlags'
  BY <1>1, FlagsKept DEF QueueInv, control
<1>3. \E f : fate' = [fate EXCEPT ![i] = f]
  BY DEF Publish, PutAccepted
<1>4. CloseTypes' /\ EarlySettled'
  BY <1>1, <1>3, EarlyKept DEF QueueInv
<1>5. CASE ~Full /\ fate' = [fate EXCEPT ![i] = "accepted"] /\ Enqueue(i) /\ UNCHANGED line
  <2>1. /\ QueueTypes' /\ ItemTypes' /\ WorkerTypes'
        /\ MessagesPlaced' /\ WorkCounted' /\ AttemptsLeft'
    BY <1>1, <1>5, Enqueued DEF PutAccepted
  <2>2. LineTypes' /\ PutsStand'
    BY <1>1, <1>5 DEF MessageInv, LineTypes, PutsStand, One, control, ItemTypes
  <2>. QED
    BY <1>2, <1>4, <2>1, <2>2 DEF QueueInv, MessageInv
<1>6. CASE /\ fate' = [fate EXCEPT ![i] = "blocked"]
           /\ line' = Append(line, i)
           /\ UNCHANGED <<queue, unfinished>>
  <2>1. /\ QueueTypes' /\ ItemTypes' /\ WorkerTypes'
        /\ MessagesPlaced' /\ WorkCounted' /\ AttemptsLeft'
    BY <1>1, <1>6, NotAccepted
  <2>2. line \in Seq(Puts) /\ woken \in Seq(Puts) /\ i \in Puts
    BY <1>1 DEF MessageInv, LineTypes, Puts
  <2>3. /\ line' \in Seq(Puts)
        /\ \A x : Standing(line', woken', x) = Standing(line, woken, x) + One(i = x)
    BY <1>1, <1>6, <2>2, PutStands
  <2>4. PutsStand'
    <3>1. \A j \in Items : fate'[j] = IF i = j THEN "blocked" ELSE fate[j]
      BY <1>1, <1>6 DEF MessageInv, ItemTypes
    <3>2. \A x : x # i => Standing(line', woken', x) = Standing(line, woken, x)
      BY <1>1, <2>3, Sizes DEF One
    <3>3. \A w \in Workers : Standing(line', woken', w) <= One(worker'[w] = "requeueing")
      BY <1>1, <3>2, PlaceHolders DEF MessageInv, PutsStand
    <3>4. Standing(line', woken', Closer) <= One(phase' \in {"joined", "drained"} /\ stops' > 0)
      BY <1>1, <3>2, PlaceHolders DEF MessageInv, PutsStand, control
    <3>5. \A j \in Items : Standing(line', woken', j) = One(fate'[j] = "blocked")
      BY <1>1, <2>3, <3>1, <3>2 DEF MessageInv, PutsStand, One
    <3>. QED
      BY <3>3, <3>4, <3>5 DEF PutsStand
  <2>. QED
    BY <1>1, <1>2, <1>4, <2>1, <2>2, <2>3, <2>4 DEF QueueInv, MessageInv, LineTypes
<1>7. CASE /\ fate' = [fate EXCEPT ![i] = "refused"]
           /\ UNCHANGED <<queue, line, unfinished>>
  <2>1. /\ QueueTypes' /\ ItemTypes' /\ WorkerTypes'
        /\ MessagesPlaced' /\ WorkCounted' /\ AttemptsLeft'
    BY <1>1, <1>7, NotAccepted
  <2>2. LineTypes' /\ PutsStand'
    BY <1>1, <1>7 DEF MessageInv, LineTypes, PutsStand, One, control, ItemTypes
  <2>. QED
    BY <1>2, <1>4, <2>1, <2>2 DEF QueueInv, MessageInv
<1>. QED
  BY <1>5, <1>6, <1>7 DEF Publish, Refusal

LEMMA PublishCancelled ==
  ASSUME QueueInv, NEW i \in Items, CancelPublish(i)
  PROVE  QueueInv'
<1>1. /\ fate[i] = "blocked" /\ MessageInv
      /\ fate' = [fate EXCEPT ![i] = "refused"]
      /\ LeaveLine(i)
      /\ UNCHANGED <<policy, queue, unfinished, attempts, disposition, worker, hand, control>>
  BY DEF CancelPublish, QueueInv
<1>2. CloseFlags'
  BY <1>1, FlagsKept DEF QueueInv, control
<1>3. CloseTypes' /\ EarlySettled'
  BY <1>1, EarlyKept DEF QueueInv
<1>4. /\ QueueTypes' /\ ItemTypes' /\ WorkerTypes'
      /\ MessagesPlaced' /\ WorkCounted' /\ AttemptsLeft'
  BY <1>1, NotAccepted
<1>5. line \in Seq(Puts) /\ woken \in Seq(Puts)
  BY <1>1 DEF MessageInv, LineTypes
<1>6. /\ line' \in Seq(Puts) /\ woken' \in Seq(Puts)
      /\ \A x : /\ Standing(line', woken', x) + One(i = x) <= Standing(line, woken, x)
                /\ x \notin Workers =>
                     Standing(line', woken', x) + One(i = x) = Standing(line, woken, x)
  BY <1>1, <1>5, LeaveMoves
<1>7. \A x : Standing(line', woken', x) \in Nat /\ Standing(line, woken, x) \in Nat
  BY <1>5, <1>6, StandingIsNatural
<1>8. PutsStand'
  <2>1. \A j \in Items : fate'[j] = IF i = j THEN "refused" ELSE fate[j]
    BY <1>1 DEF MessageInv, ItemTypes
  <2>2. \A x : x # i => Standing(line', woken', x) <= Standing(line, woken, x)
    BY <1>6, <1>7 DEF One
  <2>3. \A w \in Workers : Standing(line', woken', w) <= One(worker'[w] = "requeueing")
    BY <1>1, <1>7, <2>2, PlaceHolders DEF MessageInv, PutsStand, One
  <2>4. Standing(line', woken', Closer) <= One(phase' \in {"joined", "drained"} /\ stops' > 0)
    BY <1>1, <1>7, <2>2, PlaceHolders DEF MessageInv, PutsStand, control, One
  <2>5. ASSUME NEW j \in Items PROVE Standing(line', woken', j) = One(fate'[j] = "blocked")
    <3>1. Standing(line', woken', j) + One(i = j) = One(fate[j] = "blocked")
      BY <1>1, <1>6, PlaceHolders DEF MessageInv, PutsStand
    <3>. QED
      BY <1>1, <1>7, <2>1, <3>1 DEF One
  <2>. QED
    BY <2>3, <2>4, <2>5 DEF PutsStand
<1>. QED
  BY <1>1, <1>2, <1>3, <1>4, <1>6, <1>8 DEF QueueInv, MessageInv, LineTypes

LEMMA PutsUnmoved ==
  ASSUME MessageInv, LineTypes',
         \A x : /\ Standing(line', woken', x) <= Standing(line, woken, x)
                /\ x \notin Workers => Standing(line', woken', x) = Standing(line, woken, x),
         fate' = fate,
         \A w \in Workers : worker[w] = "requeueing" => worker'[w] = "requeueing",
         phase \in {"joined", "drained"} /\ stops > 0
           => phase' \in {"joined", "drained"} /\ stops' > 0
  PROVE  PutsStand'
<1>1. \A x : Standing(line', woken', x) \in Nat /\ Standing(line, woken, x) \in Nat
  BY StandingIsNatural DEF MessageInv, LineTypes
<1>2. \A i \in Items : Standing(line', woken', i) = One(fate'[i] = "blocked")
  BY PlaceHolders DEF MessageInv, PutsStand
<1>3. \A w \in Workers : Standing(line', woken', w) <= One(worker'[w] = "requeueing")
  BY <1>1 DEF MessageInv, PutsStand, One
<1>4. Standing(line', woken', Closer) <= One(phase' \in {"joined", "drained"} /\ stops' > 0)
  BY <1>1 DEF MessageInv, PutsStand, One
<1>. QED
  BY <1>2, <1>3, <1>4 DEF PutsStand

\* Nothing about messages changes.
LEMMA MessagesUnmoved ==
  ASSUME MessageInv, UNCHANGED <<queue, unfinished, fate, attempts, disposition, worker, hand>>
  PROVE  /\ QueueTypes' /\ ItemTypes' /\ WorkerTypes'
         /\ MessagesPlaced' /\ WorkCounted' /\ AttemptsLeft'
<1>1. QueueTypes' /\ ItemTypes' /\ WorkerTypes'
  BY DEF MessageInv, QueueTypes, ItemTypes, WorkerTypes
<1>2. MessagesPlaced' /\ WorkCounted'
  BY DEF MessageInv, MessagesPlaced, WorkCounted, Settled
<1>3. AttemptsLeft'
  BY DEF MessageInv, AttemptsLeft
<1>. QED
  BY <1>1, <1>2, <1>3

\* A woken put that was overtaken stands in line again.
LEMMA LinedUp ==
  ASSUME NEW p \in Puts, line \in Seq(Puts), Tail(woken) \in Seq(Puts),
         \A x : Standing(line, Tail(woken), x) + One(p = x) = Standing(line, woken, x),
         line' = Append(line, p), woken' = Tail(woken)
  PROVE  LineTypes' /\ \A x : Standing(line', woken', x) = Standing(line, woken, x)
<1>. DEFINE k == Tail(woken)
<1>1. k \in Seq(Puts) /\ woken' = k
  OBVIOUS
<1>2. \A x : Standing(line, k, x) + One(p = x) = Standing(line, woken, x)
  OBVIOUS
<1>. HIDE DEF k
<1>3. /\ Append(line, p) \in Seq(Puts)
      /\ \A x : Standing(Append(line, p), k, x) = Standing(line, k, x) + One(p = x)
  BY <1>1, PutStands
<1>4. \A x : Standing(Append(line, p), k, x) = Standing(line, woken, x)
  BY <1>2, <1>3
<1>5. LineTypes'
  BY <1>1, <1>3 DEF LineTypes
<1>. QED
  BY <1>1, <1>4, <1>5, Zenon

LEMMA PutRuns ==
  ASSUME QueueInv, NEW i \in Items, PutWoken(i)
  PROVE  QueueInv'
<1>1. /\ woken # <<>> /\ Head(woken) = i /\ woken' = Tail(woken) /\ MessageInv
      /\ UNCHANGED <<policy, attempts, disposition, worker, hand, control>>
  BY DEF PutWoken, QueueInv
<1>2. CloseFlags'
  BY <1>1, FlagsKept DEF QueueInv, control
<1>3. /\ fate[i] = "blocked" /\ Tail(woken) \in Seq(Puts) /\ line \in Seq(Puts) /\ i \in Puts
      /\ \A x : Standing(line, Tail(woken), x) + One(i = x) = Standing(line, woken, x)
  BY <1>1, HeadWoken DEF MessageInv, LineTypes
<1>4. CASE Full
  <2>1. line' = Append(line, i) /\ UNCHANGED <<queue, unfinished, fate>>
    BY <1>4 DEF PutWoken
  <2>2. LineTypes' /\ \A x : Standing(line', woken', x) = Standing(line, woken, x)
    BY <1>1, <1>3, <2>1, LinedUp
  <2>3. \A x : Standing(line, woken, x) \in Nat
    BY <1>1, Sizes
  <2>4. PutsStand'
    BY <1>1, <2>1, <2>2, <2>3, PutsUnmoved DEF control
  <2>5. CloseTypes' /\ EarlySettled'
    BY <1>1, <2>1 DEF QueueInv, CloseTypes, EarlySettled, control, Settled
  <2>. QED
    BY <1>1, <1>2, <2>1, <2>2, <2>4, <2>5, MessagesUnmoved DEF QueueInv, MessageInv
<1>5. CASE ~Full
  <2>1. PutAccepted(i) /\ line' = line /\ fate' = [fate EXCEPT ![i] = "accepted"]
    BY <1>5 DEF PutWoken, PutAccepted
  <2>2. /\ QueueTypes' /\ ItemTypes' /\ WorkerTypes'
        /\ MessagesPlaced' /\ WorkCounted' /\ AttemptsLeft'
    BY <1>1, <1>3, <1>5, <2>1, Enqueued
  <2>3. CloseTypes' /\ EarlySettled'
    BY <1>1, <1>3, <2>1, EarlyKept DEF QueueInv
  <2>4. LineTypes'
    BY <1>1, <1>3, <2>1 DEF LineTypes
  <2>5. \A x : /\ Standing(line', woken', x) + One(i = x) = Standing(line, woken, x)
               /\ Standing(line', woken', x) \in Nat
    BY <1>1, <1>3, <2>1, StandingIsNatural
  <2>6. PutsStand'
    <3>1. \A j \in Items : fate'[j] = IF i = j THEN "accepted" ELSE fate[j]
      BY <1>1, <2>1 DEF MessageInv, ItemTypes
    <3>2. \A x : x # i => Standing(line', woken', x) = Standing(line, woken, x)
      BY <2>5 DEF One
    <3>3. \A w \in Workers : Standing(line', woken', w) <= One(worker'[w] = "requeueing")
      BY <1>1, <3>2, PlaceHolders DEF MessageInv, PutsStand
    <3>4. Standing(line', woken', Closer) <= One(phase' \in {"joined", "drained"} /\ stops' > 0)
      BY <1>1, <3>2, PlaceHolders DEF MessageInv, PutsStand, control
    <3>5. ASSUME NEW j \in Items PROVE Standing(line', woken', j) = One(fate'[j] = "blocked")
      <4>1. Standing(line, woken, j) = One(fate[j] = "blocked")
        BY <1>1 DEF MessageInv, PutsStand
      <4>. QED
        BY <1>3, <2>5, <3>1, <4>1 DEF One
    <3>. QED
      BY <3>3, <3>4, <3>5 DEF PutsStand
  <2>. QED
    BY <1>1, <1>2, <2>2, <2>3, <2>4, <2>6 DEF QueueInv, MessageInv
<1>. QED
  BY <1>4, <1>5

-----------------------------------------------------------------------------
(* Workers                                                                 *)

\* What a get leaves of the queue and of the line.
LEMMA Dequeued ==
  ASSUME MessageInv, queue # <<>>, Dequeue
  PROVE  /\ LineTypes' /\ QueueTypes' /\ Len(queue') = Len(queue) - 1
         /\ Head(queue) \in Items \cup {Stop}
         /\ \A x : Count(queue, x) = One(Head(queue) = x) + Count(queue', x)
         /\ \A n \in 1..Len(queue') : n + 1 \in 1..Len(queue) /\ queue'[n] = queue[n + 1]
         /\ \A x : /\ Standing(line', woken', x) <= Standing(line, woken, x)
                   /\ x \notin Workers => Standing(line', woken', x) = Standing(line, woken, x)
<1>1. /\ queue \in Seq(Items \cup {Stop}) /\ Len(queue) <= Capacity
      /\ line \in Seq(Puts) /\ woken \in Seq(Puts)
      /\ queue' = Tail(queue) /\ WakeNext(woken)
  BY DEF MessageInv, QueueTypes, LineTypes, Dequeue
<1>2. /\ Head(queue) \in Items \cup {Stop} /\ Tail(queue) \in Seq(Items \cup {Stop})
      /\ Len(Tail(queue)) = Len(queue) - 1
      /\ \A x : Count(queue, x) = One(Head(queue) = x) + Count(Tail(queue), x)
  BY <1>1, CountTail
<1>3. \A n \in 1..Len(Tail(queue)) : n + 1 \in 1..Len(queue) /\ Tail(queue)[n] = queue[n + 1]
  BY <1>1, <1>2, HeadTailProperties, Sizes
<1>4. QueueTypes'
  BY <1>1, <1>2, Sizes DEF QueueTypes
<1>5. /\ line' \in Seq(Puts) /\ woken' \in Seq(Puts)
      /\ \A x : /\ Standing(line', woken', x) <= Standing(line, woken, x)
                /\ x \notin Workers => Standing(line', woken', x) = Standing(line, woken, x)
  BY <1>1, WakeMoves
<1>. QED
  BY <1>1, <1>2, <1>3, <1>4, <1>5 DEF LineTypes

LEMMA ControlKept ==
  ASSUME QueueInv, UNCHANGED <<policy, fate, disposition, control>>
  PROVE  CloseTypes' /\ EarlySettled' /\ CloseFlags'
<1>1. CloseTypes' /\ EarlySettled'
  BY DEF QueueInv, CloseTypes, EarlySettled, control, Settled
<1>. QED
  BY <1>1, FlagsKept DEF QueueInv, control

LEMMA Taken ==
  ASSUME QueueInv, NEW w \in Workers, Take(w)
  PROVE  QueueInv'
<1>1. /\ MessageInv /\ worker[w] = "getting" /\ queue # <<>> /\ Head(queue) \in Items
      /\ Dequeue
      /\ hand' = [hand EXCEPT ![w] = Head(queue)]
      /\ worker' = [worker EXCEPT ![w] = "holding"]
      /\ UNCHANGED <<policy, fate, unfinished, attempts, disposition, control>>
  BY DEF Take, QueueInv, feed
<1>2. CloseTypes' /\ EarlySettled' /\ CloseFlags'
  BY <1>1, ControlKept
<1>3. /\ LineTypes' /\ QueueTypes' /\ Len(queue') = Len(queue) - 1
      /\ \A x : Count(queue, x) = One(Head(queue) = x) + Count(queue', x)
      /\ \A n \in 1..Len(queue') : n + 1 \in 1..Len(queue) /\ queue'[n] = queue[n + 1]
      /\ \A x : /\ Standing(line', woken', x) <= Standing(line, woken, x)
                /\ x \notin Workers => Standing(line', woken', x) = Standing(line, woken, x)
  BY <1>1, Dequeued
<1>4. Takes(hand, hand', w) /\ hand'[w] = Head(queue)
  BY <1>1 DEF Takes, MessageInv, WorkerTypes, Hands
<1>5. /\ Busy(hand') = Busy(hand) + 1
      /\ \A j \in Items : Held(hand', j) = Held(hand, j) + One(Head(queue) = j)
  BY <1>4, HandTakes
<1>6. WorkerTypes'
  <2>1. hand \in Hands /\ worker \in [Workers -> {"getting", "holding", "handling", "deferring",
                                                  "requeueing", "exited"}]
        /\ \A v \in Workers : hand[v] = NoItem <=> worker[v] \in {"getting", "exited"}
    BY <1>1 DEF MessageInv, WorkerTypes
  <2>2. hand' \in Hands
    BY <1>4 DEF Takes
  <2>3. hand'[w] # NoItem /\ worker'[w] = "holding"
    BY <1>1, <1>4, <2>1, PlaceHolders
  <2>4. \A v \in Workers \ {w} : hand'[v] = hand[v] /\ worker'[v] = worker[v]
    BY <1>1, <2>1 DEF Hands
  <2>5. worker' \in [Workers -> {"getting", "holding", "handling", "deferring",
                                 "requeueing", "exited"}]
    BY <1>1, <2>1
  <2>6. \A v \in Workers : hand'[v] = NoItem <=> worker'[v] \in {"getting", "exited"}
    BY <2>1, <2>3, <2>4
  <2>. QED
    BY <2>2, <2>5, <2>6 DEF WorkerTypes
<1>7. PutsStand'
  <2>1. \A v \in Workers : worker[v] = "requeueing" => worker'[v] = "requeueing"
    BY <1>1 DEF MessageInv, WorkerTypes
  <2>. QED
    BY <1>1, <1>3, <2>1, PutsUnmoved DEF control
<1>8. WorkCounted'
  BY <1>1, <1>3, <1>5, Sizes DEF MessageInv, WorkCounted
<1>9. MessagesPlaced'
  <2>. SUFFICES ASSUME NEW j \in Items
                PROVE  Count(queue', j) + Held(hand', j) = Count(queue, j) + Held(hand, j)
    BY <1>1 DEF MessageInv, MessagesPlaced, Settled
  <2>1. Count(queue, j) \in Nat /\ Held(hand, j) \in Nat /\ Count(queue', j) \in Nat
    BY <1>1, <1>3, Sizes, CountIsNatural DEF QueueTypes
  <2>2. /\ Count(queue, j) = One(Head(queue) = j) + Count(queue', j)
        /\ Held(hand', j) = Held(hand, j) + One(Head(queue) = j)
    BY <1>3, <1>5
  <2>. QED
    BY <2>1, <2>2 DEF One
<1>10. AttemptsLeft'
  <2>1. attempts[Head(queue)] < MaxAttempts
    BY <1>1, QueuedIsAlone
  <2>2. \A v \in Workers \ {w} : hand'[v] = hand[v] /\ worker'[v] = worker[v]
    BY <1>1 DEF MessageInv, WorkerTypes, Hands
  <2>3. \A v \in Workers : worker'[v] \in {"holding", "deferring", "requeueing"}
                             => attempts'[hand'[v]] < MaxAttempts
    BY <1>1, <1>4, <2>1, <2>2 DEF MessageInv, AttemptsLeft
  <2>4. \A n \in 1..Len(queue') : queue'[n] \in Items => attempts'[queue'[n]] < MaxAttempts
    BY <1>1, <1>3 DEF MessageInv, AttemptsLeft
  <2>. QED
    BY <1>1, <2>3, <2>4 DEF MessageInv, AttemptsLeft
<1>11. ItemTypes'
  BY <1>1 DEF MessageInv, ItemTypes
<1>. QED
  BY <1>2, <1>3, <1>6, <1>7, <1>8, <1>9, <1>10, <1>11 DEF QueueInv, MessageInv

LEMMA StopTaken ==
  ASSUME QueueInv, NEW w \in Workers, TakeStop(w)
  PROVE  QueueInv'
<1>1. /\ MessageInv /\ worker[w] = "getting" /\ queue # <<>> /\ Head(queue) = Stop
      /\ Dequeue /\ unfinished' = unfinished - 1
      /\ worker' = [worker EXCEPT ![w] = "exited"]
      /\ UNCHANGED <<policy, fate, attempts, disposition, hand, control>>
  BY DEF TakeStop, QueueInv, feed
<1>2. CloseTypes' /\ EarlySettled' /\ CloseFlags'
  BY <1>1, ControlKept
<1>3. /\ LineTypes' /\ QueueTypes' /\ Len(queue') = Len(queue) - 1
      /\ \A x : Count(queue, x) = One(Head(queue) = x) + Count(queue', x)
      /\ \A n \in 1..Len(queue') : n + 1 \in 1..Len(queue) /\ queue'[n] = queue[n + 1]
      /\ \A x : /\ Standing(line', woken', x) <= Standing(line, woken, x)
                /\ x \notin Workers => Standing(line', woken', x) = Standing(line, woken, x)
  BY <1>1, Dequeued
<1>4. WorkerTypes' /\ ItemTypes'
  BY <1>1 DEF MessageInv, WorkerTypes, ItemTypes
<1>5. PutsStand'
  <2>1. \A v \in Workers : worker[v] = "requeueing" => worker'[v] = "requeueing"
    BY <1>1 DEF MessageInv, WorkerTypes
  <2>. QED
    BY <1>1, <1>3, <2>1, PutsUnmoved DEF control
<1>6. WorkCounted'
  BY <1>1, <1>3, Sizes DEF MessageInv, WorkCounted
<1>7. MessagesPlaced'
  <2>. SUFFICES ASSUME NEW j \in Items PROVE Count(queue', j) = Count(queue, j)
    BY <1>1 DEF MessageInv, MessagesPlaced, Settled
  <2>1. Count(queue', j) \in Nat
    BY <1>3, CountIsNatural DEF QueueTypes
  <2>. QED
    BY <1>1, <1>3, <2>1, PlaceHolders DEF One
<1>8. AttemptsLeft'
  <2>1. \A v \in Workers : worker'[v] \in {"holding", "deferring", "requeueing"}
                             => worker'[v] = worker[v]
    BY <1>1 DEF MessageInv, WorkerTypes
  <2>2. \A n \in 1..Len(queue') : queue'[n] \in Items => attempts'[queue'[n]] < MaxAttempts
    BY <1>1, <1>3 DEF MessageInv, AttemptsLeft
  <2>. QED
    BY <1>1, <2>1, <2>2 DEF MessageInv, AttemptsLeft
<1>. QED
  BY <1>1, <1>2, <1>3, <1>4, <1>5, <1>6, <1>7, <1>8 DEF QueueInv, MessageInv

LEMMA Handled ==
  ASSUME QueueInv, NEW w \in Workers, Handle(w)
  PROVE  QueueInv'
<1>1. /\ MessageInv /\ worker[w] = "holding"
      /\ worker' = [worker EXCEPT ![w] = "handling"]
      /\ attempts' = [attempts EXCEPT ![hand[w]] = @ + 1]
      /\ UNCHANGED <<policy, fate, queue, line, woken, unfinished, disposition, hand, control>>
  BY DEF Handle, QueueInv, feed
<1>2. CloseTypes' /\ EarlySettled' /\ CloseFlags'
  BY <1>1, ControlKept
<1>3. /\ hand[w] \in Items /\ fate[hand[w]] = "accepted" /\ attempts[hand[w]] < MaxAttempts
      /\ \A n \in 1..Len(queue) : queue[n] # hand[w]
      /\ \A v \in Workers \ {w} : hand[v] # hand[w]
  BY <1>1, HolderIsAlone DEF MessageInv, WorkerTypes, AttemptsLeft
<1>4. LineTypes' /\ QueueTypes' /\ WorkerTypes'
  BY <1>1 DEF MessageInv, LineTypes, QueueTypes, WorkerTypes
<1>5. MessagesPlaced' /\ WorkCounted'
  BY <1>1 DEF MessageInv, MessagesPlaced, WorkCounted, Settled
<1>6. \A j \in Items \ {hand[w]} : attempts'[j] = attempts[j]
  BY <1>1 DEF MessageInv, ItemTypes
<1>7. ItemTypes'
  <2>1. attempts[hand[w]] + 1 \in 0..MaxAttempts
    <3>1. attempts[hand[w]] \in 0..MaxAttempts
      BY <1>1, <1>3 DEF MessageInv, ItemTypes
    <3>. QED
      BY <1>3, <3>1, PlaceHolders
  <2>. QED
    BY <1>1, <2>1 DEF MessageInv, ItemTypes
<1>8. PutsStand'
  BY <1>1, Sizes DEF MessageInv, PutsStand, WorkerTypes, One, control
<1>9. AttemptsLeft'
  <2>1. \A j \in Items : fate'[j] # "accepted" => attempts'[j] = 0 /\ disposition'[j] = "pending"
    BY <1>1, <1>3, <1>6 DEF MessageInv, AttemptsLeft
  <2>2. \A n \in 1..Len(queue') : queue'[n] \in Items => attempts'[queue'[n]] < MaxAttempts
    BY <1>1, <1>3, <1>6 DEF MessageInv, AttemptsLeft
  <2>3. ASSUME NEW v \in Workers, worker'[v] \in {"holding", "deferring", "requeueing"}
        PROVE  attempts'[hand'[v]] < MaxAttempts
    <3>1. v # w /\ worker[v] = worker'[v]
      BY <1>1, <2>3 DEF MessageInv, WorkerTypes
    <3>2. hand[v] \in Items \ {hand[w]}
      BY <1>1, <1>3, <2>3, <3>1 DEF MessageInv, WorkerTypes, Hands
    <3>. QED
      BY <1>1, <1>6, <2>3, <3>1, <3>2 DEF MessageInv, AttemptsLeft
  <2>. QED
    BY <2>1, <2>2, <2>3 DEF AttemptsLeft
<1>. QED
  BY <1>1, <1>2, <1>4, <1>5, <1>7, <1>8, <1>9 DEF QueueInv, MessageInv

\* A worker goes on with its message.
LEMMA GoesOn ==
  ASSUME MessageInv, NEW w \in Workers, hand[w] # NoItem, attempts[hand[w]] < MaxAttempts,
         NEW s \in {"deferring", "requeueing"}, worker' = [worker EXCEPT ![w] = s],
         UNCHANGED <<queue, unfinished, fate, attempts, disposition, hand>>
  PROVE  /\ QueueTypes' /\ ItemTypes' /\ WorkerTypes'
         /\ MessagesPlaced' /\ WorkCounted' /\ AttemptsLeft'
<1>1. QueueTypes' /\ ItemTypes' /\ WorkerTypes'
  BY DEF MessageInv, QueueTypes, ItemTypes, WorkerTypes
<1>2. MessagesPlaced' /\ WorkCounted'
  BY DEF MessageInv, MessagesPlaced, WorkCounted, Settled
<1>3. AttemptsLeft'
  BY DEF MessageInv, AttemptsLeft, WorkerTypes
<1>. QED
  BY <1>1, <1>2, <1>3

LEMMA Deferred ==
  ASSUME QueueInv, NEW w \in Workers, Defer(w)
  PROVE  QueueInv'
<1>1. /\ MessageInv /\ worker[w] = "handling" /\ attempts[hand[w]] < MaxAttempts
      /\ worker' = [worker EXCEPT ![w] = "deferring"]
      /\ UNCHANGED <<policy, fate, queue, line, woken, unfinished, attempts, disposition, hand,
                     control>>
  BY DEF Defer, QueueInv, feed
<1>2. CloseTypes' /\ EarlySettled' /\ CloseFlags'
  BY <1>1, ControlKept
<1>3. hand[w] # NoItem
  BY <1>1 DEF MessageInv, WorkerTypes
<1>4. /\ QueueTypes' /\ ItemTypes' /\ WorkerTypes'
      /\ MessagesPlaced' /\ WorkCounted' /\ AttemptsLeft'
  BY <1>1, <1>3, GoesOn
<1>5. LineTypes'
  BY <1>1 DEF MessageInv, LineTypes
<1>6. PutsStand'
  BY <1>1, Sizes DEF MessageInv, PutsStand, WorkerTypes, One, control
<1>. QED
  BY <1>2, <1>4, <1>5, <1>6 DEF QueueInv, MessageInv

-----------------------------------------------------------------------------
(* A worker lets its message go                                            *)

LEMMA LetsGo ==
  ASSUME MessageInv, NEW w \in Workers, hand[w] # NoItem,
         hand' = [hand EXCEPT ![w] = NoItem],
         NEW s \in {"getting", "exited"}, worker' = [worker EXCEPT ![w] = s]
  PROVE  /\ WorkerTypes' /\ Busy(hand) = Busy(hand') + 1
         /\ \A j \in Items : Held(hand, j) = Held(hand', j) + One(hand[w] = j)
         /\ \A v \in Workers \ {w} : hand'[v] = hand[v] /\ worker'[v] = worker[v]
         /\ \A v \in Workers : worker'[v] \in {"holding", "handling", "deferring", "requeueing"}
                                 => v # w
<1>1. hand \in Hands /\ hand[w] \in Items /\ hand' \in Hands /\ hand'[w] = NoItem
  BY DEF MessageInv, WorkerTypes, Hands
<1>2. /\ \A v \in Workers \ {w} : hand'[v] = hand[v] /\ worker'[v] = worker[v]
      /\ worker'[w] = s
  BY <1>1 DEF MessageInv, WorkerTypes, Hands
<1>3. Takes(hand', hand, w)
  BY <1>1, <1>2 DEF Takes
<1>4. /\ Busy(hand) = Busy(hand') + 1
      /\ \A j \in Items : Held(hand, j) = Held(hand', j) + One(hand[w] = j)
  <2>. DEFINE h == hand'
  <2>1. Takes(h, hand, w)
    BY <1>3
  <2>. HIDE DEF h
  <2>2. /\ Busy(hand) = Busy(h) + 1
        /\ \A j \in Items : Held(hand, j) = Held(h, j) + One(hand[w] = j)
    BY <2>1, HandTakes
  <2>. QED
    BY <2>2 DEF h
<1>5. WorkerTypes'
  <2>1. worker' \in [Workers -> {"getting", "holding", "handling", "deferring", "requeueing",
                                 "exited"}]
    BY DEF MessageInv, WorkerTypes
  <2>2. ASSUME NEW v \in Workers
        PROVE  hand'[v] = NoItem <=> worker'[v] \in {"getting", "exited"}
    BY <1>1, <1>2 DEF MessageInv, WorkerTypes
  <2>. QED
    BY <1>1, <2>1, <2>2 DEF WorkerTypes
<1>. QED
  BY <1>2, <1>4, <1>5

\* The worker puts it back.
LEMMA ReturnsItem ==
  ASSUME MessageInv, NEW w \in Workers, hand[w] # NoItem, attempts[hand[w]] < MaxAttempts, ~Full,
         queue' = Append(queue, hand[w]), hand' = [hand EXCEPT ![w] = NoItem],
         worker' = [worker EXCEPT ![w] = "getting"],
         UNCHANGED <<unfinished, fate, attempts, disposition>>
  PROVE  /\ QueueTypes' /\ ItemTypes' /\ WorkerTypes'
         /\ MessagesPlaced' /\ WorkCounted' /\ AttemptsLeft'
<1>1. /\ WorkerTypes' /\ Busy(hand) = Busy(hand') + 1
      /\ \A j \in Items : Held(hand, j) = Held(hand', j) + One(hand[w] = j)
      /\ \A v \in Workers \ {w} : hand'[v] = hand[v] /\ worker'[v] = worker[v]
      /\ \A v \in Workers : worker'[v] \in {"holding", "handling", "deferring", "requeueing"}
                              => v # w
  BY LetsGo
<1>2. /\ queue \in Seq(Items \cup {Stop}) /\ Len(queue) < Capacity
      /\ hand[w] \in Items \cup {Stop}
  BY Sizes, HolderIsAlone DEF MessageInv, QueueTypes, Full
<1>3. /\ queue' \in Seq(Items \cup {Stop}) /\ Len(queue') = Len(queue) + 1
      /\ \A n \in 1..Len(queue) : queue'[n] = queue[n]
      /\ queue'[Len(queue) + 1] = hand[w]
  BY <1>2, AppendProperties
<1>4. QueueTypes'
  BY <1>2, <1>3, Sizes DEF QueueTypes
<1>5. ItemTypes'
  BY DEF MessageInv, ItemTypes
<1>6. WorkCounted'
  <2>1. Busy(hand') \in Nat /\ unfinished = Len(queue) + Busy(hand)
    BY HandsAreFinite DEF MessageInv, WorkCounted
  <2>2. unfinished' = Len(queue') + Busy(hand')
    BY <1>1, <1>3, <2>1, Sizes
  <2>. QED
    BY <2>2 DEF WorkCounted
<1>7. MessagesPlaced'
  <2>. SUFFICES ASSUME NEW j \in Items
                PROVE  Count(queue', j) + Held(hand', j) = Count(queue, j) + Held(hand, j)
    BY DEF MessageInv, MessagesPlaced, Settled
  <2>1. Count(queue', j) = Count(queue, j) + One(hand[w] = j)
    BY <1>2, CountAppend
  <2>2. Held(hand, j) = Held(hand', j) + One(hand[w] = j)
    BY <1>1
  <2>3. Count(queue, j) \in Nat /\ Held(hand', j) \in Nat /\ One(hand[w] = j) \in Nat
    BY Sizes, HandsAreFinite DEF One
  <2>. QED
    BY <2>1, <2>2, <2>3
<1>8. AttemptsLeft'
  <2>1. \A n \in 1..Len(queue') : n \in 1..Len(queue) \/ queue'[n] = hand[w]
    BY <1>3, Sizes
  <2>2. \A n \in 1..Len(queue') : queue'[n] \in Items => attempts'[queue'[n]] < MaxAttempts
    BY <1>3, <2>1 DEF MessageInv, AttemptsLeft
  <2>3. \A v \in Workers : worker'[v] \in {"holding", "deferring", "requeueing"}
                             => attempts'[hand'[v]] < MaxAttempts
    BY <1>1 DEF MessageInv, AttemptsLeft
  <2>. QED
    BY <2>2, <2>3 DEF MessageInv, AttemptsLeft
<1>. QED
  BY <1>1, <1>4, <1>5, <1>6, <1>7, <1>8

\* The worker is done with it.
LEMMA DoneWithItem ==
  ASSUME MessageInv, NEW w \in Workers, hand[w] # NoItem,
         hand' = [hand EXCEPT ![w] = NoItem],
         NEW s \in {"getting", "exited"}, worker' = [worker EXCEPT ![w] = s],
         NEW o \in {"settled", "failed", "dropped", "abandoned"},
         disposition' = [disposition EXCEPT ![hand[w]] = o], unfinished' = unfinished - 1,
         UNCHANGED <<queue, fate, attempts>>
  PROVE  /\ QueueTypes' /\ ItemTypes' /\ WorkerTypes'
         /\ MessagesPlaced' /\ WorkCounted' /\ AttemptsLeft'
         /\ \A j \in Items : Settled(j) => disposition'[j] # "pending"
<1>1. /\ WorkerTypes' /\ Busy(hand) = Busy(hand') + 1
      /\ \A j \in Items : Held(hand, j) = Held(hand', j) + One(hand[w] = j)
      /\ \A v \in Workers \ {w} : hand'[v] = hand[v] /\ worker'[v] = worker[v]
      /\ \A v \in Workers : worker'[v] \in {"holding", "handling", "deferring", "requeueing"}
                              => v # w
  BY LetsGo
<1>2. hand[w] \in Items /\ fate[hand[w]] = "accepted" /\ ~Settled(hand[w])
  BY HolderIsAlone
<1>3. \A j \in Items : disposition'[j] = IF hand[w] = j THEN o ELSE disposition[j]
  BY <1>2 DEF MessageInv, ItemTypes
<1>4. QueueTypes' /\ ItemTypes'
  BY <1>2 DEF MessageInv, QueueTypes, ItemTypes
<1>5. WorkCounted'
  <2>1. Busy(hand') \in Nat /\ unfinished = Len(queue) + Busy(hand)
    BY HandsAreFinite DEF MessageInv, WorkCounted
  <2>2. unfinished' = Len(queue') + Busy(hand')
    BY <1>1, <2>1, Sizes
  <2>. QED
    BY <2>2 DEF WorkCounted
<1>6. MessagesPlaced'
  <2>. SUFFICES ASSUME NEW j \in Items
                PROVE  Count(queue, j) + Held(hand', j)
                         = One(fate[j] = "accepted" /\ disposition'[j] = "pending")
    BY DEF MessagesPlaced, Settled
  <2>1. Held(hand, j) = Held(hand', j) + One(hand[w] = j)
    BY <1>1
  <2>2. Count(queue, j) + Held(hand, j) = One(fate[j] = "accepted" /\ disposition[j] = "pending")
    BY DEF MessageInv, MessagesPlaced, Settled
  <2>3. Count(queue, j) \in Nat /\ Held(hand', j) \in Nat
    BY Sizes, HandsAreFinite
  <2>4. CASE hand[w] = j
    <3>1. fate[j] = "accepted" /\ disposition[j] = "pending" /\ disposition'[j] # "pending"
      BY <1>2, <1>3, <2>4 DEF Settled
    <3>2. Held(hand, j) = Held(hand', j) + 1 /\ Count(queue, j) + Held(hand, j) = 1
      BY <2>1, <2>2, <2>4, <3>1 DEF One
    <3>. QED
      BY <2>3, <3>1, <3>2 DEF One
  <2>5. CASE hand[w] # j
    <3>1. disposition'[j] = disposition[j]
      BY <1>3, <2>5
    <3>2. Held(hand, j) = Held(hand', j)
      BY <2>1, <2>3, <2>5 DEF One
    <3>. QED
      BY <2>2, <3>1, <3>2
  <2>. QED
    BY <2>4, <2>5
<1>7. AttemptsLeft'
  BY <1>1, <1>2, <1>3 DEF MessageInv, AttemptsLeft
<1>8. \A j \in Items : Settled(j) => disposition'[j] # "pending"
  BY <1>3 DEF Settled
<1>. QED
  BY <1>1, <1>4, <1>5, <1>6, <1>7, <1>8

\* Nothing is left to do: all that was accepted is settled.
LEMMA AllSettled ==
  ASSUME NEW q \in Seq(Items \cup {Stop}), NEW h \in Hands, NEW f, NEW o,
         Len(q) + Busy(h) = 0,
         \A i \in Items : Count(q, i) + Held(h, i) = One(f[i] = "accepted" /\ o[i] = "pending")
  PROVE  \A i \in Items : f[i] = "accepted" => o[i] # "pending"
<1>. SUFFICES ASSUME NEW i \in Items PROVE f[i] = "accepted" => o[i] # "pending"
  OBVIOUS
<1>1. Len(q) \in Nat /\ Busy(h) \in Nat
  BY LenProperties, HandsAreFinite
<1>2. Len(q) = 0 /\ Busy(h) = 0
  BY <1>1
<1>3. Count(q, i) = 0
  <2>1. \A n \in 1..Len(q) : q[n] # i
    BY <1>2
  <2>. QED
    BY <2>1, CountNone
<1>4. \A w \in Workers : h[w] = NoItem
  BY <1>2, HeldSomewhere
<1>5. Held(h, i) = 0
  BY <1>4, HeldSomewhere, PlaceHolders
<1>6. Count(q, i) + Held(h, i) = One(f[i] = "accepted" /\ o[i] = "pending")
  OBVIOUS
<1>. QED
  BY <1>3, <1>5, <1>6 DEF One

LEMMA Finished ==
  ASSUME QueueInv, NEW w \in Workers, worker[w] \in {"handling", "deferring"},
         NEW o \in {"settled", "failed", "dropped"}, FinishItem(w, o),
         UNCHANGED <<policy, fate, queue, line, attempts, resumed, stops, timedOut, early,
                     subscription, bySub>>
  PROVE  QueueInv'
<1>1. /\ MessageInv /\ hand[w] # NoItem /\ hand' = [hand EXCEPT ![w] = NoItem]
      /\ worker' = [worker EXCEPT ![w] = "getting"]
      /\ disposition' = [disposition EXCEPT ![hand[w]] = o] /\ unfinished' = unfinished - 1
  BY DEF QueueInv, MessageInv, WorkerTypes, FinishItem, TaskDone
<1>2. /\ QueueTypes' /\ ItemTypes' /\ WorkerTypes'
      /\ MessagesPlaced' /\ WorkCounted' /\ AttemptsLeft'
      /\ \A j \in Items : Settled(j) => disposition'[j] # "pending"
  BY <1>1, DoneWithItem
<1>3. CloseFlags'
  BY FlagsKept DEF QueueInv
<1>4. line \in Seq(Puts) /\ woken \in Seq(Puts) /\ Closer \in Puts
  BY <1>1 DEF MessageInv, LineTypes, Puts
<1>5. \A v \in Workers : worker[v] = "requeueing" => worker'[v] = "requeueing"
  BY <1>1 DEF MessageInv, WorkerTypes
<1>6. CASE unfinished = 1 /\ phase = "joining"
  <2>1. phase' = "joined" /\ woken' = Append(woken, Closer)
    BY <1>6 DEF FinishItem, TaskDone
  <2>2. CloseTypes' /\ stops > 0
    BY <1>6, <2>1 DEF QueueInv, CloseTypes
  <2>3. EarlySettled'
    <3>. DEFINE q == queue'  h == hand'  f == fate'  oo == disposition'
    <3>1. /\ q \in Seq(Items \cup {Stop}) /\ h \in Hands /\ Len(q) + Busy(h) = 0
          /\ \A i \in Items : Count(q, i) + Held(h, i)
                                = One(f[i] = "accepted" /\ oo[i] = "pending")
      <4>1. q \in Seq(Items \cup {Stop}) /\ h \in Hands
        BY <1>2 DEF QueueTypes, WorkerTypes
      <4>2. unfinished' = Len(queue') + Busy(hand')
        BY <1>2 DEF WorkCounted
      <4>3. unfinished' = 0
        BY <1>1, <1>6
      <4>4. \A i \in Items : Count(queue', i) + Held(hand', i)
                              = One(fate'[i] = "accepted" /\ disposition'[i] = "pending")
        BY <1>2 DEF MessagesPlaced, Settled
      <4>. QED
        BY <4>1, <4>2, <4>3, <4>4, Zenon
    <3>. HIDE DEF q, h, f, oo
    <3>2. \A i \in Items : f[i] = "accepted" => oo[i] # "pending"
      BY <3>1, AllSettled
    <3>3. \A i \in Items : fate'[i] = "accepted" => disposition'[i] # "pending"
      BY <3>2 DEF f, oo
    <3>. QED
      BY <2>1, <3>3 DEF QueueInv, EarlySettled, Settled
  <2>4. LineTypes' /\ \A x : Standing(line', woken', x) = Standing(line, woken, x) + One(Closer = x)
    BY <1>4, <2>1, PutStands DEF LineTypes
  <2>5. PutsStand'
    <3>1. \A x : x # Closer => Standing(line', woken', x) = Standing(line, woken, x)
      BY <1>1, <2>4, Sizes DEF One
    <3>2. \A i \in Items : Standing(line', woken', i) = One(fate'[i] = "blocked")
      BY <1>1, <3>1, PlaceHolders DEF MessageInv, PutsStand
    <3>3. \A v \in Workers : Standing(line', woken', v) <= One(worker'[v] = "requeueing")
      BY <1>1, <1>5, <3>1, Sizes, PlaceHolders DEF MessageInv, PutsStand, One
    <3>4. Standing(line, woken, Closer) = 0
      BY <1>1, <1>6, Sizes DEF MessageInv, PutsStand, One
    <3>5. Standing(line', woken', Closer) = 1
      BY <2>4, <3>4 DEF One
    <3>. QED
      BY <2>1, <2>2, <3>2, <3>3, <3>5 DEF PutsStand, One
  <2>. QED
    BY <1>2, <1>3, <2>2, <2>3, <2>4, <2>5 DEF QueueInv, MessageInv
<1>7. CASE ~(unfinished = 1 /\ phase = "joining")
  <2>1. UNCHANGED <<phase, woken>>
    BY <1>7 DEF FinishItem, TaskDone
  <2>2. CloseTypes' /\ LineTypes'
    BY <1>1, <2>1 DEF QueueInv, CloseTypes, MessageInv, LineTypes
  <2>3. EarlySettled'
    BY <1>2, <2>1 DEF QueueInv, EarlySettled, Settled
  <2>4. PutsStand'
    BY <1>1, <1>5, <2>1, <2>2, PutsUnmoved, Sizes
  <2>. QED
    BY <1>2, <1>3, <2>2, <2>3, <2>4 DEF QueueInv, MessageInv
<1>. QED
  BY <1>6, <1>7

LEMMA SettleKeeps ==
  ASSUME QueueInv, NEW w \in Workers, SettleItem(w)
  PROVE  QueueInv'
<1>1. PICK o \in {"settled", "failed"} : FinishItem(w, o)
  BY DEF SettleItem
<1>2. /\ worker[w] \in {"handling", "deferring"} /\ o \in {"settled", "failed", "dropped"}
      /\ UNCHANGED <<policy, fate, queue, line, attempts, resumed, stops, timedOut, early,
                     subscription, bySub>>
  BY DEF SettleItem, feed
<1>. QED
  BY <1>1, <1>2, Finished

LEMMA PutBackKeeps ==
  ASSUME QueueInv, NEW w \in Workers, PutBack(w)
  PROVE  QueueInv'
<1>1. /\ MessageInv /\ worker[w] \in {"handling", "deferring"}
      /\ UNCHANGED <<policy, fate, attempts, resumed, stops, timedOut, early, subscription, bySub>>
  BY DEF PutBack, QueueInv, feed
<1>2. hand[w] # NoItem /\ attempts[hand[w]] < MaxAttempts
  BY <1>1 DEF PutBack, MessageInv, WorkerTypes, AttemptsLeft
<1>3. CASE Closed /\ FinishItem(w, "dropped") /\ UNCHANGED <<queue, line>>
  BY <1>1, <1>3, Finished
<1>4. CASE /\ ~Full
           /\ queue' = Append(queue, hand[w])
           /\ hand' = [hand EXCEPT ![w] = NoItem]
           /\ worker' = [worker EXCEPT ![w] = "getting"]
           /\ UNCHANGED <<line, woken, unfinished, disposition, phase>>
  <2>1. /\ QueueTypes' /\ ItemTypes' /\ WorkerTypes'
        /\ MessagesPlaced' /\ WorkCounted' /\ AttemptsLeft'
    BY <1>1, <1>2, <1>4, ReturnsItem
  <2>2. CloseTypes' /\ EarlySettled' /\ CloseFlags'
    BY <1>1, <1>4, ControlKept DEF control
  <2>3. LineTypes'
    BY <1>1, <1>4 DEF MessageInv, LineTypes
  <2>4. PutsStand'
    BY <1>1, <1>4, <2>3, PutsUnmoved, Sizes DEF MessageInv, WorkerTypes
  <2>. QED
    BY <2>1, <2>2, <2>3, <2>4 DEF QueueInv, MessageInv
<1>5. CASE /\ line' = Append(line, w)
           /\ worker' = [worker EXCEPT ![w] = "requeueing"]
           /\ UNCHANGED <<queue, woken, unfinished, disposition, hand, phase>>
  <2>1. /\ QueueTypes' /\ ItemTypes' /\ WorkerTypes'
        /\ MessagesPlaced' /\ WorkCounted' /\ AttemptsLeft'
    BY <1>1, <1>2, <1>5, GoesOn
  <2>2. CloseTypes' /\ EarlySettled' /\ CloseFlags'
    BY <1>1, <1>5, ControlKept DEF control
  <2>3. line \in Seq(Puts) /\ woken \in Seq(Puts) /\ w \in Puts
    BY <1>1 DEF MessageInv, LineTypes, Puts
  <2>4. LineTypes' /\ \A x : Standing(line', woken', x) = Standing(line, woken, x) + One(w = x)
    BY <1>5, <2>3, PutStands DEF LineTypes
  <2>5. PutsStand'
    <3>1. \A x : x # w => Standing(line', woken', x) = Standing(line, woken, x)
      BY <1>1, <2>4, Sizes DEF One
    <3>2. \A j \in Items : Standing(line', woken', j) = One(fate'[j] = "blocked")
      BY <1>1, <3>1, PlaceHolders DEF MessageInv, PutsStand
    <3>3. Standing(line', woken', Closer) <= One(phase' \in {"joined", "drained"} /\ stops' > 0)
      BY <1>1, <1>5, <3>1, PlaceHolders DEF MessageInv, PutsStand
    <3>4. \A v \in Workers \ {w} : worker'[v] = worker[v]
      BY <1>1, <1>5 DEF MessageInv, WorkerTypes
    <3>5. Standing(line', woken', w) <= One(worker'[w] = "requeueing")
      <4>1. Standing(line, woken, w) = 0
        BY <1>1, Sizes DEF MessageInv, PutsStand, One
      <4>2. worker'[w] = "requeueing"
        BY <1>1, <1>5 DEF MessageInv, WorkerTypes
      <4>. QED
        BY <2>4, <4>1, <4>2 DEF One
    <3>6. \A v \in Workers : Standing(line', woken', v) <= One(worker'[v] = "requeueing")
      BY <1>1, <3>1, <3>4, <3>5 DEF MessageInv, PutsStand
    <3>. QED
      BY <3>2, <3>3, <3>6 DEF PutsStand
  <2>. QED
    BY <2>1, <2>2, <2>4, <2>5 DEF QueueInv, MessageInv
<1>. QED
  BY <1>3, <1>4, <1>5 DEF PutBack

\* The put of a worker that has run or was given up stands in the line no more.
LEMMA LeavesTheLine ==
  ASSUME MessageInv, NEW w \in Workers, NEW s, worker' = [worker EXCEPT ![w] = s],
         Standing(line', woken', w) = 0,
         \A x : x # w => /\ Standing(line', woken', x) <= Standing(line, woken, x)
                         /\ x \notin Workers =>
                              Standing(line', woken', x) = Standing(line, woken, x),
         \A x : Standing(line', woken', x) \in Nat,
         UNCHANGED <<fate, phase, stops>>
  PROVE  PutsStand'
<1>1. \A i \in Items : Standing(line', woken', i) = One(fate'[i] = "blocked")
  BY PlaceHolders DEF MessageInv, PutsStand
<1>2. ASSUME NEW v \in Workers
      PROVE  Standing(line', woken', v) <= One(worker'[v] = "requeueing")
  <2>1. CASE v = w
    BY <2>1 DEF One
  <2>2. CASE v # w
    <3>1. worker'[v] = worker[v]
      BY <2>2 DEF MessageInv, WorkerTypes
    <3>2. Standing(line, woken, v) <= One(worker[v] = "requeueing")
      BY DEF MessageInv, PutsStand
    <3>. QED
      BY <2>2, <3>1, <3>2, Sizes DEF One
  <2>. QED
    BY <2>1, <2>2
<1>3. Standing(line', woken', Closer) <= One(phase' \in {"joined", "drained"} /\ stops' > 0)
  BY PlaceHolders DEF MessageInv, PutsStand
<1>. QED
  BY <1>1, <1>2, <1>3 DEF PutsStand

LEMMA PutBackRuns ==
  ASSUME QueueInv, NEW w \in Workers, PutBackWoken(w)
  PROVE  QueueInv'
<1>1. /\ MessageInv /\ woken # <<>> /\ Head(woken) = w /\ woken' = Tail(woken)
      /\ UNCHANGED <<policy, fate, unfinished, attempts, disposition, control>>
  BY DEF PutBackWoken, QueueInv, feed
<1>2. CloseTypes' /\ EarlySettled' /\ CloseFlags'
  BY <1>1, ControlKept
<1>3. /\ worker[w] = "requeueing"
      /\ Tail(woken) \in Seq(Puts) /\ line \in Seq(Puts) /\ w \in Puts
      /\ \A x : Standing(line, Tail(woken), x) + One(w = x) = Standing(line, woken, x)
  BY <1>1, HeadWoken DEF MessageInv, LineTypes
<1>4. hand[w] # NoItem /\ attempts[hand[w]] < MaxAttempts
  BY <1>1, <1>3 DEF MessageInv, WorkerTypes, AttemptsLeft
<1>5. CASE Full
  <2>1. line' = Append(line, w) /\ UNCHANGED <<queue, worker, hand>>
    BY <1>5 DEF PutBackWoken
  <2>2. LineTypes' /\ \A x : Standing(line', woken', x) = Standing(line, woken, x)
    BY <1>1, <1>3, <2>1, LinedUp
  <2>3. PutsStand'
    BY <1>1, <2>1, <2>2, Sizes, PutsUnmoved DEF control
  <2>. QED
    BY <1>1, <1>2, <2>1, <2>2, <2>3, MessagesUnmoved DEF QueueInv, MessageInv
<1>6. CASE ~Full
  <2>1. /\ queue' = Append(queue, hand[w]) /\ hand' = [hand EXCEPT ![w] = NoItem]
        /\ worker' = [worker EXCEPT ![w] = "getting"] /\ line' = line
    BY <1>6 DEF PutBackWoken
  <2>2. /\ QueueTypes' /\ ItemTypes' /\ WorkerTypes'
        /\ MessagesPlaced' /\ WorkCounted' /\ AttemptsLeft'
    BY <1>1, <1>4, <1>6, <2>1, ReturnsItem
  <2>3. LineTypes'
    BY <1>1, <1>3, <2>1 DEF LineTypes
  <2>4. \A x : /\ Standing(line', woken', x) + One(w = x) = Standing(line, woken, x)
               /\ Standing(line', woken', x) \in Nat
    BY <1>1, <1>3, <2>1, StandingIsNatural
  <2>5. /\ Standing(line', woken', w) = 0
        /\ \A x : x # w => /\ Standing(line', woken', x) <= Standing(line, woken, x)
                           /\ x \notin Workers =>
                                Standing(line', woken', x) = Standing(line, woken, x)
    <3>1. Standing(line, woken, w) <= 1
      BY <1>1, <1>3 DEF MessageInv, PutsStand, One
    <3>2. Standing(line', woken', w) + 1 = Standing(line, woken, w)
      BY <2>4 DEF One
    <3>. QED
      BY <1>1, <2>4, <3>1, <3>2, Sizes DEF One
  <2>6. PutsStand'
    BY <1>1, <2>1, <2>4, <2>5, LeavesTheLine DEF control
  <2>. QED
    BY <1>2, <2>2, <2>3, <2>6 DEF QueueInv, MessageInv
<1>. QED
  BY <1>5, <1>6

LEMMA WorkerEndKeeps ==
  ASSUME QueueInv, NEW w \in Workers, WorkerEnds(w)
  PROVE  QueueInv'
<1>1. /\ MessageInv /\ worker[w] # "exited" /\ worker' = [worker EXCEPT ![w] = "exited"]
      /\ UNCHANGED <<policy, fate, queue, attempts, control>> /\ phase = "gathering"
  BY DEF WorkerEnds, QueueInv, feed, Cancelled
<1>2. CloseFlags' /\ CloseTypes'
  BY <1>1, FlagsKept DEF QueueInv, CloseTypes, control
<1>3. EarlySettled'
  BY <1>1 DEF QueueInv, EarlySettled, control
<1>4. /\ QueueTypes' /\ ItemTypes' /\ WorkerTypes'
      /\ MessagesPlaced' /\ WorkCounted' /\ AttemptsLeft'
  <2>1. CASE hand[w] = NoItem
    <3>1. UNCHANGED <<hand, disposition, unfinished>>
      BY <2>1 DEF WorkerEnds
    <3>2. QueueTypes' /\ ItemTypes' /\ WorkerTypes'
      BY <1>1, <2>1, <3>1 DEF MessageInv, QueueTypes, ItemTypes, WorkerTypes
    <3>3. MessagesPlaced' /\ WorkCounted'
      BY <1>1, <3>1 DEF MessageInv, MessagesPlaced, WorkCounted, Settled
    <3>4. AttemptsLeft'
      BY <1>1, <3>1 DEF MessageInv, AttemptsLeft, WorkerTypes
    <3>. QED
      BY <3>2, <3>3, <3>4
  <2>2. CASE hand[w] # NoItem
    BY <1>1, <2>2, DoneWithItem DEF WorkerEnds
  <2>. QED
    BY <2>1, <2>2
<1>5. line \in Seq(Puts) /\ woken \in Seq(Puts)
  BY <1>1 DEF MessageInv, LineTypes
<1>6. CASE LeaveLine(w)
  <2>1. /\ line' \in Seq(Puts) /\ woken' \in Seq(Puts)
        /\ \A x : /\ Standing(line', woken', x) + One(w = x) <= Standing(line, woken, x)
                  /\ x \notin Workers =>
                       Standing(line', woken', x) + One(w = x) = Standing(line, woken, x)
    BY <1>5, <1>6, LeaveMoves
  <2>2. LineTypes' /\ \A x : Standing(line', woken', x) \in Nat
    BY <2>1, StandingIsNatural DEF LineTypes
  <2>3. Standing(line', woken', w) = 0
    <3>1. Standing(line, woken, w) <= 1
      BY <1>1, Sizes DEF MessageInv, PutsStand, One
    <3>2. Standing(line', woken', w) + 1 <= Standing(line, woken, w)
      BY <2>1 DEF One
    <3>. QED
      BY <1>1, <2>2, <3>1, <3>2, Sizes
  <2>4. \A x : x # w => /\ Standing(line', woken', x) <= Standing(line, woken, x)
                        /\ x \notin Workers =>
                             Standing(line', woken', x) = Standing(line, woken, x)
    BY <1>1, <2>1, <2>2, Sizes DEF One
  <2>5. PutsStand'
    BY <1>1, <2>2, <2>3, <2>4, LeavesTheLine DEF control
  <2>. QED
    BY <1>2, <1>3, <1>4, <2>2, <2>5 DEF QueueInv, MessageInv
<1>7. CASE /\ \A n \in 1..Len(line) : line[n] # w
           /\ \A n \in 1..Len(woken) : woken[n] # w
           /\ UNCHANGED <<line, woken>>
  <2>1. Standing(line, woken, w) = 0
    BY <1>5, <1>7, CountNone DEF Standing
  <2>2. LineTypes'
    BY <1>5, <1>7 DEF LineTypes
  <2>3. \A x : /\ Standing(line', woken', x) = Standing(line, woken, x)
               /\ Standing(line', woken', x) \in Nat
    BY <1>1, <1>7, Sizes
  <2>4. \A x : Standing(line', woken', x) <= Standing(line, woken, x)
    BY <2>3
  <2>5. PutsStand'
    BY <1>1, <2>1, <2>3, <2>4, LeavesTheLine DEF control
  <2>. QED
    BY <1>2, <1>3, <1>4, <2>2, <2>5 DEF QueueInv, MessageInv
<1>. QED
  BY <1>6, <1>7 DEF WorkerEnds

-----------------------------------------------------------------------------
(* close                                                                   *)

\* What the steps of close do to the line is about the close call alone.
LEMMA CloserMoves ==
  ASSUME MessageInv, UNCHANGED <<fate, worker>>, LineTypes',
         \A x : x # Closer => Standing(line', woken', x) = Standing(line, woken, x),
         Standing(line', woken', Closer) <= One(phase' \in {"joined", "drained"} /\ stops' > 0)
  PROVE  PutsStand'
BY PlaceHolders DEF MessageInv, PutsStand

LEMMA CloseBegins ==
  ASSUME QueueInv, ~Closed, BeginClose,
         UNCHANGED <<policy, fate, queue, line, unfinished, attempts, disposition, worker, hand,
                     timedOut, subscription>>,
         bySub' \in BOOLEAN
  PROVE  QueueInv'
<1>1. /\ MessageInv /\ phase = "open"
      /\ early' = {i \in Items : fate[i] = "accepted"}
      /\ stops' = Cardinality(Workers) /\ stops' > 0
      /\ phase' \in {"joining", "drained"}
      /\ stops' \in 0..Cardinality(Workers)
  BY PlaceHolders DEF QueueInv, Closed, BeginClose
<1>2. CloseTypes'
  BY <1>1 DEF QueueInv, CloseTypes
<1>3. CloseFlags'
  <2>1. resumed' = TRUE /\ timedOut' = timedOut
    BY DEF BeginClose
  <2>. QED
    BY <2>1, Zenon DEF QueueInv, CloseFlags
<1>4. /\ QueueTypes' /\ ItemTypes' /\ WorkerTypes'
      /\ MessagesPlaced' /\ WorkCounted' /\ AttemptsLeft'
  BY <1>1, MessagesUnmoved
<1>5. EarlySettled'
  <2>1. CASE unfinished = 0
    <3>1. \A i \in Items : fate[i] = "accepted" => disposition[i] # "pending"
      <4>1. queue \in Seq(Items \cup {Stop}) /\ hand \in Hands /\ Len(queue) + Busy(hand) = 0
        BY <1>1, <2>1 DEF MessageInv, QueueTypes, WorkerTypes, WorkCounted
      <4>2. \A i \in Items : Count(queue, i) + Held(hand, i)
                               = One(fate[i] = "accepted" /\ disposition[i] = "pending")
        BY <1>1 DEF MessageInv, MessagesPlaced, Settled
      <4>. QED
        BY <4>1, <4>2, AllSettled
    <3>. QED
      BY <1>1, <3>1 DEF EarlySettled, Settled
  <2>2. CASE unfinished # 0
    <3>1. phase' = "joining"
      BY <2>2 DEF BeginClose
    <3>. QED
      BY <1>1, <3>1 DEF EarlySettled
  <2>. QED
    BY <2>1, <2>2
<1>6. /\ line \in Seq(Puts) /\ woken \in Seq(Puts) /\ <<Closer>> \in Seq(Puts)
      /\ Standing(line, woken, Closer) = 0
  BY <1>1, Sizes DEF MessageInv, LineTypes, Puts, PutsStand, One
<1>7. LineTypes' /\ PutsStand'
  <2>1. CASE unfinished = 0
    <3>. DEFINE k == <<Closer>> \o woken
    <3>1. phase' = "drained" /\ woken' = k /\ line' = line
      BY <2>1 DEF BeginClose
    <3>2. k \in Seq(Puts) /\ \A x : Count(k, x) = Count(<<Closer>>, x) + Count(woken, x)
      BY <1>6, CountConcat, ConcatProperties
    <3>. HIDE DEF k
    <3>3. LineTypes'
      BY <1>6, <3>1, <3>2 DEF LineTypes
    <3>4. ASSUME NEW x
          PROVE  Standing(line', woken', x) = Standing(line, woken, x) + One(Closer = x)
      <4>1. Count(k, x) = One(Closer = x) + Count(woken, x)
        BY <3>2, CountSingle
      <4>2. Count(line, x) \in Nat /\ Count(woken, x) \in Nat /\ One(Closer = x) \in Nat
        BY <1>6, CountIsNatural DEF One
      <4>. QED
        BY <3>1, <4>1, <4>2 DEF Standing
    <3>5. \A x : x # Closer => Standing(line', woken', x) = Standing(line, woken, x)
      BY <1>1, <3>4, Sizes DEF One
    <3>6. Standing(line', woken', Closer) = 1
      BY <1>6, <3>4 DEF One
    <3>7. PutsStand'
      BY <1>1, <3>1, <3>3, <3>5, <3>6, CloserMoves DEF One
    <3>. QED
      BY <3>3, <3>7
  <2>2. CASE unfinished # 0
    <3>1. woken' = woken /\ line' = line
      BY <2>2 DEF BeginClose
    <3>2. LineTypes'
      BY <1>6, <3>1 DEF LineTypes
    <3>3. PutsStand'
      BY <1>1, <1>6, <3>1, <3>2, CloserMoves DEF One
    <3>. QED
      BY <3>2, <3>3
  <2>. QED
    BY <2>1, <2>2
<1>. QED
  BY <1>2, <1>3, <1>4, <1>5, <1>7 DEF QueueInv, MessageInv

LEMMA EngineCloseKeeps ==
  ASSUME QueueInv, EngineClose
  PROVE  QueueInv'
<1>1. bySub' \in BOOLEAN
  BY Zenon DEF EngineClose, QueueInv, CloseFlags
<1>. QED
  BY <1>1, CloseBegins DEF EngineClose, feed

\* The subscription and the pause are about no message.
LEMMA SubscriptionKeeps ==
  ASSUME QueueInv,
         UNCHANGED <<policy, fate, queue, line, woken, unfinished, attempts, disposition, worker, hand,
                     phase, stops, timedOut, early, bySub>>,
         subscription' \in {"active", "paused", "closed"}, resumed' \in BOOLEAN
  PROVE  QueueInv'
<1>1. MessageInv /\ CloseTypes'
  BY DEF QueueInv, CloseTypes
<1>2. CloseFlags'
  BY Zenon DEF QueueInv, CloseFlags
<1>3. EarlySettled'
  BY DEF QueueInv, EarlySettled, Settled
<1>4. /\ QueueTypes' /\ ItemTypes' /\ WorkerTypes'
      /\ MessagesPlaced' /\ WorkCounted' /\ AttemptsLeft'
  BY <1>1, MessagesUnmoved
<1>5. LineTypes' /\ PutsStand'
  BY <1>1 DEF MessageInv, LineTypes, PutsStand
<1>. QED
  BY <1>1, <1>2, <1>3, <1>4, <1>5 DEF QueueInv, MessageInv

LEMMA SubscriptionCloseKeeps ==
  ASSUME QueueInv, SubscriptionClose
  PROVE  QueueInv'
<1>1. CASE ~Closed /\ BeginClose /\ bySub' = TRUE /\ UNCHANGED subscription
  <2>1. bySub' \in BOOLEAN
    BY <1>1, Zenon
  <2>. QED
    BY <1>1, <2>1, CloseBegins DEF SubscriptionClose, feed
<1>2. CASE /\ subscription' = "closed"
           /\ UNCHANGED <<bySub, phase, stops, resumed, early, woken>>
  <2>1. resumed' \in BOOLEAN
    BY <1>2, Zenon DEF QueueInv, CloseFlags
  <2>. QED
    BY <1>2, <2>1, SubscriptionKeeps DEF SubscriptionClose, feed
<1>. QED
  BY <1>1, <1>2 DEF SubscriptionClose

LEMMA PauseKeeps ==
  ASSUME QueueInv, Pause \/ Resume
  PROVE  QueueInv'
<1>1. resumed' \in BOOLEAN
  BY Zenon DEF Pause, Resume
<1>. QED
  BY <1>1, SubscriptionKeeps DEF Pause, Resume, feed

LEMMA DrainTimeoutKeeps ==
  ASSUME QueueInv, DrainTimeout
  PROVE  QueueInv'
<1>1. /\ MessageInv /\ phase' = "gathering" /\ timedOut' = TRUE
      /\ UNCHANGED <<policy, fate, queue, line, unfinished, attempts, disposition, worker, hand,
                     resumed, stops, early, subscription, bySub>>
  BY DEF DrainTimeout, QueueInv, feed
<1>2. CloseTypes'
  BY <1>1 DEF QueueInv, CloseTypes
<1>3. CloseFlags'
  BY <1>1, Zenon DEF QueueInv, CloseFlags
<1>4. EarlySettled'
  BY <1>1 DEF QueueInv, EarlySettled
<1>5. /\ QueueTypes' /\ ItemTypes' /\ WorkerTypes'
      /\ MessagesPlaced' /\ WorkCounted' /\ AttemptsLeft'
  BY <1>1, MessagesUnmoved
<1>6. line \in Seq(Puts) /\ woken \in Seq(Puts)
  BY <1>1 DEF MessageInv, LineTypes
<1>7. LineTypes' /\ PutsStand'
  <2>1. CASE phase = "joining" /\ UNCHANGED woken
    <3>1. LineTypes'
      BY <1>1, <1>6, <2>1 DEF LineTypes
    <3>2. Standing(line, woken, Closer) = 0
      BY <1>1, <2>1, Sizes DEF MessageInv, PutsStand, One
    <3>3. PutsStand'
      BY <1>1, <2>1, <3>1, <3>2, CloserMoves DEF One
    <3>. QED
      BY <3>1, <3>3
  <2>2. ASSUME NEW n \in 1..Len(woken), woken[n] = Closer, woken' = RemoveAt(woken, n)
        PROVE  LineTypes' /\ PutsStand'
    <3>1. /\ woken' \in Seq(Puts)
          /\ \A x : Count(woken, x) = Count(woken', x) + One(Closer = x)
      BY <1>6, <2>2, CountRemoved
    <3>2. LineTypes'
      BY <1>1, <1>6, <3>1 DEF LineTypes
    <3>3. ASSUME NEW x
          PROVE  /\ Standing(line', woken', x) + One(Closer = x) = Standing(line, woken, x)
                 /\ Standing(line', woken', x) \in Nat
      <4>1. Count(line, x) \in Nat /\ Count(woken', x) \in Nat /\ One(Closer = x) \in Nat
        BY <1>6, <3>1, CountIsNatural DEF One
      <4>2. Count(woken, x) = Count(woken', x) + One(Closer = x)
        BY <3>1
      <4>. QED
        BY <1>1, <4>1, <4>2 DEF Standing
    <3>4. \A x : x # Closer => Standing(line', woken', x) = Standing(line, woken, x)
      BY <3>3 DEF One
    <3>5. Standing(line', woken', Closer) = 0
      <4>1. Standing(line, woken, Closer) <= 1
        BY <1>1, Sizes DEF MessageInv, PutsStand, One
      <4>2. Standing(line', woken', Closer) + 1 = Standing(line, woken, Closer)
        BY <3>3 DEF One
      <4>. QED
        BY <1>1, <3>3, <4>1, <4>2, Sizes
    <3>6. PutsStand'
      BY <1>1, <3>2, <3>4, <3>5, CloserMoves DEF One
    <3>. QED
      BY <3>2, <3>6
  <2>. QED
    BY <2>1, <2>2 DEF DrainTimeout
<1>. QED
  BY <1>2, <1>3, <1>4, <1>5, <1>7 DEF QueueInv, MessageInv

LEMMA EndCloseKeeps ==
  ASSUME QueueInv, EndClose
  PROVE  QueueInv'
<1>1. /\ MessageInv /\ phase' = "closed"
      /\ (phase = "drained" /\ stops = 0) \/ phase = "gathering"
      /\ UNCHANGED <<policy, fate, queue, line, woken, unfinished, attempts, disposition, worker, hand,
                     resumed, stops, timedOut, early>>
      /\ bySub' = FALSE
      /\ subscription' \in {subscription, "closed"}
  BY DEF EndClose, QueueInv, feed
<1>2. CloseTypes'
  BY <1>1 DEF QueueInv, CloseTypes
<1>3. CloseFlags'
  BY <1>1, Zenon DEF QueueInv, CloseFlags
<1>4. EarlySettled'
  <2>1. /\ phase = "gathering" => timedOut
        /\ phase = "drained" => \A i \in early : Settled(i)
        /\ \A i \in early : i \in Items /\ fate[i] = "accepted"
    BY DEF QueueInv, EarlySettled
  <2>2. ~timedOut' => phase = "drained"
    BY <1>1, <2>1
  <2>. QED
    BY <1>1, <2>1, <2>2 DEF EarlySettled, Settled
<1>5. /\ QueueTypes' /\ ItemTypes' /\ WorkerTypes'
      /\ MessagesPlaced' /\ WorkCounted' /\ AttemptsLeft'
  BY <1>1, MessagesUnmoved
<1>6. LineTypes'
  BY <1>1 DEF MessageInv, LineTypes
<1>7. Standing(line, woken, Closer) = 0
  BY <1>1, Sizes DEF MessageInv, PutsStand, One
<1>8. PutsStand'
  BY <1>1, <1>6, <1>7, CloserMoves DEF One
<1>. QED
  BY <1>2, <1>3, <1>4, <1>5, <1>6, <1>8 DEF QueueInv, MessageInv

LEMMA StopsPut ==
  ASSUME QueueInv, PutStops
  PROVE  QueueInv'
<1>. DEFINE n == Least(stops, Capacity - Len(queue))
            t == [k \in 1..n |-> Stop]
<1>1. /\ MessageInv /\ woken # <<>> /\ Head(woken) = Closer /\ woken' = Tail(woken)
      /\ queue' = queue \o t /\ unfinished' = unfinished + n /\ stops' = stops - n
      /\ line' = IF n < stops THEN Append(line, Closer) ELSE line
      /\ phase' = "drained"
      /\ UNCHANGED <<policy, fate, attempts, disposition, worker, hand, resumed, timedOut, early,
                     subscription, bySub>>
  BY DEF PutStops, QueueInv, feed
<1>2. /\ phase \in {"joined", "drained"} /\ stops > 0 /\ Tail(woken) \in Seq(Puts)
      /\ \A x : Standing(line, Tail(woken), x) + One(Closer = x) = Standing(line, woken, x)
  BY <1>1, HeadWoken
<1>3. /\ n \in Nat /\ n <= stops /\ Len(queue) + n <= Capacity
      /\ stops \in 0..Cardinality(Workers) /\ Cardinality(Workers) \in Nat
  <2>1. /\ stops \in 0..Cardinality(Workers) /\ Cardinality(Workers) \in Nat
        /\ Len(queue) \in Nat /\ Len(queue) <= Capacity /\ Capacity \in Nat
    BY <1>1, Sizes, PlaceHolders DEF QueueInv, CloseTypes, MessageInv, QueueTypes
  <2>. QED
    BY <2>1 DEF Least
<1>. HIDE DEF n
<1>4. /\ t \in Seq(Items \cup {Stop}) /\ Len(t) = n
      /\ \A k \in 1..n : t[k] = Stop
  BY <1>3
<1>. HIDE DEF t
<1>5. /\ queue \o t \in Seq(Items \cup {Stop}) /\ Len(queue \o t) = Len(queue) + n
      /\ \A j \in Items : Count(queue \o t, j) = Count(queue, j)
  <2>1. queue \in Seq(Items \cup {Stop})
    BY <1>1 DEF MessageInv, QueueTypes
  <2>2. queue \o t \in Seq(Items \cup {Stop}) /\ Len(queue \o t) = Len(queue) + n
    BY <1>4, <2>1, ConcatProperties
  <2>3. ASSUME NEW j \in Items PROVE Count(queue \o t, j) = Count(queue, j)
    <3>1. \A k \in 1..Len(t) : t[k] # j
      BY <1>4, PlaceHolders
    <3>. QED
      BY <1>4, <2>1, <3>1, CountOthers
  <2>. QED
    BY <2>2, <2>3
<1>6. ASSUME NEW m \in 1..Len(queue \o t)
      PROVE  \/ m \in 1..Len(queue) /\ (queue \o t)[m] = queue[m]
             \/ (queue \o t)[m] = Stop
  <2>1. queue \in Seq(Items \cup {Stop}) /\ Len(queue) \in Nat /\ m \in 1..(Len(queue) + n)
    BY <1>1, <1>5, Sizes DEF MessageInv, QueueTypes
  <2>2. (queue \o t)[m] = IF m <= Len(queue) THEN queue[m] ELSE t[m - Len(queue)]
    BY <1>4, <2>1, ConcatProperties
  <2>3. m <= Len(queue) => m \in 1..Len(queue)
    BY <2>1
  <2>4. ~(m <= Len(queue)) => m - Len(queue) \in 1..n
    BY <1>3, <2>1
  <2>. QED
    BY <1>4, <2>2, <2>3, <2>4
<1>7. QueueTypes'
  BY <1>1, <1>3, <1>5 DEF QueueTypes
<1>8. ItemTypes' /\ WorkerTypes'
  BY <1>1 DEF MessageInv, ItemTypes, WorkerTypes
<1>9. MessagesPlaced'
  BY <1>1, <1>5 DEF MessageInv, MessagesPlaced, Settled
<1>10. WorkCounted'
  BY <1>1, <1>3, <1>5, Sizes DEF MessageInv, WorkCounted
<1>11. AttemptsLeft'
  <2>1. ASSUME NEW m \in 1..Len(queue'), queue'[m] \in Items
        PROVE  attempts'[queue'[m]] < MaxAttempts
    BY <1>1, <1>6, <2>1, PlaceHolders DEF MessageInv, AttemptsLeft
  <2>. QED
    BY <1>1, <2>1 DEF MessageInv, AttemptsLeft
<1>12. CloseTypes'
  BY <1>1, <1>3 DEF QueueInv, CloseTypes
<1>13. CloseFlags'
  BY <1>1, FlagsKept DEF QueueInv
<1>14. EarlySettled'
  BY <1>1, <1>2 DEF QueueInv, EarlySettled, Settled
<1>15. LineTypes' /\ PutsStand'
  <2>1. line \in Seq(Puts) /\ Closer \in Puts /\ Standing(line, woken, Closer) <= 1
    BY <1>1, Sizes DEF MessageInv, LineTypes, Puts, PutsStand, One
  <2>2. CASE n < stops
    <3>1. line' = Append(line, Closer) /\ stops' > 0
      BY <1>1, <1>3, <2>2
    <3>2. LineTypes' /\ \A x : Standing(line', woken', x) = Standing(line, woken, x)
      BY <1>1, <1>2, <2>1, <3>1, LinedUp
    <3>3. PutsStand'
      BY <1>1, <2>1, <3>1, <3>2, CloserMoves DEF One
    <3>. QED
      BY <3>2, <3>3
  <2>3. CASE ~(n < stops)
    <3>1. line' = line
      BY <1>1, <2>3
    <3>2. LineTypes'
      BY <1>1, <1>2, <2>1, <3>1 DEF LineTypes
    <3>3. \A x : /\ Standing(line', woken', x) + One(Closer = x) = Standing(line, woken, x)
                 /\ Standing(line', woken', x) \in Nat
      BY <1>1, <1>2, <2>1, <3>1, StandingIsNatural
    <3>4. \A x : x # Closer => Standing(line', woken', x) = Standing(line, woken, x)
      BY <3>3 DEF One
    <3>5. Standing(line', woken', Closer) = 0
      <4>1. Standing(line', woken', Closer) + 1 = Standing(line, woken, Closer)
        BY <3>3 DEF One
      <4>. QED
        BY <1>1, <2>1, <3>3, <4>1, Sizes
    <3>6. PutsStand'
      BY <1>1, <3>2, <3>4, <3>5, CloserMoves DEF One
    <3>. QED
      BY <3>2, <3>6
  <2>. QED
    BY <2>2, <2>3
<1>. QED
  BY <1>7, <1>8, <1>9, <1>10, <1>11, <1>12, <1>13, <1>14, <1>15 DEF QueueInv, MessageInv

-----------------------------------------------------------------------------
(* The theorem                                                             *)

LEMMA QueueInitInv == QueueInit => QueueInv
<1>. SUFFICES ASSUME QueueInit PROVE QueueInv
  OBVIOUS
<1>1. /\ queue = <<>> /\ line = <<>> /\ woken = <<>> /\ unfinished = 0
      /\ hand = [w \in Workers |-> NoItem] /\ worker = [w \in Workers |-> "getting"]
      /\ fate = [i \in Items |-> "idle"] /\ attempts = [i \in Items |-> 0]
      /\ disposition = [i \in Items |-> "pending"]
      /\ phase = "open" /\ stops = 0 /\ early = {} /\ subscription = "active"
      /\ policy \in Policies
  BY DEF QueueInit
<1>2. /\ \A x : Count(queue, x) = 0 /\ Standing(line, woken, x) = 0
      /\ Len(queue) = 0 /\ Capacity \in Nat \ {0}
      /\ MaxAttempts \in Nat \ {0} /\ Cardinality(Workers) \in Nat \ {0}
  BY <1>1, CountEmpty, PlaceHolders DEF Standing
<1>3. hand \in Hands
  BY <1>1 DEF Hands
<1>4. LineTypes /\ QueueTypes
  BY <1>1, <1>2 DEF LineTypes, QueueTypes
<1>5. ItemTypes
  BY <1>1, <1>2 DEF ItemTypes
<1>6. WorkerTypes
  BY <1>1, <1>3 DEF WorkerTypes
<1>7. CloseTypes
  BY <1>1, <1>2 DEF CloseTypes
<1>8. CloseFlags
  BY Zenon DEF QueueInit, CloseFlags
<1>9. PutsStand
  BY <1>1, <1>2 DEF PutsStand, One
<1>10. \A i \in Items : Held(hand, i) = 0
  BY <1>1, <1>3, HeldSomewhere, PlaceHolders
<1>11. MessagesPlaced
  BY <1>1, <1>2, <1>10 DEF MessagesPlaced, One
<1>12. WorkCounted
  <2>1. Busy(hand) = 0
    <3>1. {w \in Workers : hand[w] # NoItem} = {}
      BY <1>1
    <3>. QED
      BY <3>1, FS_EmptySet DEF Busy
  <2>. QED
    BY <1>1, <1>2, <2>1 DEF WorkCounted
<1>13. AttemptsLeft
  BY <1>1, <1>2 DEF AttemptsLeft
<1>14. EarlySettled
  BY <1>1 DEF EarlySettled
<1>. QED
  BY <1>4, <1>5, <1>6, <1>7, <1>8, <1>9, <1>11, <1>12, <1>13, <1>14 DEF QueueInv, MessageInv

LEMMA QueueNextInv == QueueInv /\ [QueueNext]_queueVars => QueueInv'
<1>. SUFFICES ASSUME QueueInv, [QueueNext]_queueVars PROVE QueueInv'
  OBVIOUS
<1>1. ASSUME NEW i \in Items, Publish(i) \/ CancelPublish(i) \/ PutWoken(i)
      PROVE  QueueInv'
  BY <1>1, Published, PublishCancelled, PutRuns
<1>2. ASSUME NEW w \in Workers, Work(w)
      PROVE  QueueInv'
  <2>1. CASE Take(w)
    BY <2>1, Taken
  <2>2. CASE TakeStop(w)
    BY <2>2, StopTaken
  <2>3. CASE Handle(w)
    BY <2>3, Handled
  <2>4. CASE SettleItem(w)
    BY <2>4, SettleKeeps
  <2>5. CASE Defer(w)
    BY <2>5, Deferred
  <2>6. CASE PutBack(w)
    BY <2>6, PutBackKeeps
  <2>7. CASE PutBackWoken(w)
    BY <2>7, PutBackRuns
  <2>8. CASE WorkerEnds(w)
    BY <2>8, WorkerEndKeeps
  <2>. QED
    BY <1>2, <2>1, <2>2, <2>3, <2>4, <2>5, <2>6, <2>7, <2>8 DEF Work
<1>3. CASE Pause \/ Resume
  BY <1>3, PauseKeeps
<1>4. CASE Close
  BY <1>4, EngineCloseKeeps, SubscriptionCloseKeeps, StopsPut, EndCloseKeeps, DrainTimeoutKeeps
     DEF Close
<1>5. CASE UNCHANGED queueVars
  <2>1. UNCHANGED <<policy, fate, queue, line, woken, unfinished, attempts, disposition, worker, hand,
                    phase, stops, timedOut, early, subscription, bySub, resumed>>
    BY <1>5 DEF queueVars
  <2>2. subscription' \in {"active", "paused", "closed"}
    BY <2>1 DEF QueueInv, CloseTypes
  <2>3. resumed' \in BOOLEAN
    BY <2>1, Zenon DEF QueueInv, CloseFlags
  <2>. QED
    BY <2>1, <2>2, <2>3, SubscriptionKeeps
<1>. QED
  BY <1>1, <1>2, <1>3, <1>4, <1>5 DEF QueueNext, Feed

LEMMA QueueInvSafe == QueueInv => NeitherLostNorDoubled
<1>. SUFFICES ASSUME QueueInv PROVE NeitherLostNorDoubled
  OBVIOUS
<1>1. MessageInv /\ CloseTypes /\ EarlySettled
  BY DEF QueueInv
<1>2. QueueTypeOK
  <2>1. resumed \in BOOLEAN /\ timedOut \in BOOLEAN /\ bySub \in BOOLEAN
    BY Zenon DEF QueueInv, CloseFlags
  <2>2. unfinished \in Nat
    BY <1>1, Sizes
  <2>3. hand \in [Workers -> Items \cup {NoItem}]
    BY <1>1 DEF MessageInv, WorkerTypes, Hands
  <2>4. /\ queue \in Seq(Items \cup {Stop}) /\ Len(queue) <= Capacity
        /\ line \in Seq(Puts) /\ woken \in Seq(Puts)
    BY <1>1 DEF MessageInv, LineTypes, QueueTypes
  <2>5. /\ fate \in [Items -> {"idle", "blocked", "accepted", "refused"}]
        /\ attempts \in [Items -> 0..MaxAttempts]
        /\ disposition \in [Items -> {"pending", "settled", "failed", "dropped", "abandoned"}]
    BY <1>1 DEF MessageInv, ItemTypes
  <2>6. /\ worker \in [Workers -> {"getting", "holding", "handling", "deferring", "requeueing",
                                   "exited"}]
        /\ \A w \in Workers : hand[w] = NoItem <=> worker[w] \in {"getting", "exited"}
    BY <1>1 DEF MessageInv, WorkerTypes
  <2>7. /\ policy \in Policies
        /\ phase \in {"open", "joining", "joined", "drained", "gathering", "closed"}
        /\ stops \in 0..Cardinality(Workers)
        /\ subscription \in {"active", "paused", "closed"}
    BY <1>1 DEF CloseTypes
  <2>. QED
    BY <2>1, <2>2, <2>3, <2>4, <2>5, <2>6, <2>7, Zenon DEF QueueTypeOK
<1>3. JoinCountsWork
  BY <1>1 DEF MessageInv, WorkCounted, JoinCountsWork, Busy
<1>4. \A i \in Items : InOnePlace(i)
  <2>1. ASSUME NEW i \in Items
        PROVE  /\ Count(queue, i) + Cardinality({w \in Workers : hand[w] = i})
                    = IF fate[i] = "accepted" /\ ~Settled(i) THEN 1 ELSE 0
               /\ Count(line, i) + Count(woken, i) = IF fate[i] = "blocked" THEN 1 ELSE 0
    BY <1>1 DEF MessageInv, MessagesPlaced, PutsStand, Standing, Held, One
  <2>. QED
    BY <2>1 DEF InOnePlace
<1>5. phase = "closed" /\ ~timedOut => \A i \in early : Settled(i)
  BY <1>1 DEF EarlySettled
<1>. QED
  BY <1>2, <1>3, <1>4, <1>5 DEF NeitherLostNorDoubled

\* Whatever the publishers, the workers, close and its timeout do, and in whatever order: no
\* accepted message is lost or handled twice at once, join counts the work that is left, and
\* close without a timeout leaves nothing unsettled of what was accepted before it (enqueue,
\* _worker and close of the memory consumer).
THEOREM MessagesAreNeitherLostNorDoubled == QueueSpec => []NeitherLostNorDoubled
<1>1. QueueInit => QueueInv
  BY QueueInitInv
<1>2. QueueInv /\ [QueueNext]_queueVars => QueueInv'
  BY QueueNextInv
<1>3. QueueInv => NeitherLostNorDoubled
  BY QueueInvSafe
<1>. QED
  BY <1>1, <1>2, <1>3, PTL DEF QueueSpec

-----------------------------------------------------------------------------
(* The queue of the memory consumer: no wake-up is lost, close goes on     *)

\* close, once join has returned and while it has Nones to put, stands in the line once, and
\* it does not wait there before it was first run.
CloserStands ==
  /\ phase \in {"joined", "drained"} /\ stops > 0 => Standing(line, woken, Closer) = 1
  /\ phase = "joined" => Count(line, Closer) = 0

NoneRequeues == phase \in {"joined", "drained"} => \A w \in Workers : worker[w] # "requeueing"

\* As many Nones, in the queue or still to put, as workers that are left.
StopsBalance ==
  /\ phase \in {"open", "joining", "joined"} => Remaining = Workers /\ Count(queue, Stop) = 0
  /\ phase \in {"joining", "joined"} => stops = Cardinality(Workers)
  /\ phase = "drained" => Count(queue, Stop) + stops = Cardinality(Remaining)

CloseInv == QueueInv /\ CloserStands /\ NoneRequeues /\ StopsBalance /\ NoWakeupLost

\* Waking takes puts from the line and adds none.
LEMMA WakeTakes ==
  ASSUME line \in Seq(Puts), NEW others \in Seq(Puts), WakeNext(others)
  PROVE  /\ \A x : Count(line', x) <= Count(line, x)
         /\ Waiting = {} => line' = <<>>
         /\ Waiting # {} => Len(woken') = Len(others) + 1
<1>1. CASE Waiting = {}
  <2>1. line' = <<>>
    BY <1>1 DEF WakeNext
  <2>2. ASSUME NEW x PROVE Count(line', x) <= Count(line, x)
    <3>1. Count(line', x) = 0 /\ Count(line, x) \in Nat
      BY <2>1, CountEmpty, CountIsNatural
    <3>. QED
      BY <3>1
  <2>. QED
    BY <1>1, <2>1, <2>2
<1>2. CASE Waiting # {}
  <2>. DEFINE n == Min(Waiting)
              a == SubSeq(line, 1, n - 1)
              b == SubSeq(line, n + 1, Len(line))
  <2>1. Len(line) \in Nat /\ Waiting \in SUBSET Nat
    BY LenProperties DEF Waiting
  <2>2. n \in Waiting
    BY <1>2, <2>1, MinimumExists
  <2>3. n \in 1..Len(line)
    BY <2>2 DEF Waiting
  <2>4. line' = b /\ woken' = Append(others, line[n])
    BY <1>2 DEF WakeNext
  <2>. HIDE DEF n
  <2>5. a \in Seq(Puts) /\ b \in Seq(Puts) /\ line[n] \in Puts
    BY <2>3, CountSplit, ElementOfSeq
  <2>6. ASSUME NEW x
        PROVE  Count(line, x) = Count(a, x) + One(line[n] = x) + Count(b, x)
    BY <2>3, CountSplit
  <2>. HIDE DEF a, b
  <2>7. ASSUME NEW x PROVE Count(line', x) <= Count(line, x)
    <3>1. Count(a, x) \in Nat /\ Count(b, x) \in Nat /\ One(line[n] = x) \in Nat
      BY <2>5, CountIsNatural DEF One
    <3>. QED
      BY <2>4, <2>6, <3>1
  <2>8. Len(woken') = Len(others) + 1
    BY <2>4, <2>5, AppendProperties
  <2>. QED
    BY <1>2, <2>7, <2>8
<1>. QED
  BY <1>1, <1>2

\* Nobody waits who did not.
LEMMA RemovedWaits ==
  ASSUME line \in Seq(Puts), NEW n \in 1..Len(line), line' = RemoveAt(line, n), phase' = phase,
         Waiting' # {}
  PROVE  Waiting # {}
<1>1. PICK m \in 1..Len(line') : phase' = "gathering" => line'[m] \notin Workers
  BY DEF Waiting
<1>. DEFINE x == line'[m]
<1>2. line' \in Seq(Puts) /\ Count(line, x) = Count(line', x) + One(line[n] = x)
  BY CountRemoved
<1>3. Count(line', x) # 0
  BY <1>2, CountNone
<1>4. Count(line', x) \in Nat /\ Count(line, x) \in Nat /\ One(line[n] = x) \in Nat
  BY <1>2, CountIsNatural DEF One
<1>5. Count(line, x) # 0
  <2>. HIDE DEF x
  <2>. QED
    BY <1>2, <1>3, <1>4
<1>6. PICK k \in 1..Len(line) : line[k] = x
  BY <1>5, CountNone
<1>. QED
  BY <1>1, <1>6 DEF Waiting

LEMMA RemovedShorter ==
  ASSUME NEW s \in Seq(Puts), NEW n \in 1..Len(s)
  PROVE  RemoveAt(s, n) \in Seq(Puts) /\ Len(RemoveAt(s, n)) = Len(s) - 1 /\ Len(s) \in Nat
<1>. DEFINE a == SubSeq(s, 1, n - 1)
            b == SubSeq(s, n + 1, Len(s))
<1>1. Len(s) \in Nat /\ n \in Nat
  BY LenProperties
<1>2. Len(a) = n - 1 /\ a \in Seq(Puts)
  <2>1. \A i \in 1..(n - 1) : s[i] \in Puts
    BY <1>1, ElementOfSeq
  <2>2. 1 \in Int /\ n - 1 \in Int /\ IF 1 <= n - 1 THEN n - 1 - 1 + 1 = n - 1 ELSE n - 1 = 0
    BY <1>1
  <2>. QED
    BY <1>1, <2>1, <2>2, SubSeqProperties
<1>3. Len(b) = Len(s) - n /\ b \in Seq(Puts)
  <2>1. n + 1 \in Int /\ Len(s) \in Int /\ \A i \in (n + 1)..Len(s) : s[i] \in Puts
    BY <1>1, ElementOfSeq
  <2>. QED
    BY <1>1, <2>1, SubSeqProperties
<1>4. RemoveAt(s, n) \in Seq(Puts) /\ Len(RemoveAt(s, n)) = Len(a) + Len(b)
  BY <1>2, <1>3, ConcatProperties DEF RemoveAt
<1>. HIDE DEF a, b
<1>. QED
  BY <1>1, <1>2, <1>3, <1>4

LEMMA LeaveTakes ==
  ASSUME LineTypes, NEW p, LeaveLine(p), phase' = phase
  PROVE  /\ \A x : Count(line', x) <= Count(line, x)
         /\ Waiting' # {} => /\ Waiting # {}
                             /\ \/ Len(woken') = Len(woken)
                                \/ Full /\ Len(woken') = Len(woken) - 1
<1>0. line \in Seq(Puts) /\ woken \in Seq(Puts)
  BY DEF LineTypes
<1>1. CASE \E n \in 1..Len(line) : line[n] = p /\ line' = RemoveAt(line, n) /\ UNCHANGED woken
  <2>1. PICK n \in 1..Len(line) : line[n] = p /\ line' = RemoveAt(line, n) /\ woken' = woken
    BY <1>1
  <2>2. ASSUME NEW x PROVE Count(line', x) <= Count(line, x)
    <3>1. line' \in Seq(Puts) /\ Count(line, x) = Count(line', x) + One(line[n] = x)
      BY <1>0, <2>1, CountRemoved
    <3>2. Count(line', x) \in Nat /\ One(line[n] = x) \in Nat
      BY <3>1, CountIsNatural DEF One
    <3>. QED
      BY <3>1, <3>2
  <2>3. Waiting' # {} => Waiting # {}
    BY <1>0, <2>1, RemovedWaits
  <2>. QED
    BY <2>1, <2>2, <2>3
<1>2. ASSUME NEW n \in 1..Len(woken), woken[n] = p,
             IF Full THEN woken' = RemoveAt(woken, n) /\ UNCHANGED line
                     ELSE WakeNext(RemoveAt(woken, n))
      PROVE  /\ \A x : Count(line', x) <= Count(line, x)
             /\ Waiting' # {} => /\ Waiting # {}
                                 /\ \/ Len(woken') = Len(woken)
                                    \/ Full /\ Len(woken') = Len(woken) - 1
  <2>. DEFINE others == RemoveAt(woken, n)
  <2>1. others \in Seq(Puts)
    BY <1>0, RemovedShorter
  <2>2. Len(others) = Len(woken) - 1 /\ Len(woken) \in Nat
    BY <1>0, RemovedShorter
  <2>3. CASE Full
    <3>1. woken' = others /\ line' = line /\ Waiting' = Waiting
      BY <1>2, <2>3 DEF Waiting
    <3>2. \A x : Count(line, x) \in Nat
      BY <1>0, CountIsNatural
    <3>. QED
      BY <2>2, <2>3, <3>1, <3>2
  <2>4. CASE ~Full
    <3>1. WakeNext(others)
      BY <1>2, <2>4
    <3>. HIDE DEF others
    <3>2. /\ \A x : Count(line', x) <= Count(line, x)
          /\ Waiting = {} => line' = <<>>
          /\ Waiting # {} => Len(woken') = Len(others) + 1
      BY <1>0, <2>1, <3>1, WakeTakes
    <3>3. Waiting = {} => Waiting' = {}
      BY <3>2 DEF Waiting
    <3>. QED
      BY <2>2, <3>2, <3>3
  <2>. QED
    BY <2>3, <2>4
<1>. QED
  BY <1>1, <1>2 DEF LeaveLine

-----------------------------------------------------------------------------
(* close stands in the line                                                *)

LEMMA CloserKept ==
  ASSUME CloserStands, LineTypes, LineTypes', stops' = stops, phase' = phase,
         Standing(line', woken', Closer) = Standing(line, woken, Closer),
         Count(line', Closer) <= Count(line, Closer)
  PROVE  CloserStands'
<1>1. Count(line', Closer) \in Nat /\ Count(line, Closer) \in Nat
  BY CountIsNatural DEF LineTypes
<1>. QED
  BY <1>1 DEF CloserStands

\* A put that is not close's runs, or stands in the line again.
LEMMA OthersPut ==
  ASSUME QueueInv, CloserStands, NEW p \in Puts \ {Closer}, woken # <<>>, Head(woken) = p,
         woken' = Tail(woken), line' \in {line, Append(line, p)}, UNCHANGED <<stops, phase>>
  PROVE  CloserStands'
<1>1. MessageInv /\ LineTypes /\ line \in Seq(Puts) /\ woken \in Seq(Puts)
  BY DEF QueueInv, MessageInv, LineTypes
<1>2. /\ Tail(woken) \in Seq(Puts)
      /\ \A x : Standing(line, Tail(woken), x) + One(p = x) = Standing(line, woken, x)
  BY <1>1, HeadWoken
<1>3. CASE line' = line
  <2>1. LineTypes'
    BY <1>1, <1>2, <1>3 DEF LineTypes
  <2>2. Standing(line, Tail(woken), Closer) + One(p = Closer) = Standing(line, woken, Closer)
    BY <1>2
  <2>3. Standing(line, Tail(woken), Closer) \in Nat /\ Count(line, Closer) \in Nat
    BY <1>1, <1>2, StandingIsNatural
  <2>4. Standing(line', woken', Closer) = Standing(line, woken, Closer)
    BY <1>3, <2>2, <2>3 DEF One
  <2>5. Count(line', Closer) <= Count(line, Closer)
    BY <1>3, <2>3
  <2>. QED
    BY <1>1, <2>1, <2>4, <2>5, CloserKept
<1>4. CASE line' = Append(line, p)
  <2>1. LineTypes' /\ \A x : Standing(line', woken', x) = Standing(line, woken, x)
    BY <1>1, <1>2, <1>4, LinedUp
  <2>2. Count(line', Closer) = Count(line, Closer) + One(p = Closer) /\ Count(line, Closer) \in Nat
    BY <1>1, <1>4, CountAppend, CountIsNatural
  <2>3. Count(line', Closer) <= Count(line, Closer)
    BY <2>2 DEF One
  <2>. QED
    BY <1>1, <2>1, <2>3, CloserKept
<1>. QED
  BY <1>3, <1>4

LEMMA CloserStandsAside ==
  ASSUME QueueInv, CloserStands, NEW i \in Items, Publish(i) \/ CancelPublish(i) \/ PutWoken(i)
  PROVE  CloserStands'
<1>1. /\ LineTypes /\ line \in Seq(Puts) /\ woken \in Seq(Puts)
      /\ i \in Puts /\ i # Closer /\ i \notin Workers /\ Closer \notin Workers
  BY PlaceHolders DEF QueueInv, MessageInv, LineTypes, Puts
<1>2. ASSUME Publish(i) PROVE CloserStands'
  BY <1>2 DEF Publish, Closed, CloserStands, control
<1>3. ASSUME CancelPublish(i) PROVE CloserStands'
  <2>1. LeaveLine(i) /\ phase' = phase /\ stops' = stops
    BY <1>3 DEF CancelPublish, control
  <2>2. /\ line' \in Seq(Puts) /\ woken' \in Seq(Puts)
        /\ Standing(line', woken', Closer) + One(i = Closer) = Standing(line, woken, Closer)
    BY <1>1, <2>1, LeaveMoves
  <2>3. Count(line', Closer) <= Count(line, Closer)
    BY <1>1, <2>1, LeaveTakes
  <2>4. LineTypes' /\ Standing(line', woken', Closer) \in Nat
    BY <2>2, StandingIsNatural DEF LineTypes
  <2>5. Standing(line', woken', Closer) = Standing(line, woken, Closer)
    BY <1>1, <2>2, <2>4 DEF One
  <2>. QED
    BY <1>1, <2>1, <2>3, <2>4, <2>5, CloserKept
<1>4. ASSUME PutWoken(i) PROVE CloserStands'
  <2>1. /\ woken # <<>> /\ Head(woken) = i /\ woken' = Tail(woken)
        /\ line' \in {line, Append(line, i)} /\ UNCHANGED <<stops, phase>>
    BY <1>4 DEF PutWoken, control
  <2>. QED
    BY <1>1, <2>1, OthersPut
<1>. QED
  BY <1>2, <1>3, <1>4

\* The last task_done wakes close, which then does not stand in the line yet.
LEMMA CloserWoken ==
  ASSUME QueueInv, CloserStands, TaskDone, line' = line, stops' = stops
  PROVE  CloserStands'
<1>1. MessageInv /\ LineTypes /\ line \in Seq(Puts) /\ woken \in Seq(Puts) /\ Closer \in Puts
  BY DEF QueueInv, MessageInv, LineTypes, Puts
<1>2. CASE unfinished = 1 /\ phase = "joining"
  <2>1. phase' = "joined" /\ woken' = Append(woken, Closer)
    BY <1>2 DEF TaskDone
  <2>2. Standing(line, woken, Closer) = 0
    BY <1>1, <1>2, Sizes DEF MessageInv, PutsStand, One
  <2>3. Standing(line', woken', Closer) = Standing(line, woken, Closer) + One(Closer = Closer)
    BY <1>1, <2>1, PutStands
  <2>4. Count(line, Closer) \in Nat /\ Count(woken, Closer) \in Nat
    BY <1>1, CountIsNatural
  <2>5. Count(line, Closer) = 0
    BY <2>2, <2>4 DEF Standing
  <2>6. Standing(line', woken', Closer) = 1
    BY <2>2, <2>3 DEF One
  <2>. QED
    BY <2>1, <2>5, <2>6 DEF CloserStands
<1>3. CASE ~(unfinished = 1 /\ phase = "joining")
  <2>1. UNCHANGED <<phase, woken>>
    BY <1>3 DEF TaskDone
  <2>. QED
    BY <2>1 DEF CloserStands
<1>. QED
  BY <1>2, <1>3

LEMMA CloserStandsBy ==
  ASSUME QueueInv, CloserStands, NEW w \in Workers, Work(w)
  PROVE  CloserStands'
<1>1. /\ LineTypes /\ line \in Seq(Puts) /\ woken \in Seq(Puts)
      /\ w \in Puts /\ w # Closer /\ Closer \notin Workers
  BY PlaceHolders DEF QueueInv, MessageInv, LineTypes, Puts
<1>2. ASSUME Dequeue, phase' = phase, stops' = stops PROVE CloserStands'
  <2>1. WakeNext(woken)
    BY <1>2 DEF Dequeue
  <2>2. /\ line' \in Seq(Puts) /\ woken' \in Seq(Puts)
        /\ Standing(line', woken', Closer) = Standing(line, woken, Closer)
    BY <1>1, <2>1, WakeMoves
  <2>3. Count(line', Closer) <= Count(line, Closer)
    BY <1>1, <2>1, WakeTakes
  <2>4. LineTypes'
    BY <2>2 DEF LineTypes
  <2>. QED
    BY <1>1, <1>2, <2>2, <2>3, <2>4, CloserKept
<1>3. CASE Take(w) \/ TakeStop(w)
  BY <1>2, <1>3 DEF Take, TakeStop, control
<1>4. CASE Handle(w) \/ Defer(w)
  BY <1>4 DEF Handle, Defer, CloserStands, control
<1>5. CASE SettleItem(w)
  BY <1>5, CloserWoken DEF SettleItem, FinishItem
<1>6. CASE PutBack(w)
  <2>1. CASE FinishItem(w, "dropped") /\ UNCHANGED <<queue, line>>
    BY <1>6, <2>1, CloserWoken DEF PutBack, FinishItem
  <2>2. CASE ~Closed /\ phase' = phase
    BY <2>2 DEF Closed, CloserStands
  <2>. QED
    BY <1>6, <2>1, <2>2 DEF PutBack
<1>7. CASE PutBackWoken(w)
  <2>1. /\ woken # <<>> /\ Head(woken) = w /\ woken' = Tail(woken)
        /\ line' \in {line, Append(line, w)} /\ UNCHANGED <<stops, phase>>
    BY <1>7 DEF PutBackWoken, control
  <2>. QED
    BY <1>1, <2>1, OthersPut
<1>8. CASE WorkerEnds(w)
  BY <1>8 DEF WorkerEnds, Cancelled, CloserStands, control
<1>. QED
  BY <1>3, <1>4, <1>5, <1>6, <1>7, <1>8 DEF Work

LEMMA CloserStandsUp ==
  ASSUME QueueInv, CloserStands, Close
  PROVE  CloserStands'
<1>1. /\ MessageInv /\ LineTypes /\ line \in Seq(Puts) /\ woken \in Seq(Puts) /\ Closer \in Puts
      /\ stops \in Nat
  BY DEF QueueInv, MessageInv, LineTypes, Puts, CloseTypes
<1>2. ASSUME phase = "open", BeginClose, line' = line PROVE CloserStands'
  <2>1. CASE unfinished = 0
    <3>1. phase' = "drained" /\ woken' = <<Closer>> \o woken
      BY <1>2, <2>1 DEF BeginClose
    <3>2. Standing(line, woken, Closer) = 0
      BY <1>1, <1>2, Sizes DEF MessageInv, PutsStand, One
    <3>3. <<Closer>> \in Seq(Puts)
      BY <1>1
    <3>4. Count(woken', Closer) = Count(<<Closer>>, Closer) + Count(woken, Closer)
      BY <1>1, <3>1, <3>3, CountConcat
    <3>5. Count(<<Closer>>, Closer) = One(Closer = Closer)
      BY CountSingle
    <3>6. Count(line, Closer) \in Nat /\ Count(woken, Closer) \in Nat
      BY <1>1, CountIsNatural
    <3>7. Count(line, Closer) = 0 /\ Count(woken, Closer) = 0
      BY <3>2, <3>6 DEF Standing
    <3>8. Standing(line', woken', Closer) = 1
      BY <1>2, <3>4, <3>5, <3>7 DEF Standing, One
    <3>. QED
      BY <3>1, <3>8 DEF CloserStands
  <2>2. CASE unfinished # 0
    <3>1. phase' = "joining"
      BY <1>2, <2>2 DEF BeginClose
    <3>. QED
      BY <3>1 DEF CloserStands
  <2>. QED
    BY <2>1, <2>2
<1>3. CASE EngineClose
  BY <1>2, <1>3 DEF EngineClose, Closed
<1>4. CASE SubscriptionClose
  <2>1. CASE ~Closed /\ BeginClose
    BY <1>2, <1>4, <2>1 DEF SubscriptionClose, Closed
  <2>2. CASE UNCHANGED <<bySub, phase, stops, resumed, early, woken>>
    BY <1>4, <2>2 DEF SubscriptionClose, CloserStands
  <2>. QED
    BY <1>4, <2>1, <2>2 DEF SubscriptionClose
<1>5. CASE PutStops
  <2>. DEFINE n == Least(stops, Capacity - Len(queue))
  <2>1. /\ woken # <<>> /\ Head(woken) = Closer /\ woken' = Tail(woken)
        /\ stops' = stops - n /\ line' = IF n < stops THEN Append(line, Closer) ELSE line
        /\ phase' = "drained"
    BY <1>5 DEF PutStops
  <2>2. /\ phase \in {"joined", "drained"} /\ stops > 0 /\ Tail(woken) \in Seq(Puts)
        /\ \A x : Standing(line, Tail(woken), x) + One(Closer = x) = Standing(line, woken, x)
    BY <1>1, <2>1, HeadWoken
  <2>3. n \in Int
    BY <1>1, Sizes DEF Least
  <2>. HIDE DEF n
  <2>4. ASSUME stops' > 0 PROVE Standing(line', woken', Closer) = 1
    <3>1. n < stops
      BY <1>1, <2>1, <2>3, <2>4
    <3>2. line' = Append(line, Closer)
      BY <2>1, <3>1
    <3>3. \A x : Standing(line', woken', x) = Standing(line, woken, x)
      BY <1>1, <2>1, <2>2, <3>2, LinedUp
    <3>. QED
      BY <2>2, <3>3 DEF CloserStands
  <2>. QED
    BY <2>1, <2>4 DEF CloserStands
<1>6. CASE EndClose \/ DrainTimeout
  BY <1>6 DEF EndClose, DrainTimeout, CloserStands
<1>. QED
  BY <1>3, <1>4, <1>5, <1>6 DEF Close

-----------------------------------------------------------------------------
(* Nobody requeues, and every worker that is left gets its None            *)

\* join has returned: nobody holds a message.
LEMMA NothingHeld ==
  ASSUME NEW q \in Seq(Items \cup {Stop}), NEW h \in Hands, NEW k, Len(q) + Busy(h) = 0,
         \A w \in Workers : h[w] = NoItem <=> k[w] \in {"getting", "exited"}
  PROVE  \A w \in Workers : k[w] # "requeueing"
<1>1. Len(q) \in Nat /\ Busy(h) \in Nat
  BY LenProperties, HandsAreFinite
<1>2. Busy(h) = 0
  BY <1>1
<1>3. \A w \in Workers : h[w] = NoItem
  <2>1. {w \in Workers : h[w] # NoItem} = {}
    BY <1>2, MemoryQueueAssumption, FS_Subset, FS_EmptySet DEF Busy
  <2>. QED
    BY <2>1
<1>. QED
  BY <1>3

LEMMA NoneRequeuesAfter ==
  ASSUME QueueInv', unfinished' = 0
  PROVE  \A w \in Workers : worker'[w] # "requeueing"
<1>. DEFINE q == queue'  h == hand'  k == worker'
<1>1. /\ q \in Seq(Items \cup {Stop}) /\ h \in Hands
      /\ \A w \in Workers : h[w] = NoItem <=> k[w] \in {"getting", "exited"}
  BY DEF QueueInv, MessageInv, QueueTypes, WorkerTypes
<1>2. Len(q) + Busy(h) = 0
  BY DEF QueueInv, MessageInv, WorkCounted
<1>. HIDE DEF q, h, k
<1>3. \A w \in Workers : k[w] # "requeueing"
  BY <1>1, <1>2, NothingHeld
<1>. QED
  BY <1>3 DEF k

LEMMA NoneRequeuesStill ==
  ASSUME QueueInv, QueueInv', NoneRequeues, QueueNext
  PROVE  NoneRequeues'
<1>0. worker \in [Workers -> {"getting", "holding", "handling", "deferring", "requeueing", "exited"}]
  BY DEF QueueInv, MessageInv, WorkerTypes
<1>1. ASSUME NEW w \in Workers, FinishItem(w, "dropped") \/ SettleItem(w)
      PROVE  NoneRequeues'
  <2>1. TaskDone /\ worker' = [worker EXCEPT ![w] = "getting"]
    BY <1>1 DEF FinishItem, SettleItem
  <2>2. CASE unfinished = 1
    <3>1. unfinished' = 0
      BY <2>1, <2>2 DEF TaskDone
    <3>. QED
      BY <3>1, NoneRequeuesAfter DEF NoneRequeues
  <2>3. CASE unfinished # 1
    <3>1. phase' = phase
      BY <2>1, <2>3 DEF TaskDone
    <3>2. \A v \in Workers : worker'[v] = worker[v] \/ worker'[v] = "getting"
      BY <1>0, <2>1
    <3>. QED
      BY <3>1, <3>2 DEF NoneRequeues
  <2>. QED
    BY <2>2, <2>3
<1>2. ASSUME BeginClose, UNCHANGED <<unfinished, worker>> PROVE NoneRequeues'
  <2>1. CASE unfinished = 0
    BY <1>2, <2>1, NoneRequeuesAfter DEF NoneRequeues
  <2>2. CASE unfinished # 0
    <3>1. phase' = "joining"
      BY <1>2, <2>2 DEF BeginClose
    <3>. QED
      BY <3>1 DEF NoneRequeues
  <2>. QED
    BY <2>1, <2>2
<1>3. ASSUME NEW i \in Items, Publish(i) \/ CancelPublish(i) \/ PutWoken(i)
      PROVE  NoneRequeues'
  BY <1>3 DEF Publish, CancelPublish, PutWoken, control, NoneRequeues
<1>4. ASSUME NEW w \in Workers, Work(w)
      PROVE  NoneRequeues'
  <2>1. CASE Take(w) \/ TakeStop(w) \/ Handle(w) \/ Defer(w) \/ PutBackWoken(w)
    <3>1. phase' = phase
      BY <2>1 DEF Take, TakeStop, Handle, Defer, PutBackWoken, control
    <3>2. \A v \in Workers : worker'[v] # worker[v] =>
                               worker'[v] \in {"holding", "exited", "handling", "deferring", "getting"}
      BY <1>0, <2>1 DEF Take, TakeStop, Handle, Defer, PutBackWoken
    <3>. QED
      BY <3>1, <3>2 DEF NoneRequeues
  <2>2. CASE SettleItem(w)
    BY <1>1, <2>2
  <2>3. CASE PutBack(w)
    <3>1. CASE FinishItem(w, "dropped")
      BY <1>1, <3>1
    <3>2. CASE ~Closed /\ phase' = phase
      BY <3>2 DEF Closed, NoneRequeues
    <3>. QED
      BY <2>3, <3>1, <3>2 DEF PutBack
  <2>4. CASE WorkerEnds(w)
    BY <2>4 DEF WorkerEnds, Cancelled, NoneRequeues, control
  <2>. QED
    BY <1>4, <2>1, <2>2, <2>3, <2>4 DEF Work
<1>5. CASE Pause \/ Resume
  BY <1>5 DEF Pause, Resume, NoneRequeues
<1>6. CASE Close
  <2>1. CASE EngineClose
    BY <1>2, <2>1 DEF EngineClose
  <2>2. CASE SubscriptionClose
    <3>1. UNCHANGED <<unfinished, worker>>
      BY <2>2 DEF SubscriptionClose
    <3>2. CASE BeginClose
      BY <1>2, <3>1, <3>2
    <3>3. CASE phase' = phase
      BY <3>1, <3>3 DEF NoneRequeues
    <3>. QED
      BY <2>2, <3>2, <3>3 DEF SubscriptionClose
  <2>3. CASE PutStops
    <3>1. QueueInv /\ woken # <<>> /\ Head(woken) = Closer /\ UNCHANGED worker
      BY <2>3 DEF PutStops
    <3>2. phase \in {"joined", "drained"}
      BY <3>1, HeadWoken DEF QueueInv
    <3>. QED
      BY <3>1, <3>2 DEF NoneRequeues
  <2>4. CASE EndClose \/ DrainTimeout
    BY <2>4 DEF EndClose, DrainTimeout, NoneRequeues
  <2>. QED
    BY <1>6, <2>1, <2>2, <2>3, <2>4 DEF Close
<1>. QED
  BY <1>3, <1>4, <1>5, <1>6 DEF QueueNext, Feed

-----------------------------------------------------------------------------

LEMMA StopsKept ==
  ASSUME StopsBalance, Count(queue', Stop) = Count(queue, Stop), stops' = stops,
         \A w \in Workers : worker'[w] = "exited" <=> worker[w] = "exited",
         \/ phase' = phase
         \/ phase = "joining" /\ phase' = "joined"
         \/ phase' \in {"gathering", "closed"}
  PROVE  StopsBalance'
<1>1. Remaining' = Remaining
  BY DEF Remaining
<1>. QED
  BY <1>1 DEF StopsBalance

\* The queue loses a message, or gains one.
LEMMA MessagesAreNoStops ==
  ASSUME QueueInv
  PROVE  /\ \A i \in Items : Count(Append(queue, i), Stop) = Count(queue, Stop)
         /\ queue # <<>> => Count(queue, Stop) = One(Head(queue) = Stop) + Count(Tail(queue), Stop)
<1>1. queue \in Seq(Items \cup {Stop}) /\ Count(queue, Stop) \in Nat
  BY CountIsNatural DEF QueueInv, MessageInv, QueueTypes
<1>2. ASSUME NEW i \in Items PROVE Count(Append(queue, i), Stop) = Count(queue, Stop)
  <2>1. Count(Append(queue, i), Stop) = Count(queue, Stop) + One(i = Stop) /\ i # Stop
    BY <1>1, CountAppend, PlaceHolders
  <2>. QED
    BY <1>1, <2>1 DEF One
<1>3. queue # <<>> => Count(queue, Stop) = One(Head(queue) = Stop) + Count(Tail(queue), Stop)
  BY <1>1, CountTail
<1>. QED
  BY <1>2, <1>3

LEMMA StopTakenBalance ==
  ASSUME QueueInv, StopsBalance, NEW w \in Workers, TakeStop(w)
  PROVE  StopsBalance'
<1>1. /\ worker[w] = "getting" /\ queue # <<>> /\ Head(queue) = Stop /\ queue' = Tail(queue)
      /\ worker' = [worker EXCEPT ![w] = "exited"] /\ phase' = phase /\ stops' = stops
  BY DEF TakeStop, Dequeue, control
<1>2. /\ worker \in [Workers -> {"getting", "holding", "handling", "deferring", "requeueing",
                                 "exited"}]
      /\ queue \in Seq(Items \cup {Stop}) /\ stops \in Nat
  BY DEF QueueInv, MessageInv, WorkerTypes, QueueTypes, CloseTypes
<1>3. Count(queue, Stop) = One(Head(queue) = Stop) + Count(Tail(queue), Stop)
  BY <1>1, MessagesAreNoStops
<1>4. Tail(queue) \in Seq(Items \cup {Stop})
  BY <1>1, <1>2, CountTail
<1>5. Count(queue', Stop) \in Nat /\ Count(queue, Stop) = 1 + Count(queue', Stop)
  BY <1>1, <1>3, <1>4, CountIsNatural DEF One
<1>6. phase \notin {"open", "joining", "joined"}
  BY <1>5 DEF StopsBalance
<1>7. Remaining' = Remaining \ {w} /\ w \in Remaining
  BY <1>1, <1>2 DEF Remaining
<1>8. Cardinality(Remaining') = Cardinality(Remaining) - 1 /\ Cardinality(Remaining) \in Nat
  BY <1>7, MemoryQueueAssumption, FS_Subset, FS_RemoveElement, FS_CardinalityType DEF Remaining
<1>. QED
  BY <1>1, <1>2, <1>5, <1>6, <1>8 DEF StopsBalance

LEMMA StopsPutBalance ==
  ASSUME QueueInv, StopsBalance, PutStops
  PROVE  StopsBalance'
<1>. DEFINE n == Least(stops, Capacity - Len(queue))
            t == [k \in 1..n |-> Stop]
<1>1. /\ MessageInv /\ woken # <<>> /\ Head(woken) = Closer
      /\ queue' = queue \o t /\ stops' = stops - n /\ phase' = "drained" /\ worker' = worker
  BY DEF PutStops, QueueInv
<1>2. phase \in {"joined", "drained"}
  BY <1>1, HeadWoken
<1>3. n \in Nat /\ n <= stops /\ stops \in Nat
  <2>1. /\ stops \in Nat /\ Len(queue) \in Nat /\ Len(queue) <= Capacity /\ Capacity \in Nat
    BY <1>1, Sizes, PlaceHolders DEF QueueInv, CloseTypes, MessageInv, QueueTypes
  <2>. QED
    BY <2>1 DEF Least
<1>. HIDE DEF n
<1>4. t \in Seq(Items \cup {Stop}) /\ Len(t) = n /\ \A k \in 1..n : t[k] = Stop
  BY <1>3
<1>. HIDE DEF t
<1>5. Count(t, Stop) = n
  <2>1. Occurrences(t, Stop) = 1..n
    BY <1>4 DEF Occurrences
  <2>2. Cardinality(1..n) = n
    BY <1>3, FS_Interval
  <2>. QED
    BY <1>4, <2>1, <2>2, CountIsNatural
<1>6. queue \in Seq(Items \cup {Stop})
  BY <1>1 DEF MessageInv, QueueTypes
<1>7. Count(queue', Stop) = Count(queue, Stop) + n /\ Count(queue, Stop) \in Nat
  BY <1>1, <1>4, <1>5, <1>6, CountConcat, CountIsNatural
<1>8. Remaining' = Remaining
  BY <1>1 DEF Remaining
<1>9. Cardinality(Remaining) \in Nat /\ Cardinality(Workers) \in Nat
  BY MemoryQueueAssumption, FS_Subset, FS_CardinalityType DEF Remaining
<1>10. Count(queue, Stop) + stops = Cardinality(Remaining)
  BY <1>2, <1>3, <1>7 DEF StopsBalance
<1>11. Count(queue', Stop) + stops' = Cardinality(Remaining')
  BY <1>1, <1>3, <1>7, <1>8, <1>9, <1>10
<1>. QED
  BY <1>1, <1>11 DEF StopsBalance

LEMMA StopsBalanced ==
  ASSUME QueueInv, StopsBalance, QueueNext
  PROVE  StopsBalance'
<1>0. /\ worker \in [Workers -> {"getting", "holding", "handling", "deferring", "requeueing",
                                 "exited"}]
      /\ hand \in [Workers -> Items \cup {NoItem}]
      /\ \A w \in Workers : hand[w] = NoItem <=> worker[w] \in {"getting", "exited"}
      /\ Count(queue, Stop) \in Nat
  BY CountIsNatural DEF QueueInv, MessageInv, WorkerTypes, QueueTypes, Hands
<1>a. ASSUME NEW i \in Items, queue' \in {queue, Append(queue, i)}
      PROVE  Count(queue', Stop) = Count(queue, Stop)
  <2>1. Count(Append(queue, i), Stop) = Count(queue, Stop)
    BY MessagesAreNoStops
  <2>2. CASE queue' = queue
    BY <2>2, Zenon
  <2>3. CASE queue' = Append(queue, i)
    BY <2>1, <2>3, Zenon
  <2>. QED
    BY <1>a, <2>2, <2>3
<1>1. ASSUME NEW i \in Items, Publish(i) \/ CancelPublish(i) \/ PutWoken(i)
      PROVE  StopsBalance'
  <2>1. UNCHANGED <<phase, stops, worker>> /\ queue' \in {queue, Append(queue, i)}
    BY <1>1 DEF Publish, CancelPublish, PutWoken, PutAccepted, Enqueue, control
  <2>2. Count(queue', Stop) = Count(queue, Stop)
    BY <1>a, <2>1
  <2>. QED
    BY <2>1, <2>2, StopsKept
<1>2. ASSUME NEW w \in Workers, Work(w)
      PROVE  StopsBalance'
  <2>1. CASE Take(w)
    <3>1. /\ UNCHANGED <<phase, stops>> /\ queue # <<>> /\ Head(queue) \in Items
          /\ queue' = Tail(queue) /\ worker[w] = "getting"
          /\ worker' = [worker EXCEPT ![w] = "holding"]
      BY <2>1 DEF Take, Dequeue, control
    <3>2. Count(queue, Stop) = One(Head(queue) = Stop) + Count(Tail(queue), Stop)
      BY <3>1, MessagesAreNoStops
    <3>3. Count(Tail(queue), Stop) \in Nat
      <4>1. queue \in Seq(Items \cup {Stop})
        BY DEF QueueInv, MessageInv, QueueTypes
      <4>2. Tail(queue) \in Seq(Items \cup {Stop})
        BY <3>1, <4>1, CountTail
      <4>. QED
        BY <4>2, CountIsNatural
    <3>4. Count(queue', Stop) = Count(queue, Stop)
      BY <3>1, <3>2, <3>3, PlaceHolders DEF One
    <3>5. \A v \in Workers : worker'[v] = "exited" <=> worker[v] = "exited"
      BY <1>0, <3>1
    <3>. QED
      BY <3>1, <3>4, <3>5, StopsKept
  <2>2. CASE TakeStop(w)
    BY <2>2, StopTakenBalance
  <2>3. CASE Handle(w) \/ Defer(w)
    <3>1. UNCHANGED <<phase, stops, queue>>
      BY <2>3 DEF Handle, Defer, control
    <3>2. \A v \in Workers : worker'[v] = "exited" <=> worker[v] = "exited"
      BY <1>0, <2>3 DEF Handle, Defer
    <3>. QED
      BY <3>1, <3>2, StopsKept
  <2>4. CASE SettleItem(w) \/ PutBack(w)
    <3>1. /\ worker[w] \in {"handling", "deferring"} /\ UNCHANGED stops
          /\ queue' \in {queue, Append(queue, hand[w])}
          /\ worker' \in {[worker EXCEPT ![w] = "getting"], [worker EXCEPT ![w] = "requeueing"]}
      BY <2>4 DEF SettleItem, PutBack, FinishItem
    <3>2. phase' = phase \/ (phase = "joining" /\ phase' = "joined")
      BY <2>4 DEF SettleItem, PutBack, FinishItem, TaskDone
    <3>3. hand[w] \in Items
      BY <1>0, <3>1
    <3>4. Count(queue', Stop) = Count(queue, Stop)
      BY <1>a, <3>1, <3>3
    <3>5. \A v \in Workers : worker'[v] = "exited" <=> worker[v] = "exited"
      BY <1>0, <3>1
    <3>. QED
      BY <3>1, <3>2, <3>4, <3>5, StopsKept
  <2>5. CASE PutBackWoken(w)
    <3>1. /\ woken # <<>> /\ Head(woken) = w /\ UNCHANGED <<phase, stops>>
          /\ queue' \in {queue, Append(queue, hand[w])}
          /\ worker' \in {worker, [worker EXCEPT ![w] = "getting"]}
      BY <2>5 DEF PutBackWoken, control
    <3>2. worker[w] = "requeueing"
      BY <3>1, HeadWoken DEF QueueInv
    <3>3. hand[w] \in Items
      BY <1>0, <3>2
    <3>4. Count(queue', Stop) = Count(queue, Stop)
      BY <1>a, <3>1, <3>3
    <3>5. \A v \in Workers : worker'[v] = "exited" <=> worker[v] = "exited"
      BY <1>0, <3>1, <3>2
    <3>. QED
      BY <3>1, <3>4, <3>5, StopsKept
  <2>6. CASE WorkerEnds(w)
    BY <2>6 DEF WorkerEnds, Cancelled, StopsBalance, control
  <2>. QED
    BY <1>2, <2>1, <2>2, <2>3, <2>4, <2>5, <2>6 DEF Work
<1>3. CASE Pause \/ Resume
  BY <1>3, StopsKept DEF Pause, Resume
<1>4. ASSUME phase = "open", BeginClose, UNCHANGED <<queue, worker>> PROVE StopsBalance'
  <2>1. Remaining' = Remaining /\ Remaining = Workers /\ Count(queue, Stop) = 0
    BY <1>4 DEF StopsBalance, Remaining
  <2>2. stops' = Cardinality(Workers) /\ phase' \in {"drained", "joining"}
    BY <1>4 DEF BeginClose
  <2>3. Cardinality(Workers) \in Nat
    BY PlaceHolders
  <2>. QED
    BY <1>4, <2>1, <2>2, <2>3 DEF StopsBalance
<1>5. CASE Close
  <2>1. CASE EngineClose
    BY <1>4, <2>1 DEF EngineClose, Closed
  <2>2. CASE SubscriptionClose
    <3>1. UNCHANGED <<queue, worker>>
      BY <2>2 DEF SubscriptionClose
    <3>2. CASE ~Closed /\ BeginClose
      BY <1>4, <3>1, <3>2 DEF Closed
    <3>3. CASE UNCHANGED <<bySub, phase, stops, resumed, early, woken>>
      BY <3>1, <3>3, StopsKept
    <3>. QED
      BY <2>2, <3>2, <3>3 DEF SubscriptionClose
  <2>3. CASE PutStops
    BY <2>3, StopsPutBalance
  <2>4. CASE EndClose \/ DrainTimeout
    BY <2>4 DEF EndClose, DrainTimeout, StopsBalance
  <2>. QED
    BY <1>5, <2>1, <2>2, <2>3, <2>4 DEF Close
<1>. QED
  BY <1>1, <1>2, <1>3, <1>5 DEF QueueNext, Feed

-----------------------------------------------------------------------------
(* Free slots and puts that are awake                                      *)

\* A step keeps a put awake for every free slot if it leaves the queue full, or the puts
\* that wait did so before and it frees no more slots than it wakes puts.
KeepsAwake ==
  Waiting' # {} => \/ Len(queue') >= Capacity
                   \/ Waiting # {} /\ Len(queue') + Awake' >= Len(queue) + Awake

LEMMA WakeupsKept ==
  ASSUME QueueInv, QueueInv', CloserStands', NoWakeupLost, KeepsAwake
  PROVE  NoWakeupLost'
<1>. SUFFICES ASSUME Waiting' # {} PROVE Len(queue') + Awake' >= Capacity
  BY DEF NoWakeupLost
<1>1. /\ Len(queue) \in Nat /\ Len(woken) \in Nat /\ Len(queue') \in Nat /\ Len(woken') \in Nat
      /\ line' \in Seq(Puts) /\ woken' \in Seq(Puts) /\ Capacity \in Nat
  BY LenProperties, PlaceHolders DEF QueueInv, MessageInv, LineTypes, QueueTypes
<1>2. Awake' \in Int /\ Awake \in Int
  BY <1>1 DEF Awake
<1>3. Awake' >= 0
  <2>1. CASE phase' = "joined"
    <3>1. stops' > 0
      BY <2>1 DEF QueueInv, CloseTypes
    <3>2. Standing(line', woken', Closer) = 1 /\ Count(line', Closer) = 0
      BY <2>1, <3>1 DEF CloserStands
    <3>3. Count(woken', Closer) \in Nat
      BY <1>1, CountIsNatural
    <3>4. Count(woken', Closer) = 1
      BY <3>2, <3>3 DEF Standing
    <3>5. PICK n \in 1..Len(woken') : woken'[n] = Closer
      BY <1>1, <3>4, CountNone
    <3>6. Len(woken') >= 1
      BY <1>1, <3>5
    <3>. QED
      BY <1>1, <2>1, <3>6 DEF Awake
  <2>2. CASE phase' # "joined"
    BY <1>1, <2>2 DEF Awake
  <2>. QED
    BY <2>1, <2>2
<1>4. CASE Len(queue') >= Capacity
  BY <1>1, <1>2, <1>3, <1>4
<1>5. CASE Waiting # {} /\ Len(queue') + Awake' >= Len(queue) + Awake
  <2>1. Len(queue) + Awake >= Capacity
    BY <1>5 DEF NoWakeupLost
  <2>. HIDE DEF Awake
  <2>. QED
    BY <1>1, <1>2, <1>5, <2>1
<1>. QED
  BY <1>4, <1>5 DEF KeepsAwake

\* Lengths, and what waits as long as the line does not change.
LEMMA SameLine ==
  ASSUME QueueInv
  PROVE  /\ Len(queue) \in Nat /\ Len(woken) \in Nat /\ Len(queue) <= Capacity
         /\ Capacity \in Nat \ {0}
         /\ line' = line /\ (phase' = phase \/ phase # "gathering") /\ Waiting' # {} => Waiting # {}
         /\ woken # <<>> => Len(Tail(woken)) = Len(woken) - 1
<1>1. /\ Len(queue) \in Nat /\ Len(woken) \in Nat /\ Len(queue) <= Capacity
      /\ Capacity \in Nat \ {0} /\ woken \in Seq(Puts)
  BY LenProperties, PlaceHolders DEF QueueInv, MessageInv, LineTypes, QueueTypes
<1>2. line' = line /\ (phase' = phase \/ phase # "gathering") /\ Waiting' # {} => Waiting # {}
  BY DEF Waiting
<1>3. woken # <<>> => Len(Tail(woken)) = Len(woken) - 1
  BY <1>1, CountTail
<1>. QED
  BY <1>1, <1>2, <1>3

\* The put that is woken runs, or stands in line again because the queue is full.
LEMMA PutKeepsAwake ==
  ASSUME QueueInv, NEW i \in Items, woken # <<>>, woken' = Tail(woken), phase' = phase,
         \/ Full /\ queue' = queue
         \/ ~Full /\ line' = line /\ queue' = Append(queue, i)
  PROVE  KeepsAwake
<1>1. /\ Len(queue) \in Nat /\ Len(woken) \in Nat /\ Capacity \in Nat
      /\ Len(woken') = Len(woken) - 1
  BY SameLine
<1>2. CASE Full /\ queue' = queue
  BY <1>2 DEF KeepsAwake, Full
<1>3. CASE line' = line /\ queue' = Append(queue, i)
  <2>1. queue \in Seq(Items \cup {Stop})
    BY DEF QueueInv, MessageInv, QueueTypes
  <2>2. Len(queue') = Len(queue) + 1
    BY <1>3, <2>1, AppendProperties
  <2>3. Awake' = Awake - 1 /\ Awake \in Int
    BY <1>1 DEF Awake
  <2>4. Waiting' # {} => Waiting # {}
    BY <1>3, SameLine
  <2>. HIDE DEF Awake
  <2>. QED
    BY <1>1, <2>2, <2>3, <2>4 DEF KeepsAwake
<1>. QED
  BY <1>2, <1>3

LEMMA FeedKeepsAwake ==
  ASSUME QueueInv, NEW i \in Items, Publish(i) \/ CancelPublish(i) \/ PutWoken(i)
  PROVE  KeepsAwake
<1>1. /\ Len(queue) \in Nat /\ Len(woken) \in Nat /\ Capacity \in Nat
      /\ queue \in Seq(Items \cup {Stop}) /\ LineTypes
  BY SameLine DEF QueueInv, MessageInv, QueueTypes
<1>2. ASSUME Publish(i) PROVE KeepsAwake
  <2>1. UNCHANGED <<woken, phase>>
    BY <1>2 DEF Publish, control
  <2>2. Awake' = Awake /\ Awake \in Int
    BY <1>1, <2>1 DEF Awake
  <2>. HIDE DEF Awake
  <2>3. CASE Enqueue(i) /\ UNCHANGED line
    <3>1. Len(queue') = Len(queue) + 1
      BY <1>1, <2>3, AppendProperties DEF Enqueue
    <3>2. Waiting' # {} => Waiting # {}
      BY <2>1, <2>3, SameLine
    <3>. QED
      BY <1>1, <2>2, <3>1, <3>2 DEF KeepsAwake
  <2>4. CASE Full /\ UNCHANGED queue
    BY <2>4 DEF KeepsAwake, Full
  <2>. QED
    BY <1>2, <2>3, <2>4 DEF Publish
<1>3. ASSUME CancelPublish(i) PROVE KeepsAwake
  <2>1. LeaveLine(i) /\ phase' = phase /\ queue' = queue
    BY <1>3 DEF CancelPublish, control
  <2>2. Waiting' # {} => /\ Waiting # {}
                         /\ \/ Len(woken') = Len(woken)
                            \/ Full /\ Len(woken') = Len(woken) - 1
    BY <1>1, <2>1, LeaveTakes
  <2>3. CASE Full
    BY <2>1, <2>3 DEF KeepsAwake, Full
  <2>4. CASE ~Full
    BY <1>1, <2>1, <2>2, <2>4 DEF KeepsAwake, Awake
  <2>. QED
    BY <2>3, <2>4
<1>4. ASSUME PutWoken(i) PROVE KeepsAwake
  BY <1>4, PutKeepsAwake DEF PutWoken, PutAccepted, Enqueue, control
<1>. QED
  BY <1>2, <1>3, <1>4

LEMMA WorkKeepsAwake ==
  ASSUME QueueInv, NEW w \in Workers, Work(w)
  PROVE  KeepsAwake
<1>1. /\ Len(queue) \in Nat /\ Len(woken) \in Nat /\ Capacity \in Nat
      /\ queue \in Seq(Items \cup {Stop}) /\ LineTypes
      /\ line \in Seq(Puts) /\ woken \in Seq(Puts) /\ Closer \in Puts
      /\ hand \in [Workers -> Items \cup {NoItem}]
      /\ hand[w] = NoItem <=> worker[w] \in {"getting", "exited"}
  BY SameLine DEF QueueInv, MessageInv, QueueTypes, LineTypes, Puts, WorkerTypes, Hands
<1>2. ASSUME queue # <<>>, Dequeue, phase' = phase PROVE KeepsAwake
  <2>1. WakeNext(woken) /\ queue' = Tail(queue)
    BY <1>2 DEF Dequeue
  <2>2. Len(queue') = Len(queue) - 1
    BY <1>1, <1>2, <2>1, CountTail
  <2>3. /\ Waiting = {} => line' = <<>>
        /\ Waiting # {} => Len(woken') = Len(woken) + 1
    BY <1>1, <2>1, WakeTakes
  <2>4. Waiting = {} => Waiting' = {}
    BY <2>3 DEF Waiting
  <2>. QED
    BY <1>1, <1>2, <2>2, <2>3, <2>4 DEF KeepsAwake, Awake
<1>3. CASE Take(w) \/ TakeStop(w)
  BY <1>2, <1>3 DEF Take, TakeStop, control
<1>4. CASE Handle(w) \/ Defer(w)
  <2>1. UNCHANGED <<queue, line, woken, phase>>
    BY <1>4 DEF Handle, Defer, control
  <2>2. (Waiting' # {} => Waiting # {}) /\ Awake' = Awake
    BY <2>1, SameLine DEF Awake
  <2>. QED
    BY <1>1, <2>1, <2>2 DEF KeepsAwake, Awake
<1>5. ASSUME TaskDone, UNCHANGED <<queue, line>>, phase # "gathering" PROVE KeepsAwake
  <2>1. Waiting' # {} => Waiting # {}
    BY <1>5, SameLine
  <2>2. CASE unfinished = 1 /\ phase = "joining"
    <3>1. phase' = "joined" /\ woken' = Append(woken, Closer)
      BY <1>5, <2>2 DEF TaskDone
    <3>2. Len(woken') = Len(woken) + 1
      BY <1>1, <3>1, AppendProperties
    <3>. QED
      BY <1>1, <1>5, <2>1, <2>2, <3>1, <3>2 DEF KeepsAwake, Awake
  <2>3. CASE ~(unfinished = 1 /\ phase = "joining")
    <3>1. UNCHANGED <<phase, woken>>
      BY <1>5, <2>3 DEF TaskDone
    <3>. QED
      BY <1>1, <1>5, <2>1, <3>1 DEF KeepsAwake, Awake
  <2>. QED
    BY <2>2, <2>3
<1>6. CASE SettleItem(w)
  BY <1>5, <1>6 DEF SettleItem, FinishItem, Cancelled
<1>7. CASE PutBack(w)
  <2>1. CASE FinishItem(w, "dropped") /\ UNCHANGED <<queue, line>>
    BY <1>5, <1>7, <2>1 DEF PutBack, FinishItem, Cancelled
  <2>2. CASE queue' = Append(queue, hand[w]) /\ UNCHANGED <<line, woken, phase>>
    <3>1. hand[w] \in Items
      BY <1>1, <1>7 DEF PutBack
    <3>2. Len(queue') = Len(queue) + 1
      BY <1>1, <2>2, <3>1, AppendProperties
    <3>3. Waiting' # {} => Waiting # {}
      BY <2>2, SameLine
    <3>. QED
      BY <1>1, <2>2, <3>2, <3>3 DEF KeepsAwake, Awake
  <2>3. CASE Full /\ UNCHANGED queue
    BY <2>3 DEF KeepsAwake, Full
  <2>. QED
    BY <1>7, <2>1, <2>2, <2>3 DEF PutBack
<1>8. CASE PutBackWoken(w)
  <2>1. /\ woken # <<>> /\ Head(woken) = w /\ woken' = Tail(woken) /\ phase' = phase
        /\ \/ Full /\ queue' = queue
           \/ ~Full /\ line' = line /\ queue' = Append(queue, hand[w])
    BY <1>8 DEF PutBackWoken, control
  <2>2. worker[w] = "requeueing"
    BY <2>1, HeadWoken DEF QueueInv
  <2>3. hand[w] \in Items
    BY <1>1, <2>2
  <2>. QED
    BY <2>1, <2>3, PutKeepsAwake
<1>9. CASE WorkerEnds(w)
  <2>1. phase' = phase /\ queue' = queue
    BY <1>9 DEF WorkerEnds, control
  <2>2. CASE UNCHANGED <<line, woken>>
    <3>1. Waiting' # {} => Waiting # {}
      BY <2>1, <2>2, SameLine
    <3>. QED
      BY <1>1, <2>1, <2>2, <3>1 DEF KeepsAwake, Awake
  <2>3. CASE LeaveLine(w)
    <3>1. Waiting' # {} => /\ Waiting # {}
                           /\ \/ Len(woken') = Len(woken)
                              \/ Full /\ Len(woken') = Len(woken) - 1
      BY <1>1, <2>1, <2>3, LeaveTakes
    <3>2. CASE Full
      BY <2>1, <3>2 DEF KeepsAwake, Full
    <3>3. CASE ~Full
      BY <1>1, <2>1, <3>1, <3>3 DEF KeepsAwake, Awake
    <3>. QED
      BY <3>2, <3>3
  <2>. QED
    BY <1>9, <2>2, <2>3 DEF WorkerEnds
<1>. QED
  BY <1>3, <1>4, <1>6, <1>7, <1>8, <1>9 DEF Work

LEMMA CloseKeepsAwake ==
  ASSUME QueueInv, Close
  PROVE  KeepsAwake
<1>1. /\ Len(queue) \in Nat /\ Len(woken) \in Nat /\ Capacity \in Nat /\ Len(queue) <= Capacity
      /\ queue \in Seq(Items \cup {Stop}) /\ MessageInv
      /\ line \in Seq(Puts) /\ woken \in Seq(Puts) /\ Closer \in Puts /\ stops \in Nat
  BY SameLine DEF QueueInv, MessageInv, QueueTypes, LineTypes, Puts, CloseTypes
<1>2. ASSUME phase = "open", BeginClose, UNCHANGED <<queue, line>> PROVE KeepsAwake
  <2>1. Waiting' # {} => Waiting # {}
    BY <1>2, SameLine
  <2>2. phase' # "joined" /\ woken' \in {woken, <<Closer>> \o woken}
    BY <1>2 DEF BeginClose
  <2>3. Len(<<Closer>> \o woken) = 1 + Len(woken)
    <3>1. <<Closer>> \in Seq(Puts) /\ Len(<<Closer>>) = 1
      BY <1>1
    <3>. QED
      BY <1>1, <3>1, ConcatProperties
  <2>. QED
    BY <1>1, <1>2, <2>1, <2>2, <2>3 DEF KeepsAwake, Awake
<1>3. CASE EngineClose
  BY <1>2, <1>3 DEF EngineClose, Closed
<1>4. CASE SubscriptionClose
  <2>1. UNCHANGED <<queue, line>>
    BY <1>4 DEF SubscriptionClose
  <2>2. CASE ~Closed /\ BeginClose
    BY <1>2, <2>1, <2>2 DEF Closed
  <2>3. CASE UNCHANGED <<bySub, phase, stops, resumed, early, woken>>
    <3>1. Waiting' # {} => Waiting # {}
      BY <2>1, <2>3, SameLine
    <3>. QED
      BY <1>1, <2>1, <2>3, <3>1 DEF KeepsAwake, Awake
  <2>. QED
    BY <1>4, <2>2, <2>3 DEF SubscriptionClose
<1>5. CASE PutStops
  <2>. DEFINE n == Least(stops, Capacity - Len(queue))
              t == [k \in 1..n |-> Stop]
  <2>1. /\ woken # <<>> /\ Head(woken) = Closer /\ woken' = Tail(woken)
        /\ queue' = queue \o t /\ line' = IF n < stops THEN Append(line, Closer) ELSE line
        /\ phase' = "drained"
    BY <1>5 DEF PutStops
  <2>2. phase \in {"joined", "drained"} /\ stops > 0
    BY <1>1, <2>1, HeadWoken
  <2>3. /\ n \in Nat /\ (n < stops => n = Capacity - Len(queue))
        /\ ~(n < stops) => n >= 1
    BY <1>1, <2>2 DEF Least
  <2>. HIDE DEF n
  <2>4. t \in Seq(Items \cup {Stop}) /\ Len(t) = n
    BY <2>3
  <2>. HIDE DEF t
  <2>5. Len(queue') = Len(queue) + n
    BY <1>1, <2>1, <2>4, ConcatProperties
  <2>6. CASE n < stops
    BY <1>1, <2>3, <2>5, <2>6 DEF KeepsAwake
  <2>7. CASE ~(n < stops)
    <3>1. line' = line
      BY <2>1, <2>7
    <3>2. Waiting' # {} => Waiting # {}
      BY <2>2, <3>1, SameLine
    <3>3. Len(woken') = Len(woken) - 1
      BY <2>1, SameLine
    <3>4. Awake' >= Awake - 1 /\ Awake' \in Int /\ Awake \in Int
      BY <1>1, <2>1, <3>3 DEF Awake
    <3>. HIDE DEF Awake
    <3>. QED
      BY <1>1, <2>3, <2>5, <2>7, <3>2, <3>4 DEF KeepsAwake
  <2>. QED
    BY <2>6, <2>7
<1>6. CASE EndClose
  <2>1. UNCHANGED <<queue, line, woken>> /\ phase \in {"drained", "gathering"} /\ phase' = "closed"
    BY <1>6 DEF EndClose
  <2>2. \A w \in Workers : worker[w] = "exited"
    BY <1>6 DEF EndClose
  <2>3. ASSUME NEW w \in Workers PROVE \A m \in 1..Len(line) : line[m] # w
    <3>1. Standing(line, woken, w) <= One(worker[w] = "requeueing")
      BY <1>1 DEF MessageInv, PutsStand
    <3>2. Count(line, w) \in Nat /\ Count(woken, w) \in Nat
      BY <1>1, CountIsNatural
    <3>3. Count(line, w) = 0
      BY <2>2, <3>1, <3>2 DEF Standing, One
    <3>. QED
      BY <1>1, <3>3, CountNone
  <2>4. Waiting' # {} => Waiting # {}
    BY <2>1, <2>3 DEF Waiting
  <2>. QED
    BY <1>1, <2>1, <2>4 DEF KeepsAwake, Awake
<1>7. CASE DrainTimeout
  <2>1. UNCHANGED <<queue, line>> /\ phase' = "gathering" /\ phase \in {"joining", "joined"}
    BY <1>7 DEF DrainTimeout
  <2>2. Waiting' # {} => Waiting # {}
    BY <2>1, SameLine
  <2>3. CASE phase = "joining" /\ UNCHANGED woken
    BY <1>1, <2>1, <2>2, <2>3 DEF KeepsAwake, Awake
  <2>4. CASE phase = "joined" /\ \E m \in 1..Len(woken) : woken' = RemoveAt(woken, m)
    <3>1. Len(woken') = Len(woken) - 1
      BY <1>1, <2>4, RemovedShorter
    <3>. QED
      BY <1>1, <2>1, <2>2, <2>4, <3>1 DEF KeepsAwake, Awake
  <2>. QED
    BY <1>7, <2>3, <2>4 DEF DrainTimeout
<1>. QED
  BY <1>3, <1>4, <1>5, <1>6, <1>7 DEF Close

-----------------------------------------------------------------------------
(* The theorems                                                            *)

LEMMA CloseInitInv == QueueInit => CloseInv
<1>. SUFFICES ASSUME QueueInit PROVE CloseInv
  OBVIOUS
<1>1. QueueInv
  BY QueueInitInv
<1>2. /\ queue = <<>> /\ line = <<>> /\ phase = "open" /\ worker = [w \in Workers |-> "getting"]
  BY DEF QueueInit
<1>3. CloserStands /\ NoneRequeues
  BY <1>2 DEF CloserStands, NoneRequeues
<1>4. Count(queue, Stop) = 0 /\ Remaining = Workers
  BY <1>2, CountEmpty DEF Remaining
<1>5. StopsBalance
  BY <1>2, <1>4 DEF StopsBalance
<1>6. Waiting = {}
  BY <1>2 DEF Waiting
<1>. QED
  BY <1>1, <1>3, <1>5, <1>6 DEF CloseInv, NoWakeupLost

LEMMA CloseNextInv == CloseInv /\ [QueueNext]_queueVars => CloseInv'
<1>. SUFFICES ASSUME CloseInv, [QueueNext]_queueVars PROVE CloseInv'
  OBVIOUS
<1>1. QueueInv /\ CloserStands /\ NoneRequeues /\ StopsBalance /\ NoWakeupLost
  BY DEF CloseInv
<1>2. QueueInv'
  BY <1>1, QueueNextInv
<1>3. CASE QueueNext
  <2>1. CASE Feed
    <3>1. CloserStands' /\ KeepsAwake
      BY <1>1, <2>1, CloserStandsAside, FeedKeepsAwake DEF Feed
    <3>. QED
      BY <1>1, <1>2, <1>3, <3>1, NoneRequeuesStill, StopsBalanced, WakeupsKept DEF CloseInv
  <2>2. CASE Pause \/ Resume
    <3>1. UNCHANGED <<queue, line, woken, phase, stops>>
      BY <2>2 DEF Pause, Resume
    <3>2. CloserStands'
      BY <1>1, <3>1 DEF CloserStands
    <3>3. NoWakeupLost'
      BY <1>1, <3>1 DEF NoWakeupLost, Waiting, Awake
    <3>. QED
      BY <1>1, <1>2, <1>3, <3>2, <3>3, NoneRequeuesStill, StopsBalanced DEF CloseInv
  <2>3. CASE Close
    <3>1. CloserStands' /\ KeepsAwake
      BY <1>1, <2>3, CloserStandsUp, CloseKeepsAwake
    <3>. QED
      BY <1>1, <1>2, <1>3, <3>1, NoneRequeuesStill, StopsBalanced, WakeupsKept DEF CloseInv
  <2>4. ASSUME NEW w \in Workers, Work(w)
        PROVE  CloseInv'
    <3>1. CloserStands' /\ KeepsAwake
      BY <1>1, <2>4, CloserStandsBy, WorkKeepsAwake
    <3>. QED
      BY <1>1, <1>2, <1>3, <3>1, NoneRequeuesStill, StopsBalanced, WakeupsKept DEF CloseInv
  <2>. QED
    BY <1>3, <2>1, <2>2, <2>3, <2>4 DEF QueueNext
<1>4. CASE UNCHANGED queueVars
  <2>1. UNCHANGED <<queue, line, woken, phase, stops, worker>>
    BY <1>4 DEF queueVars
  <2>2. CloserStands' /\ NoneRequeues'
    BY <1>1, <2>1 DEF CloserStands, NoneRequeues
  <2>3. StopsBalance'
    BY <1>1, <2>1, StopsKept
  <2>4. NoWakeupLost'
    BY <1>1, <2>1 DEF NoWakeupLost, Waiting, Awake
  <2>. QED
    BY <1>2, <2>2, <2>3, <2>4 DEF CloseInv
<1>. QED
  BY <1>3, <1>4

\* A worker that is left while nobody requeues or may go on waits for an empty queue: close
\* has Nones to put, and either it or a put before it is awake.
LEMMA CloseInvGoesOn == CloseInv => CloseGoesOn
<1>. SUFFICES ASSUME CloseInv PROVE CloseGoesOn
  OBVIOUS
<1>1. /\ QueueInv /\ MessageInv /\ NoWakeupLost
      /\ queue \in Seq(Items \cup {Stop}) /\ line \in Seq(Puts) /\ woken \in Seq(Puts)
      /\ stops \in Nat /\ Count(queue, Stop) \in Nat
      /\ Count(line, Closer) \in Nat /\ Count(woken, Closer) \in Nat
      /\ phase = "drained" => Count(queue, Stop) + stops = Cardinality(Remaining)
  BY CountIsNatural DEF CloseInv, QueueInv, MessageInv, QueueTypes, LineTypes, CloseTypes,
                        StopsBalance
<1>2. IsFiniteSet(Remaining) /\ Cardinality(Remaining) \in Nat
  BY MemoryQueueAssumption, FS_Subset, FS_CardinalityType DEF Remaining
<1>3. ASSUME phase = "drained", Remaining = {} PROVE stops = 0
  <2>1. Cardinality(Remaining) = 0
    BY <1>2, <1>3, FS_EmptySet
  <2>. QED
    BY <1>1, <1>3, <2>1
<1>4. ASSUME phase = "drained", resumed, Remaining # {}, ~ \E w \in Workers : WorkerMayGoOn(w)
      PROVE  woken # <<>> /\ Head(woken) \in Items \cup {Closer}
  <2>1. PICK w \in Workers : worker[w] # "exited"
    BY <1>4 DEF Remaining
  <2>2. /\ worker[w] \in {"getting", "holding", "handling", "deferring", "requeueing", "exited"}
        /\ worker[w] # "requeueing"
    BY <1>1, <1>4 DEF CloseInv, NoneRequeues, MessageInv, WorkerTypes
  <2>3. ~WorkerMayGoOn(w)
    BY <1>4
  <2>4. queue = <<>>
    BY <1>4, <2>1, <2>2, <2>3 DEF WorkerMayGoOn
  <2>5. Count(queue, Stop) = 0 /\ Len(queue) = 0
    BY <2>4, CountEmpty
  <2>6. Cardinality(Remaining) # 0
    BY <1>2, <1>4, FS_EmptySet
  <2>7. stops > 0
    BY <1>1, <1>4, <2>5, <2>6
  <2>8. Standing(line, woken, Closer) = 1
    BY <1>4, <2>7 DEF CloseInv, CloserStands
  <2>9. woken # <<>>
    <3>1. CASE Count(woken, Closer) # 0
      BY <3>1, CountEmpty
    <3>2. CASE Count(woken, Closer) = 0
      <4>1. Count(line, Closer) # 0
        BY <1>1, <2>8, <3>2 DEF Standing
      <4>2. \E m \in 1..Len(line) : line[m] = Closer
        BY <1>1, <4>1, CountNone
      <4>3. Waiting # {}
        BY <1>4, <4>2 DEF Waiting
      <4>4. Len(queue) + Awake >= Capacity
        BY <1>1, <4>3 DEF NoWakeupLost
      <4>5. Len(woken) \in Nat /\ Capacity \in Nat \ {0}
        BY <1>1, SameLine
      <4>6. Len(woken) >= 1
        BY <1>4, <2>5, <4>4, <4>5 DEF Awake
      <4>. QED
        BY <4>6
    <3>. QED
      BY <3>1, <3>2
  <2>10. Head(woken) \in Puts /\ (Head(woken) \in Workers => worker[Head(woken)] = "requeueing")
    BY <1>1, <2>9, HeadWoken
  <2>11. Head(woken) \notin Workers
    BY <1>4, <2>10 DEF CloseInv, NoneRequeues
  <2>. QED
    BY <2>9, <2>10, <2>11 DEF Puts
<1>5. ASSUME phase = "joined" PROVE Count(woken, Closer) = 1
  <2>1. stops > 0
    BY <1>1, <1>5 DEF QueueInv, CloseTypes
  <2>2. Standing(line, woken, Closer) = 1 /\ Count(line, Closer) = 0
    BY <1>5, <2>1 DEF CloseInv, CloserStands
  <2>. QED
    BY <1>1, <2>2 DEF Standing
<1>. QED
  BY <1>1, <1>3, <1>4, <1>5 DEF CloseGoesOn

\* Whichever puts overtake, wait again, are cancelled or end with their worker: while puts
\* wait in the line of the memory consumer's queue, every free slot has a put that is awake
\* and will take it (asyncio.Queue under enqueue, requeue, _worker and close).
THEOREM WakeupsAreNeverLost == QueueSpec => []NoWakeupLost
<1>1. CloseInv => NoWakeupLost
  BY DEF CloseInv
<1>. QED
  BY <1>1, CloseInitInv, CloseNextInv, PTL DEF QueueSpec

\* A close whose join has returned is never stuck, for any capacity and number of workers:
\* it is awake, then there is a None for every worker that is left, and until all are gone a
\* worker or the first put that is awake may go on, unless the consumer is paused (close,
\* _worker).
THEOREM CloseNeverGetsStuck == QueueSpec => []CloseGoesOn
BY CloseInitInv, CloseNextInv, CloseInvGoesOn, PTL DEF QueueSpec
=============================================================================
