------------------------------ MODULE Dispatch ------------------------------
(***************************************************************************)
(* Who is called for a message, and in which order: Router.dispatch and    *)
(* Router.destinations (broka.routing), MiddlewarePipeline.run             *)
(* (broka.middleware) and InternalEventEmitter.emit (broka.events).  The   *)
(* three keep registrations that may change while calls are under way, and *)
(* take a sorted snapshot of those that match when a call begins; family   *)
(* says which one a behaviour is about.  One action is the code from one   *)
(* await to the next; handlers, layers and listeners are the application's.*)
(***************************************************************************)
EXTENDS Integers, Sequences, FiniteSets, SequencesExt

CONSTANTS
  Patterns,      \* patterns as given: [kind, value, version, headers]; kind None is inferred
  Types,         \* Python types, values of patterns
  Messages,      \* messages: [route, version, headers, types]; a route is its segments
  Ranks,         \* priorities of handlers and rules, orders of layers
  Names,         \* explicit names; no generated name is among them
  Sinks,         \* Destinations of rules
  Calls,         \* callers, each with one call at a time
  None,
  HistoryLimit,  \* failure_history_limit
  MaxSequence,   \* bound: registrations, for each family
  MaxDisturbance \* bound: failures, abandoned calls and clear

ASSUME DispatchAssumption == Ranks \subseteq Int /\ HistoryLimit \in Nat

VARIABLES
  family,        \* "router", "middleware" or "emitter"
  regs,          \* registrations
  rules,         \* destination rules
  sequence,
  pc,            \* of each call: "idle", "running", "returned", "raised" or "cancelled"
  snap,          \* its snapshot
  called,        \* handlers called so far, or layers entered and not yet left
  inside,        \* the terminal callable of the pipeline runs
  pending,       \* positions of listeners that have not settled
  failed,        \* positions of listeners that failed
  failures,      \* the deque of ListenerFailure
  found,         \* what destinations returned last
  matched,       \* history: registrations that matched when the call began
  log,           \* history: every failure recorded since clear
  disturbance

dispatchVars == <<family, regs, rules, sequence, pc, snap, called, inside, pending, failed,
                  failures, found, matched, log, disturbance>>
callVars == <<pc, snap, called, inside, pending, failed, matched>>

Disturb == disturbance < MaxDisturbance /\ disturbance' = disturbance + 1

-----------------------------------------------------------------------------
(* Patterns, matching and order                                            *)

Globs(value) == {i \in DOMAIN value : value[i] = "*"}

\* The kind of HandlerPattern(value).
InferredKind(value) ==
  IF value \in Types THEN "type"
  ELSE IF Len(value) > 1 /\ Globs(value) = {Len(value)} THEN "namespace"
  ELSE IF Globs(value) # {} THEN "wildcard"
  ELSE "exact"

\* as_pattern: a Route is exact and leaves the headers aside.
AsPattern(p) ==
  [kind |-> CASE p.kind = "route" -> "exact" [] p.kind = None -> InferredKind(p.value)
              [] OTHER -> p.kind,
   value |-> p.value, version |-> p.version,
   headers |-> IF p.kind = "route" THEN {} ELSE p.headers]

\* HandlerPattern does not raise RoutingError.
WellFormed(pattern) ==
  /\ pattern.version = None \/ pattern.version >= 1
  /\ pattern.value \in Types <=> pattern.kind = "type"
  /\ pattern.kind = "headers" => pattern.headers # {}

\* fnmatchcase, for at most one *, which stands for any segments
GlobMatches(value, route) ==
  IF Globs(value) = {} THEN route = value
  ELSE LET n == CHOOSE i \in Globs(value) : TRUE
       IN  /\ Len(route) >= Len(value)
           /\ IsPrefix(SubSeq(value, 1, n - 1), route)
           /\ IsSuffix(SubSeq(value, n + 1, Len(value)), route)

Matches(pattern, m) ==
  /\ pattern.version \in {None, m.version}
  /\ pattern.headers \subseteq m.headers
  /\ CASE pattern.kind = "type" -> pattern.value \in m.types
       [] pattern.kind = "exact" -> m.route = pattern.value
       [] pattern.kind = "namespace" -> IsStrictPrefix(Front(pattern.value), m.route)
       [] pattern.kind \in {"wildcard", "headers"} -> GlobMatches(pattern.value, m.route)

\* The sort keys: (-priority, sequence) and (order, sequence); the emitter has
\* the listeners of the name before those of "*", each as they subscribed.
Before(r, s) ==
  LET Wild(x) == IF x.pattern.kind = "wildcard" THEN 1 ELSE 0
      first == CASE family = "router" -> s.rank - r.rank
                 [] family = "middleware" -> r.rank - s.rank
                 [] family = "emitter" -> Wild(r) - Wild(s)
  IN  first < 0 \/ (first = 0 /\ r.seq < s.seq)

\* The sorted list of S.
Sorted(S) ==
  {list \in [1..Cardinality(S) -> S] :
     /\ Range(list) = S
     /\ \A i, j \in DOMAIN list : i < j => Before(list[i], list[j])}

\* Positions in their order.
Increasing(S) ==
  {order \in [1..Cardinality(S) -> S] :
     /\ Range(order) = S
     /\ \A i, j \in DOMAIN order : i < j => order[i] < order[j]}

Matching(m) == {r \in regs : Matches(r.pattern, m)}

-----------------------------------------------------------------------------
(* Registrations                                                           *)

Registered(name) == \E r \in regs : r.name = name

\* Router.register: a name given twice is refused, a generated one is made
\* unique by the sequence.  A malformed pattern is refused after the sequence moved.
RegisterHandler ==
  /\ family = "router"
  /\ sequence < MaxSequence[family]
  /\ sequence' = sequence + 1
  /\ \E p \in Patterns, rank \in Ranks, name \in Names \cup {None} :
       IF (name # None /\ Registered(name)) \/ ~WellFormed(AsPattern(p))
         THEN UNCHANGED regs
         ELSE regs' = regs \cup {[name |-> IF name # None THEN name ELSE sequence + 1,
                                  pattern |-> AsPattern(p), rank |-> rank, seq |-> sequence + 1,
                                  critical |-> FALSE]}
  /\ UNCHANGED <<family, rules, callVars, failures, found, log, disturbance>>

\* MiddlewarePipeline.register: a name is never registered twice.
RegisterLayer ==
  /\ family = "middleware"
  /\ sequence < MaxSequence[family]
  /\ sequence' = sequence + 1
  /\ \E p \in Patterns, order \in Ranks, name \in Names \cup {None} :
       IF Registered(name) \/ ~WellFormed(AsPattern(p))
         THEN UNCHANGED regs
         ELSE regs' = regs \cup {[name |-> name, pattern |-> AsPattern(p), rank |-> order,
                                  seq |-> sequence + 1, critical |-> FALSE]}
  /\ UNCHANGED <<family, rules, callVars, failures, found, log, disturbance>>

\* InternalEventEmitter.subscribe: to one name or to "*".
Subscribe ==
  /\ family = "emitter"
  /\ sequence < MaxSequence[family]
  /\ sequence' = sequence + 1
  /\ \E p \in Patterns, critical \in BOOLEAN :
       /\ p.kind \in {"route", None} /\ p.version = None /\ p.value \notin Types
       /\ regs' = regs \cup {[name |-> sequence + 1, pattern |-> AsPattern(p), rank |-> 0,
                              seq |-> sequence + 1, critical |-> critical]}
  /\ UNCHANGED <<family, rules, callVars, failures, found, log, disturbance>>

\* unregister and unsubscribe, also while calls with the registration run.
UnregisterOne ==
  /\ \E r \in regs : regs' = regs \ {r}
  /\ UNCHANGED <<family, rules, sequence, callVars, failures, found, log, disturbance>>

Clear ==
  /\ regs \cup rules # {} \/ failures # <<>>
  /\ Disturb
  /\ regs' = {} /\ rules' = {} /\ failures' = <<>> /\ log' = <<>>
  /\ UNCHANGED <<family, sequence, callVars, found>>

MapDestination ==
  /\ family = "router"
  /\ sequence < MaxSequence[family]
  /\ sequence' = sequence + 1
  /\ \E p \in Patterns, d \in Sinks, priority \in Ranks :
       rules' = IF ~WellFormed(AsPattern(p)) THEN rules
                ELSE rules \cup {[pattern |-> AsPattern(p), destination |-> d, rank |-> priority,
                                  seq |-> sequence + 1]}
  /\ UNCHANGED <<family, regs, callVars, failures, found, log, disturbance>>

UnmapDestination ==
  /\ \E r \in rules : rules' = rules \ {r}
  /\ UNCHANGED <<family, regs, sequence, callVars, failures, found, log, disturbance>>

\* Router.destinations: in the order of the rules, each destination once.
ResolveDestinations ==
  /\ rules # {}
  /\ \E m \in Messages : \E hits \in Sorted({r \in rules : Matches(r.pattern, m)}) :
       LET news == {n \in DOMAIN hits :
                      \A k \in 1..(n - 1) : hits[k].destination # hits[n].destination}
       IN  \E order \in Increasing(news) :
             found' = [list |-> [k \in DOMAIN order |-> hits[order[k]].destination],
                       rules |-> Range(hits)]
  /\ UNCHANGED <<family, regs, rules, sequence, callVars, failures, log, disturbance>>

-----------------------------------------------------------------------------
(* Calls                                                                   *)

\* dispatch, run or emit up to its first await: the snapshot, and the first
\* handler, the outermost layer or all of the listeners.
Begin(c) ==
  /\ pc[c] # "running"
  /\ failed' = [failed EXCEPT ![c] = {}]
  /\ \E m \in Messages : \E list \in Sorted(Matching(m)) :
       /\ snap' = [snap EXCEPT ![c] = list]
       /\ matched' = [matched EXCEPT ![c] = Matching(m)]
       /\ called' = [called EXCEPT ![c] = IF family = "emitter" \/ list = <<>> THEN <<>>
                                          ELSE <<Head(list)>>]
       /\ inside' = [inside EXCEPT ![c] = family = "middleware" /\ list = <<>>]
       /\ pending' = [pending EXCEPT ![c] = IF family = "emitter" THEN DOMAIN list ELSE {}]
       /\ pc' = [pc EXCEPT ![c] = IF list = <<>> /\ family # "middleware" THEN "returned"
                                  ELSE "running"]
  /\ UNCHANGED <<family, regs, rules, sequence, failures, found, log, disturbance>>

\* Faulty variant, for mutation: the next handler is looked up in the registry.
HandlerReturnsLive(c) ==
  /\ family = "router" /\ pc[c] = "running"
  /\ \E now \in Sorted(regs) :
         IF Len(called[c]) < Len(now)
           THEN /\ called' = [called EXCEPT ![c] = Append(@, now[Len(@) + 1])]
                /\ UNCHANGED pc
           ELSE pc' = [pc EXCEPT ![c] = "returned"] /\ UNCHANGED called
  /\ UNCHANGED <<family, regs, rules, sequence, snap, inside, pending, failed, failures, found,
                 matched, log, disturbance>>

\* A handler returns: the next one is called, or dispatch returns.
HandlerReturns(c) ==
  /\ family = "router" /\ pc[c] = "running"
  /\ IF Len(called[c]) < Len(snap[c])
       THEN called' = [called EXCEPT ![c] = Append(@, snap[c][Len(@) + 1])] /\ UNCHANGED pc
       ELSE pc' = [pc EXCEPT ![c] = "returned"] /\ UNCHANGED called
  /\ UNCHANGED <<family, regs, rules, sequence, snap, inside, pending, failed, failures, found,
                 matched, log, disturbance>>

\* A handler raises, or is no coroutine: the others are not called.
HandlerRaises(c) ==
  /\ family = "router" /\ pc[c] = "running"
  /\ Disturb
  /\ pc' = [pc EXCEPT ![c] = "raised"]
  /\ UNCHANGED <<family, regs, rules, sequence, snap, called, inside, pending, failed, failures,
                 found, matched, log>>

\* The innermost open layer calls the next one, or the terminal; a layer may
\* do so again after that returned.
CallNext(c) ==
  /\ family = "middleware" /\ pc[c] = "running" /\ ~inside[c]
  /\ IF Len(called[c]) < Len(snap[c])
       THEN called' = [called EXCEPT ![c] = Append(@, snap[c][Len(@) + 1])] /\ UNCHANGED inside
       ELSE inside' = [inside EXCEPT ![c] = TRUE] /\ UNCHANGED called
  /\ UNCHANGED <<family, regs, rules, sequence, pc, snap, pending, failed, failures, found,
                 matched, log, disturbance>>

\* The terminal, or the innermost open layer, returns or raises.
Leave(c) ==
  /\ family = "middleware" /\ pc[c] = "running"
  /\ inside' = [inside EXCEPT ![c] = FALSE]
  /\ called' = [called EXCEPT ![c] = IF inside[c] THEN @ ELSE Front(@)]
  /\ pc' = [pc EXCEPT ![c] = IF called'[c] = <<>> THEN "returned" ELSE @]
  /\ UNCHANGED <<family, regs, rules, sequence, snap, pending, failed, failures, found, matched,
                 log, disturbance>>

\* deque(maxlen): the oldest failures make room.
Latest(list) ==
  IF Len(list) <= HistoryLimit THEN list
  ELSE [k \in 1..HistoryLimit |-> list[Len(list) - HistoryLimit + k]]

\* Faulty variant, for mutation: emit raises as soon as a critical listener fails.
FinishedEarly(c) == pending'[c] = {} \/ \E n \in failed'[c] : snap[c][n].critical

\* gather is done.
Finished(c) == pending'[c] = {}

\* A listener returns, or raises or times out; after the last one the failures
\* are recorded in the order of the listeners, and a critical one is raised.
Settle(c) ==
  /\ family = "emitter" /\ pc[c] = "running"
  /\ \E n \in pending[c] :
       /\ pending' = [pending EXCEPT ![c] = @ \ {n}]
       /\ \/ UNCHANGED <<failed, disturbance>>
          \/ Disturb /\ failed' = [failed EXCEPT ![c] = @ \cup {n}]
  /\ IF ~Finished(c) THEN UNCHANGED <<pc, failures, log>>
     ELSE \E order \in Increasing(failed'[c]) :
            LET new == [k \in DOMAIN order |-> snap[c][order[k]]]
            IN  /\ failures' = Latest(failures \o new)
                /\ log' = log \o new
                /\ pc' = [pc EXCEPT ![c] = IF \E n \in DOMAIN new : new[n].critical
                                           THEN "raised" ELSE "returned"]
  /\ UNCHANGED <<family, regs, rules, sequence, snap, called, inside, found, matched>>

\* The caller is cancelled, or a listener raises CancelledError: gather passes
\* it on at once, and nothing is recorded.
Abandon(c) ==
  /\ family = "emitter" /\ pc[c] = "running"
  /\ Disturb
  /\ pc' = [pc EXCEPT ![c] = "cancelled"]
  /\ UNCHANGED <<family, regs, rules, sequence, snap, called, inside, pending, failed, failures,
                 found, matched, log>>

-----------------------------------------------------------------------------
DispatchInit ==
  /\ family \in {"router", "middleware", "emitter"}
  /\ regs = {} /\ rules = {} /\ sequence = 0
  /\ pc = [c \in Calls |-> "idle"] /\ snap = [c \in Calls |-> <<>>]
  /\ called = [c \in Calls |-> <<>>] /\ inside = [c \in Calls |-> FALSE]
  /\ pending = [c \in Calls |-> {}] /\ failed = [c \in Calls |-> {}]
  /\ matched = [c \in Calls |-> {}]
  /\ failures = <<>> /\ log = <<>> /\ found = [list |-> <<>>, rules |-> {}]
  /\ disturbance = 0

DispatchNext ==
  \/ RegisterHandler \/ RegisterLayer \/ Subscribe \/ UnregisterOne \/ Clear
  \/ MapDestination \/ UnmapDestination \/ ResolveDestinations
  \/ \E c \in Calls : \/ Begin(c) \/ HandlerReturns(c) \/ HandlerRaises(c) \/ CallNext(c)
                      \/ Leave(c) \/ Settle(c) \/ Abandon(c)

-----------------------------------------------------------------------------
(* Properties                                                              *)

\* r goes before s by the documentation: "higher priority registrations run
\* first; ties preserve registration order", "lower order values execute first".
Earlier(r, s) ==
  IF r.rank = s.rank THEN r.seq < s.seq
  ELSE (r.rank > s.rank) = (family = "router")

(* However registrations come and go while a call runs, it calls those     *)
(* that matched when it began and no others: handlers one after the other  *)
(* in the order of priority, all of them when dispatch returns; the engine *)
(* or handler behind a pipeline only inside every layer of its route.  The *)
(* destinations of a route are each there once, the best rule first.       *)
CallsTheSnapshot ==
  /\ family \in {"router", "middleware"} =>
       \A c \in Calls :
         /\ Range(called[c]) \subseteq matched[c]
         /\ \A i \in DOMAIN called[c], r \in matched[c] :
              Earlier(r, called[c][i]) => \E j \in 1..(i - 1) : called[c][j] = r
         /\ inside[c] \/ (pc[c] = "returned" /\ family = "router") =>
              Range(called[c]) = matched[c]
  /\ Range(found.list) = {r.destination : r \in found.rules}
  /\ \A i, j \in DOMAIN found.list :
       i < j => \E r \in found.rules :
                  /\ r.destination = found.list[i]
                  /\ \A s \in found.rules : s.destination = found.list[j] => Earlier(r, s)

(* emit returns, or raises for a critical listener, only after every       *)
(* listener that was subscribed when it began has settled; one that fails  *)
(* is recorded, and only a critical one makes emit raise.  The history     *)
(* holds the latest failures, never more than its limit.                   *)
EmitWaitsForAll ==
  /\ family = "emitter" =>
       \A c \in Calls :
         /\ Range(snap[c]) = matched[c]
         /\ pc[c] \in {"returned", "raised"} =>
              /\ pending[c] = {}
              /\ (pc[c] = "raised") = (\E n \in failed[c] : snap[c][n].critical)
  /\ Len(failures) <= HistoryLimit
  /\ IsSuffix(failures, log)
  /\ Len(failures) < HistoryLimit => failures = log

=============================================================================
