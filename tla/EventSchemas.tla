---------------------------- MODULE EventSchemas ----------------------------
(***************************************************************************)
(* EventRegistry (broka.event) for one event name: classes and upcasters   *)
(* by schema version, and reconstruct, which looks the upcasters up one by *)
(* one under the lock and calls them outside it.  Readers are threads that *)
(* reconstruct or encode; registrations come from the thread that imports  *)
(* the application.  The class attributes that hold an event's name and    *)
(* version are attached; a payload is the version it is laid out for.      *)
(***************************************************************************)
EXTENDS Integers, FiniteSets

CONSTANTS
  MaxVersion,    \* versions are 1..MaxVersion
  Classes,       \* event classes
  Readers,       \* threads
  NoClass

Versions == 1..MaxVersion

ASSUME SchemaAssumption == MaxVersion \in Nat \ {0} /\ NoClass \notin Classes

VARIABLES
  events,        \* class of each version, or NoClass
  upcasters,     \* version that each upcaster leads to, or 0
  attached,      \* version in a class's metadata, or 0
  importing,     \* the register call under way: [class, version, replace], or NoClass
  reader,        \* "idle", "lookup", "transform", "resolve", "built" or "raised"
  current,       \* current_version
  destination,   \* destination_version
  payload,       \* version of current_payload
  upcaster,      \* [from, to] of the upcaster in hand
  built,         \* class of the event
  offered        \* history: classes the destination had since reconstruct began

schemaVars == <<events, upcasters, attached, importing, reader, current, destination, payload,
                upcaster, built, offered>>
readerVars == <<reader, current, destination, payload, upcaster, built>>

-----------------------------------------------------------------------------
(* Registration                                                            *)

\* _attach_metadata: a class keeps the version it has.
Attach(class, v) ==
  /\ attached[class] \in {0, v}
  /\ attached' = [attached EXCEPT ![class] = v]

\* The @event decorator, or register with a name and a version, up to the lock.
Declare ==
  /\ importing = NoClass
  /\ \E class \in Classes, v \in Versions, replace \in BOOLEAN :
       /\ Attach(class, v)
       /\ importing' = [class |-> class, version |-> v, replace |-> replace]
  /\ UNCHANGED <<events, upcasters, readerVars, offered>>

\* A version may be one class's only, unless it is replaced.
MayRegister(class, v, replace) == events[v] \in {NoClass, class} \/ replace

\* register under the lock; a duplicate is refused.
RegisterClass ==
  /\ importing # NoClass
  /\ importing' = NoClass
  /\ LET i == importing
     IN  IF MayRegister(i.class, i.version, i.replace)
           THEN /\ events' = [events EXCEPT ![i.version] = i.class]
                /\ offered' = [r \in Readers |-> IF destination[r] = i.version
                                                 THEN offered[r] \cup {i.class} ELSE offered[r]]
           ELSE UNCHANGED <<events, offered>>
  /\ UNCHANGED <<upcasters, attached, readerVars>>

UnregisterClass(v) ==
  /\ events[v] # NoClass
  /\ events' = [events EXCEPT ![v] = NoClass]
  /\ UNCHANGED <<upcasters, attached, importing, readerVars, offered>>

RegisterUpcaster ==
  /\ \E from, to \in Versions, replace \in BOOLEAN :
       /\ to > from
       /\ upcasters[from] = 0 \/ replace
       /\ upcasters[from] # to
       /\ upcasters' = [upcasters EXCEPT ![from] = to]
  /\ UNCHANGED <<events, attached, importing, readerVars, offered>>

-----------------------------------------------------------------------------
(* reconstruct                                                             *)

Reconstruct(r) ==
  /\ reader[r] = "idle"
  /\ \E v, target \in Versions :
       /\ target >= v
       /\ reader' = [reader EXCEPT ![r] = IF v < target THEN "lookup" ELSE "resolve"]
       /\ current' = [current EXCEPT ![r] = v]
       /\ payload' = [payload EXCEPT ![r] = v]
       /\ destination' = [destination EXCEPT ![r] = target]
       /\ offered' = [offered EXCEPT ![r] = {events[target]} \ {NoClass}]
  /\ UNCHANGED <<events, upcasters, attached, importing, upcaster, built>>

\* One look-up under the lock; no upcaster, or one that goes too far, raises.
LookUp(r) ==
  /\ reader[r] = "lookup"
  /\ LET to == upcasters[current[r]]
     IN  IF to = 0 \/ to > destination[r]
           THEN reader' = [reader EXCEPT ![r] = "raised"] /\ UNCHANGED upcaster
           ELSE /\ reader' = [reader EXCEPT ![r] = "transform"]
                /\ upcaster' = [upcaster EXCEPT ![r] = [from |-> current[r], to |-> to]]
  /\ UNCHANGED <<events, upcasters, attached, importing, current, destination, payload, built,
                 offered>>

\* Faulty variant, for mutation: the version is looked up again after the call.
TargetNow(r) == upcasters[current[r]]

TargetInHand(r) == upcaster[r].to

\* The transform runs without the lock.
Transform(r) ==
  /\ reader[r] = "transform"
  /\ payload' = [payload EXCEPT ![r] = upcaster[r].to]
  /\ current' = [current EXCEPT ![r] = TargetInHand(r)]
  /\ reader' = [reader EXCEPT ![r] = IF current'[r] < destination[r] THEN "lookup"
                                     ELSE "resolve"]
  /\ UNCHANGED <<events, upcasters, attached, importing, destination, upcaster, built, offered>>

\* The transform raises, or returns what is no mapping.
TransformFails(r) ==
  /\ reader[r] = "transform"
  /\ reader' = [reader EXCEPT ![r] = "raised"]
  /\ UNCHANGED <<events, upcasters, attached, importing, current, destination, payload, upcaster,
                 built, offered>>

\* resolve under the lock, then _construct_event.
ResolveClass(r) ==
  /\ reader[r] = "resolve"
  /\ IF events[destination[r]] = NoClass
       THEN reader' = [reader EXCEPT ![r] = "raised"] /\ UNCHANGED built
       ELSE /\ reader' = [reader EXCEPT ![r] = "built"]
            /\ built' = [built EXCEPT ![r] = events[destination[r]]]
  /\ UNCHANGED <<events, upcasters, attached, importing, current, destination, payload, upcaster,
                 offered>>

\* payload_for: the version of an instance's class must have that class.
PayloadFor(r) ==
  /\ reader[r] = "idle"
  /\ \E class \in Classes :
       /\ attached[class] # 0
       /\ destination' = [destination EXCEPT ![r] = attached[class]]
       /\ LET v == attached[class]
          IN  IF events[v] = class
                THEN /\ reader' = [reader EXCEPT ![r] = "built"]
                     /\ built' = [built EXCEPT ![r] = class]
                     /\ payload' = [payload EXCEPT ![r] = v]
                     /\ offered' = [offered EXCEPT ![r] = {class}]
                ELSE /\ reader' = [reader EXCEPT ![r] = "raised"]
                     /\ UNCHANGED <<built, payload, offered>>
  /\ UNCHANGED <<events, upcasters, attached, importing, current, upcaster>>

SchemaInit ==
  /\ events = [v \in Versions |-> NoClass] /\ upcasters = [v \in Versions |-> 0]
  /\ attached = [class \in Classes |-> 0] /\ importing = NoClass
  /\ reader = [r \in Readers |-> "idle"]
  /\ current = [r \in Readers |-> 0] /\ destination = [r \in Readers |-> 0]
  /\ payload = [r \in Readers |-> 0] /\ built = [r \in Readers |-> NoClass]
  /\ upcaster = [r \in Readers |-> [from |-> 0, to |-> 0]]
  /\ offered = [r \in Readers |-> {}]

SchemaNext ==
  \/ Declare \/ RegisterClass \/ RegisterUpcaster \/ \E v \in Versions : UnregisterClass(v)
  \/ \E r \in Readers : \/ Reconstruct(r) \/ LookUp(r) \/ Transform(r) \/ TransformFails(r)
                        \/ ResolveClass(r) \/ PayloadFor(r)

-----------------------------------------------------------------------------
(* Properties                                                              *)

(* Whatever is registered, replaced or removed while upcasters run: the    *)
(* payload always has the layout of the version reconstruct takes it for,  *)
(* no upcaster gets another version than its own or leads past the one     *)
(* asked for, and the event is built from a payload of that version by a   *)
(* class that was registered for it and carries it in its metadata.        *)
UpcastsAgree ==
  /\ \A v \in Versions : events[v] # NoClass => attached[events[v]] = v
  /\ \A r \in Readers :
       /\ reader[r] \in {"lookup", "transform"} =>
            payload[r] = current[r] /\ current[r] < destination[r]
       /\ reader[r] = "transform" =>
            upcaster[r].from = current[r] /\ upcaster[r].to \in (current[r] + 1)..destination[r]
       /\ reader[r] = "built" =>
            payload[r] = destination[r] /\ built[r] \in offered[r]

=============================================================================
