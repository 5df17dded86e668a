-------------------------- MODULE RegistriesProofs --------------------------
(***************************************************************************)
(* Machine-checked facts about the parts that Registries puts side by      *)
(* side, for every value of their constants.  A step of Registries is a    *)
(* step of one part and leaves the others alone, so each part has an       *)
(* inductive invariant of its own.                                         *)
(***************************************************************************)
EXTENDS Registries, FiniteSetTheorems, SequenceTheorems, WellFoundedInduction, TLAPS

LEMMA PartSteps ==
  ASSUME [Next]_vars
  PROVE  /\ DispatchNext \/ UNCHANGED dispatchVars
         /\ SchemaNext \/ UNCHANGED schemaVars
         /\ CatalogNext \/ UNCHANGED catalogVars
         /\ SerializerNext \/ UNCHANGED serializerVars
         /\ LifespanNext \/ UNCHANGED lifespanVars
         /\ PublishNext \/ UNCHANGED batchVars
         /\ LocalNext \/ UNCHANGED localVars
         /\ HealthNext \/ UNCHANGED healthVars
         /\ SubscriptionNext \/ UNCHANGED subscriptionVars
<1>1. CASE UNCHANGED vars
  BY <1>1 DEF vars, pluginVars
<1>2. CASE Next
  BY <1>2 DEF Next, Step
<1>. QED
  BY <1>1, <1>2

-----------------------------------------------------------------------------
(* Lifespan                                                                *)

Draining == {"serving", "draining", "stopping"}

(* What has been published or has failed stays so, and a task that runs is *)
(* in the background until its callback has been called.                   *)
LifespanTypes ==
  /\ task \in [Deferred -> {"none", "running", "published", "failed", "cancelled"}]
  /\ background \subseteq Deferred /\ drained \subseteq Deferred
  /\ lifespan \in Draining \cup {"waiting", "starting", "startup_failed", "complete",
                                 "shutdown_failed", "aborted"}

LifespanInv ==
  /\ LifespanTypes
  /\ ShutdownDrains
  /\ lifespan \in Draining => brokerUp
  /\ lifespan = "stopping" => \A t \in drained : task[t] = "published"

LEMMA LifespanStarts == LifespanInit => LifespanInv
BY DEF LifespanInit, LifespanInv, LifespanTypes, ShutdownDrains, Draining

LEMMA TaskSteps ==
  ASSUME LifespanInv, NEW t \in Deferred, Commit(t) \/ PublishEnds(t) \/ TaskDone(t)
  PROVE  LifespanInv'
<1>. USE DEF LifespanInv, LifespanTypes, ShutdownDrains, Draining
<1>1. CASE Commit(t)
  BY <1>1 DEF Commit
<1>2. CASE PublishEnds(t)
  BY <1>2 DEF PublishEnds
<1>3. CASE TaskDone(t)
  BY <1>3 DEF TaskDone
<1>. QED
  BY <1>1, <1>2, <1>3

LEMMA LifespanStep ==
  ASSUME LifespanInv, LifespanNext \/ UNCHANGED lifespanVars
  PROVE  LifespanInv'
<1>. USE DEF LifespanInv, LifespanTypes, ShutdownDrains, Draining
<1>1. CASE Startup \/ StartupEnds
  BY <1>1 DEF Startup, StartupEnds
<1>2. CASE ShutdownMessage
  BY <1>2 DEF ShutdownMessage
<1>3. CASE DrainReturns \/ DrainRaises \/ DrainAborts
  BY <1>3 DEF DrainReturns, DrainRaises, DrainAborts, Gathered
<1>4. CASE ShutdownEnds
  BY <1>4 DEF ShutdownEnds
<1>5. CASE \E t \in Deferred : Commit(t) \/ PublishEnds(t) \/ TaskDone(t)
  BY <1>5, TaskSteps
<1>6. CASE UNCHANGED lifespanVars
  BY <1>6 DEF lifespanVars
<1>. QED
  BY <1>1, <1>2, <1>3, <1>4, <1>5, <1>6 DEF LifespanNext

(* The shutdown of a worker under DjangoBrokerASGI waits for the publishes *)
(* that publish_on_commit had scheduled.                                   *)
THEOREM ShutdownsDrain == Spec => []ShutdownDrains
<1>1. Init => LifespanInv
  BY LifespanStarts DEF Init
<1>2. LifespanInv /\ [Next]_vars => LifespanInv'
  BY PartSteps, LifespanStep
<1>3. LifespanInv => ShutdownDrains
  BY DEF LifespanInv
<1>. QED
  BY <1>1, <1>2, <1>3, PTL DEF Spec

-----------------------------------------------------------------------------
(* Serializers                                                             *)

SerializerTypes ==
  /\ serializers \in [SerializerNames -> [type : ContentTypes, instance : Instances]
                                         \cup {NoProvider}]
  /\ contentTypes \in [ContentTypes -> SerializerNames \cup {NoProvider}]
  /\ default \in SerializerNames \cup {NoProvider} /\ known \subseteq SerializerNames

SerializerInv == SerializerTypes /\ SerializersAgree

LEMMA SerializersStart == PluginInit => SerializerInv
BY DEF PluginInit, SerializerInv, SerializerTypes, SerializersAgree

(* A registration takes the name's former content type away and ousts the  *)
(* owner of the new one.                                                   *)
LEMMA SerializerRegistered ==
  ASSUME SerializerInv, RegisterSerializer
  PROVE  SerializerInv'
<1>. USE DEF SerializerInv, SerializerTypes, SerializersAgree
<1>1. PICK n \in SerializerNames, c \in ContentTypes, i \in Instances,
           replace, makeDefault \in BOOLEAN :
        LET s == [type |-> c, instance |-> i]
            owner == contentTypes[c]
            ousted == owner \notin {NoProvider, n}
            inherited == IF ousted /\ default = owner THEN n ELSE default
        IN  /\ Free(n, s, replace)
            /\ serializers' = [m \in SerializerNames |->
                                 IF m = n THEN s ELSE IF ousted /\ m = owner THEN NoProvider
                                 ELSE serializers[m]]
            /\ contentTypes' = [WithoutFormerType(n) EXCEPT ![c] = n]
            /\ default' = IF makeDefault \/ inherited = NoProvider THEN n ELSE inherited
            /\ known' = known \cup {n}
  BY Zenon DEF RegisterSerializer
<1>. DEFINE s == [type |-> c, instance |-> i]
            owner == contentTypes[c]
<1>2. s \in [type : ContentTypes, instance : Instances] /\ s.type = c /\ s # NoProvider
  BY PluginAssumption
<1>3. n # NoProvider
  BY PluginAssumption
<1>4. \A m \in SerializerNames :
        serializers'[m] = IF m = n THEN s ELSE IF m = owner THEN NoProvider ELSE serializers[m]
  BY <1>1, PluginAssumption
<1>5. /\ WithoutFormerType(n) \in [ContentTypes -> SerializerNames \cup {NoProvider}]
      /\ \A d \in ContentTypes :
           WithoutFormerType(n)[d] = IF contentTypes[d] = n THEN NoProvider ELSE contentTypes[d]
  BY <1>3 DEF WithoutFormerType
<1>6. \A d \in ContentTypes :
        contentTypes'[d] = IF d = c THEN n
                           ELSE IF contentTypes[d] = n THEN NoProvider ELSE contentTypes[d]
  BY <1>1, <1>5
<1>7. /\ default' \in SerializerNames
      /\ default' = n \/ (default' = default /\ default # owner)
  BY <1>1, <1>3
<1>8. SerializerTypes'
  <2>1. serializers' \in [SerializerNames -> [type : ContentTypes, instance : Instances]
                                             \cup {NoProvider}]
    BY <1>1, <1>2
  <2>2. contentTypes' \in [ContentTypes -> SerializerNames \cup {NoProvider}]
    BY <1>1, <1>5
  <2>3. known' \subseteq SerializerNames
    BY <1>1
  <2>. QED
    BY <1>7, <2>1, <2>2, <2>3
<1>9. ASSUME NEW m \in SerializerNames, serializers'[m] # NoProvider
      PROVE  contentTypes'[serializers'[m].type] = m
  <2>1. CASE m = n
    BY <1>2, <1>4, <1>6, <2>1
  <2>2. CASE m # n
    <3>1. serializers'[m] = serializers[m] /\ m # owner
      BY <1>4, <1>9, <2>2
    <3>2. serializers[m].type \in ContentTypes /\ contentTypes[serializers[m].type] = m
      BY <1>9, <3>1
    <3>. QED
      BY <1>6, <2>2, <3>1, <3>2
  <2>. QED
    BY <2>1, <2>2
<1>10. ASSUME NEW d \in ContentTypes, contentTypes'[d] # NoProvider
       PROVE  /\ serializers'[contentTypes'[d]] # NoProvider
              /\ serializers'[contentTypes'[d]].type = d
  <2>1. CASE d = c
    BY <1>2, <1>4, <1>6, <2>1
  <2>2. CASE d # c
    <3>1. contentTypes'[d] = contentTypes[d] /\ contentTypes[d] # n
      BY <1>6, <1>10, <2>2
    <3>2. contentTypes[d] \in SerializerNames
      BY <1>10, <3>1
    <3>3. contentTypes[d] # owner
      BY <1>10, <2>2, <3>1
    <3>. QED
      BY <1>4, <1>10, <3>1, <3>2, <3>3
  <2>. QED
    BY <2>1, <2>2
<1>11. default' \in known' => serializers'[default'] # NoProvider
  <2>. SUFFICES ASSUME default' \in known' PROVE serializers'[default'] # NoProvider
    OBVIOUS
  <2>1. CASE default' = n
    BY <1>2, <1>4, <2>1
  <2>2. CASE default' # n
    <3>1. default' = default /\ default # owner /\ default \in known
      BY <1>1, <1>7, <2>2
    <3>2. default \in SerializerNames /\ serializers[default] # NoProvider
      BY <3>1
    <3>. QED
      BY <1>4, <2>2, <3>1, <3>2
  <2>. QED
    BY <2>1, <2>2
<1>. QED
  BY <1>8, <1>9, <1>10, <1>11

LEMMA SerializerUnregistered ==
  ASSUME SerializerInv, UnregisterSerializer
  PROVE  SerializerInv'
<1>. USE DEF SerializerInv, SerializerTypes, SerializersAgree
<1>1. PICK n \in SerializerNames :
        /\ serializers[n] # NoProvider
        /\ serializers' = [serializers EXCEPT ![n] = NoProvider]
        /\ contentTypes' = [contentTypes EXCEPT ![serializers[n].type] = NoProvider]
        /\ default' = IF default = n THEN NoProvider ELSE default
        /\ UNCHANGED known
  BY DEF UnregisterSerializer
<1>2. SerializerTypes'
  BY <1>1
<1>3. /\ \A m \in SerializerNames :
           serializers'[m] = IF m = n THEN NoProvider ELSE serializers[m]
      /\ \A c \in ContentTypes :
           contentTypes'[c] = IF c = serializers[n].type THEN NoProvider ELSE contentTypes[c]
      /\ n # NoProvider
  BY <1>1, PluginAssumption
<1>4. default' \in known' => serializers'[default'] # NoProvider
  BY <1>1, <1>3, PluginAssumption
<1>5. ASSUME NEW m \in SerializerNames, serializers'[m] # NoProvider
      PROVE  contentTypes'[serializers'[m].type] = m
  BY <1>1, <1>3, <1>5
<1>6. ASSUME NEW c \in ContentTypes, contentTypes'[c] # NoProvider
      PROVE  /\ serializers'[contentTypes'[c]] # NoProvider
             /\ serializers'[contentTypes'[c]].type = c
  BY <1>1, <1>3, <1>6
<1>. QED
  BY <1>2, <1>4, <1>5, <1>6

LEMMA SerializerStep ==
  ASSUME SerializerInv, SerializerNext \/ UNCHANGED serializerVars
  PROVE  SerializerInv'
<1>1. CASE UNCHANGED serializerVars
  BY <1>1 DEF serializerVars, SerializerInv, SerializerTypes, SerializersAgree
<1>. QED
  BY <1>1, SerializerRegistered, SerializerUnregistered DEF SerializerNext

(* The two tables of SerializerRegistry agree after any registrations,     *)
(* replacements and removals, and so does the default, but for one that    *)
(* was given to the constructor and never registered.                      *)
THEOREM SerializersStayInStep == Spec => []SerializersAgree
<1>1. Init => SerializerInv
  BY SerializersStart DEF Init
<1>2. SerializerInv /\ [Next]_vars => SerializerInv'
  BY PartSteps, SerializerStep
<1>3. SerializerInv => SerializersAgree
  BY DEF SerializerInv
<1>. QED
  BY <1>1, <1>2, <1>3, PTL DEF Spec

-----------------------------------------------------------------------------
(* Event schemas                                                           *)

Numbers == 0..MaxVersion
Reading == {"lookup", "transform", "resolve"}

SchemaTypes ==
  /\ events \in [Versions -> Classes \cup {NoClass}]
  /\ upcasters \in [Versions -> Numbers]
  /\ attached \in [Classes -> Numbers]
  /\ importing # NoClass => importing.class \in Classes /\ importing.version \in Versions
  /\ reader \in [Readers -> Reading \cup {"idle", "built", "raised"}]
  /\ current \in [Readers -> Numbers] /\ destination \in [Readers -> Numbers]
  /\ payload \in [Readers -> Numbers]
  /\ upcaster \in [Readers -> [from : Numbers, to : Numbers]]
  /\ built \in [Readers -> Classes \cup {NoClass}]
  /\ offered \in [Readers -> SUBSET Classes]

(* What the tables hold: upcasters lead upwards, a class is registered or  *)
(* on its way to the lock for the version in its metadata.                 *)
TableInv ==
  /\ \A v \in Versions : events[v] # NoClass => attached[events[v]] = v
  /\ \A v \in Versions : upcasters[v] # 0 => upcasters[v] > v
  /\ importing # NoClass => attached[importing.class] = importing.version

(* What a reader holds: its place on the way to the destination, whose     *)
(* class now is one of those the destination had meanwhile.                *)
ReaderInv ==
  \A r \in Readers :
    /\ reader[r] \in Reading =>
         /\ current[r] \in Versions /\ destination[r] \in Versions
         /\ payload[r] = current[r]
         /\ events[destination[r]] \in offered[r] \cup {NoClass}
    /\ reader[r] \in {"lookup", "transform"} => current[r] < destination[r]
    /\ reader[r] = "transform" =>
         upcaster[r].from = current[r] /\ upcaster[r].to \in (current[r] + 1)..destination[r]
    /\ reader[r] = "resolve" => current[r] = destination[r]
    /\ reader[r] = "built" => payload[r] = destination[r] /\ built[r] \in offered[r]

SchemaInv == SchemaTypes /\ TableInv /\ ReaderInv

LEMMA SchemasStart == SchemaInit => SchemaInv
BY SchemaAssumption DEF SchemaInit, SchemaInv, SchemaTypes, TableInv, ReaderInv, Versions, Numbers,
  Reading

(* Registering leaves readers where they are.                              *)
LEMMA RegistrationStep ==
  ASSUME SchemaInv,
         Declare \/ RegisterClass \/ RegisterUpcaster \/ \E v \in Versions : UnregisterClass(v)
  PROVE  SchemaInv'
<1>. USE DEF SchemaInv
<1>1. CASE Declare
  <2>1. PICK class \in Classes, v \in Versions, replace \in BOOLEAN :
          /\ Attach(class, v)
          /\ importing' = [class |-> class, version |-> v, replace |-> replace]
    BY <1>1, Zenon DEF Declare
  <2>2. UNCHANGED <<events, upcasters, readerVars, offered>>
    BY <1>1 DEF Declare
  <2>3. /\ attached[class] \in {0, v}
        /\ attached' = [attached EXCEPT ![class] = v]
        /\ importing'.class = class /\ importing'.version = v
    BY <2>1 DEF Attach
  <2>4. SchemaTypes'
    BY <2>2, <2>3 DEF SchemaTypes, readerVars, Versions, Numbers
  <2>5. TableInv'
    <3>1. \A u \in Versions : events[u] # NoClass => events[u] \in Classes /\ u # 0
      BY DEF SchemaTypes, Versions
    <3>2. \A u \in Versions : events[u] # NoClass => attached'[events[u]] = u
      BY <2>3, <3>1 DEF SchemaTypes, TableInv
    <3>. QED
      BY <2>2, <2>3, <3>2 DEF SchemaTypes, TableInv
  <2>6. ReaderInv'
    BY <2>2 DEF ReaderInv, readerVars
  <2>. QED
    BY <2>4, <2>5, <2>6
<1>2. CASE RegisterClass
  <2>. DEFINE class == importing.class
              v == importing.version
  <2>1. /\ importing # NoClass /\ importing' = NoClass
        /\ \/ /\ events' = [events EXCEPT ![v] = class]
              /\ offered' = [r \in Readers |-> IF destination[r] = v THEN offered[r] \cup {class}
                                               ELSE offered[r]]
           \/ UNCHANGED <<events, offered>>
        /\ UNCHANGED <<upcasters, attached, reader, current, destination, payload, upcaster, built>>
    BY <1>2 DEF RegisterClass, readerVars
  <2>2. class \in Classes /\ v \in Versions /\ attached[class] = v
    BY <2>1 DEF SchemaTypes, TableInv
  <2>3. SchemaTypes'
    <3>1. events' \in [Versions -> Classes \cup {NoClass}]
      <4>1. events \in [Versions -> Classes \cup {NoClass}]
        BY DEF SchemaTypes
      <4>. QED
        BY <2>1, <2>2, <4>1
    <3>2. offered' \in [Readers -> SUBSET Classes]
      <4>1. offered \in [Readers -> SUBSET Classes]
        BY DEF SchemaTypes
      <4>. QED
        BY <2>1, <2>2, <4>1
    <3>. QED
      BY <2>1, <3>1, <3>2 DEF SchemaTypes
  <2>4. TableInv'
    BY <2>1, <2>2 DEF SchemaTypes, TableInv
  <2>5. ASSUME NEW r \in Readers
        PROVE  /\ offered[r] \subseteq offered'[r]
               /\ /\ destination[r] \in Versions
                  /\ events[destination[r]] \in offered[r] \cup {NoClass}
                  => events'[destination[r]] \in offered'[r] \cup {NoClass}
    <3>1. offered[r] \subseteq offered'[r]
      BY <2>1
    <3>2. CASE events' = events
      BY <3>1, <3>2
    <3>3. CASE events' # events
      <4>1. events' = [events EXCEPT ![v] = class]
        BY <2>1, <3>3
      <4>2. offered'[r] = IF destination[r] = v THEN offered[r] \cup {class} ELSE offered[r]
        BY <2>1, <3>3
      <4>. QED
        BY <2>2, <4>1, <4>2 DEF SchemaTypes
    <3>. QED
      BY <3>1, <3>2, <3>3
  <2>6. ReaderInv'
    BY <2>1, <2>5 DEF ReaderInv
  <2>. QED
    BY <2>3, <2>4, <2>6
<1>3. CASE RegisterUpcaster
  <2>1. PICK from \in Versions, to \in Versions :
          to > from /\ upcasters' = [upcasters EXCEPT ![from] = to]
    BY <1>3 DEF RegisterUpcaster
  <2>2. UNCHANGED <<events, attached, importing, readerVars, offered>>
    BY <1>3 DEF RegisterUpcaster
  <2>3. SchemaTypes' /\ TableInv'
    BY <2>1, <2>2 DEF SchemaTypes, TableInv, readerVars, Versions, Numbers
  <2>4. ReaderInv'
    BY <2>2 DEF ReaderInv, readerVars
  <2>. QED
    BY <2>3, <2>4
<1>4. ASSUME NEW v \in Versions, UnregisterClass(v)
      PROVE  SchemaInv'
  <2>1. /\ events' = [events EXCEPT ![v] = NoClass]
        /\ UNCHANGED <<upcasters, attached, importing, readerVars, offered>>
    BY <1>4 DEF UnregisterClass
  <2>2. SchemaTypes' /\ TableInv'
    BY <2>1 DEF SchemaTypes, TableInv, readerVars
  <2>3. ReaderInv'
    BY <2>1 DEF ReaderInv, SchemaTypes, readerVars
  <2>. QED
    BY <2>2, <2>3
<1>. QED
  BY <1>1, <1>2, <1>3, <1>4

(* A step of one reader: the tables stay, and so do the other readers.     *)
LEMMA ReaderStep ==
  ASSUME SchemaInv, NEW r \in Readers,
         \/ Reconstruct(r) \/ LookUp(r) \/ Transform(r) \/ TransformFails(r)
         \/ ResolveClass(r) \/ PayloadFor(r)
  PROVE  SchemaInv'
<1>. USE DEF SchemaInv
<1>1. UNCHANGED <<events, upcasters, attached, importing>>
  BY DEF Reconstruct, LookUp, Transform, TransformFails, ResolveClass, PayloadFor
<1>2. TableInv'
  BY <1>1 DEF TableInv
<1>. DEFINE ReaderOK ==
              /\ reader'[r] \in Reading =>
                   /\ current'[r] \in Versions /\ destination'[r] \in Versions
                   /\ payload'[r] = current'[r]
                   /\ events[destination'[r]] \in offered'[r] \cup {NoClass}
              /\ reader'[r] \in {"lookup", "transform"} => current'[r] < destination'[r]
              /\ reader'[r] = "transform" => /\ upcaster'[r].from = current'[r]
                                             /\ upcaster'[r].to \in (current'[r] + 1)..destination'[r]
              /\ reader'[r] = "resolve" => current'[r] = destination'[r]
              /\ reader'[r] = "built" => payload'[r] = destination'[r] /\ built'[r] \in offered'[r]
<1>3. SUFFICES /\ SchemaTypes' /\ ReaderOK
               /\ \A q \in Readers \ {r} :
                    /\ reader'[q] = reader[q] /\ current'[q] = current[q]
                    /\ destination'[q] = destination[q] /\ payload'[q] = payload[q]
                    /\ upcaster'[q] = upcaster[q] /\ built'[q] = built[q]
                    /\ offered'[q] = offered[q]
  <2>. SUFFICES ReaderInv'
    BY <1>2
  <2>. QED
    BY <1>1 DEF ReaderInv
<1>4. CASE Reconstruct(r)
  <2>1. PICK v \in Versions, wanted \in Versions :
          /\ wanted >= v
          /\ reader' = [reader EXCEPT ![r] = IF v < wanted THEN "lookup" ELSE "resolve"]
          /\ current' = [current EXCEPT ![r] = v]
          /\ payload' = [payload EXCEPT ![r] = v]
          /\ destination' = [destination EXCEPT ![r] = wanted]
          /\ offered' = [offered EXCEPT ![r] = {events[wanted]} \ {NoClass}]
    BY <1>4 DEF Reconstruct
  <2>2. UNCHANGED <<upcaster, built>>
    BY <1>4 DEF Reconstruct
  <2>3. {events[wanted]} \ {NoClass} \subseteq Classes
    BY DEF SchemaTypes
  <2>4. v \in Numbers /\ wanted \in Numbers
    BY SchemaAssumption DEF Versions, Numbers
  <2>5. offered' \in [Readers -> SUBSET Classes]
    BY <2>1, <2>3 DEF SchemaTypes
  <2>6. reader' \in [Readers -> Reading \cup {"idle", "built", "raised"}]
    BY <2>1 DEF SchemaTypes, Reading
  <2>7. SchemaTypes'
    BY <1>1, <2>1, <2>2, <2>4, <2>5, <2>6 DEF SchemaTypes
  <2>. QED
    BY <2>1, <2>2, <2>7, SchemaAssumption DEF SchemaTypes, Versions, Reading
<1>5. CASE LookUp(r)
  <2>. DEFINE to == upcasters[current[r]]
  <2>1. /\ reader[r] = "lookup"
        /\ UNCHANGED <<current, destination, payload, built, offered>>
        /\ \/ reader' = [reader EXCEPT ![r] = "raised"] /\ UNCHANGED upcaster
           \/ /\ to # 0 /\ ~(to > destination[r])
              /\ reader' = [reader EXCEPT ![r] = "transform"]
              /\ upcaster' = [upcaster EXCEPT ![r] = [from |-> current[r], to |-> to]]
    BY <1>5 DEF LookUp
  <2>2. /\ current[r] \in Versions /\ destination[r] \in Versions
        /\ payload[r] = current[r] /\ current[r] < destination[r]
        /\ events[destination[r]] \in offered[r] \cup {NoClass}
    BY <2>1 DEF ReaderInv, Reading
  <2>3. to \in Numbers /\ current[r] \in Numbers /\ (to # 0 => to > current[r])
    BY <2>2 DEF SchemaTypes, TableInv
  <2>4. SchemaTypes'
    BY <1>1, <2>1, <2>3 DEF SchemaTypes, Reading
  <2>5. \A q \in Readers \ {r} : reader'[q] = reader[q] /\ upcaster'[q] = upcaster[q]
    BY <2>1 DEF SchemaTypes
  <2>6. ReaderOK
    <3>1. CASE reader'[r] = "raised"
      BY <3>1 DEF Reading
    <3>2. CASE reader'[r] # "raised"
      <4>1. /\ to # 0 /\ ~(to > destination[r]) /\ reader'[r] = "transform"
            /\ upcaster'[r] = [from |-> current[r], to |-> to]
        BY <2>1, <3>2 DEF SchemaTypes
      <4>2. to \in (current[r] + 1)..destination[r]
        BY <2>2, <2>3, <4>1 DEF Versions, Numbers
      <4>. QED
        BY <2>1, <2>2, <4>1, <4>2 DEF Reading
    <3>. QED
      BY <3>1, <3>2
  <2>. QED
    BY <2>1, <2>4, <2>5, <2>6
<1>6. CASE Transform(r)
  <2>1. /\ reader[r] = "transform"
        /\ payload' = [payload EXCEPT ![r] = upcaster[r].to]
        /\ current' = [current EXCEPT ![r] = upcaster[r].to]
        /\ reader' = [reader EXCEPT ![r] = IF current'[r] < destination[r] THEN "lookup"
                                           ELSE "resolve"]
        /\ UNCHANGED <<destination, upcaster, built, offered>>
    BY <1>6 DEF Transform, TargetInHand
  <2>2. /\ current[r] \in Versions /\ destination[r] \in Versions
        /\ upcaster[r].to \in (current[r] + 1)..destination[r]
        /\ events[destination[r]] \in offered[r] \cup {NoClass}
    BY <2>1 DEF ReaderInv, Reading
  <2>3. upcaster[r].to \in Versions /\ upcaster[r].to \in Numbers
    BY <2>2, SchemaAssumption DEF Versions, Numbers
  <2>4. SchemaTypes'
    BY <1>1, <2>1, <2>3 DEF SchemaTypes, Reading
  <2>5. current'[r] = upcaster[r].to /\ payload'[r] = upcaster[r].to
    BY <2>1 DEF SchemaTypes
  <2>. QED
    BY <2>1, <2>2, <2>3, <2>4, <2>5, SchemaAssumption DEF SchemaTypes, Versions, Reading
<1>7. CASE TransformFails(r)
  BY <1>1, <1>7 DEF TransformFails, SchemaTypes, Reading
<1>8. CASE ResolveClass(r)
  <2>1. /\ reader[r] = "resolve"
        /\ UNCHANGED <<current, destination, payload, upcaster, offered>>
        /\ \/ reader' = [reader EXCEPT ![r] = "raised"] /\ UNCHANGED built
           \/ /\ events[destination[r]] # NoClass
              /\ reader' = [reader EXCEPT ![r] = "built"]
              /\ built' = [built EXCEPT ![r] = events[destination[r]]]
    BY <1>8 DEF ResolveClass
  <2>2. /\ payload[r] = destination[r] /\ destination[r] \in Versions
        /\ events[destination[r]] \in offered[r] \cup {NoClass}
    BY <2>1 DEF ReaderInv, Reading
  <2>3. SchemaTypes'
    BY <1>1, <2>1, <2>2 DEF SchemaTypes, Reading
  <2>. QED
    BY <2>1, <2>2, <2>3 DEF SchemaTypes, Reading
<1>9. CASE PayloadFor(r)
  <2>1. PICK class \in Classes :
          /\ attached[class] # 0
          /\ destination' = [destination EXCEPT ![r] = attached[class]]
          /\ \/ /\ reader' = [reader EXCEPT ![r] = "built"]
                /\ built' = [built EXCEPT ![r] = class]
                /\ payload' = [payload EXCEPT ![r] = attached[class]]
                /\ offered' = [offered EXCEPT ![r] = {class}]
             \/ reader' = [reader EXCEPT ![r] = "raised"] /\ UNCHANGED <<built, payload, offered>>
    BY <1>9 DEF PayloadFor
  <2>2. UNCHANGED <<current, upcaster>>
    BY <1>9 DEF PayloadFor
  <2>3. attached[class] \in Numbers
    BY DEF SchemaTypes
  <2>4. SchemaTypes'
    <3>1. offered' \in [Readers -> SUBSET Classes]
      BY <2>1 DEF SchemaTypes
    <3>2. reader' \in [Readers -> Reading \cup {"idle", "built", "raised"}]
      BY <2>1 DEF SchemaTypes
    <3>3. destination' \in [Readers -> Numbers]
      BY <2>1, <2>3 DEF SchemaTypes
    <3>4. payload' \in [Readers -> Numbers]
      <4>1. payload \in [Readers -> Numbers]
        BY DEF SchemaTypes
      <4>2. payload' = payload \/ payload' = [payload EXCEPT ![r] = attached[class]]
        BY <2>1
      <4>. QED
        BY <2>3, <4>1, <4>2
    <3>5. built' \in [Readers -> Classes \cup {NoClass}]
      <4>1. built \in [Readers -> Classes \cup {NoClass}]
        BY DEF SchemaTypes
      <4>2. built' = built \/ built' = [built EXCEPT ![r] = class]
        BY <2>1
      <4>. QED
        BY <4>1, <4>2
    <3>. QED
      BY <1>1, <2>2, <3>1, <3>2, <3>3, <3>4, <3>5 DEF SchemaTypes
  <2>5. \A q \in Readers \ {r} :
          /\ reader'[q] = reader[q] /\ current'[q] = current[q]
          /\ destination'[q] = destination[q] /\ payload'[q] = payload[q]
          /\ upcaster'[q] = upcaster[q] /\ built'[q] = built[q]
          /\ offered'[q] = offered[q]
    BY <2>1, <2>2 DEF SchemaTypes
  <2>6. ReaderOK
    BY <2>1, <2>2 DEF SchemaTypes, Reading
  <2>. QED
    BY <2>4, <2>5, <2>6
<1>. QED
  BY <1>4, <1>5, <1>6, <1>7, <1>8, <1>9

LEMMA SchemaStep ==
  ASSUME SchemaInv, SchemaNext \/ UNCHANGED schemaVars
  PROVE  SchemaInv'
<1>1. CASE UNCHANGED schemaVars
  BY <1>1 DEF schemaVars, SchemaInv, SchemaTypes, TableInv, ReaderInv
<1>. QED
  BY <1>1, RegistrationStep, ReaderStep DEF SchemaNext

(* reconstruct hands every payload to the class of its version, although   *)
(* the upcasters run outside the lock of EventRegistry.                    *)
THEOREM UpcastsStayInStep == Spec => []UpcastsAgree
<1>1. Init => SchemaInv
  BY SchemasStart DEF Init
<1>2. SchemaInv /\ [Next]_vars => SchemaInv'
  BY PartSteps, SchemaStep
<1>3. SchemaInv => UpcastsAgree
  BY DEF SchemaInv, TableInv, ReaderInv, UpcastsAgree, Reading
<1>. QED
  BY <1>1, <1>2, <1>3, PTL DEF Spec

-----------------------------------------------------------------------------
(* Retries                                                                 *)

Untimed == {"new", "queued", "engine", "layers", "emit", "done"}

RetryTypes ==
  /\ strategy \in Strategies
  /\ step \in [Items -> Untimed \cup {"attempt", "sleep"}]
  /\ attempt \in [Items -> 0..MaxAttempts]
  /\ age \in [Items -> Nat] /\ timer \in [Items -> Nat]
  /\ prev \in [Items -> 0..Maximum]

(* The timers end in time: a sleep within max_elapsed_time, an attempt at  *)
(* most one attempt_timeout later.                                         *)
TimersEnd ==
  \A i \in Items :
    /\ step[i] = "attempt" => attempt[i] # 0 /\ age[i] + timer[i] <= MaxElapsed + AttemptTimeout
    /\ step[i] = "sleep" => /\ attempt[i] \in 1..(MaxAttempts - 1)
                            /\ age[i] + timer[i] <= MaxElapsed

RetryInv == RetryTypes /\ TimersEnd

(* Whatever the strategy, a delay is a number up to the maximum.           *)
LEMMA DelaysAreBounded ==
  ASSUME NEW n \in 1..MaxAttempts, NEW previous \in Nat, strategy \in Strategies
  PROVE  Delays(n, previous) \subseteq 0..Maximum
<1>. USE PublishAssumption
<1>1. ASSUME NEW d \in Nat
      PROVE  Bounded(d) \in 0..Maximum
  BY DEF Bounded
<1>2. ExponentialBackoff(n) \in 0..Maximum
  <2>1. n - 1 \in 0..MaxAttempts
    OBVIOUS
  <2>2. Multiplier ^ (n - 1) \in Nat
    BY <2>1, PowerAssumption
  <2>3. Initial * Multiplier ^ (n - 1) \in Nat
    BY <2>2
  <2>. QED
    BY <1>1, <2>3 DEF ExponentialBackoff
<1>3. CASE strategy = "fixed"
  BY <1>3 DEF Delays
<1>4. CASE strategy = "linear"
  <2>1. Initial + (n - 1) \in Nat
    OBVIOUS
  <2>. QED
    BY <1>1, <1>4, <2>1 DEF Delays
<1>5. CASE strategy = "exponential"
  BY <1>2, <1>5 DEF Delays
<1>6. CASE strategy = "full_jitter"
  BY <1>2, <1>6 DEF Delays
<1>7. CASE strategy = "equal_jitter"
  <2>1. (ExponentialBackoff(n) + 1) \div 2 \in Nat
    BY <1>2
  <2>. QED
    BY <1>2, <1>7, <2>1 DEF Delays
<1>8. CASE strategy = "decorrelated_jitter"
  <2>1. \A d \in Initial..Larger(Initial, previous * Multiplier) : d \in Nat
    BY DEF Larger
  <2>2. Delays(n, previous) =
          {Bounded(d) : d \in Initial..Larger(Initial, previous * Multiplier)}
    BY <1>8 DEF Delays
  <2>. QED
    BY <1>1, <2>1, <2>2
<1>. QED
  BY <1>3, <1>4, <1>5, <1>6, <1>7, <1>8

LEMMA RetriesStart == PublishInit => RetryInv
BY PublishAssumption DEF PublishInit, RetryInv, RetryTypes, TimersEnd, Untimed

(* An item moves to where no time is measured.                             *)
LEMMA QuietStep ==
  ASSUME RetryInv, NEW i \in Items, NEW s \in Untimed, step' = [step EXCEPT ![i] = s],
         timer' = timer \/ timer' = [timer EXCEPT ![i] = 0],
         UNCHANGED <<strategy, attempt, age, prev>>
  PROVE  RetryInv'
<1>. USE DEF RetryInv
<1>1. RetryTypes'
  BY DEF RetryTypes
<1>2. TimersEnd'
  BY DEF RetryTypes, TimersEnd, Untimed
<1>. QED
  BY <1>1, <1>2

LEMMA QuietSteps ==
  ASSUME RetryInv, NEW i \in Items,
         \/ StartItem(i) \/ EnterSemaphore(i) \/ EnvelopeFails(i) \/ GotEngine(i)
         \/ EngineFails(i) \/ LayerAnswers(i) \/ LayerFails(i) \/ AttemptReturns(i)
         \/ Emitted(i) \/ ListenerRaises(i)
  PROVE  RetryInv'
<1>1. UNCHANGED <<strategy, attempt, age, prev>>
  BY DEF StartItem, EnterSemaphore, EnvelopeFails, MayStart, MayEnter, GotEngine, EngineFails,
    LayerAnswers, LayerFails, AttemptReturns, Emitted, ListenerRaises, control
<1>2. /\ timer' = timer \/ timer' = [timer EXCEPT ![i] = 0]
      /\ \E s \in Untimed : step' = [step EXCEPT ![i] = s]
  <2>. USE DEF Untimed
  <2>1. CASE StartItem(i) \/ EnterSemaphore(i) \/ EnvelopeFails(i)
    BY <2>1 DEF StartItem, EnterSemaphore, EnvelopeFails, MayStart, MayEnter
  <2>2. CASE GotEngine(i) \/ AttemptReturns(i)
    BY <2>2 DEF GotEngine, AttemptReturns
  <2>3. CASE EngineFails(i) \/ LayerFails(i) \/ ListenerRaises(i)
    BY <2>3 DEF EngineFails, LayerFails, ListenerRaises, Raise
  <2>4. CASE LayerAnswers(i) \/ Emitted(i)
    BY <2>4 DEF LayerAnswers, Emitted, Result
  <2>. QED
    BY <2>1, <2>2, <2>3, <2>4
<1>. QED
  BY <1>1, <1>2, QuietStep

LEMMA TimedSteps ==
  ASSUME RetryInv, NEW i \in Items, CallTerminal(i) \/ AttemptFails(i) \/ Wake(i)
  PROVE  RetryInv'
<1>. USE PublishAssumption DEF RetryInv
<1>1. UNCHANGED strategy
  BY DEF CallTerminal, AttemptFails, Wake, control
<1>2. CASE CallTerminal(i)
  <2>1. RetryTypes'
    BY <1>1, <1>2 DEF CallTerminal, RetryTypes
  <2>2. TimersEnd'
    BY <1>2 DEF CallTerminal, RetryTypes, TimersEnd
  <2>. QED
    BY <2>1, <2>2
<1>3. CASE Wake(i)
  <2>1. RetryTypes'
    BY <1>1, <1>3 DEF Wake, RetryTypes, TimersEnd
  <2>2. TimersEnd'
    BY <1>3 DEF Wake, RetryTypes, TimersEnd
  <2>. QED
    BY <2>1, <2>2
<1>4. CASE AttemptFails(i)
  <2>1. attempt[i] \in 1..MaxAttempts
    BY <1>4 DEF AttemptFails, RetryTypes, TimersEnd
  <2>2. PICK delay \in Delays(attempt[i], prev[i]) :
          IF Exhausted(i, delay)
            THEN Raise(i) /\ UNCHANGED prev
            ELSE /\ step' = [step EXCEPT ![i] = "sleep"]
                 /\ timer' = [timer EXCEPT ![i] = delay]
                 /\ prev' = [prev EXCEPT ![i] = delay]
    BY <1>4 DEF AttemptFails
  <2>3. UNCHANGED <<attempt, age>>
    BY <1>4 DEF AttemptFails
  <2>4. CASE Exhausted(i, delay)
    <3>1. /\ step' = [step EXCEPT ![i] = "done"]
          /\ timer' = timer \/ timer' = [timer EXCEPT ![i] = 0]
          /\ UNCHANGED prev
      BY <2>2, <2>4 DEF Raise
    <3>2. "done" \in Untimed
      BY DEF Untimed
    <3>. QED
      BY <1>1, <2>3, <3>1, <3>2, QuietStep
  <2>5. CASE ~Exhausted(i, delay)
    <3>1. delay \in 0..Maximum
      BY <2>1, DelaysAreBounded DEF RetryTypes
    <3>2. /\ step' = [step EXCEPT ![i] = "sleep"]
          /\ timer' = [timer EXCEPT ![i] = delay]
          /\ prev' = [prev EXCEPT ![i] = delay]
      BY <2>2, <2>5
    <3>3. attempt[i] < MaxAttempts /\ age[i] + delay <= MaxElapsed
      BY <2>1, <2>5, <3>1 DEF Exhausted, RetryTypes
    <3>4. RetryTypes'
      BY <1>1, <2>3, <3>1, <3>2 DEF RetryTypes
    <3>5. TimersEnd'
      BY <2>1, <2>3, <3>1, <3>2, <3>3 DEF RetryTypes, TimersEnd
    <3>. QED
      BY <3>4, <3>5
  <2>. QED
    BY <2>4, <2>5
<1>. QED
  BY <1>2, <1>3, <1>4

LEMMA RetryStep ==
  ASSUME RetryInv, PublishNext \/ UNCHANGED batchVars
  PROVE  RetryInv'
<1>. USE DEF RetryInv
<1>1. CASE \E i \in Items : Progress(i) \/ Failure(i)
  BY <1>1, QuietSteps, TimedSteps DEF Progress, Failure
<1>2. CASE Tick
  <2>1. /\ \A i \in Items : step[i] \in {"attempt", "sleep"} => timer[i] > 0
        /\ timer' = [i \in Items |-> IF i \in Timed THEN timer[i] - 1 ELSE timer[i]]
        /\ age' = [i \in Items |-> IF i \in Timed THEN age[i] + 1 ELSE age[i]]
        /\ UNCHANGED <<strategy, step, attempt, prev>>
    BY <1>2 DEF Tick, TimeMayPass, Timed, control
  <2>2. RetryTypes'
    BY <2>1 DEF RetryTypes, Timed
  <2>3. TimersEnd'
    BY <2>1, PublishAssumption DEF RetryTypes, TimersEnd, Timed
  <2>. QED
    BY <2>2, <2>3
<1>3. CASE Cancel
  BY <1>3 DEF Cancel, control, RetryTypes, TimersEnd, Untimed
<1>4. CASE Return \/ UNCHANGED batchVars
  BY <1>4 DEF Return, batchVars, control, itemVars, RetryTypes, TimersEnd
<1>. QED
  BY <1>1, <1>2, <1>3, <1>4 DEF PublishNext

(* Retrying a publish ends in time, for every strategy of the backoff and  *)
(* whatever its parameters.                                                *)
THEOREM RetriesEndInTime == Spec => []RetriesInTime
<1>1. Init => RetryInv
  BY RetriesStart DEF Init
<1>2. RetryInv /\ [Next]_vars => RetryInv'
  BY PartSteps, RetryStep
<1>3. RetryInv => RetriesInTime
  BY PublishAssumption DEF RetryInv, RetryTypes, TimersEnd, RetriesInTime, Timed
<1>. QED
  BY <1>1, <1>2, <1>3, PTL DEF Spec

-----------------------------------------------------------------------------
(* Facts about minima and cardinalities                                    *)

LEMMA MinimumIsLeast ==
  ASSUME NEW I \in SUBSET Nat, I # {}
  PROVE  Min(I) \in I /\ \A i \in I : Min(I) <= i
<1>. DEFINE Less == {ss \in Nat \X Nat : ss[1] < ss[2]}
<1>1. IsWellFoundedOn(Less, Nat)
  BY Zenon, NatLessThanWellFounded DEF OpToRel
<1>2. PICK x \in I : \A y \in I : <<y, x>> \notin Less
  BY <1>1, WFMin, Zenon
<1>3. ASSUME NEW y \in I
      PROVE  x <= y
  <2>1. <<y, x>> \notin Less /\ x \in Nat /\ y \in Nat
    BY <1>2
  <2>. QED
    BY <2>1
<1>. QED
  BY <1>3 DEF Min

LEMMA CountOne ==
  ASSUME NEW S, NEW x, IsFiniteSet(S)
  PROVE  /\ Cardinality(S) \in Nat
         /\ Cardinality(S \ {x}) \in Nat
         /\ Cardinality(S) = Cardinality(S \ {x}) + IF x \in S THEN 1 ELSE 0
<1>1. /\ IsFiniteSet(S \ {x})
      /\ Cardinality(S \ {x}) = IF x \in S THEN Cardinality(S) - 1 ELSE Cardinality(S)
  BY FS_RemoveElement, Zenon
<1>2. Cardinality(S) \in Nat
  BY FS_CardinalityType
<1>3. Cardinality(S \ {x}) \in Nat
  BY <1>1, FS_CardinalityType
<1>. QED
  BY <1>1, <1>2, <1>3

LEMMA Removed ==
  ASSUME NEW S, NEW s \in Seq(S), NEW n \in 1..Len(s)
  PROVE  /\ RemoveAt(s, n) \in Seq(S)
         /\ Len(RemoveAt(s, n)) = Len(s) - 1
         /\ \A i \in 1..(n - 1) : RemoveAt(s, n)[i] = s[i]
         /\ \A i \in n..(Len(s) - 1) : RemoveAt(s, n)[i] = s[i + 1]
<1>1. /\ SubSeq(s, 1, n - 1) \in Seq(S) /\ Len(SubSeq(s, 1, n - 1)) = n - 1
      /\ \A i \in 1..(n - 1) : SubSeq(s, 1, n - 1)[i] = s[i]
  BY SubSeqProperties
<1>2. /\ SubSeq(s, n + 1, Len(s)) \in Seq(S) /\ Len(SubSeq(s, n + 1, Len(s))) = Len(s) - n
      /\ \A i \in 1..(Len(s) - n) : SubSeq(s, n + 1, Len(s))[i] = s[n + i]
  <2>1. \A i \in (n + 1)..Len(s) : s[i] \in S
    BY ElementOfSeq
  <2>2. /\ SubSeq(s, n + 1, Len(s)) \in Seq(S)
        /\ Len(SubSeq(s, n + 1, Len(s))) = IF n + 1 <= Len(s) THEN Len(s) - (n + 1) + 1 ELSE 0
        /\ \A i \in 1..(Len(s) - (n + 1) + 1) :
             SubSeq(s, n + 1, Len(s))[i] = s[n + 1 + i - 1]
    BY <2>1, SubSeqProperties
  <2>. QED
    BY <2>2
<1>. DEFINE front == SubSeq(s, 1, n - 1)
            back == SubSeq(s, n + 1, Len(s))
<1>3. RemoveAt(s, n) = front \o back
  BY DEF RemoveAt
<1>4. /\ front \in Seq(S) /\ Len(front) = n - 1 /\ \A i \in 1..(n - 1) : front[i] = s[i]
      /\ back \in Seq(S) /\ Len(back) = Len(s) - n
      /\ \A i \in 1..(Len(s) - n) : back[i] = s[n + i]
  BY <1>1, <1>2
<1>5. Len(s) \in Nat
  OBVIOUS
<1>. HIDE DEF front, back
<1>6. /\ front \o back \in Seq(S)
      /\ Len(front \o back) = (n - 1) + (Len(s) - n)
      /\ \A i \in 1..((n - 1) + (Len(s) - n)) :
           (front \o back)[i] = IF i <= n - 1 THEN front[i] ELSE back[i - (n - 1)]
  <2>1. /\ front \o back \in Seq(S)
        /\ Len(front \o back) = Len(front) + Len(back)
        /\ \A i \in 1..(Len(front) + Len(back)) :
             (front \o back)[i] = IF i <= Len(front) THEN front[i] ELSE back[i - Len(front)]
    BY <1>4, ConcatProperties, Zenon
  <2>. QED
    BY <1>4, <2>1
<1>7. ASSUME NEW i \in n..(Len(s) - 1)
      PROVE  (front \o back)[i] = s[i + 1]
  <2>0. i \in 1..((n - 1) + (Len(s) - n)) /\ ~(i <= n - 1)
    BY <1>5
  <2>1. (front \o back)[i] = back[i - (n - 1)]
    BY <1>6, <2>0, Zenon
  <2>2. i - (n - 1) \in 1..(Len(s) - n)
    BY <1>5
  <2>3. back[i - (n - 1)] = s[n + (i - (n - 1))]
    BY <1>4, <2>2
  <2>4. n + (i - (n - 1)) = i + 1
    OBVIOUS
  <2>. QED
    BY <2>1, <2>3, <2>4
<1>8. Len(front \o back) = Len(s) - 1
  BY <1>5, <1>6
<1>9. ASSUME NEW i \in 1..(n - 1)
      PROVE  (front \o back)[i] = s[i]
  <2>1. i \in 1..((n - 1) + (Len(s) - n)) /\ i <= n - 1
    BY <1>5
  <2>2. (front \o back)[i] = front[i]
    BY <1>6, <2>1, Zenon
  <2>. QED
    BY <1>4, <2>2, Zenon
<1>. QED
  BY <1>3, <1>6, <1>7, <1>8, <1>9, Zenon

-----------------------------------------------------------------------------
(* Local engine                                                            *)

Delivering == {"queued", "waiting", "woken", "handling", "deferring"}

LocalTypes ==
  /\ registered \in Seq(LocalConsumers)
  /\ wants \in [LocalConsumers -> SUBSET Topics]
  /\ named \in [LocalConsumers -> ConsumerIds \cup {NoConsumer}]
  /\ permits \in [LocalConsumers -> Nat]
  /\ at \in [Publishers -> Delivering \cup {"idle", "returned", "raised"}]
  /\ topic \in [Publishers -> Topics \cup {NoTopic}]
  /\ visiting \in [Publishers -> LocalConsumers \cup {NoConsumer}]
  /\ rest \in [Publishers -> Seq(LocalConsumers)]
  /\ meant \in [Publishers -> SUBSET LocalConsumers]
  /\ done \in [Publishers -> SUBSET LocalConsumers]

(* A consumer in use has been created, and its subscription does not       *)
(* change.                                                                 *)
InUse ==
  /\ \A n \in DOMAIN registered : named[registered[n]] # NoConsumer
  /\ \A p \in Publishers : \A c \in meant[p] : named[c] # NoConsumer /\ topic[p] \in wants[c]

LocalInv == LocalTypes /\ InUse /\ LocalPublishSettles

\* Permits of c that p holds.
Holds(p, c) == IF visiting[p] = c /\ at[p] # "queued" THEN 1 ELSE 0

Holders(c) == {p \in Publishers : visiting[p] = c /\ at[p] # "queued"}

LEMMA LocalStarts == LocalInit => LocalInv
<1>. SUFFICES ASSUME LocalInit PROVE LocalInv
  OBVIOUS
<1>1. LocalTypes
  BY LocalAssumption DEF LocalInit, LocalTypes
<1>2. InUse
  BY DEF LocalInit, InUse
<1>3. \A c \in LocalConsumers : {p \in Publishers : visiting[p] = c /\ at[p] # "queued"} = {}
  BY LocalAssumption DEF LocalInit
<1>4. \A c \in LocalConsumers :
        permits[c] + Cardinality({p \in Publishers : visiting[p] = c /\ at[p] # "queued"})
          = Concurrency
  <2>1. \A c \in LocalConsumers : permits[c] = Concurrency
    BY DEF LocalInit
  <2>. QED
    BY <1>3, <2>1, LocalAssumption, FS_EmptySet
<1>. QED
  BY <1>1, <1>2, <1>4 DEF LocalInit, LocalInv, LocalPublishSettles

(* What the permits of the consumers and the permits that publisher p      *)
(* holds add up to stays the same, and the other publishers keep theirs.   *)
LEMMA PermitsAddUp ==
  ASSUME LocalInv, NEW p \in Publishers, permits' \in [LocalConsumers -> Nat],
         \A q \in Publishers \ {p} : visiting'[q] = visiting[q] /\ at'[q] = at[q],
         \A c \in LocalConsumers : permits'[c] + Holds(p, c)' = permits[c] + Holds(p, c)
  PROVE  \A c \in LocalConsumers : permits'[c] + Cardinality(Holders(c)') = Concurrency
<1>. TAKE c \in LocalConsumers
<1>1. IsFiniteSet(Holders(c)) /\ IsFiniteSet(Holders(c)')
  BY LocalAssumption, FS_Subset DEF Holders
<1>2. Holders(c) \ {p} = Holders(c)' \ {p}
  BY DEF Holders
<1>3. /\ Cardinality(Holders(c)) = Cardinality(Holders(c) \ {p}) + Holds(p, c)
      /\ Cardinality(Holders(c)') = Cardinality(Holders(c) \ {p}) + Holds(p, c)'
      /\ Cardinality(Holders(c) \ {p}) \in Nat
  BY <1>1, <1>2, CountOne DEF Holders, Holds
<1>4. permits[c] + Cardinality(Holders(c)) = Concurrency
  BY DEF LocalInv, LocalPublishSettles, Holders
<1>5. permits[c] \in Nat /\ permits'[c] \in Nat /\ Holds(p, c) \in Nat /\ Holds(p, c)' \in Nat
  BY DEF LocalInv, LocalTypes, Holds
<1>6. permits'[c] + Holds(p, c)' = permits[c] + Holds(p, c)
  OBVIOUS
<1>. QED
  BY <1>3, <1>4, <1>5, <1>6

\* Publisher p goes on, by itself, without losing or gaining a permit.
Moves(p) ==
  /\ at' \in [Publishers -> Delivering \cup {"idle", "returned", "raised"}]
  /\ visiting' \in [Publishers -> LocalConsumers \cup {NoConsumer}]
  /\ rest' \in [Publishers -> Seq(LocalConsumers)]
  /\ permits' \in [LocalConsumers -> Nat]
  /\ \A q \in Publishers \ {p} :
       at'[q] = at[q] /\ visiting'[q] = visiting[q] /\ rest'[q] = rest[q]
  /\ at'[p] \in Delivering <=> visiting'[p] # NoConsumer
  /\ \A c \in LocalConsumers : permits'[c] + Holds(p, c)' = permits[c] + Holds(p, c)

\* Where p goes on, each consumer of M that is neither in S nor closed is ahead.
Reaches(p, M, S) ==
  /\ at'[p] = "returned" => M \subseteq S \cup closed
  /\ visiting'[p] # NoConsumer =>
       M \subseteq S \cup closed \cup {visiting'[p]} \cup Range(rest'[p])

LEMMA PublisherMoves ==
  ASSUME LocalInv, NEW p \in Publishers, Moves(p), Reaches(p, meant'[p], done'[p]),
         UNCHANGED engineVars, UNCHANGED closed,
         topic' \in [Publishers -> Topics \cup {NoTopic}],
         meant' \in [Publishers -> SUBSET LocalConsumers],
         done' \in [Publishers -> SUBSET LocalConsumers],
         \A q \in Publishers \ {p} :
           topic'[q] = topic[q] /\ meant'[q] = meant[q] /\ done'[q] = done[q],
         \A c \in meant'[p] : named[c] # NoConsumer /\ topic'[p] \in wants[c]
  PROVE  LocalInv'
<1>1. LocalTypes'
  BY DEF LocalInv, LocalTypes, Moves, engineVars
<1>2. InUse'
  BY DEF LocalInv, LocalTypes, InUse, engineVars
<1>3. \A c \in LocalConsumers : permits'[c] + Cardinality(Holders(c)') = Concurrency
  BY PermitsAddUp DEF Moves
<1>4. ASSUME NEW q \in Publishers
      PROVE  /\ at'[q] = "returned" => meant'[q] \subseteq done'[q] \cup closed'
             /\ visiting'[q] # NoConsumer =>
                  meant'[q] \subseteq done'[q] \cup closed' \cup {visiting'[q]}
                                      \cup Range(rest'[q])
             /\ at'[q] \in Delivering <=> visiting'[q] # NoConsumer
  <2>1. CASE q = p
    BY <2>1 DEF Moves, Reaches
  <2>2. CASE q # p
    BY <2>2 DEF Moves, LocalInv, LocalPublishSettles, Delivering
  <2>. QED
    BY <2>1, <2>2
<1>. QED
  BY <1>1, <1>2, <1>3, <1>4 DEF LocalInv, LocalPublishSettles, Holders, Delivering

(* The loop of publish goes to the first open consumer of the list; the    *)
(* ones it passes over are closed or do not match.                         *)
LEMMA VisitMoves ==
  ASSUME LocalInv, NEW p \in Publishers, NEW t, NEW list \in Seq(LocalConsumers),
         NEW M, NEW S,
         \A c \in M : c \in LocalConsumers /\ t \in wants[c],
         M \subseteq S \cup closed \cup Range(list),
         NEW left \in [LocalConsumers -> Nat],
         \A c \in LocalConsumers : left[c] = permits[c] + Holds(p, c),
         Visit(p, t, list, left)
  PROVE  Moves(p) /\ Reaches(p, M, S)
<1>. DEFINE Open(c) == c \notin closed /\ t \in wants[c]
            I == {i \in 1..Len(list) : Open(list[i])}
            n == IF I # {} THEN Min(I) ELSE 0
<1>1. /\ DOMAIN list = 1..Len(list) /\ Len(list) \in Nat
      /\ \A i \in 1..Len(list) : list[i] \in LocalConsumers
  BY ElementOfSeq, LenProperties
<1>2. I = {} => n = 0
  OBVIOUS
<1>3. ASSUME I # {}
      PROVE  n \in I /\ n \in 1..Len(list) /\ n # 0 /\ \A i \in I : n <= i
  <2>1. I \in SUBSET Nat
    BY <1>1
  <2>2. Min(I) \in I /\ \A i \in I : Min(I) <= i
    BY <1>3, <2>1, MinimumIsLeast
  <2>3. n = Min(I)
    BY <1>3
  <2>. HIDE DEF n
  <2>4. n \in I /\ \A i \in I : n <= i
    BY <2>2, <2>3
  <2>. QED
    BY <1>1, <2>4
<1>4. /\ IF n = 0
           THEN /\ at' = [at EXCEPT ![p] = "returned"]
                /\ visiting' = [visiting EXCEPT ![p] = NoConsumer]
                /\ rest' = [rest EXCEPT ![p] = <<>>]
                /\ permits' = left
           ELSE /\ visiting' = [visiting EXCEPT ![p] = list[n]]
                /\ rest' = [rest EXCEPT ![p] = SubSeq(list, n + 1, Len(list))]
                /\ IF left[list[n]] = 0
                     THEN at' = [at EXCEPT ![p] = "queued"] /\ permits' = left
                     ELSE /\ at' = [at EXCEPT ![p] = IF list[n] \in asleep THEN "waiting"
                                                     ELSE "handling"]
                          /\ permits' = [left EXCEPT ![list[n]] = @ - 1]
  BY DEF Visit, SelectInSeq, SubscriptionMatches
<1>5. \A c \in M : c \in S \cup closed \/ \E i \in I : c = list[i]
  BY <1>1 DEF Range
<1>. HIDE DEF I, n
<1>6. CASE n = 0
  <2>1. M \subseteq S \cup closed
    BY <1>2, <1>3, <1>5, <1>6
  <2>2. Reaches(p, M, S)
    BY <1>4, <1>6, <2>1 DEF Reaches, LocalInv, LocalTypes
  <2>3. \A c \in LocalConsumers : Holds(p, c)' = 0
    BY <1>4, <1>6, LocalAssumption DEF Holds, LocalInv, LocalTypes
  <2>4. \A c \in LocalConsumers : permits'[c] + Holds(p, c)' = permits[c] + Holds(p, c)
    BY <1>4, <1>6, <2>3
  <2>5. /\ at' \in [Publishers -> Delivering \cup {"idle", "returned", "raised"}]
        /\ visiting' \in [Publishers -> LocalConsumers \cup {NoConsumer}]
        /\ rest' \in [Publishers -> Seq(LocalConsumers)]
        /\ permits' \in [LocalConsumers -> Nat]
        /\ \A q \in Publishers \ {p} :
             at'[q] = at[q] /\ visiting'[q] = visiting[q] /\ rest'[q] = rest[q]
    <3>1. <<>> \in Seq(LocalConsumers)
      BY EmptySeq
    <3>2. /\ at' = [at EXCEPT ![p] = "returned"]
          /\ visiting' = [visiting EXCEPT ![p] = NoConsumer]
          /\ rest' = [rest EXCEPT ![p] = <<>>]
          /\ permits' = left
      BY <1>4, <1>6
    <3>. QED
      BY <3>1, <3>2 DEF LocalInv, LocalTypes
  <2>6. at'[p] = "returned" /\ visiting'[p] = NoConsumer
    BY <1>4, <1>6 DEF LocalInv, LocalTypes
  <2>. QED
    BY <2>2, <2>4, <2>5, <2>6 DEF Moves, Delivering
<1>7. CASE n # 0
  <2>1. n \in 1..Len(list) /\ list[n] \in LocalConsumers
    BY <1>1, <1>2, <1>3, <1>7 DEF I
  <2>2. /\ SubSeq(list, n + 1, Len(list)) \in Seq(LocalConsumers)
        /\ \A i \in I \ {n} : list[i] \in Range(SubSeq(list, n + 1, Len(list)))
    <3>. DEFINE tail == SubSeq(list, n + 1, Len(list))
    <3>1. /\ tail \in Seq(LocalConsumers)
          /\ Len(tail) = IF n + 1 <= Len(list) THEN Len(list) - (n + 1) + 1 ELSE 0
          /\ \A i \in 1..(Len(list) - (n + 1) + 1) : tail[i] = list[n + 1 + i - 1]
      BY <1>1, <2>1, SubSeqProperties
    <3>2. ASSUME NEW i \in I \ {n}
          PROVE  list[i] \in Range(tail)
      <4>1. i \in 1..Len(list) /\ n <= i /\ n # i
        BY <1>3 DEF I
      <4>2. i - n \in 1..(Len(list) - (n + 1) + 1) /\ n + 1 + (i - n) - 1 = i
        BY <1>1, <2>1, <4>1
      <4>3. tail[i - n] = list[i]
        BY <3>1, <4>2
      <4>4. i - n \in DOMAIN tail
        BY <1>1, <2>1, <3>1, <4>1, <4>2, LenProperties
      <4>. QED
        BY <4>3, <4>4 DEF Range
    <3>. QED
      BY <3>1, <3>2
  <2>3. /\ visiting' = [visiting EXCEPT ![p] = list[n]]
        /\ rest' = [rest EXCEPT ![p] = SubSeq(list, n + 1, Len(list))]
        /\ \/ /\ left[list[n]] = 0
              /\ at' = [at EXCEPT ![p] = "queued"] /\ permits' = left
           \/ /\ left[list[n]] # 0
              /\ at' \in {[at EXCEPT ![p] = "waiting"], [at EXCEPT ![p] = "handling"]}
              /\ permits' = [left EXCEPT ![list[n]] = @ - 1]
    BY <1>4, <1>7
  <2>4. /\ visiting'[p] = list[n] /\ rest'[p] = SubSeq(list, n + 1, Len(list))
        /\ at'[p] \in Delivering
    BY <2>3 DEF LocalInv, LocalTypes, Delivering
  <2>5. Reaches(p, M, S)
    <3>1. \A c \in M : \/ c \in S \cup closed
                       \/ c = visiting'[p] \/ c \in Range(rest'[p])
      BY <1>5, <2>2, <2>4, Zenon
    <3>. QED
      BY <2>4, <3>1 DEF Reaches, Delivering
  <2>6. permits' \in [LocalConsumers -> Nat]
    <3>1. left[list[n]] \in Nat
      BY <2>1
    <3>2. \/ permits' = left
          \/ left[list[n]] # 0 /\ permits' = [left EXCEPT ![list[n]] = left[list[n]] - 1]
      BY <2>3
    <3>. QED
      BY <3>1, <3>2
  <2>7. \A c \in LocalConsumers : permits'[c] + Holds(p, c)' = left[c]
    <3>1. CASE at' = [at EXCEPT ![p] = "queued"] /\ permits' = left
      BY <3>1 DEF Holds, LocalInv, LocalTypes
    <3>2. CASE /\ left[list[n]] # 0
               /\ at' \in {[at EXCEPT ![p] = "waiting"], [at EXCEPT ![p] = "handling"]}
               /\ permits' = [left EXCEPT ![list[n]] = @ - 1]
      <4>0. at \in [Publishers -> Delivering \cup {"idle", "returned", "raised"}]
        BY DEF LocalInv, LocalTypes
      <4>1. \A c \in LocalConsumers : Holds(p, c)' = IF c = list[n] THEN 1 ELSE 0
        BY <2>4, <3>2, <4>0 DEF Holds
      <4>. QED
        BY <2>1, <3>2, <4>1
    <3>. QED
      BY <2>3, <3>1, <3>2
  <2>8. /\ at' \in [Publishers -> Delivering \cup {"idle", "returned", "raised"}]
        /\ visiting' \in [Publishers -> LocalConsumers \cup {NoConsumer}]
        /\ rest' \in [Publishers -> Seq(LocalConsumers)]
        /\ \A q \in Publishers \ {p} :
             at'[q] = at[q] /\ visiting'[q] = visiting[q] /\ rest'[q] = rest[q]
    <3>1. /\ at \in [Publishers -> Delivering \cup {"idle", "returned", "raised"}]
          /\ visiting \in [Publishers -> LocalConsumers \cup {NoConsumer}]
          /\ rest \in [Publishers -> Seq(LocalConsumers)]
      BY DEF LocalInv, LocalTypes
    <3>2. \E a \in Delivering : at' = [at EXCEPT ![p] = a]
      BY <2>3 DEF Delivering
    <3>3. /\ visiting' \in [Publishers -> LocalConsumers \cup {NoConsumer}]
          /\ rest' \in [Publishers -> Seq(LocalConsumers)]
          /\ \A q \in Publishers \ {p} : visiting'[q] = visiting[q] /\ rest'[q] = rest[q]
      BY <2>1, <2>2, <2>3, <3>1
    <3>. QED
      BY <3>1, <3>2, <3>3
  <2>9. at'[p] \in Delivering <=> visiting'[p] # NoConsumer
    BY <2>1, <2>4, LocalAssumption
  <2>. QED
    BY <2>5, <2>6, <2>7, <2>8, <2>9 DEF Moves
<1>. QED
  BY <1>6, <1>7

(* The loop of deliver keeps its permit for another delivery, or gives it  *)
(* back when its consumer is closed and publish goes on.                   *)
LEMMA AgainMoves ==
  ASSUME LocalInv, NEW p \in Publishers, visiting[p] # NoConsumer,
         NEW k, NEW left \in [LocalConsumers -> Nat],
         \A c \in LocalConsumers :
           left[c] + (IF c = visiting[p] THEN 1 ELSE 0) = permits[c] + Holds(p, c),
         NEW S, done[p] \subseteq S,
         Again(p, left, k)
  PROVE  Moves(p) /\ Reaches(p, meant[p], S)
<1>1. /\ visiting[p] \in LocalConsumers /\ at[p] \in Delivering
      /\ meant[p] \subseteq S \cup closed \cup {visiting[p]} \cup Range(rest[p])
      /\ rest[p] \in Seq(LocalConsumers)
      /\ \A c \in meant[p] : c \in LocalConsumers /\ topic[p] \in wants[c]
  BY DEF LocalInv, LocalTypes, LocalPublishSettles, InUse, Delivering
<1>2. CASE visiting[p] \in closed
  <2>. DEFINE more == [left EXCEPT ![visiting[p]] = @ + 1]
  <2>1. more \in [LocalConsumers -> Nat]
    <3>1. left[visiting[p]] + 1 \in Nat
      BY <1>1
    <3>. QED
      BY <3>1
  <2>2. \A c \in LocalConsumers : more[c] = permits[c] + Holds(p, c)
    BY <1>1
  <2>3. Visit(p, topic[p], rest[p], more)
    BY <1>2 DEF Again
  <2>4. meant[p] \subseteq S \cup closed \cup Range(rest[p])
    BY <1>1, <1>2
  <2>. HIDE DEF more
  <2>. QED
    BY <1>1, <2>1, <2>2, <2>3, <2>4, VisitMoves
<1>3. CASE visiting[p] \notin closed
  <2>1. /\ at' \in {[at EXCEPT ![p] = "waiting"], [at EXCEPT ![p] = "handling"]}
        /\ permits' = left /\ UNCHANGED <<visiting, rest>>
    BY <1>3 DEF Again
  <2>2. at'[p] \in {"waiting", "handling"}
    BY <2>1 DEF LocalInv, LocalTypes
  <2>3. \A c \in LocalConsumers : Holds(p, c)' = IF c = visiting[p] THEN 1 ELSE 0
    BY <2>1, <2>2 DEF Holds
  <2>4. \A c \in LocalConsumers : permits'[c] + Holds(p, c)' = permits[c] + Holds(p, c)
    BY <2>1, <2>3
  <2>5. /\ at' \in [Publishers -> Delivering \cup {"idle", "returned", "raised"}]
        /\ \A q \in Publishers \ {p} : at'[q] = at[q]
    BY <2>1 DEF LocalInv, LocalTypes, Delivering
  <2>6. Moves(p)
    BY <1>1, <2>1, <2>2, <2>4, <2>5 DEF Moves, LocalInv, LocalTypes, Delivering
  <2>7. Reaches(p, meant[p], S)
    BY <1>1, <2>1, <2>2 DEF Reaches
  <2>. QED
    BY <2>6, <2>7
<1>. QED
  BY <1>2, <1>3

LEMMA PublishStarts ==
  ASSUME LocalInv, NEW p \in Publishers, PublishLocal(p)
  PROVE  LocalInv'
<1>1. PICK t \in Topics :
        /\ topic' = [topic EXCEPT ![p] = t]
        /\ meant' = [meant EXCEPT ![p] = {c \in Range(registered) : t \in wants[c]}]
        /\ Visit(p, t, registered, permits)
  BY DEF PublishLocal, SubscriptionMatches
<1>2. /\ at[p] \notin Delivering /\ visiting[p] = NoConsumer
      /\ done' = [done EXCEPT ![p] = {}] /\ UNCHANGED engineVars /\ UNCHANGED closed
  BY DEF PublishLocal, LocalInv, LocalPublishSettles, Delivering, flagVars
<1>3. /\ registered \in Seq(LocalConsumers) /\ permits \in [LocalConsumers -> Nat]
      /\ \A c \in Range(registered) : c \in LocalConsumers /\ named[c] # NoConsumer
  BY ElementOfSeq, LenProperties DEF LocalInv, LocalTypes, InUse, Range
<1>4. \A c \in LocalConsumers : permits[c] = permits[c] + Holds(p, c)
  BY <1>2, <1>3, LocalAssumption DEF Holds
<1>5. /\ topic'[p] = t /\ topic' \in [Publishers -> Topics \cup {NoTopic}]
      /\ meant'[p] = {c \in Range(registered) : t \in wants[c]}
      /\ meant' \in [Publishers -> SUBSET LocalConsumers]
      /\ done'[p] = {} /\ done' \in [Publishers -> SUBSET LocalConsumers]
      /\ \A q \in Publishers \ {p} :
           topic'[q] = topic[q] /\ meant'[q] = meant[q] /\ done'[q] = done[q]
  BY <1>1, <1>2, <1>3 DEF LocalInv, LocalTypes
<1>6. Moves(p) /\ Reaches(p, meant'[p], done'[p])
  <2>1. /\ \A c \in meant'[p] : c \in LocalConsumers /\ t \in wants[c]
        /\ meant'[p] \subseteq done'[p] \cup closed \cup Range(registered)
    BY <1>3, <1>5
  <2>. QED
    BY <1>1, <1>3, <1>4, <2>1, VisitMoves
<1>7. \A c \in meant'[p] : named[c] # NoConsumer /\ topic'[p] \in wants[c]
  BY <1>3, <1>5
<1>. QED
  BY <1>2, <1>5, <1>6, <1>7, PublisherMoves

(* The publisher keeps its message and its snapshot.                       *)
LEMMA PublisherGoesOn ==
  ASSUME LocalInv, NEW p \in Publishers, Moves(p), Reaches(p, meant[p], done'[p]),
         UNCHANGED <<engineVars, flagVars, topic, meant>>,
         done' \in [Publishers -> SUBSET LocalConsumers],
         \A q \in Publishers \ {p} : done'[q] = done[q]
  PROVE  LocalInv'
<1>1. /\ topic' = topic /\ meant' = meant /\ UNCHANGED engineVars /\ UNCHANGED closed
      /\ \A c \in meant[p] : named[c] # NoConsumer /\ topic[p] \in wants[c]
  BY DEF flagVars, LocalInv, InUse
<1>2. /\ topic' \in [Publishers -> Topics \cup {NoTopic}]
      /\ meant' \in [Publishers -> SUBSET LocalConsumers]
  BY <1>1 DEF LocalInv, LocalTypes
<1>. QED
  BY <1>1, <1>2, PublisherMoves

LEMMA DeliverGoesOn ==
  ASSUME LocalInv, NEW p \in Publishers, Acquire(p) \/ DelayOver(p)
  PROVE  LocalInv'
<1>1. /\ visiting[p] # NoConsumer /\ visiting[p] \in LocalConsumers
      /\ permits \in [LocalConsumers -> Nat] /\ done' = done
      /\ done \in [Publishers -> SUBSET LocalConsumers]
      /\ UNCHANGED <<engineVars, flagVars, topic, meant>>
  BY LocalAssumption DEF Acquire, DelayOver, LocalInv, LocalTypes, LocalPublishSettles
<1>2. PICK left \in [LocalConsumers -> Nat], k \in {1, delivery[p] + 1} :
        /\ \A c \in LocalConsumers :
             left[c] + (IF c = visiting[p] THEN 1 ELSE 0) = permits[c] + Holds(p, c)
        /\ Again(p, left, k)
  <2>1. CASE Acquire(p)
    <3>. DEFINE left == [permits EXCEPT ![visiting[p]] = @ - 1]
    <3>1. at[p] = "queued" /\ permits[visiting[p]] > 0 /\ Again(p, left, 1)
      BY <2>1 DEF Acquire
    <3>2. permits[visiting[p]] - 1 \in Nat
      BY <1>1, <3>1
    <3>3. left \in [LocalConsumers -> Nat]
      BY <1>1, <3>2
    <3>4. \A c \in LocalConsumers :
            left[c] + (IF c = visiting[p] THEN 1 ELSE 0) = permits[c] + Holds(p, c)
      BY <1>1, <3>1 DEF Holds
    <3>. QED
      BY <3>1, <3>3, <3>4
  <2>2. CASE DelayOver(p)
    <3>1. at[p] = "deferring" /\ Again(p, permits, delivery[p] + 1)
      BY <2>2 DEF DelayOver
    <3>2. \A c \in LocalConsumers :
            permits[c] + (IF c = visiting[p] THEN 1 ELSE 0) = permits[c] + Holds(p, c)
      BY <3>1 DEF Holds
    <3>. QED
      BY <1>1, <3>1, <3>2
  <2>. QED
    BY <2>1, <2>2
<1>3. Moves(p) /\ Reaches(p, meant[p], done[p])
  BY <1>1, <1>2, AgainMoves
<1>. QED
  BY <1>1, <1>3, PublisherGoesOn

LEMMA HandlerStarts ==
  ASSUME LocalInv, NEW p \in Publishers, Start(p)
  PROVE  LocalInv'
<1>1. /\ at[p] = "woken" /\ at' = [at EXCEPT ![p] = "handling"]
      /\ visiting[p] # NoConsumer /\ done' = done
      /\ UNCHANGED <<engineVars, flagVars, topic, meant>>
      /\ UNCHANGED <<permits, visiting, rest>>
  BY DEF Start, LocalInv, LocalPublishSettles
<1>2. at'[p] = "handling"
  BY <1>1 DEF LocalInv, LocalTypes
<1>3. \A c \in LocalConsumers : Holds(p, c)' = Holds(p, c)
  BY <1>1, <1>2 DEF Holds
<1>4. Moves(p)
  BY <1>1, <1>2, <1>3 DEF Moves, LocalInv, LocalTypes, Delivering
<1>5. Reaches(p, meant[p], done'[p])
  BY <1>1, <1>2 DEF Reaches, LocalInv, LocalPublishSettles
<1>. QED
  BY <1>1, <1>4, <1>5, PublisherGoesOn DEF LocalInv, LocalTypes

LEMMA DeliveryEnds ==
  ASSUME LocalInv, NEW p \in Publishers, HandlerSettles(p)
  PROVE  LocalInv'
<1>1. PICK action \in Actions :
        /\ done' = IF action = "done" THEN [done EXCEPT ![p] = @ \cup {visiting[p]}] ELSE done
        /\ Redelivers(action) => delivery[p] < MaxDeliveries
        /\ ~Redelivers(action) => Visit(p, topic[p], rest[p], Released(p))
        /\ Redelivers(action) /\ action # "defer" => Again(p, permits, delivery[p] + 1)
        /\ Redelivers(action) /\ action = "defer" =>
             /\ at' = [at EXCEPT ![p] = "deferring"]
             /\ UNCHANGED <<permits, visiting, rest, delivery>>
  BY DEF HandlerSettles
<1>2. /\ at[p] = "handling" /\ visiting[p] # NoConsumer /\ visiting[p] \in LocalConsumers
      /\ permits \in [LocalConsumers -> Nat] /\ rest[p] \in Seq(LocalConsumers)
      /\ UNCHANGED <<engineVars, flagVars, topic, meant>>
      /\ \A c \in meant[p] : c \in LocalConsumers /\ topic[p] \in wants[c]
      /\ meant[p] \subseteq done[p] \cup closed \cup {visiting[p]} \cup Range(rest[p])
  BY DEF HandlerSettles, LocalInv, LocalTypes, LocalPublishSettles, InUse
<1>3. \A c \in LocalConsumers : Holds(p, c) = IF c = visiting[p] THEN 1 ELSE 0
  BY <1>2 DEF Holds
<1>4. CASE action = "done"
  <2>1. /\ done' \in [Publishers -> SUBSET LocalConsumers]
        /\ done'[p] = done[p] \cup {visiting[p]}
        /\ \A q \in Publishers \ {p} : done'[q] = done[q]
    BY <1>1, <1>2, <1>4 DEF LocalInv, LocalTypes
  <2>2. Visit(p, topic[p], rest[p], Released(p))
    BY <1>1, <1>4 DEF Redelivers
  <2>3. /\ Released(p) \in [LocalConsumers -> Nat]
        /\ \A c \in LocalConsumers : Released(p)[c] = permits[c] + Holds(p, c)
    <3>1. permits[visiting[p]] + 1 \in Nat
      BY <1>2
    <3>. QED
      BY <1>2, <1>3, <3>1 DEF Released
  <2>4. meant[p] \subseteq done'[p] \cup closed \cup Range(rest[p])
    BY <1>2, <2>1
  <2>5. Moves(p) /\ Reaches(p, meant[p], done'[p])
    BY <1>2, <2>2, <2>3, <2>4, VisitMoves
  <2>. QED
    BY <1>2, <2>1, <2>5, PublisherGoesOn
<1>5. CASE action # "done"
  <2>1. done' = done /\ done \in [Publishers -> SUBSET LocalConsumers]
    BY <1>1, <1>5 DEF LocalInv, LocalTypes
  <2>2. Moves(p) /\ Reaches(p, meant[p], done[p])
    <3>1. CASE action = "requeue"
      <4>1. Again(p, permits, delivery[p] + 1)
        BY <1>1, <3>1 DEF Redelivers
      <4>2. \A c \in LocalConsumers :
              permits[c] + (IF c = visiting[p] THEN 1 ELSE 0) = permits[c] + Holds(p, c)
        BY <1>3
      <4>. QED
        BY <1>2, <4>1, <4>2, AgainMoves
    <3>2. CASE action = "defer"
      <4>1. at' = [at EXCEPT ![p] = "deferring"] /\ UNCHANGED <<permits, visiting, rest>>
        BY <1>1, <3>2 DEF Redelivers
      <4>2. at'[p] = "deferring"
        BY <4>1 DEF LocalInv, LocalTypes
      <4>3. \A c \in LocalConsumers : Holds(p, c)' = Holds(p, c)
        BY <1>3, <4>1, <4>2 DEF Holds
      <4>4. Moves(p)
        BY <1>2, <4>1, <4>2, <4>3 DEF Moves, LocalInv, LocalTypes, Delivering
      <4>5. Reaches(p, meant[p], done[p])
        BY <1>2, <4>1, <4>2 DEF Reaches
      <4>. QED
        BY <4>4, <4>5
    <3>. QED
      BY <1>5, <3>1, <3>2 DEF Actions
  <2>. QED
    BY <1>2, <2>1, <2>2, PublisherGoesOn
<1>. QED
  BY <1>4, <1>5

LEMMA PublishEndsRaising ==
  ASSUME LocalInv, NEW p \in Publishers, PublishRaises(p)
  PROVE  LocalInv'
<1>1. /\ at[p] \in Delivering /\ visiting[p] # NoConsumer /\ visiting[p] \in LocalConsumers
      /\ permits' = IF at[p] = "queued" THEN permits ELSE Released(p)
      /\ at' = [at EXCEPT ![p] = "raised"]
      /\ visiting' = [visiting EXCEPT ![p] = NoConsumer]
      /\ rest' = [rest EXCEPT ![p] = <<>>]
      /\ UNCHANGED <<engineVars, flagVars, topic, meant>> /\ done' = done
  BY DEF PublishRaises, LocalInv, LocalTypes, LocalPublishSettles, Delivering
<1>2. at'[p] = "raised" /\ visiting'[p] = NoConsumer
  BY <1>1 DEF LocalInv, LocalTypes
<1>3. permits[visiting[p]] + 1 \in Nat /\ permits \in [LocalConsumers -> Nat]
  BY <1>1 DEF LocalInv, LocalTypes
<1>4. permits' \in [LocalConsumers -> Nat]
  BY <1>1, <1>3 DEF Released
<1>5. \A c \in LocalConsumers : permits'[c] + Holds(p, c)' = permits[c] + Holds(p, c)
  <2>1. \A c \in LocalConsumers : Holds(p, c)' = 0
    BY <1>2, LocalAssumption DEF Holds
  <2>2. CASE at[p] = "queued"
    BY <1>1, <2>1, <2>2 DEF Holds
  <2>3. CASE at[p] # "queued"
    BY <1>1, <1>3, <2>1, <2>3 DEF Holds, Released
  <2>. QED
    BY <2>2, <2>3
<1>6. <<>> \in Seq(LocalConsumers)
  BY EmptySeq
<1>7. Moves(p)
  BY <1>1, <1>2, <1>4, <1>5, <1>6 DEF Moves, LocalInv, LocalTypes, Delivering
<1>8. Reaches(p, meant[p], done'[p])
  BY <1>2 DEF Reaches
<1>. QED
  BY <1>1, <1>7, <1>8, PublisherGoesOn DEF LocalInv, LocalTypes

(* What happens to the consumers wakes publishers and makes consumers      *)
(* closed, and takes no permit.                                            *)
LEMMA ConsumersChange ==
  ASSUME LocalInv, closed \subseteq closed', UNCHANGED <<permits, topic, visiting, rest, meant, done>>,
         \/ UNCHANGED at
         \/ \E S : at' = [p \in Publishers |->
                            IF at[p] = "waiting" /\ visiting[p] \in S THEN "woken" ELSE at[p]],
         registered' \in Seq(LocalConsumers),
         wants' \in [LocalConsumers -> SUBSET Topics],
         named' \in [LocalConsumers -> ConsumerIds \cup {NoConsumer}],
         \A n \in DOMAIN registered' : named'[registered'[n]] # NoConsumer,
         \A c \in LocalConsumers : named[c] # NoConsumer =>
                                     named'[c] = named[c] /\ wants'[c] = wants[c]
  PROVE  LocalInv'
<1>1. /\ at' \in [Publishers -> Delivering \cup {"idle", "returned", "raised"}]
      /\ \A p \in Publishers : /\ at'[p] = "queued" <=> at[p] = "queued"
                               /\ at'[p] = "returned" <=> at[p] = "returned"
                               /\ at'[p] \in Delivering <=> at[p] \in Delivering
  <2>1. /\ at' \in [Publishers -> Delivering \cup {"idle", "returned", "raised"}]
        /\ \A p \in Publishers : at'[p] = at[p] \/ (at[p] = "waiting" /\ at'[p] = "woken")
    BY DEF LocalInv, LocalTypes, Delivering
  <2>. QED
    BY <2>1 DEF Delivering
<1>2. LocalTypes'
  BY <1>1 DEF LocalInv, LocalTypes
<1>3. InUse'
  BY DEF LocalInv, LocalTypes, InUse
<1>4. \A c \in LocalConsumers : Holders(c)' = Holders(c)
  BY <1>1 DEF Holders
<1>5. \A c \in LocalConsumers : permits'[c] + Cardinality(Holders(c)') = Concurrency
  BY <1>4 DEF LocalInv, LocalPublishSettles, Holders
<1>6. \A p \in Publishers :
        /\ at'[p] = "returned" => meant'[p] \subseteq done'[p] \cup closed'
        /\ visiting'[p] # NoConsumer =>
             meant'[p] \subseteq done'[p] \cup closed' \cup {visiting'[p]} \cup Range(rest'[p])
        /\ at'[p] \in Delivering <=> visiting'[p] # NoConsumer
  BY <1>1 DEF LocalInv, LocalPublishSettles, Delivering
<1>. QED
  BY <1>2, <1>3, <1>5, <1>6 DEF LocalInv, LocalPublishSettles, Holders, Delivering

LEMMA EngineSteps ==
  ASSUME LocalInv, CreateConsumer \/ Connect \/ Disconnect
  PROVE  LocalInv'
<1>1. /\ registered \in Seq(LocalConsumers) /\ wants \in [LocalConsumers -> SUBSET Topics]
      /\ named \in [LocalConsumers -> ConsumerIds \cup {NoConsumer}]
      /\ \A n \in DOMAIN registered : registered[n] \in LocalConsumers
                                      /\ named[registered[n]] # NoConsumer
  BY ElementOfSeq, LenProperties DEF LocalInv, LocalTypes, InUse
<1>2. CASE CreateConsumer
  <2>1. PICK c \in LocalConsumers, i \in ConsumerIds, T \in SUBSET Topics :
          /\ named[c] = NoConsumer
          /\ named' = [named EXCEPT ![c] = i]
          /\ wants' = [wants EXCEPT ![c] = T]
          /\ registered' = Append(registered, c)
    BY <1>2 DEF CreateConsumer
  <2>2. UNCHANGED <<closed, at, permits, topic, visiting, rest, meant, done>>
    BY <1>2 DEF CreateConsumer, flagVars, publishVars
  <2>3. /\ registered' \in Seq(LocalConsumers)
        /\ \A n \in DOMAIN registered' : registered'[n] = c \/ \E m \in DOMAIN registered :
                                                                 registered'[n] = registered[m]
    BY <1>1, <2>1, AppendProperties
  <2>4. i # NoConsumer
    BY LocalAssumption
  <2>5. /\ wants' \in [LocalConsumers -> SUBSET Topics]
        /\ named' \in [LocalConsumers -> ConsumerIds \cup {NoConsumer}]
        /\ named'[c] # NoConsumer
        /\ \A d \in LocalConsumers \ {c} : named'[d] = named[d] /\ wants'[d] = wants[d]
    BY <1>1, <2>1, <2>4
  <2>6. \A n \in DOMAIN registered' : named'[registered'[n]] # NoConsumer
    BY <1>1, <2>3, <2>5
  <2>. QED
    BY <2>1, <2>2, <2>3, <2>5, <2>6, ConsumersChange
<1>3. CASE Connect
  <2>1. UNCHANGED <<registered, wants, named, closed, permits, at, topic, visiting, rest, meant,
                    done>>
    BY <1>3 DEF Connect, flagVars, publishVars
  <2>. QED
    BY <1>1, <2>1, ConsumersChange
<1>4. CASE Disconnect
  <2>1. /\ registered' = <<>> /\ closed' = closed \cup Range(registered)
        /\ at' = [p \in Publishers |-> IF at[p] = "waiting" /\ visiting[p] \in Range(registered)
                                         THEN "woken" ELSE at[p]]
        /\ UNCHANGED <<wants, named, permits, topic, visiting, rest, meant, done>>
    BY <1>4 DEF Disconnect, CloseAll, WakeAll
  <2>2. registered' \in Seq(LocalConsumers) /\ DOMAIN registered' = {}
    BY <2>1, EmptySeq
  <2>. QED
    BY <1>1, <2>1, <2>2, ConsumersChange
<1>. QED
  BY <1>2, <1>3, <1>4

LEMMA ConsumerSteps ==
  ASSUME LocalInv, NEW c \in LocalConsumers,
         PauseConsumer(c) \/ ResumeConsumer(c) \/ CloseConsumer(c)
  PROVE  LocalInv'
<1>1. /\ registered \in Seq(LocalConsumers) /\ wants \in [LocalConsumers -> SUBSET Topics]
      /\ named \in [LocalConsumers -> ConsumerIds \cup {NoConsumer}]
      /\ \A n \in DOMAIN registered : named[registered[n]] # NoConsumer
  BY DEF LocalInv, LocalTypes, InUse
<1>2. CASE PauseConsumer(c)
  <2>1. UNCHANGED <<registered, wants, named, closed, permits, at, topic, visiting, rest, meant,
                    done>>
    BY <1>2 DEF PauseConsumer, engineVars, publishVars
  <2>. QED
    BY <1>1, <2>1, ConsumersChange
<1>3. CASE ResumeConsumer(c)
  <2>1. /\ at' = [p \in Publishers |-> IF at[p] = "waiting" /\ visiting[p] \in {c}
                                         THEN "woken" ELSE at[p]]
        /\ UNCHANGED <<registered, wants, named, closed, permits, topic, visiting, rest, meant,
                       done>>
    BY <1>3 DEF ResumeConsumer, WakeAll, engineVars
  <2>. QED
    BY <1>1, <2>1, ConsumersChange
<1>4. CASE CloseConsumer(c)
  <2>1. /\ closed' = closed \cup {c}
        /\ at' = [p \in Publishers |-> IF at[p] = "waiting" /\ visiting[p] \in {c}
                                         THEN "woken" ELSE at[p]]
        /\ UNCHANGED <<wants, named, permits, topic, visiting, rest, meant, done>>
        /\ \/ UNCHANGED registered
           \/ \E n \in DOMAIN registered : registered' = RemoveAt(registered, n)
    BY <1>4 DEF CloseConsumer, CloseAll, WakeAll
  <2>2. /\ registered' \in Seq(LocalConsumers)
        /\ \A n \in DOMAIN registered' : named[registered'[n]] # NoConsumer
    <3>1. CASE UNCHANGED registered
      BY <1>1, <3>1
    <3>2. ASSUME NEW n \in DOMAIN registered, registered' = RemoveAt(registered, n)
          PROVE  <2>2
      <4>1. n \in 1..Len(registered) /\ DOMAIN registered = 1..Len(registered)
            /\ Len(registered) \in Nat
        BY <1>1, LenProperties
      <4>2. /\ registered' \in Seq(LocalConsumers)
            /\ Len(registered') = Len(registered) - 1
            /\ \A i \in 1..(n - 1) : registered'[i] = registered[i]
            /\ \A i \in n..(Len(registered) - 1) : registered'[i] = registered[i + 1]
        BY <1>1, <3>2, <4>1, Removed
      <4>3. DOMAIN registered' = 1..(Len(registered) - 1)
        BY <4>2, LenProperties
      <4>4. ASSUME NEW i \in DOMAIN registered'
            PROVE  named[registered'[i]] # NoConsumer
        <5>1. CASE i \in 1..(n - 1)
          BY <1>1, <4>1, <4>2, <5>1
        <5>2. CASE i \in n..(Len(registered) - 1)
          <6>1. registered'[i] = registered[i + 1] /\ i + 1 \in 1..Len(registered)
            BY <4>1, <4>2, <5>2
          <6>. QED
            BY <1>1, <4>1, <6>1
        <5>. QED
          BY <4>1, <4>3, <5>1, <5>2
      <4>. QED
        BY <4>2, <4>4
    <3>. QED
      BY <2>1, <3>1, <3>2
  <2>. QED
    BY <1>1, <2>1, <2>2, ConsumersChange
<1>. QED
  BY <1>2, <1>3, <1>4

LEMMA LocalStep ==
  ASSUME LocalInv, LocalNext \/ UNCHANGED localVars
  PROVE  LocalInv'
<1>1. CASE UNCHANGED localVars
  <2>1. /\ UNCHANGED <<registered, wants, named, closed, permits, at, topic, visiting, rest,
                       meant, done>>
        /\ registered \in Seq(LocalConsumers) /\ wants \in [LocalConsumers -> SUBSET Topics]
        /\ named \in [LocalConsumers -> ConsumerIds \cup {NoConsumer}]
        /\ \A n \in DOMAIN registered : named[registered[n]] # NoConsumer
    BY <1>1 DEF localVars, LocalInv, LocalTypes, InUse
  <2>. QED
    BY <2>1, ConsumersChange
<1>. QED
  BY <1>1, EngineSteps, ConsumerSteps, PublishStarts, DeliverGoesOn, HandlerStarts,
     DeliveryEnds, PublishEndsRaising DEF LocalNext

(* The local engine's publish settles its message with every consumer that *)
(* matched and stays open, and no interleaving loses a permit.             *)
THEOREM LocalPublishesSettle == Spec => []LocalPublishSettles
<1>1. Init => LocalInv
  BY LocalStarts DEF Init
<1>2. LocalInv /\ [Next]_vars => LocalInv'
  BY PartSteps, LocalStep
<1>3. LocalInv => LocalPublishSettles
  BY DEF LocalInv
<1>. QED
  BY <1>1, <1>2, <1>3, PTL DEF Spec

-----------------------------------------------------------------------------
(* Subscriptions                                                           *)

Unsubscribed == {"new", "creating", "created", "refused"}
Asked == {"new", "creating"}
HandleStates == Unsubscribed \cup {"active", "paused", "failed", "closed"}

HandleTypes ==
  /\ sub \in [Subs -> HandleStates]
  /\ busy \in [Subs -> {"free", "pausing", "resuming", "closing"}]
  /\ target \in [Subs -> 0..MaxConsumers] /\ record \in [Subs -> 0..MaxConsumers]
  /\ consumer \in [Subs -> [Generations -> {"none", "open", "paused", "closed"}]]
  /\ callbacks \in Seq(Subs)
  /\ link \in {"up", "down", "restoring", "failed"}
  /\ next \in Nat \ {0} /\ restoring \in Subs \cup {Nobody}

(* Only the consumer of the record can be open, and a call works on one of *)
(* the subscription's consumers.                                           *)
OneConsumer(s) ==
  /\ \A g \in Generations : /\ g < record[s] => consumer[s][g] = "closed"
                            /\ g = record[s] => consumer[s][g] # "none"
                            /\ g > record[s] => consumer[s][g] = "none"
  /\ sub[s] \in Asked => record[s] = 0
  /\ sub[s] \notin Asked \cup {"refused"} => record[s] \in Generations
  /\ sub[s] \in Unsubscribed => busy[s] = "free"
                               /\ \A g \in Generations : consumer[s][g] # "paused"
  /\ busy[s] # "free" => target[s] \in 1..record[s]
  /\ busy[s] = "pausing" => sub[s] = "active"
  /\ busy[s] = "resuming" => sub[s] = "paused"
  /\ busy[s] = "closing" => sub[s] \in {"active", "paused", "failed"}

(* A subscription in use has its callback, once; while a callback is       *)
(* awaited its subscription has no open consumer.                          *)
CallbacksAgree ==
  /\ \A i, j \in DOMAIN callbacks : callbacks[i] = callbacks[j] => i = j
  /\ \A i \in DOMAIN callbacks : sub[callbacks[i]] \notin Unsubscribed
  /\ \A s \in Subs : /\ sub[s] \in {"active", "paused"} /\ busy[s] # "closing" /\ s \notin orphaned
                     => \E i \in DOMAIN callbacks : callbacks[i] = s
  /\ restoring # Nobody => /\ link = "restoring" /\ sub[restoring] \notin Unsubscribed
                           /\ Shut(restoring)
                           /\ \A i \in DOMAIN callbacks : callbacks[i] = restoring => i < next

\* No restore that is under way is still to reach s.
Reached(s) ==
  \/ link = "up"
  \/ link = "restoring" /\ restoring # s
     /\ \A i \in DOMAIN callbacks : callbacks[i] = s => i < next

(* What HandlesAgree says of a handle no call works on, extended to those  *)
(* under way.                                                              *)
HandleAgrees(s) ==
  /\ sub[s] \in {"active", "paused"} /\ busy[s] # "closing" /\ s \notin orphaned \cup skipped
     /\ Reached(s) =>
       /\ sub[s] = "active" => consumer[s][record[s]] = "open"
       /\ sub[s] = "paused" => \/ consumer[s][record[s]] = "paused"
                               \/ s \in reopened /\ consumer[s][record[s]] = "open"
       /\ busy[s] = "pausing" => target[s] = record[s] \/ s \in reopened
       /\ busy[s] = "resuming" => target[s] = record[s] \/ consumer[s][record[s]] = "open"
  /\ busy[s] = "closing" /\ s \notin orphaned => target[s] = record[s]
  /\ sub[s] = "closed" /\ s \notin orphaned => Shut(s)

HandleInv ==
  /\ HandleTypes /\ CallbacksAgree
  /\ \A s \in Subs : OneConsumer(s) /\ HandleAgrees(s)

LEMMA HandlesStart == SubscriptionInit => HandleInv
<1>. SUFFICES ASSUME SubscriptionInit PROVE HandleInv
  OBVIOUS
<1>1. HandleTypes
  BY SubscriptionAssumption DEF SubscriptionInit, HandleTypes, HandleStates, Unsubscribed
<1>2. CallbacksAgree
  BY DEF SubscriptionInit, CallbacksAgree
<1>3. \A s \in Subs : OneConsumer(s)
  BY DEF SubscriptionInit, OneConsumer, Generations, Asked
<1>4. \A s \in Subs : HandleAgrees(s)
  BY DEF SubscriptionInit, HandleAgrees
<1>. QED
  BY <1>1, <1>2, <1>3, <1>4 DEF HandleInv

LEMMA CreatedInOrder ==
  ASSUME HandleTypes, NEW s \in Subs, OneConsumer(s)
  PROVE  Cardinality(Created(s)) = record[s]
<1>1. record[s] \in Nat /\ record[s] <= MaxConsumers
  BY SubscriptionAssumption DEF HandleTypes
<1>2. \A g \in Generations : consumer[s][g] # "none" <=> g <= record[s]
  <2>1. \A g \in Generations : /\ g \in Int
                               /\ g < record[s] => consumer[s][g] = "closed"
                               /\ g = record[s] => consumer[s][g] # "none"
                               /\ g > record[s] => consumer[s][g] = "none"
    BY SubscriptionAssumption DEF OneConsumer, Generations
  <2>. QED
    BY <1>1, <2>1
<1>3. Created(s) = 1..record[s]
  BY <1>1, <1>2, SubscriptionAssumption DEF Created, Generations
<1>4. Cardinality(1..record[s]) = IF 1 > record[s] THEN 0 ELSE record[s] - 1 + 1
  BY <1>1, FS_Interval
<1>. QED
  BY <1>1, <1>3, <1>4

(* Only the bookkeeping about others leaves t as it was.                   *)
LEMMA OthersAgree ==
  ASSUME NEW t \in Subs, OneConsumer(t), HandleAgrees(t),
         sub'[t] = sub[t], busy'[t] = busy[t], target'[t] = target[t], record'[t] = record[t],
         consumer'[t] = consumer[t], Reached(t)' => Reached(t) \/ t \in skipped',
         t \in orphaned' <=> t \in orphaned, t \in reopened' <=> t \in reopened,
         t \in skipped => t \in skipped'
  PROVE  OneConsumer(t)' /\ HandleAgrees(t)'
<1>1. OneConsumer(t)'
  BY DEF OneConsumer
<1>2. Shut(t)' <=> Shut(t)
  BY DEF Shut
<1>3. HandleAgrees(t)'
  BY <1>2 DEF HandleAgrees
<1>. QED
  BY <1>1, <1>3

(* A call on s proceeds, while the connection and its callbacks stay.      *)
LEMMA CallProceeds ==
  ASSUME HandleInv, NEW s \in Subs, HandleTypes', UNCHANGED <<record, callbacks, linkVars, skipped>>,
         \A t \in Subs \ {s} : /\ sub'[t] = sub[t] /\ busy'[t] = busy[t]
                               /\ target'[t] = target[t] /\ consumer'[t] = consumer[t]
                               /\ t \in orphaned' <=> t \in orphaned
                               /\ t \in reopened' <=> t \in reopened,
         sub[s] \notin Unsubscribed, sub'[s] \notin Unsubscribed, Shut(s) => Shut(s)',
         sub'[s] \in {"active", "paused"} /\ busy'[s] # "closing" /\ s \notin orphaned'
           => sub[s] \in {"active", "paused"} /\ busy[s] # "closing" /\ s \notin orphaned,
         OneConsumer(s)', HandleAgrees(s)'
  PROVE  HandleInv'
<1>1. /\ record' = record /\ callbacks' = callbacks /\ skipped' = skipped
      /\ link' = link /\ next' = next /\ restoring' = restoring
  BY DEF linkVars
<1>2. \A t \in Subs : Shut(t) => Shut(t)'
  BY DEF Shut
<1>3. \A t \in Subs : sub'[t] \in Unsubscribed <=> sub[t] \in Unsubscribed
  BY DEF HandleInv
<1>4. CallbacksAgree'
  <2>1. \A i \in DOMAIN callbacks : callbacks[i] \in Subs
    BY ElementOfSeq, LenProperties DEF HandleInv, HandleTypes
  <2>2. restoring # Nobody => restoring \in Subs
    BY DEF HandleInv, HandleTypes
  <2>. QED
    BY <1>1, <1>2, <1>3, <2>1, <2>2 DEF HandleInv, CallbacksAgree
<1>5. ASSUME NEW t \in Subs \ {s}
      PROVE  OneConsumer(t)' /\ HandleAgrees(t)'
  <2>1. Reached(t)' <=> Reached(t)
    BY <1>1 DEF Reached
  <2>. QED
    BY <1>1, <2>1, OthersAgree DEF HandleInv
<1>. QED
  BY <1>4, <1>5 DEF HandleInv

LEMMA CallBegins ==
  ASSUME HandleInv, NEW s \in Subs, PauseHandle(s) \/ ResumeHandle(s)
  PROVE  HandleInv'
<1>1. PICK call \in {"pausing", "resuming"} :
        /\ sub[s] = (IF call = "pausing" THEN "active" ELSE "paused") /\ busy[s] = "free"
        /\ busy' = [busy EXCEPT ![s] = call]
        /\ target' = [target EXCEPT ![s] = record[s]]
        /\ UNCHANGED <<sub, record, consumer, callbacks, linkVars, skipped, reopened, orphaned>>
  BY DEF PauseHandle, ResumeHandle, excuses
<1>2. /\ record[s] \in Generations /\ record[s] \in 0..MaxConsumers
      /\ OneConsumer(s) /\ HandleAgrees(s) /\ HandleTypes /\ sub[s] \notin Unsubscribed
  BY <1>1 DEF HandleInv, HandleTypes, OneConsumer, Asked, Unsubscribed
<1>3. busy'[s] = call /\ target'[s] = record[s]
  BY <1>1, <1>2 DEF HandleTypes
<1>4. HandleTypes'
  BY <1>1, <1>2 DEF HandleTypes, linkVars
<1>5. OneConsumer(s)'
  BY <1>1, <1>2, <1>3, SubscriptionAssumption DEF OneConsumer, Generations, Asked
<1>6. HandleAgrees(s)'
  BY <1>1, <1>2, <1>3 DEF HandleAgrees, Reached, Shut, linkVars
<1>7. \A t \in Subs \ {s} : busy'[t] = busy[t] /\ target'[t] = target[t]
  BY <1>1, <1>2 DEF HandleTypes
<1>. QED
  BY <1>1, <1>2, <1>3, <1>4, <1>5, <1>6, <1>7, CallProceeds DEF Shut

LEMMA PauseOrResumeEnds ==
  ASSUME HandleInv, NEW s \in Subs, Paused(s) \/ Resumed(s)
  PROVE  HandleInv'
<1>1. /\ busy' = [busy EXCEPT ![s] = "free"]
      /\ UNCHANGED <<target, record, callbacks, linkVars, skipped, orphaned>>
      /\ reopened' = reopened \/ reopened' = reopened \ {s}
      /\ \/ /\ busy[s] = "pausing" /\ sub' = [sub EXCEPT ![s] = "paused"] /\ UNCHANGED reopened
            /\ consumer' = [consumer EXCEPT ![s][target[s]] = IF @ = "open" THEN "paused" ELSE @]
         \/ /\ busy[s] = "resuming" /\ sub' = [sub EXCEPT ![s] = "active"]
            /\ consumer' = [consumer EXCEPT ![s][target[s]] = IF @ = "paused" THEN "open" ELSE @]
  BY DEF Paused, Resumed, excuses
<1>2. /\ OneConsumer(s) /\ HandleAgrees(s) /\ HandleTypes
      /\ target[s] \in 1..record[s] /\ record[s] \in Generations /\ record[s] \in Nat
      /\ busy[s] = "pausing" => sub[s] = "active"
      /\ busy[s] = "resuming" => sub[s] = "paused"
  BY <1>1, SubscriptionAssumption DEF HandleInv, HandleTypes, OneConsumer, Generations
<1>3. target[s] \in Generations
  BY <1>2, SubscriptionAssumption DEF Generations
<1>4. /\ \A t \in Subs \ {s} : busy'[t] = busy[t] /\ sub'[t] = sub[t] /\ consumer'[t] = consumer[t]
      /\ \A g \in Generations \ {target[s]} : consumer'[s][g] = consumer[s][g]
      /\ busy'[s] = "free"
      /\ \/ /\ busy[s] = "pausing" /\ sub'[s] = "paused" /\ UNCHANGED reopened
            /\ consumer'[s][target[s]] = IF consumer[s][target[s]] = "open" THEN "paused"
                                         ELSE consumer[s][target[s]]
         \/ /\ busy[s] = "resuming" /\ sub'[s] = "active"
            /\ consumer'[s][target[s]] = IF consumer[s][target[s]] = "paused" THEN "open"
                                         ELSE consumer[s][target[s]]
  BY <1>1, <1>2, <1>3 DEF HandleTypes
<1>5. HandleTypes'
  <2>1. consumer' \in [Subs -> [Generations -> {"none", "open", "paused", "closed"}]]
    <3>1. consumer[s][target[s]] \in {"none", "open", "paused", "closed"}
      BY <1>2, <1>3 DEF HandleTypes
    <3>2. PICK v \in {"none", "open", "paused", "closed"} :
            consumer' = [consumer EXCEPT ![s][target[s]] = v]
      BY <1>1, <1>2, <1>3, <3>1 DEF HandleTypes
    <3>. QED
      BY <1>2, <1>3, <3>2 DEF HandleTypes
  <2>2. /\ sub' \in [Subs -> HandleStates]
        /\ busy' \in [Subs -> {"free", "pausing", "resuming", "closing"}]
    BY <1>1, <1>2 DEF HandleTypes, HandleStates
  <2>. QED
    BY <1>1, <1>2, <2>1, <2>2 DEF HandleTypes, linkVars
<1>6. OneConsumer(s)'
  BY <1>1, <1>2, <1>3, <1>4 DEF OneConsumer, Asked, Unsubscribed
<1>7. HandleAgrees(s)'
  <2>1. Reached(s)' <=> Reached(s)
    BY <1>1 DEF Reached, linkVars
  <2>. QED
    BY <1>1, <1>2, <1>3, <1>4, <2>1 DEF HandleAgrees
<1>8. Shut(s) => Shut(s)'
  BY <1>4 DEF Shut
<1>9. /\ sub[s] \in {"active", "paused"} /\ busy[s] # "closing" /\ orphaned' = orphaned
      /\ \A t \in Subs \ {s} : t \in reopened' <=> t \in reopened
      /\ \A t \in Subs \ {s} : target'[t] = target[t]
  BY <1>1, <1>2
<1>10. sub[s] \notin Unsubscribed /\ sub'[s] \notin Unsubscribed
  BY <1>4, <1>9 DEF Unsubscribed
<1>. QED
  BY <1>1, <1>4, <1>5, <1>6, <1>7, <1>8, <1>9, <1>10, CallProceeds

LEMMA CallFails ==
  ASSUME HandleInv, NEW s \in Subs, ControlFails(s) \/ FailHandle(s) \/ CloseFails(s)
  PROVE  HandleInv'
<1>1. /\ UNCHANGED <<target, record, consumer, callbacks, linkVars, skipped, reopened>>
      /\ \/ /\ busy[s] \in {"pausing", "resuming"} /\ busy' = [busy EXCEPT ![s] = "free"]
            /\ UNCHANGED <<sub, orphaned>>
         \/ /\ sub[s] \in {"active", "paused"} /\ busy[s] = "free"
            /\ sub' = [sub EXCEPT ![s] = "failed"] /\ UNCHANGED <<busy, orphaned>>
         \/ /\ busy[s] = "closing" /\ busy' = [busy EXCEPT ![s] = "free"]
            /\ orphaned' = orphaned \cup {s} /\ UNCHANGED sub
  BY DEF ControlFails, FailHandle, CloseFails, excuses
<1>2. OneConsumer(s) /\ HandleAgrees(s) /\ HandleTypes
  BY DEF HandleInv
<1>3. /\ \A t \in Subs \ {s} : busy'[t] = busy[t] /\ sub'[t] = sub[t]
      /\ \/ /\ busy[s] \in {"pausing", "resuming"} /\ busy'[s] = "free"
            /\ UNCHANGED <<sub, orphaned>>
         \/ /\ sub[s] \in {"active", "paused"} /\ busy[s] = "free"
            /\ sub'[s] = "failed" /\ UNCHANGED <<busy, orphaned>>
         \/ /\ busy[s] = "closing" /\ busy'[s] = "free"
            /\ orphaned' = orphaned \cup {s} /\ UNCHANGED sub
  BY <1>1, <1>2 DEF HandleTypes
<1>4. HandleTypes'
  BY <1>1, <1>2 DEF HandleTypes, linkVars, HandleStates
<1>9. sub[s] \notin Unsubscribed /\ sub'[s] \notin Unsubscribed
  BY <1>1, <1>2, <1>3 DEF OneConsumer, Unsubscribed
<1>5. OneConsumer(s)'
  BY <1>1, <1>2, <1>3, <1>9 DEF OneConsumer, Unsubscribed, Asked
<1>6. HandleAgrees(s)'
  <2>1. (Reached(s)' <=> Reached(s)) /\ (Shut(s)' <=> Shut(s))
    BY <1>1 DEF Reached, Shut, linkVars
  <2>2. sub[s] = "closed" => busy[s] = "free"
    BY <1>2 DEF OneConsumer, HandleTypes
  <2>. QED
    BY <1>1, <1>2, <1>3, <2>1, <2>2 DEF HandleAgrees
<1>8. /\ Shut(s) => Shut(s)'
      /\ sub'[s] \in {"active", "paused"} /\ busy'[s] # "closing" /\ s \notin orphaned'
           => sub[s] \in {"active", "paused"} /\ busy[s] # "closing" /\ s \notin orphaned
      /\ \A t \in Subs \ {s} : /\ target'[t] = target[t] /\ consumer'[t] = consumer[t]
                               /\ t \in orphaned' <=> t \in orphaned
                               /\ t \in reopened' <=> t \in reopened
  BY <1>1, <1>3 DEF Shut
<1>. QED
  BY <1>1, <1>3, <1>4, <1>5, <1>6, <1>8, <1>9, CallProceeds

LEMMA CloseEnds ==
  ASSUME HandleInv, NEW s \in Subs, Closed(s)
  PROVE  HandleInv'
<1>1. /\ busy[s] = "closing"
      /\ consumer' = IF s \in orphaned THEN consumer
                     ELSE [consumer EXCEPT ![s][target[s]] = "closed"]
      /\ sub' = [sub EXCEPT ![s] = "closed"] /\ busy' = [busy EXCEPT ![s] = "free"]
      /\ UNCHANGED <<target, record, callbacks, linkVars, skipped, reopened, orphaned>>
  BY DEF Closed, excuses
<1>2. /\ OneConsumer(s) /\ HandleAgrees(s) /\ HandleTypes
      /\ target[s] \in 1..record[s] /\ record[s] \in Generations /\ record[s] \in Nat
  BY <1>1, SubscriptionAssumption DEF HandleInv, HandleTypes, OneConsumer, Generations
<1>3. target[s] \in Generations
  BY <1>2, SubscriptionAssumption DEF Generations
<1>4. /\ \A t \in Subs \ {s} : busy'[t] = busy[t] /\ sub'[t] = sub[t] /\ consumer'[t] = consumer[t]
      /\ \A g \in Generations \ {target[s]} : consumer'[s][g] = consumer[s][g]
      /\ consumer'[s][target[s]] = IF s \in orphaned THEN consumer[s][target[s]] ELSE "closed"
      /\ busy'[s] = "free" /\ sub'[s] = "closed"
  BY <1>1, <1>2, <1>3 DEF HandleTypes
<1>5. HandleTypes'
  <2>1. consumer' \in [Subs -> [Generations -> {"none", "open", "paused", "closed"}]]
    BY <1>1, <1>2, <1>3 DEF HandleTypes
  <2>2. /\ sub' \in [Subs -> HandleStates]
        /\ busy' \in [Subs -> {"free", "pausing", "resuming", "closing"}]
    BY <1>1, <1>2 DEF HandleTypes, HandleStates
  <2>. QED
    BY <1>1, <1>2, <2>1, <2>2 DEF HandleTypes, linkVars
<1>6. OneConsumer(s)'
  BY <1>1, <1>2, <1>3, <1>4 DEF OneConsumer, Asked, Unsubscribed
<1>7. s \notin orphaned => Shut(s)'
  <2>1. s \notin orphaned => target[s] = record[s]
    BY <1>1, <1>2 DEF HandleAgrees
  <2>2. \A g \in Generations : g < record[s] \/ g = record[s] \/ g > record[s]
    BY <1>2, SubscriptionAssumption DEF Generations
  <2>. QED
    BY <1>2, <1>4, <2>1, <2>2 DEF Shut, OneConsumer
<1>8. HandleAgrees(s)'
  BY <1>1, <1>4, <1>7 DEF HandleAgrees
<1>9. /\ Shut(s) => Shut(s)'
      /\ \A t \in Subs \ {s} : target'[t] = target[t]
      /\ sub[s] \notin Unsubscribed
  BY <1>1, <1>2, <1>4 DEF Shut, OneConsumer
<1>10. sub'[s] \notin Unsubscribed /\ orphaned' = orphaned /\ reopened' = reopened
  BY <1>1, <1>4 DEF Unsubscribed
<1>11. ~(sub'[s] \in {"active", "paused"})
  BY <1>4
<1>. QED
  BY <1>1, <1>4, <1>5, <1>6, <1>8, <1>9, <1>10, <1>11, CallProceeds

(* Removing a callback from under the iteration moves the later ones up;   *)
(* one of them may count as reached then, and is among the skipped.        *)
LEMMA CallbackRemoved ==
  ASSUME HandleTypes, CallbacksAgree, NEW s \in Subs, NEW m \in DOMAIN callbacks,
         callbacks[m] = s, RemoveCallback(s)
  PROVE  /\ callbacks' \in Seq(Subs)
         /\ \A i, j \in DOMAIN callbacks' : callbacks'[i] = callbacks'[j] => i = j
         /\ \A i \in DOMAIN callbacks' : callbacks'[i] # s
         /\ \A i \in DOMAIN callbacks' : \E j \in DOMAIN callbacks :
              callbacks'[i] = callbacks[j] /\ i <= j /\ j <= i + 1
         /\ \A j \in DOMAIN callbacks \ {m} : \E i \in DOMAIN callbacks' :
              callbacks'[i] = callbacks[j] /\ i <= j
         /\ link = "restoring" => \A i \in DOMAIN callbacks' : \A j \in DOMAIN callbacks :
              callbacks'[i] = callbacks[j] /\ i < next /\ j >= next => callbacks[j] \in skipped'
         /\ link = "restoring" => \A i \in DOMAIN callbacks' : i >= next => 
              \E j \in DOMAIN callbacks : callbacks'[i] = callbacks[j] /\ j >= next
         /\ skipped \subseteq skipped' /\ s \notin skipped' \ skipped
<1>1. /\ DOMAIN callbacks = 1..Len(callbacks) /\ Len(callbacks) \in Nat /\ next \in Nat
      /\ callbacks \in Seq(Subs) /\ m \in 1..Len(callbacks)
      /\ \A i, j \in DOMAIN callbacks : callbacks[i] = callbacks[j] => i = j
  BY LenProperties DEF HandleTypes, CallbacksAgree
<1>2. (CHOOSE i \in DOMAIN callbacks : callbacks[i] = s) = m
  BY <1>1
<1>3. /\ callbacks' = RemoveAt(callbacks, m)
      /\ skipped' = IF link = "restoring" /\ m < next /\ next <= Len(callbacks)
                      THEN skipped \cup {callbacks[next]} ELSE skipped
  BY <1>2 DEF RemoveCallback
<1>4. /\ callbacks' \in Seq(Subs) /\ Len(callbacks') = Len(callbacks) - 1
      /\ \A i \in 1..(m - 1) : callbacks'[i] = callbacks[i]
      /\ \A i \in m..(Len(callbacks) - 1) : callbacks'[i] = callbacks[i + 1]
  <2>1. callbacks \in Seq(Subs) /\ m \in 1..Len(callbacks)
    BY <1>1
  <2>2. callbacks' = RemoveAt(callbacks, m)
    BY <1>3
  <2>. QED
    BY <2>1, <2>2, Removed
<1>5. DOMAIN callbacks' = 1..(Len(callbacks) - 1)
  BY <1>4, LenProperties
<1>6. ASSUME NEW i \in DOMAIN callbacks'
      PROVE  \/ i < m /\ i \in DOMAIN callbacks /\ callbacks'[i] = callbacks[i]
             \/ i >= m /\ i + 1 \in DOMAIN callbacks /\ callbacks'[i] = callbacks[i + 1]
  <2>1. CASE i < m
    BY <1>1, <1>4, <1>5, <2>1
  <2>2. CASE i >= m
    BY <1>1, <1>4, <1>5, <2>2
  <2>. QED
    BY <1>1, <1>5, <2>1, <2>2
<1>7. ASSUME NEW j \in DOMAIN callbacks \ {m}
      PROVE  \E i \in DOMAIN callbacks' : callbacks'[i] = callbacks[j] /\ i <= j
  <2>1. CASE j < m
    <3>1. j \in DOMAIN callbacks' /\ callbacks'[j] = callbacks[j]
      BY <1>1, <1>4, <1>5, <2>1
    <3>. QED
      BY <1>1, <3>1
  <2>2. CASE j > m
    <3>1. j - 1 \in DOMAIN callbacks' /\ j - 1 \in m..(Len(callbacks) - 1) /\ j - 1 + 1 = j
          /\ j - 1 <= j
      BY <1>1, <1>5, <2>2
    <3>2. callbacks'[j - 1] = callbacks[j]
      BY <1>4, <3>1
    <3>. QED
      BY <3>1, <3>2
  <2>. QED
    BY <1>1, <2>1, <2>2
<1>8. ASSUME NEW i \in DOMAIN callbacks', NEW j \in DOMAIN callbacks,
             callbacks'[i] = callbacks[j]
      PROVE  (i < m /\ j = i) \/ (i >= m /\ j = i + 1)
  <2>1. \A k \in DOMAIN callbacks : callbacks'[i] = callbacks[k] => j = k
    BY <1>1, <1>8
  <2>. QED
    BY <1>6, <2>1
<1>9. \A i, j \in DOMAIN callbacks' : callbacks'[i] = callbacks'[j] => i = j
  <2>. SUFFICES ASSUME NEW i \in DOMAIN callbacks', NEW j \in DOMAIN callbacks',
                       callbacks'[i] = callbacks'[j]
                PROVE  i = j
    OBVIOUS
  <2>1. i \in Int /\ j \in Int /\ m \in Int
    BY <1>1, <1>5
  <2>2. \/ i < m /\ i \in DOMAIN callbacks /\ callbacks'[i] = callbacks[i]
        \/ i >= m /\ i + 1 \in DOMAIN callbacks /\ callbacks'[i] = callbacks[i + 1]
    BY <1>6
  <2>. QED
    BY <1>8, <2>1, <2>2
<1>10. \A i \in DOMAIN callbacks' : callbacks'[i] # s
  <2>1. \A i \in DOMAIN callbacks' : i \in Int
    BY <1>1, <1>5
  <2>. QED
    BY <1>1, <1>8, <2>1
<1>11. ASSUME link = "restoring", NEW i \in DOMAIN callbacks', NEW j \in DOMAIN callbacks,
              callbacks'[i] = callbacks[j], i < next, j >= next
       PROVE  callbacks[j] \in skipped'
  <2>1. i \in Int /\ j = i + 1 /\ i >= m
    BY <1>1, <1>5, <1>8, <1>11
  <2>2. j = next /\ m < next /\ next <= Len(callbacks)
    BY <1>1, <1>11, <2>1
  <2>. QED
    BY <1>3, <1>11, <2>2
<1>12. ASSUME NEW i \in DOMAIN callbacks', i >= next
       PROVE  \E j \in DOMAIN callbacks : callbacks'[i] = callbacks[j] /\ j >= next
  <2>1. i \in Int /\ i + 1 >= next
    BY <1>1, <1>5, <1>12
  <2>. QED
    BY <1>6, <1>12, <2>1
<1>13. \A i \in DOMAIN callbacks' : \E j \in DOMAIN callbacks :
         callbacks'[i] = callbacks[j] /\ i <= j /\ j <= i + 1
  <2>1. \A i \in DOMAIN callbacks' : i \in Int
    BY <1>1, <1>5
  <2>. QED
    BY <1>6, <2>1
<1>14. skipped \subseteq skipped' /\ s \notin skipped' \ skipped
  <2>1. m < next /\ next <= Len(callbacks) => callbacks[next] # s
    BY <1>1
  <2>. QED
    BY <1>3, <2>1
<1>. QED
  BY <1>4, <1>7, <1>9, <1>10, <1>11, <1>12, <1>13, <1>14

LEMMA CloseBegins ==
  ASSUME HandleInv, NEW s \in Subs, CloseHandle(s)
  PROVE  HandleInv'
<1>1. /\ sub[s] \in {"active", "paused", "failed"} /\ busy[s] = "free"
      /\ busy' = [busy EXCEPT ![s] = "closing"]
      /\ target' = [target EXCEPT ![s] = record[s]]
      /\ UNCHANGED <<sub, record, consumer, linkVars, reopened, orphaned>>
      /\ IF Contains(callbacks, s) THEN RemoveCallback(s) ELSE UNCHANGED <<callbacks, skipped>>
  BY DEF CloseHandle
<1>2. /\ HandleTypes /\ CallbacksAgree /\ OneConsumer(s) /\ HandleAgrees(s)
      /\ record[s] \in Generations /\ record[s] \in 0..MaxConsumers
      /\ sub[s] \notin Unsubscribed
  BY <1>1 DEF HandleInv, HandleTypes, OneConsumer, Unsubscribed, Asked
<1>3. /\ busy'[s] = "closing" /\ target'[s] = record[s]
      /\ \A t \in Subs \ {s} : busy'[t] = busy[t] /\ target'[t] = target[t]
  BY <1>1, <1>2 DEF HandleTypes
<1>4. /\ callbacks' \in Seq(Subs)
      /\ \A i, j \in DOMAIN callbacks' : callbacks'[i] = callbacks'[j] => i = j
      /\ \A i \in DOMAIN callbacks' : \E j \in DOMAIN callbacks :
           callbacks'[i] = callbacks[j] /\ i <= j /\ j <= i + 1
      /\ \A j \in DOMAIN callbacks : callbacks[j] # s =>
           \E i \in DOMAIN callbacks' : callbacks'[i] = callbacks[j] /\ i <= j
      /\ link = "restoring" => \A i \in DOMAIN callbacks' : \A j \in DOMAIN callbacks :
           callbacks'[i] = callbacks[j] /\ i < next /\ j >= next => callbacks[j] \in skipped'
      /\ link = "restoring" => \A i \in DOMAIN callbacks' : i >= next =>
           \E j \in DOMAIN callbacks : callbacks'[i] = callbacks[j] /\ j >= next
      /\ skipped \subseteq skipped'
  <2>1. CASE Contains(callbacks, s)
    <3>1. PICK m \in DOMAIN callbacks : callbacks[m] = s
      BY <1>2, <2>1, LenProperties DEF Contains, HandleTypes
    <3>2. RemoveCallback(s) /\ \A j \in DOMAIN callbacks : callbacks[j] # s => j # m
      BY <1>1, <2>1, <3>1
    <3>. QED
      BY <1>2, <3>1, <3>2, CallbackRemoved
  <2>2. CASE ~Contains(callbacks, s)
    <3>1. callbacks' = callbacks /\ skipped' = skipped
      BY <1>1, <2>2
    <3>2. \A i \in DOMAIN callbacks : i \in Int
      BY <1>2, LenProperties DEF HandleTypes
    <3>3. next \in Int
      BY <1>2 DEF HandleTypes
    <3>4. \A i, j \in DOMAIN callbacks : callbacks[i] = callbacks[j] => i = j
      BY <1>2 DEF CallbacksAgree
    <3>5. \A i, j \in DOMAIN callbacks : callbacks[i] = callbacks[j] /\ i < next => ~(j >= next)
      BY <3>2, <3>3, <3>4
    <3>6. callbacks \in Seq(Subs)
      BY <1>2 DEF HandleTypes
    <3>7. \A i \in DOMAIN callbacks : i <= i /\ i <= i + 1
      BY <3>2
    <3>. QED
      BY <3>1, <3>4, <3>5, <3>6, <3>7
  <2>. QED
    BY <2>1, <2>2
<1>5. link' = link /\ next' = next /\ restoring' = restoring
  BY <1>1 DEF linkVars
<1>6. HandleTypes'
  BY <1>1, <1>2, <1>4, <1>5 DEF HandleTypes
<1>7. \A t \in Subs : Shut(t)' <=> Shut(t)
  BY <1>1 DEF Shut
<1>8. /\ \A i \in DOMAIN callbacks : i \in Int /\ callbacks[i] \in Subs
      /\ \A i \in DOMAIN callbacks' : i \in Int /\ callbacks'[i] \in Subs
      /\ next \in Int /\ restoring \in Subs \cup {Nobody}
  <2>1. callbacks \in Seq(Subs) /\ next \in Int /\ restoring \in Subs \cup {Nobody}
    BY <1>2 DEF HandleTypes
  <2>2. callbacks' \in Seq(Subs)
    BY <1>4
  <2>. QED
    BY <2>1, <2>2, LenProperties, ElementOfSeq
<1>9. CallbacksAgree'
  <2>1. \A i \in DOMAIN callbacks' : sub'[callbacks'[i]] \notin Unsubscribed
    BY <1>1, <1>2, <1>4 DEF CallbacksAgree
  <2>2. \A t \in Subs : /\ sub'[t] \in {"active", "paused"} /\ busy'[t] # "closing"
                           /\ t \notin orphaned'
                        => \E i \in DOMAIN callbacks' : callbacks'[i] = t
    BY <1>1, <1>2, <1>3, <1>4 DEF CallbacksAgree
  <2>3. restoring' # Nobody =>
          /\ link' = "restoring" /\ sub'[restoring'] \notin Unsubscribed /\ Shut(restoring)'
          /\ \A i \in DOMAIN callbacks' : callbacks'[i] = restoring' => i < next'
    <3>1. restoring # Nobody =>
            /\ link = "restoring" /\ sub[restoring] \notin Unsubscribed /\ Shut(restoring)
            /\ restoring \in Subs
            /\ \A i \in DOMAIN callbacks : callbacks[i] = restoring => i < next
      BY <1>2, <1>8 DEF CallbacksAgree
    <3>2. restoring # Nobody =>
            \A i \in DOMAIN callbacks' : callbacks'[i] = restoring => i < next
      BY <1>4, <1>8, <3>1
    <3>. QED
      BY <1>1, <1>5, <1>7, <3>1, <3>2
  <2>. QED
    BY <1>4, <2>1, <2>2, <2>3 DEF CallbacksAgree
<1>10. OneConsumer(s)'
  BY <1>1, <1>2, <1>3, SubscriptionAssumption DEF OneConsumer, Generations
<1>11. HandleAgrees(s)'
  BY <1>1, <1>3 DEF HandleAgrees
<1>12. ASSUME NEW t \in Subs \ {s}
       PROVE  OneConsumer(t)' /\ HandleAgrees(t)'
  <2>1. ASSUME Reached(t)', ~Reached(t)
        PROVE  t \in skipped'
    <3>1. /\ link = "restoring" /\ restoring # t
          /\ \A i \in DOMAIN callbacks' : callbacks'[i] = t => i < next
      BY <1>5, <2>1 DEF Reached
    <3>2. PICK j \in DOMAIN callbacks : callbacks[j] = t /\ ~(j < next)
      BY <2>1, <3>1 DEF Reached
    <3>3. PICK i \in DOMAIN callbacks' : callbacks'[i] = t
      BY <1>4, <3>2
    <3>4. i < next /\ j >= next
      BY <1>8, <3>1, <3>2, <3>3
    <3>. QED
      BY <1>4, <3>1, <3>2, <3>3, <3>4
  <2>2. OneConsumer(t) /\ HandleAgrees(t)
    BY DEF HandleInv
  <2>. QED
    BY <1>1, <1>3, <1>4, <2>1, <2>2, OthersAgree
<1>. QED
  BY <1>6, <1>9, <1>10, <1>11, <1>12 DEF HandleInv

(* A new consumer is the first, or follows only closed ones.               *)
LEMMA ConsumerAdded ==
  ASSUME HandleInv, NEW s \in Subs, NewConsumer(s), Shut(s), UNCHANGED <<busy, target>>,
         \/ sub[s] = "creating" /\ sub'[s] = "created"
         \/ sub[s] \notin Unsubscribed /\ UNCHANGED sub
  PROVE  /\ record[s] \in Nat /\ record' = [record EXCEPT ![s] = record[s] + 1]
         /\ record'[s] = record[s] + 1 /\ record'[s] \in Generations
         /\ record' \in [Subs -> 0..MaxConsumers]
         /\ consumer' \in [Subs -> [Generations -> {"none", "open", "paused", "closed"}]]
         /\ consumer'[s][record'[s]] = "open"
         /\ \A t \in Subs \ {s} : consumer'[t] = consumer[t] /\ record'[t] = record[t]
         /\ OneConsumer(s)'
<1>1. HandleTypes /\ OneConsumer(s) /\ Cardinality(Created(s)) = record[s]
  BY CreatedInOrder DEF HandleInv
<1>2. /\ record[s] + 1 <= MaxConsumers
      /\ consumer' = [consumer EXCEPT ![s][record[s] + 1] = "open"]
      /\ record' = [record EXCEPT ![s] = record[s] + 1]
  BY <1>1 DEF NewConsumer
<1>3. record[s] \in Nat /\ record[s] + 1 \in Generations /\ record[s] + 1 \in 0..MaxConsumers
  BY <1>1, <1>2, SubscriptionAssumption DEF HandleTypes, Generations
<1>4. /\ record' \in [Subs -> 0..MaxConsumers]
      /\ consumer' \in [Subs -> [Generations -> {"none", "open", "paused", "closed"}]]
      /\ record'[s] = record[s] + 1
      /\ consumer'[s][record[s] + 1] = "open"
      /\ \A g \in Generations \ {record[s] + 1} : consumer'[s][g] = consumer[s][g]
      /\ \A t \in Subs \ {s} : consumer'[t] = consumer[t] /\ record'[t] = record[t]
  BY <1>1, <1>2, <1>3 DEF HandleTypes
<1>5. ASSUME NEW g \in Generations
      PROVE  /\ g < record'[s] => consumer'[s][g] = "closed"
             /\ g = record'[s] => consumer'[s][g] # "none"
             /\ g > record'[s] => consumer'[s][g] = "none"
             /\ consumer'[s][g] # "paused"
  <2>1. g \in Int
    BY SubscriptionAssumption DEF Generations
  <2>2. g <= record[s] => consumer[s][g] = "closed"
    <3>1. g <= record[s] => consumer[s][g] # "none"
      BY <1>1, <1>3, <2>1 DEF OneConsumer
    <3>. QED
      BY <3>1 DEF Shut
  <2>3. g > record[s] => consumer[s][g] = "none"
    BY <1>1 DEF OneConsumer
  <2>. QED
    BY <1>3, <1>4, <2>1, <2>2, <2>3
<1>6. OneConsumer(s)'
  <2>1. busy'[s] # "free" => target'[s] \in 1..record'[s]
    BY <1>1, <1>3, <1>4 DEF OneConsumer
  <2>. QED
    BY <1>1, <1>3, <1>4, <1>5, <2>1 DEF OneConsumer, Unsubscribed, Asked
<1>. QED
  BY <1>2, <1>3, <1>4, <1>6

LEMMA FirstConsumer ==
  ASSUME HandleInv, NEW s \in Subs, AskConsumer(s) \/ ConsumerCreated(s) \/ SubscribeEnds(s)
  PROVE  HandleInv'
<1>1. /\ UNCHANGED <<busy, target, callbacks, link, next, restoring, skipped, reopened, orphaned>>
      /\ \/ /\ sub[s] = "new" /\ sub' = [sub EXCEPT ![s] = "creating"]
            /\ UNCHANGED <<record, consumer>>
         \/ /\ sub[s] = "creating" /\ sub' = [sub EXCEPT ![s] = "created"] /\ NewConsumer(s)
         \/ /\ sub[s] \in {"creating", "created"} /\ sub' = [sub EXCEPT ![s] = "refused"]
            /\ UNCHANGED <<record, consumer>>
  BY DEF AskConsumer, ConsumerCreated, SubscribeEnds, linkVars, excuses
<1>2. HandleTypes /\ CallbacksAgree /\ OneConsumer(s)
  BY DEF HandleInv
<1>3. /\ sub[s] \in Unsubscribed /\ sub'[s] \in Unsubscribed /\ sub' \in [Subs -> HandleStates]
      /\ \A t \in Subs \ {s} : sub'[t] = sub[t]
      /\ busy[s] = "free"
      /\ \/ /\ sub[s] = "new" /\ sub'[s] = "creating" /\ UNCHANGED <<record, consumer>>
         \/ /\ sub[s] = "creating" /\ sub'[s] = "created" /\ NewConsumer(s)
         \/ /\ sub[s] \in {"creating", "created"} /\ sub'[s] = "refused"
            /\ UNCHANGED <<record, consumer>>
  <2>1. sub[s] \in Unsubscribed
    BY <1>1 DEF Unsubscribed
  <2>2. PICK w \in {"creating", "created", "refused"} : sub' = [sub EXCEPT ![s] = w]
    BY <1>1
  <2>3. w \in Unsubscribed /\ w \in HandleStates
    BY DEF Unsubscribed, HandleStates
  <2>4. sub'[s] = w /\ sub' \in [Subs -> HandleStates] /\ \A t \in Subs \ {s} : sub'[t] = sub[t]
    BY <1>2, <2>2, <2>3 DEF HandleTypes
  <2>5. busy[s] = "free"
    BY <1>2, <2>1 DEF OneConsumer
  <2>6. \A v : sub' = [sub EXCEPT ![s] = v] => sub'[s] = v
    BY <1>2 DEF HandleTypes
  <2>. QED
    BY <1>1, <2>1, <2>3, <2>4, <2>5, <2>6
<1>4. /\ record' \in [Subs -> 0..MaxConsumers]
      /\ consumer' \in [Subs -> [Generations -> {"none", "open", "paused", "closed"}]]
      /\ \A t \in Subs \ {s} : consumer'[t] = consumer[t] /\ record'[t] = record[t]
      /\ OneConsumer(s)'
  <2>1. CASE sub'[s] # "created" /\ UNCHANGED <<record, consumer>>
    <3>1. OneConsumer(s)'
      BY <1>1, <1>2, <1>3, <2>1 DEF OneConsumer, Asked, Unsubscribed
    <3>. QED
      BY <1>2, <2>1, <3>1 DEF HandleTypes
  <2>2. CASE sub[s] = "creating" /\ sub'[s] = "created" /\ NewConsumer(s)
    <3>1. record[s] = 0
      BY <1>2, <2>2 DEF OneConsumer, Asked
    <3>2. \A g \in Generations : g > record[s]
      BY <3>1, SubscriptionAssumption DEF Generations
    <3>3. Shut(s)
      BY <1>2, <3>2 DEF OneConsumer, Shut
    <3>4. UNCHANGED <<busy, target>>
      BY <1>1
    <3>. QED
      BY <2>2, <3>3, <3>4, ConsumerAdded
  <2>. QED
    BY <1>3, <2>1, <2>2
<1>5. HandleTypes'
  BY <1>1, <1>2, <1>3, <1>4 DEF HandleTypes
<1>9. \A t \in Subs \ {s} : Shut(t)' <=> Shut(t)
  BY <1>4 DEF Shut
<1>6. CallbacksAgree'
  <2>1. \A i \in DOMAIN callbacks : callbacks[i] \in Subs \ {s}
    <3>1. \A i \in DOMAIN callbacks : callbacks[i] \in Subs
      BY <1>2, ElementOfSeq, LenProperties DEF HandleTypes
    <3>. QED
      BY <1>2, <1>3, <3>1 DEF CallbacksAgree
  <2>2. restoring # Nobody => restoring \in Subs \ {s}
    BY <1>2, <1>3 DEF CallbacksAgree, HandleTypes
  <2>3. \A t \in Subs : sub'[t] \in {"active", "paused"} => sub[t] = sub'[t]
    BY <1>3 DEF Unsubscribed
  <2>. QED
    BY <1>1, <1>2, <1>3, <1>9, <2>1, <2>2, <2>3 DEF CallbacksAgree
<1>7. HandleAgrees(s)'
  BY <1>1, <1>3 DEF HandleAgrees, Unsubscribed
<1>8. ASSUME NEW t \in Subs \ {s}
      PROVE  OneConsumer(t)' /\ HandleAgrees(t)'
  <2>1. Reached(t)' <=> Reached(t)
    BY <1>1 DEF Reached
  <2>. QED
    BY <1>1, <1>3, <1>4, <2>1, OthersAgree DEF HandleInv
<1>. QED
  BY <1>4, <1>5, <1>6, <1>7, <1>8 DEF HandleInv

(* The callback is registered behind those that a restore has called, so   *)
(* that one under way still reaches it, unless it has passed the end.      *)
LEMMA CallbackRegistered ==
  ASSUME HandleInv, NEW s \in Subs, Subscribed(s)
  PROVE  HandleInv'
<1>1. /\ sub[s] = "created"
      /\ callbacks' = Append(callbacks, s)
      /\ sub' = [sub EXCEPT ![s] = "active"]
      /\ skipped' = IF /\ consumer[s][record[s]] = "closed"
                       /\ link = "up" \/ (link = "restoring" /\ Len(callbacks') < next)
                      THEN skipped \cup {s} ELSE skipped
      /\ UNCHANGED <<busy, target, record, consumer, link, next, restoring, reopened, orphaned>>
  BY DEF Subscribed, linkVars
<1>2. HandleTypes /\ CallbacksAgree /\ OneConsumer(s)
  BY DEF HandleInv
<1>3. record[s] \in Generations /\ busy[s] = "free" /\ next \in Int
      /\ sub[s] \in Unsubscribed /\ \A g \in Generations : consumer[s][g] # "paused"
  <2>1. sub[s] \in Unsubscribed /\ sub[s] \notin Asked \cup {"refused"}
    BY <1>1 DEF Unsubscribed, Asked
  <2>. QED
    BY <1>2, <2>1 DEF HandleTypes, OneConsumer
<1>4. /\ sub'[s] = "active" /\ \A t \in Subs \ {s} : sub'[t] = sub[t]
      /\ sub' \in [Subs -> HandleStates] /\ "active" \notin Unsubscribed
  BY <1>1, <1>2 DEF HandleTypes, HandleStates, Unsubscribed
<1>5. /\ DOMAIN callbacks = 1..Len(callbacks) /\ Len(callbacks) \in Nat
      /\ \A i \in DOMAIN callbacks : callbacks[i] \in Subs /\ callbacks[i] # s
      /\ callbacks' \in Seq(Subs) /\ DOMAIN callbacks' = 1..(Len(callbacks) + 1)
      /\ Len(callbacks') = Len(callbacks) + 1
      /\ callbacks'[Len(callbacks) + 1] = s
      /\ \A i \in DOMAIN callbacks : callbacks'[i] = callbacks[i] /\ i \in DOMAIN callbacks'
  <2>1. /\ DOMAIN callbacks = 1..Len(callbacks) /\ Len(callbacks) \in Nat
        /\ \A i \in DOMAIN callbacks : callbacks[i] \in Subs /\ callbacks[i] # s
    BY <1>1, <1>2, <1>3, LenProperties, ElementOfSeq DEF HandleTypes, CallbacksAgree
  <2>2. /\ callbacks' \in Seq(Subs) /\ Len(callbacks') = Len(callbacks) + 1
        /\ \A i \in 1..Len(callbacks) : callbacks'[i] = callbacks[i]
        /\ callbacks'[Len(callbacks) + 1] = s
    BY <1>1, <1>2, AppendProperties DEF HandleTypes
  <2>3. DOMAIN callbacks' = 1..(Len(callbacks) + 1)
    BY <2>2, LenProperties
  <2>. QED
    BY <2>1, <2>2, <2>3
<1>6. \A i \in DOMAIN callbacks' : i \in DOMAIN callbacks \/ i = Len(callbacks) + 1
  BY <1>5
<1>7. HandleTypes'
  BY <1>1, <1>2, <1>4, <1>5 DEF HandleTypes
<1>9. \A t \in Subs : Shut(t)' <=> Shut(t)
  BY <1>1 DEF Shut
<1>10. restoring # Nobody =>
         /\ restoring # s /\ restoring \in Subs /\ link = "restoring"
         /\ sub[restoring] \notin Unsubscribed /\ Shut(restoring)
         /\ \A i \in DOMAIN callbacks : callbacks[i] = restoring => i < next
  BY <1>2, <1>3 DEF CallbacksAgree, HandleTypes
<1>11. CallbacksAgree'
  <2>1. \A i, j \in DOMAIN callbacks' : callbacks'[i] = callbacks'[j] => i = j
    <3>1. \A i, j \in DOMAIN callbacks : callbacks[i] = callbacks[j] => i = j
      BY <1>2 DEF CallbacksAgree
    <3>. QED
      BY <1>5, <1>6, <3>1
  <2>2. \A i \in DOMAIN callbacks' : sub'[callbacks'[i]] \notin Unsubscribed
    BY <1>2, <1>4, <1>5, <1>6 DEF CallbacksAgree
  <2>3. \A t \in Subs : /\ sub'[t] \in {"active", "paused"} /\ busy'[t] # "closing"
                           /\ t \notin orphaned'
                        => \E i \in DOMAIN callbacks' : callbacks'[i] = t
    <3>1. Len(callbacks) + 1 \in DOMAIN callbacks'
      BY <1>5
    <3>. QED
      BY <1>1, <1>2, <1>4, <1>5, <3>1 DEF CallbacksAgree
  <2>4. restoring' # Nobody =>
          /\ link' = "restoring" /\ sub'[restoring'] \notin Unsubscribed /\ Shut(restoring)'
          /\ \A i \in DOMAIN callbacks' : callbacks'[i] = restoring' => i < next'
    BY <1>1, <1>4, <1>5, <1>6, <1>9, <1>10
  <2>. QED
    BY <2>1, <2>2, <2>3, <2>4 DEF CallbacksAgree
<1>12. OneConsumer(s)'
  BY <1>1, <1>2, <1>3, <1>4 DEF OneConsumer, Asked
<1>13. HandleAgrees(s)'
  <2>1. consumer[s][record[s]] \in {"open", "closed"}
    <3>1. consumer[s][record[s]] \in {"none", "open", "paused", "closed"}
      BY <1>2, <1>3 DEF HandleTypes
    <3>2. consumer[s][record[s]] # "none" /\ consumer[s][record[s]] # "paused"
      BY <1>1, <1>2, <1>3 DEF OneConsumer
    <3>. QED
      BY <3>1, <3>2
  <2>2. ASSUME consumer[s][record[s]] = "closed", Reached(s)'
        PROVE  s \in skipped'
    <3>1. link = "up" \/ (link = "restoring" /\ Len(callbacks) + 1 < next)
      <4>1. Len(callbacks) + 1 \in DOMAIN callbacks'
        BY <1>5
      <4>. QED
        BY <1>1, <1>5, <2>2, <4>1 DEF Reached
    <3>. QED
      BY <1>1, <1>5, <2>2, <3>1
  <2>. QED
    BY <1>1, <1>3, <1>4, <2>1, <2>2 DEF HandleAgrees
<1>14. ASSUME NEW t \in Subs \ {s}
       PROVE  OneConsumer(t)' /\ HandleAgrees(t)'
  <2>1. Reached(t)' => Reached(t)
    BY <1>1, <1>5 DEF Reached
  <2>2. t \in skipped => t \in skipped'
    BY <1>1
  <2>. QED
    BY <1>1, <1>4, <2>1, <2>2, OthersAgree DEF HandleInv
<1>. QED
  BY <1>7, <1>11, <1>12, <1>13, <1>14 DEF HandleInv

(* Nothing is promised of the handles until a restore has reached them.    *)
LEMMA ConnectionLost ==
  ASSUME HandleInv, UNCHANGED <<sub, busy, target, record, callbacks, reopened, orphaned>>,
         AllClosed \/ UNCHANGED consumer,
         restoring' = Nobody,
         \/ link' \in {"down", "failed"} /\ next' = next
         \/ link' = "restoring" /\ next' = 1
  PROVE  HandleInv'
<1>2. HandleTypes /\ CallbacksAgree
  BY DEF HandleInv
<1>3. /\ consumer' \in [Subs -> [Generations -> {"none", "open", "paused", "closed"}]]
      /\ \A s \in Subs : \A g \in Generations :
           \/ consumer'[s][g] = consumer[s][g]
           \/ consumer[s][g] # "none" /\ consumer'[s][g] = "closed"
  <2>1. CASE AllClosed
    <3>1. consumer' = [s \in Subs |-> [g \in Generations |->
                         IF consumer[s][g] = "none" THEN "none" ELSE "closed"]]
      BY <2>1 DEF AllClosed
    <3>2. \A s \in Subs :
            [g \in Generations |-> IF consumer[s][g] = "none" THEN "none" ELSE "closed"]
              \in [Generations -> {"none", "open", "paused", "closed"}]
      OBVIOUS
    <3>. QED
      BY <3>1, <3>2
  <2>2. CASE UNCHANGED consumer
    BY <1>2, <2>2 DEF HandleTypes
  <2>. QED
    BY <2>1, <2>2
<1>5. HandleTypes'
  BY <1>2, <1>3 DEF HandleTypes
<1>7. CallbacksAgree'
  BY <1>2 DEF CallbacksAgree
<1>8. ASSUME NEW s \in Subs
      PROVE  OneConsumer(s)' /\ HandleAgrees(s)'
  <2>1. OneConsumer(s) /\ HandleAgrees(s)
    BY DEF HandleInv
  <2>2. OneConsumer(s)'
    BY <1>3, <2>1 DEF OneConsumer
  <2>3. \/ ~Reached(s)'
        \/ ~\E i \in DOMAIN callbacks : callbacks[i] = s
    <3>1. \A i \in DOMAIN callbacks : ~(i < 1)
      BY <1>2, LenProperties DEF HandleTypes
    <3>. QED
      BY <3>1 DEF Reached
  <2>5. \/ ~Reached(s)'
        \/ ~(sub[s] \in {"active", "paused"} /\ busy[s] # "closing" /\ s \notin orphaned)
    BY <1>2, <2>3 DEF CallbacksAgree
  <2>6. Shut(s) => Shut(s)'
    BY <1>3 DEF Shut
  <2>. QED
    BY <2>1, <2>2, <2>5, <2>6 DEF HandleAgrees
<1>. QED
  BY <1>5, <1>7, <1>8 DEF HandleInv

LEMMA LinkChanges ==
  ASSUME HandleInv,
         Unhealthy \/ Reconnect \/ StartAgain \/ Connected \/ ConnectFails \/ RestoreFails
  PROVE  HandleInv'
<1>1. link # "restoring" => restoring = Nobody
  BY DEF HandleInv, CallbacksAgree
<1>2. /\ UNCHANGED <<sub, busy, target, record, callbacks, reopened, orphaned>>
      /\ AllClosed \/ UNCHANGED consumer
      /\ \/ link # "restoring" /\ UNCHANGED restoring
         \/ restoring' = Nobody
      /\ \/ link' \in {"down", "failed"} /\ next' = next
         \/ link' = "restoring" /\ next' = 1
  BY DEF Unhealthy, Reconnect, StartAgain, Connected, ConnectFails, RestoreFails, handleVars,
         excuses
<1>3. restoring' = Nobody
  BY <1>1, <1>2
<1>. QED
  BY <1>2, <1>3, ConnectionLost

LEMMA RestoreGoesOn ==
  ASSUME HandleInv, CallRestore \/ AllRestored
  PROVE  HandleInv'
<1>1. /\ link = "restoring" /\ restoring = Nobody
      /\ UNCHANGED <<sub, busy, target, record, consumer, callbacks, skipped, reopened, orphaned>>
      /\ \/ /\ next <= Len(callbacks) /\ Shut(callbacks[next])
            /\ restoring' = callbacks[next] /\ next' = next + 1 /\ link' = "restoring"
         \/ next > Len(callbacks) /\ link' = "up" /\ UNCHANGED <<restoring, next>>
  BY DEF CallRestore, AllRestored, handleVars, excuses
<1>2. HandleTypes /\ CallbacksAgree
  BY DEF HandleInv
<1>3. /\ DOMAIN callbacks = 1..Len(callbacks) /\ Len(callbacks) \in Nat
      /\ next \in Nat /\ next >= 1
      /\ \A i \in DOMAIN callbacks : callbacks[i] \in Subs /\ i \in Int
  BY <1>2, LenProperties, ElementOfSeq DEF HandleTypes
<1>4. HandleTypes'
  BY <1>1, <1>2, <1>3 DEF HandleTypes
<1>5. \A s : Shut(s)' <=> Shut(s)
  BY <1>1 DEF Shut
<1>6. CASE /\ next <= Len(callbacks) /\ Shut(callbacks[next])
           /\ restoring' = callbacks[next] /\ next' = next + 1 /\ link' = "restoring"
  <2>1. next \in DOMAIN callbacks /\ callbacks[next] \in Subs /\ callbacks[next] # Nobody
    BY <1>3, <1>6, SubscriptionAssumption
  <2>2. CallbacksAgree'
    <3>1. /\ sub'[restoring'] \notin Unsubscribed
          /\ \A i \in DOMAIN callbacks' : callbacks'[i] = restoring' => i < next'
      BY <1>1, <1>2, <1>3, <1>6, <2>1 DEF CallbacksAgree
    <3>2. Shut(restoring)'
      BY <1>1, <1>6 DEF Shut
    <3>. QED
      BY <1>1, <1>2, <1>6, <3>1, <3>2 DEF CallbacksAgree
  <2>3. ASSUME NEW s \in Subs
        PROVE  OneConsumer(s)' /\ HandleAgrees(s)'
    <3>1. Reached(s)' => Reached(s)
      <4>. SUFFICES ASSUME Reached(s)' PROVE Reached(s)
        OBVIOUS
      <4>1. /\ callbacks[next] # s /\ \A i \in DOMAIN callbacks : callbacks[i] = s => i < next + 1
        BY <1>1, <1>6 DEF Reached
      <4>2. \A i \in DOMAIN callbacks : callbacks[i] = s => i < next
        BY <1>3, <4>1
      <4>3. restoring # s
        BY <1>1, SubscriptionAssumption
      <4>. QED
        BY <1>1, <4>2, <4>3 DEF Reached
    <3>. QED
      BY <1>1, <3>1, OthersAgree DEF HandleInv
  <2>. QED
    BY <1>4, <2>2, <2>3 DEF HandleInv
<1>7. CASE next > Len(callbacks) /\ link' = "up" /\ UNCHANGED <<restoring, next>>
  <2>1. CallbacksAgree'
    BY <1>1, <1>2, <1>7 DEF CallbacksAgree
  <2>2. ASSUME NEW s \in Subs
        PROVE  OneConsumer(s)' /\ HandleAgrees(s)'
    <3>1. \A i \in DOMAIN callbacks : i < next
      BY <1>3, <1>7
    <3>2. Reached(s)
      BY <1>1, <3>1, SubscriptionAssumption DEF Reached
    <3>. QED
      BY <1>1, <3>2, OthersAgree DEF HandleInv
  <2>. QED
    BY <1>4, <2>1, <2>2 DEF HandleInv
<1>. QED
  BY <1>1, <1>6, <1>7

LEMMA ConsumerRestored ==
  ASSUME HandleInv, Restored
  PROVE  HandleInv'
<1>0. PICK s \in Subs : s = restoring
  BY DEF HandleInv, HandleTypes, Restored
<1>1. /\ restoring # Nobody /\ NewConsumer(s) /\ restoring' = Nobody
      /\ reopened' = IF sub[s] = "paused" \/ busy[s] = "pausing"
                       THEN reopened \cup {s} ELSE reopened
      /\ orphaned' = IF sub[s] = "closed" \/ busy[s] = "closing"
                       THEN orphaned \cup {s} ELSE orphaned
      /\ UNCHANGED <<sub, busy, target, callbacks, link, next, skipped>>
  BY <1>0 DEF Restored, RestoredConsumer, handleVars
<1>2. HandleTypes /\ CallbacksAgree
  BY DEF HandleInv
<1>3. /\ s \in Subs /\ link = "restoring" /\ sub[s] \notin Unsubscribed /\ Shut(s)
      /\ \A i \in DOMAIN callbacks : callbacks[i] = s => i < next
  BY <1>0, <1>1, <1>2 DEF CallbacksAgree
<1>4. OneConsumer(s) /\ HandleAgrees(s)
  BY <1>3 DEF HandleInv
<1>5. /\ record' \in [Subs -> 0..MaxConsumers]
      /\ consumer' \in [Subs -> [Generations -> {"none", "open", "paused", "closed"}]]
      /\ consumer'[s][record'[s]] = "open" /\ record'[s] = record[s] + 1 /\ record[s] \in Nat
      /\ \A t \in Subs \ {s} : consumer'[t] = consumer[t] /\ record'[t] = record[t]
      /\ OneConsumer(s)'
  <2>1. UNCHANGED <<busy, target>> /\ UNCHANGED sub
    BY <1>1
  <2>. QED
    BY <1>1, <1>3, <2>1, ConsumerAdded
<1>6. HandleTypes'
  BY <1>1, <1>2, <1>5 DEF HandleTypes
<1>7. \A t \in Subs \ {s} : Shut(t)' <=> Shut(t)
  BY <1>5 DEF Shut
<1>8. \A i \in DOMAIN callbacks : callbacks[i] \in Subs /\ i \in Int
  BY <1>2, LenProperties, ElementOfSeq DEF HandleTypes
<1>9. CallbacksAgree'
  <2>1. next \in Int
    BY <1>2 DEF HandleTypes
  <2>4. \A t \in orphaned : t \in orphaned'
    BY <1>1
  <2>. QED
    BY <1>1, <1>2, <2>4 DEF CallbacksAgree
<1>10. HandleAgrees(s)'
  <2>1. sub[s] = "paused" \/ busy[s] = "pausing" => s \in reopened'
    BY <1>1
  <2>2. sub[s] = "closed" \/ busy[s] = "closing" => s \in orphaned'
    BY <1>1
  <2>. QED
    BY <1>1, <1>5, <2>1, <2>2 DEF HandleAgrees
<1>11. ASSUME NEW t \in Subs \ {s}
       PROVE  OneConsumer(t)' /\ HandleAgrees(t)'
  <2>1. Reached(t)' => Reached(t)
    BY <1>0, <1>1, <1>3 DEF Reached
  <2>2. (t \in orphaned' <=> t \in orphaned) /\ (t \in reopened' <=> t \in reopened)
    BY <1>1
  <2>. QED
    BY <1>1, <1>5, <2>1, <2>2, OthersAgree DEF HandleInv
<1>. QED
  BY <1>5, <1>6, <1>9, <1>10, <1>11 DEF HandleInv

LEMMA HandleStep ==
  ASSUME HandleInv, SubscriptionNext \/ UNCHANGED subscriptionVars
  PROVE  HandleInv'
<1>1. CASE UNCHANGED subscriptionVars
  BY <1>1 DEF subscriptionVars, HandleInv, HandleTypes, CallbacksAgree, OneConsumer,
              HandleAgrees, Reached, Shut
<1>2. CASE \/ Unhealthy \/ Reconnect \/ StartAgain \/ Connected \/ ConnectFails
           \/ CallRestore \/ AllRestored \/ Restored \/ RestoreFails
  BY <1>2, LinkChanges, RestoreGoesOn, ConsumerRestored
<1>3. ASSUME NEW s \in Subs,
             \/ AskConsumer(s) \/ ConsumerCreated(s) \/ SubscribeEnds(s)
             \/ Subscribed(s) \/ PauseHandle(s) \/ Paused(s) \/ ResumeHandle(s)
             \/ Resumed(s) \/ ControlFails(s) \/ FailHandle(s) \/ CloseHandle(s)
             \/ Closed(s) \/ CloseFails(s)
      PROVE  HandleInv'
  BY <1>3, FirstConsumer, CallbackRegistered, CallBegins, PauseOrResumeEnds, CallFails,
     CloseBegins, CloseEnds
<1>. QED
  BY <1>1, <1>2, <1>3 DEF SubscriptionNext

(* A subscription is what its handle says, but for the windows the         *)
(* property names, and never has two open consumers.                       *)
THEOREM HandlesStayTrue == Spec => []HandlesAgree
<1>1. Init => HandleInv
  BY HandlesStart DEF Init
<1>2. HandleInv /\ [Next]_vars => HandleInv'
  BY PartSteps, HandleStep
<1>3. HandleInv => HandlesAgree
  <2>. SUFFICES ASSUME HandleInv, NEW s \in Subs
                PROVE  /\ Cardinality({g \in Generations :
                                         consumer[s][g] \in {"open", "paused"}}) <= 1
                       /\ link = "up" /\ busy[s] = "free" /\ s \notin orphaned =>
                            /\ sub[s] = "active" =>
                                 consumer[s][record[s]] = "open" \/ s \in skipped
                            /\ sub[s] = "paused" => \/ consumer[s][record[s]] = "paused"
                                                    \/ s \in skipped \cup reopened
                            /\ sub[s] = "closed" =>
                                 \A g \in Created(s) : consumer[s][g] = "closed"
    BY DEF HandlesAgree
  <2>1. HandleTypes /\ OneConsumer(s) /\ HandleAgrees(s)
    BY DEF HandleInv
  <2>2. Cardinality({g \in Generations : consumer[s][g] \in {"open", "paused"}}) <= 1
    <3>. DEFINE G == {g \in Generations : consumer[s][g] \in {"open", "paused"}}
    <3>1. \A g \in Generations : g < record[s] \/ g = record[s] \/ g > record[s]
      BY <2>1, SubscriptionAssumption DEF HandleTypes, Generations
    <3>2. G \in SUBSET {record[s]}
      BY <2>1, <3>1 DEF OneConsumer
    <3>3. IsFiniteSet({record[s]}) /\ Cardinality({record[s]}) = 1
      BY FS_Singleton
    <3>. HIDE DEF G
    <3>4. Cardinality(G) <= 1
      BY <3>2, <3>3, FS_Subset
    <3>. QED
      BY <3>4 DEF G
  <2>3. link = "up" => Reached(s)
    BY DEF Reached
  <2>. QED
    BY <2>1, <2>2, <2>3 DEF HandleAgrees, Shut, Created
<1>. QED
  BY <1>1, <1>2, <1>3, PTL DEF Spec

-----------------------------------------------------------------------------
(* Dispatch: registrations and order                                       *)

Registrants ==
  [name : Names \cup {None} \cup Nat, pattern : {AsPattern(p) : p \in Patterns},
   rank : Ranks \cup {0}, seq : Nat, critical : BOOLEAN]

Rules ==
  [pattern : {AsPattern(p) : p \in Patterns}, destination : Sinks, rank : Ranks, seq : Nat]

DispatchTypes ==
  /\ family \in {"router", "middleware", "emitter"} /\ sequence \in Nat
  /\ regs \subseteq Registrants /\ IsFiniteSet(regs)
  /\ rules \subseteq Rules /\ IsFiniteSet(rules)
  /\ pc \in [Calls -> {"idle", "running", "returned", "raised", "cancelled"}]
  /\ snap \in [Calls -> Seq(Registrants)] /\ called \in [Calls -> Seq(Registrants)]
  /\ inside \in [Calls -> BOOLEAN]
  /\ pending \in [Calls -> SUBSET Nat] /\ failed \in [Calls -> SUBSET Nat]
  /\ matched \in [Calls -> SUBSET Registrants]
  /\ failures \in Seq(Registrants) /\ log \in Seq(Registrants)

InOrder(list) == \A i, j \in DOMAIN list : i < j => Before(list[i], list[j])

\* The snapshot of a call is what matched, in order; a dispatch or a pipeline is
\* part of the way through it, an emit waits for some of it.
CallInv(c) ==
  /\ Range(snap[c]) = matched[c] /\ InOrder(snap[c])
  /\ family # "emitter" =>
       /\ Len(called[c]) <= Len(snap[c])
       /\ \A i \in DOMAIN called[c] : called[c][i] = snap[c][i]
       /\ inside[c] \/ (pc[c] = "returned" /\ family = "router") => Len(called[c]) = Len(snap[c])
       /\ family = "middleware" /\ pc[c] = "running" => inside[c] \/ called[c] # <<>>
  /\ family = "emitter" =>
       /\ pending[c] \subseteq DOMAIN snap[c] /\ failed[c] \subseteq DOMAIN snap[c]
       /\ pc[c] \in {"returned", "raised"} =>
            /\ pending[c] = {}
            /\ pc[c] = "raised" <=> \E n \in failed[c] : snap[c][n].critical

FoundInv ==
  /\ Range(found.list) = {r.destination : r \in found.rules}
  /\ \A i, j \in DOMAIN found.list :
       i < j => \E r \in found.rules :
                  /\ r.destination = found.list[i]
                  /\ \A s \in found.rules : s.destination = found.list[j] => Earlier(r, s)

\* The history of failures is the end of the log.
HistoryInv ==
  /\ Len(failures) <= HistoryLimit /\ Len(failures) <= Len(log)
  /\ \A k \in 1..Len(failures) : failures[k] = log[Len(log) - Len(failures) + k]
  /\ Len(failures) < HistoryLimit => failures = log

DispatchInv ==
  /\ DispatchTypes
  /\ \A c \in Calls : CallInv(c)
  /\ rules # {} => family = "router"
  /\ FoundInv
  /\ HistoryInv

LEMMA SortedFacts ==
  ASSUME NEW R, NEW S \in SUBSET R, IsFiniteSet(S), NEW list \in Sorted(S)
  PROVE  list \in Seq(R) /\ Range(list) = S /\ InOrder(list)
<1>1. list \in [1..Cardinality(S) -> S] /\ Range(list) = S /\ InOrder(list)
  BY DEF Sorted, InOrder
<1>2. Cardinality(S) \in Nat
  BY FS_CardinalityType
<1>3. list \in [1..Cardinality(S) -> R]
  BY <1>1
<1>. HIDE DEF InOrder
<1>. QED
  BY <1>1, <1>2, <1>3

\* The sort keys and the documentation agree on handlers, rules and layers.
LEMMA KeysAreDocumented ==
  ASSUME family \in {"router", "middleware"}, NEW r, NEW s,
         r.rank \in Int, s.rank \in Int, r.seq \in Nat, s.seq \in Nat
  PROVE  /\ Before(r, s) <=> Earlier(r, s)
         /\ ~(Before(r, s) /\ Before(s, r))
         /\ ~Before(r, r)
BY DEF Before, Earlier

LEMMA RanksAreIntegers ==
  /\ \A r \in Registrants : r.rank \in Int /\ r.seq \in Nat
  /\ \A r \in Rules : r.rank \in Int /\ r.seq \in Nat
<1>1. \A x \in Ranks \cup {0} : x \in Int
  BY DispatchAssumption
<1>2. \A r \in Registrants : r.rank \in Ranks \cup {0} /\ r.seq \in Nat
  BY DEF Registrants
<1>3. \A r \in Rules : r.rank \in Ranks \cup {0} /\ r.seq \in Nat
  BY DEF Rules
<1>. QED
  BY <1>1, <1>2, <1>3

LEMMA DispatchStarts == DispatchInit => DispatchInv
<1>. SUFFICES ASSUME DispatchInit PROVE DispatchInv
  OBVIOUS
<1>1. DispatchTypes
  BY FS_EmptySet DEF DispatchInit, DispatchTypes
<1>2. \A c \in Calls : CallInv(c)
  BY DEF DispatchInit, CallInv, InOrder, Range
<1>3. rules = {} /\ FoundInv
  BY DEF DispatchInit, FoundInv, Range
<1>4. HistoryInv
  BY DispatchAssumption DEF DispatchInit, HistoryInv
<1>. QED
  BY <1>1, <1>2, <1>3, <1>4 DEF DispatchInv

LEMMA BeforeKept == ASSUME UNCHANGED family PROVE \A r, s : Before(r, s)' <=> Before(r, s)
BY DEF Before

\* What a step leaves alone keeps its part of the invariant.
LEMMA CallKept ==
  ASSUME UNCHANGED family, NEW c \in Calls, CallInv(c),
         pc'[c] = pc[c], snap'[c] = snap[c], called'[c] = called[c], inside'[c] = inside[c],
         pending'[c] = pending[c], failed'[c] = failed[c], matched'[c] = matched[c]
  PROVE  CallInv(c)'
<1>1. InOrder(snap[c])'
  <2>1. \A r, s : Before(r, s)' <=> Before(r, s)
    BY BeforeKept
  <2>2. snap'[c] = snap[c] /\ InOrder(snap[c])
    BY DEF CallInv
  <2>. QED
    BY <2>1, <2>2 DEF InOrder
<1>. QED
  BY <1>1, Zenon DEF CallInv

LEMMA CallsKept ==
  ASSUME UNCHANGED <<family, callVars>>, NEW c \in Calls, CallInv(c)
  PROVE  CallInv(c)'
<1>1. UNCHANGED <<pc, snap, called, inside, pending, failed, matched>>
  BY DEF callVars
<1>2. /\ pc'[c] = pc[c] /\ snap'[c] = snap[c] /\ called'[c] = called[c] /\ inside'[c] = inside[c]
      /\ pending'[c] = pending[c] /\ failed'[c] = failed[c] /\ matched'[c] = matched[c]
  BY <1>1
<1>. QED
  BY <1>2, CallKept

LEMMA FoundKept == ASSUME UNCHANGED <<family, found>>, FoundInv PROVE FoundInv'
BY DEF FoundInv, Earlier

LEMMA HistoryKept == ASSUME UNCHANGED <<failures, log>>, HistoryInv PROVE HistoryInv'
BY DEF HistoryInv

LEMMA RegistriesChange ==
  ASSUME DispatchInv,
         \/ RegisterHandler \/ RegisterLayer \/ Subscribe \/ UnregisterOne \/ MapDestination
         \/ UnmapDestination
  PROVE  DispatchInv'
<1>1. UNCHANGED <<family, callVars, failures, found, log>>
  BY DEF RegisterHandler, RegisterLayer, Subscribe, UnregisterOne, MapDestination, UnmapDestination
<1>2. /\ regs' \subseteq Registrants /\ IsFiniteSet(regs')
      /\ rules' \subseteq Rules /\ IsFiniteSet(rules') /\ sequence' \in Nat
      /\ rules' # {} => family = "router"
  <2>. USE DEF DispatchInv, DispatchTypes
  <2>7. /\ \A x \in Registrants : IsFiniteSet(regs \cup {x})
        /\ \A x \in Rules : IsFiniteSet(rules \cup {x})
    BY FS_AddElement
  <2>1. CASE RegisterHandler
    <3>1. PICK p \in Patterns, rank \in Ranks, name \in Names \cup {None} :
            \/ UNCHANGED regs
            \/ regs' = regs \cup {[name |-> IF name # None THEN name ELSE sequence + 1,
                                   pattern |-> AsPattern(p), rank |-> rank, seq |-> sequence + 1,
                                   critical |-> FALSE]}
      BY <2>1 DEF RegisterHandler
    <3>2. sequence' \in Nat /\ UNCHANGED rules
      BY <2>1 DEF RegisterHandler
    <3>3. [name |-> IF name # None THEN name ELSE sequence + 1,
           pattern |-> AsPattern(p), rank |-> rank, seq |-> sequence + 1, critical |-> FALSE]
             \in Registrants
      BY DEF Registrants
    <3>. QED
      BY <2>7, <3>1, <3>2, <3>3
  <2>2. CASE RegisterLayer
    <3>1. PICK p \in Patterns, order \in Ranks, name \in Names \cup {None} :
            \/ UNCHANGED regs
            \/ regs' = regs \cup {[name |-> name, pattern |-> AsPattern(p), rank |-> order,
                                   seq |-> sequence + 1, critical |-> FALSE]}
      BY <2>2 DEF RegisterLayer
    <3>2. sequence' \in Nat /\ UNCHANGED rules
      BY <2>2 DEF RegisterLayer
    <3>3. [name |-> name, pattern |-> AsPattern(p), rank |-> order, seq |-> sequence + 1,
           critical |-> FALSE] \in Registrants
      BY DEF Registrants
    <3>. QED
      BY <2>7, <3>1, <3>2, <3>3
  <2>3. CASE Subscribe
    <3>1. PICK p \in Patterns, critical \in BOOLEAN :
            regs' = regs \cup {[name |-> sequence + 1, pattern |-> AsPattern(p), rank |-> 0,
                                seq |-> sequence + 1, critical |-> critical]}
      BY <2>3 DEF Subscribe
    <3>2. sequence' \in Nat /\ UNCHANGED rules
      BY <2>3 DEF Subscribe
    <3>3. [name |-> sequence + 1, pattern |-> AsPattern(p), rank |-> 0, seq |-> sequence + 1,
           critical |-> critical] \in Registrants
      BY DEF Registrants
    <3>. QED
      BY <2>7, <3>1, <3>2, <3>3
  <2>4. CASE UnregisterOne
    <3>1. PICK r \in regs : regs' = regs \ {r}
      BY <2>4 DEF UnregisterOne
    <3>2. UNCHANGED <<rules, sequence>>
      BY <2>4 DEF UnregisterOne
    <3>. QED
      BY <3>1, <3>2, FS_RemoveElement
  <2>5. CASE MapDestination
    <3>1. PICK p \in Patterns, d \in Sinks, priority \in Ranks :
            \/ UNCHANGED rules
            \/ rules' = rules \cup {[pattern |-> AsPattern(p), destination |-> d,
                                     rank |-> priority, seq |-> sequence + 1]}
      BY <2>5 DEF MapDestination
    <3>2. sequence' \in Nat /\ UNCHANGED regs /\ family = "router"
      BY <2>5 DEF MapDestination
    <3>3. [pattern |-> AsPattern(p), destination |-> d, rank |-> priority, seq |-> sequence + 1]
            \in Rules
      BY DEF Rules
    <3>. QED
      BY <2>7, <3>1, <3>2, <3>3
  <2>6. CASE UnmapDestination
    <3>1. PICK r \in rules : rules' = rules \ {r}
      BY <2>6 DEF UnmapDestination
    <3>2. UNCHANGED <<regs, sequence>>
      BY <2>6 DEF UnmapDestination
    <3>. QED
      BY <3>1, <3>2, FS_RemoveElement
  <2>. QED
    BY <2>1, <2>2, <2>3, <2>4, <2>5, <2>6
<1>3. DispatchTypes'
  BY <1>1, <1>2 DEF DispatchInv, DispatchTypes, callVars
<1>4. \A c \in Calls : CallInv(c)'
  BY <1>1, CallsKept DEF DispatchInv
<1>5. FoundInv' /\ HistoryInv'
  BY <1>1, FoundKept, HistoryKept DEF DispatchInv
<1>6. rules' # {} => family' = "router"
  BY <1>1, <1>2
<1>. QED
  BY <1>3, <1>4, <1>5, <1>6 DEF DispatchInv

LEMMA AllCleared ==
  ASSUME DispatchInv, Clear
  PROVE  DispatchInv'
<1>1. /\ UNCHANGED <<family, sequence, callVars, found>>
      /\ regs' = {} /\ rules' = {} /\ failures' = <<>> /\ log' = <<>>
  BY DEF Clear
<1>2. DispatchTypes'
  BY <1>1, FS_EmptySet DEF DispatchInv, DispatchTypes, callVars
<1>3. \A c \in Calls : CallInv(c)'
  BY <1>1, CallsKept DEF DispatchInv
<1>4. FoundInv'
  BY <1>1, FoundKept DEF DispatchInv
<1>5. HistoryInv'
  BY <1>1, DispatchAssumption DEF HistoryInv
<1>. QED
  BY <1>1, <1>2, <1>3, <1>4, <1>5 DEF DispatchInv

-----------------------------------------------------------------------------
(* Dispatch: destinations                                                  *)

LEMMA DestinationsResolved ==
  ASSUME DispatchInv, ResolveDestinations
  PROVE  DispatchInv'
<1>1. PICK m \in Messages : \E hits \in Sorted({r \in rules : Matches(r.pattern, m)}) :
        LET news == {n \in DOMAIN hits :
                       \A k \in 1..(n - 1) : hits[k].destination # hits[n].destination}
        IN  \E order \in Increasing(news) :
              found' = [list |-> [k \in DOMAIN order |-> hits[order[k]].destination],
                        rules |-> Range(hits)]
  BY DEF ResolveDestinations
<1>. DEFINE H == {r \in rules : Matches(r.pattern, m)}
<1>2. PICK hits \in Sorted(H) :
        LET news == {n \in DOMAIN hits :
                       \A k \in 1..(n - 1) : hits[k].destination # hits[n].destination}
        IN  \E order \in Increasing(news) :
              found' = [list |-> [k \in DOMAIN order |-> hits[order[k]].destination],
                        rules |-> Range(hits)]
  BY <1>1
<1>. DEFINE news == {n \in DOMAIN hits :
                       \A k \in 1..(n - 1) : hits[k].destination # hits[n].destination}
<1>3. PICK order \in Increasing(news) :
        found' = [list |-> [k \in DOMAIN order |-> hits[order[k]].destination],
                  rules |-> Range(hits)]
  BY <1>2
<1>4. H \in SUBSET Rules /\ IsFiniteSet(H)
  BY FS_Subset DEF DispatchInv, DispatchTypes
<1>. HIDE DEF H
<1>5. hits \in Seq(Rules) /\ Range(hits) = H /\ InOrder(hits)
  BY <1>2, <1>4, SortedFacts
<1>6. /\ UNCHANGED <<family, regs, rules, sequence, callVars, failures, log>>
      /\ family = "router"
  BY DEF ResolveDestinations, DispatchInv
<1>7. /\ Range(order) = news
      /\ \A k \in DOMAIN order : order[k] \in news
      /\ \A i, j \in DOMAIN order : i < j => order[i] < order[j]
  BY <1>3 DEF Increasing, Range
<1>8. /\ DOMAIN hits \subseteq Nat
      /\ \A n \in DOMAIN hits : hits[n] \in Rules /\ hits[n] \in H /\ n >= 1
      /\ \A n, k \in DOMAIN hits : k < n => k \in 1..(n - 1)
  <2>1. DOMAIN hits = 1..Len(hits) /\ Len(hits) \in Nat
    BY <1>5, LenProperties
  <2>2. \A n \in DOMAIN hits : hits[n] \in Rules
    BY <1>5, <2>1, ElementOfSeq
  <2>3. \A n \in DOMAIN hits : hits[n] \in H
    BY <1>5 DEF Range
  <2>4. DOMAIN hits \subseteq Nat /\ \A n \in DOMAIN hits : n >= 1
    BY <2>1
  <2>5. \A n, k \in DOMAIN hits : k < n => k \in 1..(n - 1)
    BY <2>1
  <2>. QED
    BY <2>2, <2>3, <2>4, <2>5
<1>. DEFINE list == [k \in DOMAIN order |-> hits[order[k]].destination]
<1>9. found'.list = list /\ found'.rules = H
  BY <1>3, <1>5
<1>10. \A k \in DOMAIN order : order[k] \in DOMAIN hits
  BY <1>7
<1>11. Range(list) = {r.destination : r \in H}
  <2>1. ASSUME NEW d \in Range(list) PROVE d \in {r.destination : r \in H}
    BY <1>8, <1>10 DEF Range
  <2>2. ASSUME NEW r \in H PROVE r.destination \in Range(list)
    <3>. DEFINE same == {n \in DOMAIN hits : hits[n].destination = r.destination}
    <3>1. same # {}
      BY <1>5 DEF Range
    <3>2. same \in SUBSET Nat
      BY <1>8
    <3>3. PICK n \in same : \A k \in same : n <= k
      BY <3>1, <3>2, MinimumIsLeast
    <3>4. n \in news
      <4>. SUFFICES ASSUME NEW k \in 1..(n - 1), hits[k].destination = hits[n].destination
                    PROVE  FALSE
        BY <3>3
      <4>1. k \in DOMAIN hits
        <5>1. DOMAIN hits = 1..Len(hits) /\ Len(hits) \in Nat
          BY <1>5, LenProperties
        <5>2. n \in 1..Len(hits)
          BY <3>3, <5>1
        <5>. QED
          BY <5>1, <5>2
      <4>2. n <= k /\ n \in Nat
        BY <3>2, <3>3, <4>1
      <4>. QED
        BY <4>2
    <3>5. PICK k \in DOMAIN order : order[k] = n
      BY <1>7, <3>4 DEF Range
    <3>. QED
      BY <3>3, <3>5 DEF Range
  <2>. QED
    BY <2>1, <2>2
<1>12. ASSUME NEW i \in DOMAIN list, NEW j \in DOMAIN list, i < j
       PROVE  \E r \in H : /\ r.destination = list[i]
                            /\ \A s \in H : s.destination = list[j] => Earlier(r, s)
  <2>1. i \in DOMAIN order /\ j \in DOMAIN order /\ order[i] < order[j]
    BY <1>7, <1>12
  <2>. DEFINE a == order[i]
              b == order[j]
  <2>2. /\ a \in DOMAIN hits /\ b \in news /\ b \in DOMAIN hits /\ a < b
        /\ list[i] = hits[a].destination /\ list[j] = hits[b].destination
    BY <1>7, <1>10, <2>1
  <2>. HIDE DEF a, b, list
  <2>3. ASSUME NEW s \in H, s.destination = list[j]
        PROVE  Earlier(hits[a], s)
    <3>1. PICK n \in DOMAIN hits : hits[n] = s
      BY <1>5 DEF Range
    <3>2. n \notin 1..(b - 1)
      BY <2>2, <2>3, <3>1
    <3>3. ~(n < b)
      BY <1>8, <2>2, <3>2
    <3>4. a < n
      BY <1>8, <2>2, <3>3
    <3>5. Before(hits[a], hits[n])
      BY <1>5, <2>2, <3>1, <3>4 DEF InOrder
    <3>. QED
      BY <1>6, <1>8, <2>2, <3>1, <3>5, KeysAreDocumented, RanksAreIntegers
  <2>. QED
    BY <1>8, <2>2, <2>3
<1>13. FoundInv'
  <2>. HIDE DEF list
  <2>1. \A r, s : Earlier(r, s)' <=> Earlier(r, s)
    BY <1>6 DEF Earlier
  <2>. QED
    BY <1>9, <1>11, <1>12, <2>1 DEF FoundInv
<1>14. DispatchTypes'
  BY <1>6 DEF DispatchInv, DispatchTypes, callVars
<1>15. \A c \in Calls : CallInv(c)'
  BY <1>6, CallsKept DEF DispatchInv
<1>16. HistoryInv' /\ (rules' # {} => family' = "router")
  BY <1>6, HistoryKept DEF DispatchInv
<1>. QED
  BY <1>13, <1>14, <1>15, <1>16 DEF DispatchInv

-----------------------------------------------------------------------------
(* Dispatch: calls                                                         *)

\* The others go on as they were.
LEMMA OthersKept ==
  ASSUME UNCHANGED family, DispatchInv, NEW c \in Calls,
         \A d \in Calls : d # c =>
           /\ pc'[d] = pc[d] /\ snap'[d] = snap[d] /\ called'[d] = called[d]
           /\ inside'[d] = inside[d] /\ pending'[d] = pending[d] /\ failed'[d] = failed[d]
           /\ matched'[d] = matched[d],
         CallInv(c)'
  PROVE  \A d \in Calls : CallInv(d)'
<1>. SUFFICES ASSUME NEW d \in Calls PROVE CallInv(d)'
  OBVIOUS
<1>1. CASE d = c
  BY <1>1
<1>2. CASE d # c
  BY <1>2, CallKept DEF DispatchInv
<1>. QED
  BY <1>1, <1>2

LEMMA CallBegun ==
  ASSUME DispatchInv, NEW c \in Calls, Begin(c)
  PROVE  DispatchInv'
<1>1. PICK m \in Messages : \E list \in Sorted(Matching(m)) :
       /\ snap' = [snap EXCEPT ![c] = list]
       /\ matched' = [matched EXCEPT ![c] = Matching(m)]
       /\ called' = [called EXCEPT ![c] = IF family = "emitter" \/ list = <<>> THEN <<>>
                                          ELSE <<Head(list)>>]
       /\ inside' = [inside EXCEPT ![c] = family = "middleware" /\ list = <<>>]
       /\ pending' = [pending EXCEPT ![c] = IF family = "emitter" THEN DOMAIN list ELSE {}]
       /\ pc' = [pc EXCEPT ![c] = IF list = <<>> /\ family # "middleware" THEN "returned"
                                  ELSE "running"]
  BY DEF Begin
<1>2. PICK list \in Sorted(Matching(m)) :
       /\ snap' = [snap EXCEPT ![c] = list]
       /\ matched' = [matched EXCEPT ![c] = Matching(m)]
       /\ called' = [called EXCEPT ![c] = IF family = "emitter" \/ list = <<>> THEN <<>>
                                          ELSE <<Head(list)>>]
       /\ inside' = [inside EXCEPT ![c] = family = "middleware" /\ list = <<>>]
       /\ pending' = [pending EXCEPT ![c] = IF family = "emitter" THEN DOMAIN list ELSE {}]
       /\ pc' = [pc EXCEPT ![c] = IF list = <<>> /\ family # "middleware" THEN "returned"
                                  ELSE "running"]
  BY <1>1
<1>3. /\ failed' = [failed EXCEPT ![c] = {}]
      /\ UNCHANGED <<family, regs, rules, sequence, failures, found, log>>
  BY DEF Begin
<1>4. Matching(m) \in SUBSET Registrants /\ IsFiniteSet(Matching(m))
  BY FS_Subset DEF DispatchInv, DispatchTypes, Matching
<1>5. list \in Seq(Registrants) /\ Range(list) = Matching(m) /\ InOrder(list)
  BY <1>2, <1>4, SortedFacts
<1>6. /\ DOMAIN list = 1..Len(list) /\ Len(list) \in Nat
      /\ list # <<>> => Len(list) >= 1 /\ Head(list) = list[1] /\ list[1] \in Registrants
  BY <1>5, EmptySeq, LenProperties, HeadTailProperties, ElementOfSeq
<1>7. DispatchTypes'
  <2>1. /\ snap' \in [Calls -> Seq(Registrants)] /\ matched' \in [Calls -> SUBSET Registrants]
        /\ pc' \in [Calls -> {"idle", "running", "returned", "raised", "cancelled"}]
    BY <1>2, <1>4, <1>5 DEF DispatchInv, DispatchTypes
  <2>2. called' \in [Calls -> Seq(Registrants)]
    <3>1. <<>> \in Seq(Registrants) /\ (list # <<>> => <<Head(list)>> \in Seq(Registrants))
      BY <1>6
    <3>. QED
      BY <3>1, <1>2 DEF DispatchInv, DispatchTypes
  <2>3. inside' \in [Calls -> BOOLEAN]
    BY <1>2 DEF DispatchInv, DispatchTypes
  <2>4. pending' \in [Calls -> SUBSET Nat] /\ failed' \in [Calls -> SUBSET Nat]
    <3>1. DOMAIN list \in SUBSET Nat
      BY <1>6
    <3>. QED
      BY <3>1, <1>2, <1>3 DEF DispatchInv, DispatchTypes
  <2>. QED
    BY <2>1, <2>2, <2>3, <2>4, <1>3 DEF DispatchInv, DispatchTypes
<1>8. /\ snap'[c] = list /\ matched'[c] = Matching(m) /\ failed'[c] = {}
      /\ called'[c] = IF family = "emitter" \/ list = <<>> THEN <<>> ELSE <<Head(list)>>
      /\ pending'[c] = IF family = "emitter" THEN DOMAIN list ELSE {}
      /\ pc'[c] = IF list = <<>> /\ family # "middleware" THEN "returned" ELSE "running"
  BY <1>2, <1>3 DEF DispatchInv, DispatchTypes
<1>9. inside'[c] <=> family = "middleware" /\ list = <<>>
  BY <1>2 DEF DispatchInv, DispatchTypes
<1>10. \A d \in Calls : d # c =>
           /\ pc'[d] = pc[d] /\ snap'[d] = snap[d] /\ called'[d] = called[d]
           /\ inside'[d] = inside[d] /\ pending'[d] = pending[d] /\ failed'[d] = failed[d]
           /\ matched'[d] = matched[d]
  BY <1>2, <1>3 DEF DispatchInv, DispatchTypes
<1>11. CallInv(c)'
  <2>1. Range(snap'[c]) = matched'[c]
    BY <1>5, <1>8
  <2>2. InOrder(snap[c])'
    BY <1>3, <1>5, <1>8, BeforeKept DEF InOrder
  <2>3. ASSUME family' # "emitter"
        PROVE /\ Len(called'[c]) <= Len(snap'[c])
              /\ \A i \in DOMAIN called'[c] : called'[c][i] = snap'[c][i]
              /\ inside'[c] \/ (pc'[c] = "returned" /\ family' = "router")
                   => Len(called'[c]) = Len(snap'[c])
              /\ family' = "middleware" /\ pc'[c] = "running" => inside'[c] \/ called'[c] # <<>>
    <3>1. family # "emitter" /\ family' = family
      BY <1>3, <2>3
    <3>2. CASE list = <<>>
      <4>1. called'[c] = <<>> /\ snap'[c] = <<>>
        BY <1>8, <3>1, <3>2
      <4>2. inside'[c] <=> family = "middleware"
        BY <1>9, <3>2
      <4>. QED
        BY <4>1, <4>2, <3>1
    <3>3. CASE list # <<>>
      <4>1. called'[c] = <<list[1]>> /\ snap'[c] = list /\ pc'[c] = "running" /\ Len(list) >= 1
        BY <1>6, <1>8, <3>1, <3>3
      <4>2. ~inside'[c]
        BY <1>9, <3>3
      <4>. QED
        BY <4>1, <4>2, <1>6
    <3>. QED
      BY <3>2, <3>3
  <2>4. ASSUME family' = "emitter"
        PROVE  /\ pending'[c] \subseteq DOMAIN snap'[c] /\ failed'[c] \subseteq DOMAIN snap'[c]
               /\ pc'[c] \in {"returned", "raised"} =>
                    /\ pending'[c] = {}
                    /\ pc'[c] = "raised" <=> \E n \in failed'[c] : snap'[c][n].critical
    <3>1. family = "emitter"
      BY <1>3, <2>4
    <3>2. list = <<>> => DOMAIN list = {}
      OBVIOUS
    <3>. QED
      BY <1>8, <3>1, <3>2
  <2>. QED
    BY <2>1, <2>2, <2>3, <2>4 DEF CallInv
<1>12. \A d \in Calls : CallInv(d)'
  BY <1>3, <1>10, <1>11, OthersKept
<1>13. FoundInv' /\ HistoryInv' /\ (rules' # {} => family' = "router")
  BY <1>3, FoundKept, HistoryKept DEF DispatchInv
<1>. QED
  BY <1>7, <1>12, <1>13 DEF DispatchInv

\* A step inside a dispatch or a pipeline.
LEMMA CallAdvances ==
  ASSUME DispatchInv, NEW c \in Calls, family # "emitter",
         UNCHANGED <<family, regs, rules, sequence, snap, pending, failed, failures, found,
                     matched, log>>,
         pc' \in [Calls -> {"idle", "running", "returned", "raised", "cancelled"}],
         called' \in [Calls -> Seq(Registrants)], inside' \in [Calls -> BOOLEAN],
         \A d \in Calls : d # c => /\ pc'[d] = pc[d] /\ called'[d] = called[d]
                                   /\ inside'[d] = inside[d],
         Len(called'[c]) <= Len(snap[c]),
         \A i \in DOMAIN called'[c] : called'[c][i] = snap[c][i],
         inside'[c] \/ (pc'[c] = "returned" /\ family = "router")
            => Len(called'[c]) = Len(snap[c]),
         family = "middleware" /\ pc'[c] = "running" => inside'[c] \/ called'[c] # <<>>
  PROVE  DispatchInv'
<1>1. DispatchTypes'
  BY DEF DispatchInv, DispatchTypes
<1>2. CallInv(c)'
  <2>1. InOrder(snap[c])'
    BY BeforeKept DEF InOrder, DispatchInv, CallInv
  <2>2. Range(snap'[c]) = matched'[c]
    BY DEF DispatchInv, CallInv
  <2>3. family' # "emitter" /\ family' = family /\ snap'[c] = snap[c]
    OBVIOUS
  <2>. QED
    BY <2>1, <2>2, <2>3 DEF CallInv
<1>3. \A d \in Calls : d # c =>
           /\ pc'[d] = pc[d] /\ snap'[d] = snap[d] /\ called'[d] = called[d]
           /\ inside'[d] = inside[d] /\ pending'[d] = pending[d] /\ failed'[d] = failed[d]
           /\ matched'[d] = matched[d]
  OBVIOUS
<1>4. \A d \in Calls : CallInv(d)'
  BY <1>2, <1>3, OthersKept
<1>5. FoundInv' /\ HistoryInv' /\ (rules' # {} => family' = "router")
  BY FoundKept, HistoryKept DEF DispatchInv
<1>. QED
  BY <1>1, <1>4, <1>5 DEF DispatchInv

\* The next of the snapshot is appended to what was called.
LEMMA CalledNext ==
  ASSUME DispatchInv, NEW c \in Calls, family # "emitter", Len(called[c]) < Len(snap[c]),
         called' = [called EXCEPT ![c] = Append(@, snap[c][Len(@) + 1])]
  PROVE  /\ called' \in [Calls -> Seq(Registrants)]
         /\ \A d \in Calls : d # c => called'[d] = called[d]
         /\ Len(called'[c]) <= Len(snap[c]) /\ called'[c] # <<>>
         /\ \A i \in DOMAIN called'[c] : called'[c][i] = snap[c][i]
<1>. DEFINE l == called[c]
            s == snap[c]
<1>1. /\ l \in Seq(Registrants) /\ s \in Seq(Registrants)
      /\ called \in [Calls -> Seq(Registrants)]
  BY DEF DispatchInv, DispatchTypes
<1>2. \A i \in DOMAIN l : l[i] = s[i]
  BY DEF DispatchInv, CallInv
<1>3. called'[c] = Append(l, s[Len(l) + 1]) /\ Len(l) < Len(s)
  BY <1>1
<1>4. Len(l) \in Nat /\ Len(s) \in Nat /\ DOMAIN l = 1..Len(l) /\ DOMAIN s = 1..Len(s)
  BY <1>1, LenProperties
<1>5. s[Len(l) + 1] \in Registrants
  BY <1>1, <1>3, <1>4, ElementOfSeq
<1>6. called' \in [Calls -> Seq(Registrants)] /\ \A d \in Calls : d # c => called'[d] = called[d]
  BY <1>1, <1>5
<1>. HIDE DEF l, s
<1>7. /\ Append(l, s[Len(l) + 1]) # <<>> /\ Len(Append(l, s[Len(l) + 1])) = Len(l) + 1
      /\ DOMAIN Append(l, s[Len(l) + 1]) = 1..(Len(l) + 1)
      /\ \A i \in 1..Len(l) : Append(l, s[Len(l) + 1])[i] = l[i]
      /\ Append(l, s[Len(l) + 1])[Len(l) + 1] = s[Len(l) + 1]
  BY <1>1, <1>4, <1>5, AppendProperties
<1>8. ASSUME NEW i \in 1..(Len(l) + 1) PROVE Append(l, s[Len(l) + 1])[i] = s[i]
  <2>1. i = Len(l) + 1 \/ i \in 1..Len(l)
    BY <1>4
  <2>. QED
    BY <1>2, <1>4, <1>7, <2>1
<1>9. Len(l) + 1 <= Len(s)
  BY <1>3, <1>4
<1>. QED
  BY <1>3, <1>6, <1>7, <1>8, <1>9 DEF s

LEMMA HandlerReturned ==
  ASSUME DispatchInv, NEW c \in Calls, HandlerReturns(c)
  PROVE  DispatchInv'
<1>1. /\ family = "router"
      /\ UNCHANGED <<family, regs, rules, sequence, snap, inside, pending, failed, failures, found,
                     matched, log>>
  BY DEF HandlerReturns
<1>2. /\ Len(called[c]) <= Len(snap[c]) /\ \A i \in DOMAIN called[c] : called[c][i] = snap[c][i]
      /\ inside[c] => Len(called[c]) = Len(snap[c])
  BY <1>1 DEF DispatchInv, CallInv
<1>3. /\ pc \in [Calls -> {"idle", "running", "returned", "raised", "cancelled"}]
      /\ called \in [Calls -> Seq(Registrants)] /\ snap \in [Calls -> Seq(Registrants)]
      /\ inside \in [Calls -> BOOLEAN]
  BY DEF DispatchInv, DispatchTypes
<1>4. Len(called[c]) \in Nat /\ Len(snap[c]) \in Nat
  BY <1>3, LenProperties
<1>5. CASE Len(called[c]) < Len(snap[c])
  <2>1. called' = [called EXCEPT ![c] = Append(@, snap[c][Len(@) + 1])] /\ UNCHANGED pc
    BY <1>5 DEF HandlerReturns
  <2>2. pc[c] = "running" /\ ~inside[c]
    BY <1>2, <1>4, <1>5 DEF HandlerReturns
  <2>3. /\ called' \in [Calls -> Seq(Registrants)]
        /\ \A d \in Calls : d # c => called'[d] = called[d]
        /\ Len(called'[c]) <= Len(snap[c]) /\ called'[c] # <<>>
        /\ \A i \in DOMAIN called'[c] : called'[c][i] = snap[c][i]
    BY <1>1, <1>5, <2>1, CalledNext
  <2>. QED
    BY <1>1, <1>3, <2>1, <2>2, <2>3, CallAdvances
<1>6. CASE ~(Len(called[c]) < Len(snap[c]))
  <2>1. pc' = [pc EXCEPT ![c] = "returned"] /\ UNCHANGED called
    BY <1>6 DEF HandlerReturns
  <2>2. Len(called[c]) = Len(snap[c])
    BY <1>2, <1>4, <1>6
  <2>. QED
    BY <1>1, <1>2, <1>3, <2>1, <2>2, CallAdvances
<1>. QED
  BY <1>5, <1>6

LEMMA HandlerRaised ==
  ASSUME DispatchInv, NEW c \in Calls, HandlerRaises(c)
  PROVE  DispatchInv'
<1>1. /\ family = "router" /\ pc' = [pc EXCEPT ![c] = "raised"]
      /\ UNCHANGED <<family, regs, rules, sequence, snap, called, inside, pending, failed,
                     failures, found, matched, log>>
  BY DEF HandlerRaises
<1>2. /\ Len(called[c]) <= Len(snap[c]) /\ \A i \in DOMAIN called[c] : called[c][i] = snap[c][i]
      /\ inside[c] => Len(called[c]) = Len(snap[c])
  BY <1>1 DEF DispatchInv, CallInv
<1>3. /\ pc \in [Calls -> {"idle", "running", "returned", "raised", "cancelled"}]
      /\ called \in [Calls -> Seq(Registrants)] /\ inside \in [Calls -> BOOLEAN]
  BY DEF DispatchInv, DispatchTypes
<1>. QED
  BY <1>1, <1>2, <1>3, CallAdvances

LEMMA LayerCallsNext ==
  ASSUME DispatchInv, NEW c \in Calls, CallNext(c)
  PROVE  DispatchInv'
<1>1. /\ family = "middleware" /\ pc[c] = "running" /\ ~inside[c]
      /\ UNCHANGED <<family, regs, rules, sequence, pc, snap, pending, failed, failures, found,
                     matched, log>>
  BY DEF CallNext
<1>2. /\ Len(called[c]) <= Len(snap[c]) /\ \A i \in DOMAIN called[c] : called[c][i] = snap[c][i]
  BY <1>1 DEF DispatchInv, CallInv
<1>3. /\ pc \in [Calls -> {"idle", "running", "returned", "raised", "cancelled"}]
      /\ called \in [Calls -> Seq(Registrants)] /\ snap \in [Calls -> Seq(Registrants)]
      /\ inside \in [Calls -> BOOLEAN]
  BY DEF DispatchInv, DispatchTypes
<1>4. Len(called[c]) \in Nat /\ Len(snap[c]) \in Nat
  BY <1>3, LenProperties
<1>5. CASE Len(called[c]) < Len(snap[c])
  <2>1. called' = [called EXCEPT ![c] = Append(@, snap[c][Len(@) + 1])] /\ UNCHANGED inside
    BY <1>5 DEF CallNext
  <2>2. /\ called' \in [Calls -> Seq(Registrants)]
        /\ \A d \in Calls : d # c => called'[d] = called[d]
        /\ Len(called'[c]) <= Len(snap[c]) /\ called'[c] # <<>>
        /\ \A i \in DOMAIN called'[c] : called'[c][i] = snap[c][i]
    BY <1>1, <1>5, <2>1, CalledNext
  <2>3. ~inside'[c]
    BY <1>1, <2>1
  <2>. QED
    BY <1>1, <1>3, <2>1, <2>2, <2>3, CallAdvances
<1>6. CASE ~(Len(called[c]) < Len(snap[c]))
  <2>1. inside' = [inside EXCEPT ![c] = TRUE] /\ UNCHANGED called
    BY <1>6 DEF CallNext
  <2>2. Len(called[c]) = Len(snap[c])
    BY <1>2, <1>4, <1>6
  <2>3. inside'[c] /\ inside' \in [Calls -> BOOLEAN]
        /\ \A d \in Calls : d # c => inside'[d] = inside[d]
    BY <1>3, <2>1
  <2>. QED
    BY <1>1, <1>2, <1>3, <2>1, <2>2, <2>3, CallAdvances
<1>. QED
  BY <1>5, <1>6

LEMMA LayerLeft ==
  ASSUME DispatchInv, NEW c \in Calls, Leave(c)
  PROVE  DispatchInv'
<1>1. /\ family = "middleware" /\ pc[c] = "running"
      /\ UNCHANGED <<family, regs, rules, sequence, snap, pending, failed, failures, found, matched,
                     log>>
      /\ inside' = [inside EXCEPT ![c] = FALSE]
      /\ called' = [called EXCEPT ![c] = IF inside[c] THEN @ ELSE Front(@)]
      /\ pc' = [pc EXCEPT ![c] = IF called'[c] = <<>> THEN "returned" ELSE @]
  BY DEF Leave
<1>2. /\ Len(called[c]) <= Len(snap[c]) /\ \A i \in DOMAIN called[c] : called[c][i] = snap[c][i]
      /\ inside[c] \/ called[c] # <<>>
  BY <1>1 DEF DispatchInv, CallInv
<1>3. /\ pc \in [Calls -> {"idle", "running", "returned", "raised", "cancelled"}]
      /\ called \in [Calls -> Seq(Registrants)] /\ snap \in [Calls -> Seq(Registrants)]
      /\ inside \in [Calls -> BOOLEAN]
  BY DEF DispatchInv, DispatchTypes
<1>4. Len(called[c]) \in Nat /\ Len(snap[c]) \in Nat /\ DOMAIN called[c] = 1..Len(called[c])
  BY <1>3, LenProperties
<1>. DEFINE l == IF inside[c] THEN called[c] ELSE Front(called[c])
<1>5. /\ l \in Seq(Registrants) /\ Len(l) <= Len(called[c]) /\ Len(l) \in Nat
      /\ \A i \in DOMAIN l : i \in DOMAIN called[c] /\ l[i] = called[c][i]
  <2>1. CASE inside[c]
    BY <1>3, <1>4, <2>1
  <2>2. CASE ~inside[c]
    <3>1. called[c] # <<>> /\ called[c] \in Seq(Registrants)
      BY <1>2, <1>3, <2>2
    <3>. DEFINE q == called[c]
    <3>. HIDE DEF q
    <3>2. q \in Seq(Registrants) /\ q # <<>> /\ Len(q) \in Nat /\ DOMAIN q = 1..Len(q)
      BY <1>4, <3>1 DEF q
    <3>3. Len(q) >= 1
      BY <3>2, EmptySeq
    <3>4. /\ Front(q) \in Seq(Registrants) /\ Len(Front(q)) = Len(q) - 1
          /\ \A i \in 1..(Len(q) - 1) : Front(q)[i] = q[i]
      BY <3>2, <3>3 DEF Front
    <3>5. DOMAIN Front(q) = 1..(Len(q) - 1)
      BY <3>4, LenProperties
    <3>6. /\ Front(q) \in Seq(Registrants) /\ Len(Front(q)) <= Len(q) /\ Len(Front(q)) \in Nat
          /\ \A i \in DOMAIN Front(q) : i \in DOMAIN q /\ Front(q)[i] = q[i]
      BY <3>2, <3>3, <3>4, <3>5
    <3>7. l = Front(q)
      BY <2>2 DEF q
    <3>. QED
      BY <3>6, <3>7 DEF q
  <2>. QED
    BY <2>1, <2>2
<1>6. /\ called'[c] = l /\ called' \in [Calls -> Seq(Registrants)]
      /\ \A d \in Calls : d # c => called'[d] = called[d]
  BY <1>1, <1>3, <1>5
<1>. HIDE DEF l
<1>7. /\ pc' \in [Calls -> {"idle", "running", "returned", "raised", "cancelled"}]
      /\ \A d \in Calls : d # c => pc'[d] = pc[d]
      /\ pc'[c] = "running" => called'[c] # <<>>
  BY <1>1, <1>3
<1>8. /\ inside' \in [Calls -> BOOLEAN] /\ ~inside'[c]
      /\ \A d \in Calls : d # c => inside'[d] = inside[d]
  BY <1>1, <1>3
<1>9. Len(called'[c]) <= Len(snap[c]) /\ \A i \in DOMAIN called'[c] : called'[c][i] = snap[c][i]
  BY <1>2, <1>4, <1>5, <1>6
<1>. QED
  BY <1>1, <1>6, <1>7, <1>8, <1>9, CallAdvances

\* The failures of an emit are appended to the log, and to the history, whose
\* oldest make room.
LEMMA HistoryExtended ==
  ASSUME DispatchInv, NEW new \in Seq(Registrants),
         failures' = Latest(failures \o new), log' = log \o new
  PROVE  HistoryInv' /\ failures' \in Seq(Registrants) /\ log' \in Seq(Registrants)
<1>. DEFINE fn == failures \o new
            ln == log \o new
            F == Len(failures)
            L == Len(log)
            N == Len(new)
<1>1. failures \in Seq(Registrants) /\ log \in Seq(Registrants)
  BY DEF DispatchInv, DispatchTypes
<1>2. F \in Nat /\ L \in Nat /\ N \in Nat /\ HistoryLimit \in Nat
  BY <1>1, LenProperties, DispatchAssumption
<1>3. /\ F <= HistoryLimit /\ F <= L
      /\ \A k \in 1..F : failures[k] = log[L - F + k]
      /\ F < HistoryLimit => failures = log
  BY DEF DispatchInv, HistoryInv
<1>4. /\ fn \in Seq(Registrants) /\ ln \in Seq(Registrants)
      /\ Len(fn) = F + N /\ Len(ln) = L + N
      /\ \A k \in 1..(F + N) : fn[k] = IF k <= F THEN failures[k] ELSE new[k - F]
      /\ \A k \in 1..(L + N) : ln[k] = IF k <= L THEN log[k] ELSE new[k - L]
  BY <1>1, ConcatProperties
<1>5. failures' = Latest(fn) /\ log' = ln
  OBVIOUS
<1>. HIDE DEF fn, ln, F, L, N
<1>6. ASSUME NEW p \in 1..(F + N) PROVE fn[p] = ln[L - F + p]
  <2>1. L - F + p \in 1..(L + N) /\ (p <= F <=> L - F + p <= L) /\ (L - F + p) - L = p - F
    BY <1>2, <1>3
  <2>2. CASE p <= F
    <3>1. p \in 1..F
      BY <1>2, <2>2
    <3>. QED
      BY <1>3, <1>4, <2>1, <2>2, <3>1
  <2>3. CASE ~(p <= F)
    BY <1>4, <2>1, <2>3
  <2>. QED
    BY <2>2, <2>3
<1>7. CASE F + N <= HistoryLimit
  <2>1. failures' = fn
    BY <1>4, <1>5, <1>7 DEF Latest
  <2>2. F + N <= L + N /\ (L + N) - (F + N) = L - F
    BY <1>2, <1>3
  <2>3. F + N < HistoryLimit => fn = ln
    <3>1. F + N < HistoryLimit => F < HistoryLimit
      BY <1>2
    <3>2. F < HistoryLimit => failures = log
      BY <1>3
    <3>. QED
      BY <3>1, <3>2, Zenon DEF fn, ln
  <2>4. Len(failures') = F + N /\ Len(log') = L + N /\ failures' \in Seq(Registrants)
    BY <1>4, <1>5, <2>1
  <2>5. \A k \in 1..(F + N) : failures'[k] = log'[(L + N) - (F + N) + k]
    BY <1>5, <1>6, <2>1, <2>2
  <2>. QED
    BY <1>4, <1>5, <1>7, <2>1, <2>2, <2>3, <2>4, <2>5 DEF HistoryInv
<1>8. CASE ~(F + N <= HistoryLimit)
  <2>. DEFINE short == [k \in 1..HistoryLimit |-> fn[Len(fn) - HistoryLimit + k]]
  <2>1. failures' = short
    <3>1. ~(Len(fn) <= HistoryLimit)
      BY <1>4, <1>8
    <3>. QED
      BY <1>5, <3>1, Zenon DEF Latest
  <2>2. \A k \in 1..HistoryLimit : Len(fn) - HistoryLimit + k \in 1..(F + N)
    BY <1>2, <1>4, <1>8
  <2>3. \A k \in 1..(F + N) : fn[k] \in Registrants
    BY <1>4, ElementOfSeq
  <2>4. short \in Seq(Registrants) /\ Len(short) = HistoryLimit
    <3>1. short \in [1..HistoryLimit -> Registrants]
      BY <2>2, <2>3
    <3>. HIDE DEF short
    <3>. QED
      BY <1>2, <3>1
  <2>5. HistoryLimit <= L + N
    BY <1>2, <1>3, <1>8
  <2>6. ASSUME NEW k \in 1..HistoryLimit PROVE short[k] = ln[(L + N) - HistoryLimit + k]
    <3>1. short[k] = fn[Len(fn) - HistoryLimit + k]
      OBVIOUS
    <3>2. fn[Len(fn) - HistoryLimit + k] = ln[L - F + (Len(fn) - HistoryLimit + k)]
      BY <1>6, <2>2
    <3>3. L - F + (Len(fn) - HistoryLimit + k) = (L + N) - HistoryLimit + k
      BY <1>2, <1>4
    <3>. QED
      BY <3>1, <3>2, <3>3
  <2>. HIDE DEF short
  <2>7. ~(HistoryLimit < HistoryLimit) /\ HistoryLimit <= HistoryLimit
    BY <1>2
  <2>. QED
    BY <1>4, <1>5, <2>1, <2>4, <2>5, <2>6, <2>7 DEF HistoryInv
<1>. QED
  BY <1>7, <1>8

LEMMA ListenerSettled ==
  ASSUME DispatchInv, NEW c \in Calls, Settle(c)
  PROVE  DispatchInv'
<1>1. /\ family = "emitter" /\ pc[c] = "running"
      /\ UNCHANGED <<family, regs, rules, sequence, snap, called, inside, found, matched>>
  BY DEF Settle
<1>2. PICK n \in pending[c] :
       /\ pending' = [pending EXCEPT ![c] = @ \ {n}]
       /\ \/ UNCHANGED failed
          \/ failed' = [failed EXCEPT ![c] = @ \cup {n}]
  BY DEF Settle
<1>3. /\ pc \in [Calls -> {"idle", "running", "returned", "raised", "cancelled"}]
      /\ snap \in [Calls -> Seq(Registrants)]
      /\ pending \in [Calls -> SUBSET Nat] /\ failed \in [Calls -> SUBSET Nat]
  BY DEF DispatchInv, DispatchTypes
<1>4. pending[c] \subseteq DOMAIN snap[c] /\ failed[c] \subseteq DOMAIN snap[c]
  BY <1>1 DEF DispatchInv, CallInv
<1>5. /\ pending' \in [Calls -> SUBSET Nat] /\ failed' \in [Calls -> SUBSET Nat]
      /\ pending'[c] \subseteq DOMAIN snap[c] /\ failed'[c] \subseteq DOMAIN snap[c]
      /\ \A d \in Calls : d # c => pending'[d] = pending[d] /\ failed'[d] = failed[d]
  <2>1. n \in Nat /\ n \in DOMAIN snap[c]
    BY <1>2, <1>3, <1>4
  <2>. QED
    BY <1>2, <1>3, <1>4, <2>1
<1>6. /\ pc' \in [Calls -> {"idle", "running", "returned", "raised", "cancelled"}]
      /\ \A d \in Calls : d # c => pc'[d] = pc[d]
      /\ pc'[c] \in {"returned", "raised"} =>
           /\ pending'[c] = {}
           /\ pc'[c] = "raised" <=> \E k \in failed'[c] : snap[c][k].critical
      /\ failures' \in Seq(Registrants) /\ log' \in Seq(Registrants) /\ HistoryInv'
  <2>1. CASE pending'[c] # {}
    <3>1. UNCHANGED <<pc, failures, log>>
      BY <2>1 DEF Settle, Finished
    <3>2. HistoryInv'
      BY <3>1, HistoryKept DEF DispatchInv
    <3>. QED
      BY <1>1, <1>3, <3>1, <3>2 DEF DispatchInv, DispatchTypes
  <2>2. CASE pending'[c] = {}
    <3>1. \E order \in Increasing(failed'[c]) :
            LET new == [k \in DOMAIN order |-> snap[c][order[k]]]
            IN  /\ failures' = Latest(failures \o new)
                /\ log' = log \o new
                /\ pc' = [pc EXCEPT ![c] = IF \E k \in DOMAIN new : new[k].critical
                                           THEN "raised" ELSE "returned"]
      BY <2>2 DEF Settle, Finished
    <3>2. PICK order \in Increasing(failed'[c]) :
            LET new == [k \in DOMAIN order |-> snap[c][order[k]]]
            IN  /\ failures' = Latest(failures \o new)
                /\ log' = log \o new
                /\ pc' = [pc EXCEPT ![c] = IF \E k \in DOMAIN new : new[k].critical
                                           THEN "raised" ELSE "returned"]
      BY <3>1
    <3>. DEFINE new == [k \in DOMAIN order |-> snap[c][order[k]]]
    <3>3. DOMAIN snap[c] = 1..Len(snap[c]) /\ Len(snap[c]) \in Nat
      BY <1>3, LenProperties
    <3>4. Cardinality(failed'[c]) \in Nat
      <4>1. IsFiniteSet(1..Len(snap[c]))
        BY <3>3, FS_Interval
      <4>2. IsFiniteSet(failed'[c])
        BY <1>5, <3>3, <4>1, FS_Subset
      <4>. QED
        BY <4>2, FS_CardinalityType
    <3>5. /\ order \in [1..Cardinality(failed'[c]) -> failed'[c]]
          /\ \A k \in failed'[c] : \E j \in DOMAIN order : order[j] = k
      BY <3>2 DEF Increasing, Range
    <3>6. \A k \in DOMAIN snap[c] : snap[c][k] \in Registrants
      BY <1>3, <3>3, ElementOfSeq
    <3>7. new \in Seq(Registrants)
      <4>1. new \in [1..Cardinality(failed'[c]) -> Registrants]
        BY <1>5, <3>5, <3>6
      <4>. QED
        BY <3>4, <4>1
    <3>8. (\E k \in DOMAIN new : new[k].critical) <=> \E k \in failed'[c] : snap[c][k].critical
      BY <3>5
    <3>9. /\ failures' = Latest(failures \o new) /\ log' = log \o new
          /\ pc' = [pc EXCEPT ![c] = IF \E k \in DOMAIN new : new[k].critical
                                      THEN "raised" ELSE "returned"]
      BY <3>2
    <3>. HIDE DEF new
    <3>10. HistoryInv' /\ failures' \in Seq(Registrants) /\ log' \in Seq(Registrants)
      BY <3>7, <3>9, HistoryExtended
    <3>11. /\ pc' \in [Calls -> {"idle", "running", "returned", "raised", "cancelled"}]
           /\ \A d \in Calls : d # c => pc'[d] = pc[d]
           /\ pc'[c] = IF \E k \in DOMAIN new : new[k].critical THEN "raised" ELSE "returned"
      BY <1>3, <3>9
    <3>. QED
      BY <2>2, <3>8, <3>10, <3>11
  <2>. QED
    BY <2>1, <2>2
<1>7. DispatchTypes'
  BY <1>1, <1>5, <1>6 DEF DispatchInv, DispatchTypes
<1>8. CallInv(c)'
  <2>1. InOrder(snap[c])'
    BY <1>1, BeforeKept DEF InOrder, DispatchInv, CallInv
  <2>2. Range(snap'[c]) = matched'[c]
    BY <1>1 DEF DispatchInv, CallInv
  <2>3. family' = "emitter" /\ snap'[c] = snap[c]
    BY <1>1
  <2>. QED
    BY <1>5, <1>6, <2>1, <2>2, <2>3 DEF CallInv
<1>9. \A d \in Calls : d # c =>
           /\ pc'[d] = pc[d] /\ snap'[d] = snap[d] /\ called'[d] = called[d]
           /\ inside'[d] = inside[d] /\ pending'[d] = pending[d] /\ failed'[d] = failed[d]
           /\ matched'[d] = matched[d]
  BY <1>1, <1>5, <1>6
<1>10. \A d \in Calls : CallInv(d)'
  BY <1>1, <1>8, <1>9, OthersKept
<1>11. FoundInv' /\ (rules' # {} => family' = "router")
  BY <1>1, FoundKept DEF DispatchInv
<1>. QED
  BY <1>6, <1>7, <1>10, <1>11 DEF DispatchInv

LEMMA EmitAbandoned ==
  ASSUME DispatchInv, NEW c \in Calls, Abandon(c)
  PROVE  DispatchInv'
<1>1. /\ family = "emitter" /\ pc' = [pc EXCEPT ![c] = "cancelled"]
      /\ UNCHANGED <<family, regs, rules, sequence, snap, called, inside, pending, failed,
                     failures, found, matched, log>>
  BY DEF Abandon
<1>2. pc \in [Calls -> {"idle", "running", "returned", "raised", "cancelled"}]
  BY DEF DispatchInv, DispatchTypes
<1>3. pc'[c] = "cancelled" /\ \A d \in Calls : d # c => pc'[d] = pc[d]
  BY <1>1, <1>2
<1>4. DispatchTypes'
  BY <1>1, <1>2 DEF DispatchInv, DispatchTypes
<1>5. CallInv(c)'
  <2>1. InOrder(snap[c])'
    BY <1>1, BeforeKept DEF InOrder, DispatchInv, CallInv
  <2>2. /\ Range(snap'[c]) = matched'[c] /\ family' = "emitter"
        /\ pending'[c] \subseteq DOMAIN snap'[c] /\ failed'[c] \subseteq DOMAIN snap'[c]
    BY <1>1 DEF DispatchInv, CallInv
  <2>. QED
    BY <1>3, <2>1, <2>2 DEF CallInv
<1>6. \A d \in Calls : d # c =>
           /\ pc'[d] = pc[d] /\ snap'[d] = snap[d] /\ called'[d] = called[d]
           /\ inside'[d] = inside[d] /\ pending'[d] = pending[d] /\ failed'[d] = failed[d]
           /\ matched'[d] = matched[d]
  BY <1>1, <1>3
<1>7. \A d \in Calls : CallInv(d)'
  BY <1>1, <1>5, <1>6, OthersKept
<1>8. FoundInv' /\ HistoryInv' /\ (rules' # {} => family' = "router")
  BY <1>1, FoundKept, HistoryKept DEF DispatchInv
<1>. QED
  BY <1>4, <1>7, <1>8 DEF DispatchInv

LEMMA DispatchStep ==
  ASSUME DispatchInv, DispatchNext \/ UNCHANGED dispatchVars
  PROVE  DispatchInv'
<1>1. ASSUME UNCHANGED dispatchVars PROVE DispatchInv'
  <2>1. /\ UNCHANGED <<family, regs, rules, sequence, failures, found, log>>
        /\ UNCHANGED <<pc, snap, called, inside, pending, failed, matched>>
    BY <1>1 DEF dispatchVars
  <2>2. UNCHANGED <<family, callVars>>
    BY <2>1 DEF callVars
  <2>3. DispatchTypes'
    BY <2>1 DEF DispatchInv, DispatchTypes
  <2>4. \A c \in Calls : CallInv(c)'
    BY <2>2, CallsKept DEF DispatchInv
  <2>5. FoundInv' /\ HistoryInv' /\ (rules' # {} => family' = "router")
    BY <2>1, FoundKept, HistoryKept DEF DispatchInv
  <2>. QED
    BY <2>3, <2>4, <2>5 DEF DispatchInv
<1>2. ASSUME NEW c \in Calls,
             \/ Begin(c) \/ HandlerReturns(c) \/ HandlerRaises(c) \/ CallNext(c) \/ Leave(c)
             \/ Settle(c) \/ Abandon(c)
      PROVE  DispatchInv'
  BY <1>2, CallBegun, HandlerReturned, HandlerRaised, LayerCallsNext, LayerLeft, ListenerSettled,
     EmitAbandoned
<1>. QED
  BY <1>1, <1>2, RegistriesChange, AllCleared, DestinationsResolved DEF DispatchNext

-----------------------------------------------------------------------------
(* Dispatch: what the invariant implies                                    *)

LEMMA SuffixByPosition ==
  ASSUME NEW R, NEW s \in Seq(R), NEW t \in Seq(R), Len(s) <= Len(t),
         \A k \in 1..Len(s) : s[k] = t[Len(t) - Len(s) + k]
  PROVE  IsSuffix(s, t)
<1>. DEFINE S == Len(s)
            T == Len(t)
            rs == Reverse(s)
            rt == Reverse(t)
<1>1. S \in Nat /\ T \in Nat /\ S <= T
  BY LenProperties
<1>2. \A k \in 1..S : s[k] = t[T - S + k] /\ s[k] \in R
  BY LenProperties, ElementOfSeq
<1>3. \A k \in 1..T : t[k] \in R
  BY LenProperties, ElementOfSeq
<1>4. rs = [i \in 1..S |-> s[(S - i) + 1]] /\ rt = [i \in 1..T |-> t[(T - i) + 1]]
  BY DEF Reverse
<1>. HIDE DEF S, T, rs, rt
<1>5. rs \in Seq(R) /\ Len(rs) = S
  <2>1. \A i \in 1..S : (S - i) + 1 \in 1..S
    BY <1>1
  <2>2. rs \in [1..S -> R]
    BY <1>2, <1>4, <2>1
  <2>. QED
    BY <1>1, <2>2
<1>6. rt \in Seq(R) /\ Len(rt) = T
  <2>1. \A i \in 1..T : (T - i) + 1 \in 1..T
    BY <1>1
  <2>2. rt \in [1..T -> R]
    BY <1>3, <1>4, <2>1
  <2>. QED
    BY <1>1, <2>2
<1>7. ASSUME NEW k \in 1..S PROVE rs[k] = rt[k]
  <2>1. (S - k) + 1 \in 1..S /\ T - S + ((S - k) + 1) = (T - k) + 1 /\ k \in 1..T
    BY <1>1
  <2>2. s[(S - k) + 1] = t[T - S + ((S - k) + 1)]
    BY <1>2, <2>1
  <2>. QED
    BY <1>4, <2>1, <2>2
<1>8. SubSeq(rs, 1, S) = SubSeq(rt, 1, S)
  <2>1. /\ SubSeq(rs, 1, S) = [i \in 1..S |-> rs[i]]
        /\ SubSeq(rt, 1, S) = [i \in 1..S |-> rt[i]]
    BY <1>1, <1>5, <1>6
  <2>. QED
    BY <1>7, <2>1
<1>9. IsPrefix(rs, rt)
  BY <1>1, <1>5, <1>6, <1>8 DEF IsPrefix
<1>. QED
  BY <1>9 DEF IsSuffix, rs, rt

LEMMA InvariantImpliesSnapshot == DispatchInv => CallsTheSnapshot
<1>. SUFFICES ASSUME DispatchInv PROVE CallsTheSnapshot
  OBVIOUS
<1>1. ASSUME family \in {"router", "middleware"}, NEW c \in Calls
      PROVE  /\ Range(called[c]) \subseteq matched[c]
             /\ \A i \in DOMAIN called[c], r \in matched[c] :
                  Earlier(r, called[c][i]) => \E j \in 1..(i - 1) : called[c][j] = r
             /\ inside[c] \/ (pc[c] = "returned" /\ family = "router")
                  => Range(called[c]) = matched[c]
  <2>. DEFINE l == called[c]
              s == snap[c]
  <2>1. /\ Range(s) = matched[c] /\ InOrder(s) /\ Len(l) <= Len(s)
        /\ \A i \in DOMAIN l : l[i] = s[i]
        /\ inside[c] \/ (pc[c] = "returned" /\ family = "router") => Len(l) = Len(s)
    BY <1>1 DEF DispatchInv, CallInv
  <2>2. l \in Seq(Registrants) /\ s \in Seq(Registrants)
    BY DEF DispatchInv, DispatchTypes
  <2>. HIDE DEF l, s
  <2>3. /\ DOMAIN l = 1..Len(l) /\ DOMAIN s = 1..Len(s) /\ Len(l) \in Nat /\ Len(s) \in Nat
        /\ \A i \in DOMAIN s : s[i] \in Registrants
    BY <2>2, LenProperties, ElementOfSeq
  <2>4. /\ \A i \in DOMAIN l : i \in DOMAIN s
        /\ \A i \in DOMAIN l, j \in DOMAIN s : j < i => j \in DOMAIN l
    <3>1. Len(l) <= Len(s)
      BY <2>1
    <3>2. \A i \in 1..Len(l) : i \in 1..Len(s)
      BY <2>3, <3>1
    <3>3. \A i \in 1..Len(l), j \in 1..Len(s) : j < i => j \in 1..Len(l)
      BY <2>3
    <3>. QED
      BY <2>3, <3>2, <3>3
  <2>5. Range(l) \subseteq matched[c]
    BY <2>1, <2>4 DEF Range
  <2>6. ASSUME NEW i \in DOMAIN l, NEW r \in matched[c], Earlier(r, l[i])
        PROVE  \E j \in 1..(i - 1) : l[j] = r
    <3>1. PICK j \in DOMAIN s : s[j] = r
      BY <2>1 DEF Range
    <3>2. i \in DOMAIN s /\ l[i] = s[i]
      BY <2>1, <2>4
    <3>3. Before(s[j], s[i]) /\ ~Before(s[i], s[j])
      <4>1. /\ s[j].rank \in Int /\ s[i].rank \in Int /\ s[j].seq \in Nat /\ s[i].seq \in Nat
            /\ Earlier(s[j], s[i])
        BY <2>3, <2>6, <3>1, <3>2, RanksAreIntegers
      <4>. QED
        BY <1>1, <4>1, KeysAreDocumented
    <3>4. ~(i < j)
      BY <2>1, <3>1, <3>2, <3>3 DEF InOrder
    <3>5. i # j
      BY <3>3
    <3>6. j < i /\ j \in 1..(i - 1)
      BY <2>3, <3>1, <3>2, <3>4, <3>5
    <3>7. l[j] = r
      BY <2>1, <2>4, <3>1, <3>6
    <3>. QED
      BY <3>6, <3>7
  <2>7. ASSUME inside[c] \/ (pc[c] = "returned" /\ family = "router")
        PROVE  Range(l) = matched[c]
    <3>1. DOMAIN l = DOMAIN s
      BY <2>1, <2>3, <2>7
    <3>. QED
      BY <2>1, <3>1 DEF Range
  <2>. QED
    BY <2>5, <2>6, <2>7 DEF l
<1>. QED
  BY <1>1 DEF CallsTheSnapshot, DispatchInv, FoundInv

LEMMA InvariantImpliesEmit == DispatchInv => EmitWaitsForAll
<1>. SUFFICES ASSUME DispatchInv PROVE EmitWaitsForAll
  OBVIOUS
<1>1. ASSUME family = "emitter", NEW c \in Calls
      PROVE  /\ Range(snap[c]) = matched[c]
             /\ pc[c] \in {"returned", "raised"} =>
                  /\ pending[c] = {}
                  /\ (pc[c] = "raised") = (\E n \in failed[c] : snap[c][n].critical)
  BY <1>1 DEF DispatchInv, CallInv
<1>2. IsSuffix(failures, log)
  <2>1. failures \in Seq(Registrants) /\ log \in Seq(Registrants)
    BY DEF DispatchInv, DispatchTypes
  <2>2. /\ Len(failures) <= Len(log)
        /\ \A k \in 1..Len(failures) : failures[k] = log[Len(log) - Len(failures) + k]
    BY DEF DispatchInv, HistoryInv
  <2>. QED
    BY <2>1, <2>2, SuffixByPosition
<1>. QED
  BY <1>1, <1>2 DEF EmitWaitsForAll, DispatchInv, HistoryInv

(* Whatever is registered and removed meanwhile, a dispatch or a pipeline  *)
(* calls what matched when it began, in the documented order, and each     *)
(* destination of a route is there once, the best rule first.              *)
THEOREM CallsFollowTheirSnapshot == Spec => []CallsTheSnapshot
<1>1. Init => DispatchInv
  BY DispatchStarts DEF Init
<1>2. DispatchInv /\ [Next]_vars => DispatchInv'
  BY PartSteps, DispatchStep
<1>. QED
  BY <1>1, <1>2, InvariantImpliesSnapshot, PTL DEF Spec

(* emit ends after its last listener, raises exactly for a critical one,   *)
(* and the history holds the latest failures within its limit.             *)
THEOREM EmitsWaitForAll == Spec => []EmitWaitsForAll
<1>1. Init => DispatchInv
  BY DispatchStarts DEF Init
<1>2. DispatchInv /\ [Next]_vars => DispatchInv'
  BY PartSteps, DispatchStep
<1>. QED
  BY <1>1, <1>2, InvariantImpliesEmit, PTL DEF Spec

-----------------------------------------------------------------------------
(* Engines and plugins                                                     *)

Entries == [declared : Priorities, own : Priorities, loaded : BOOLEAN, seq : Nat]

(* A table of entries, whose numbers come from the sequence.               *)
Numbered(table, last) ==
  /\ table \in [Providers -> Entries \cup {NoProvider}] /\ last \in Nat
  /\ \A n \in Providers : table[n] # NoProvider => table[n].seq \in 1..last
  /\ \A n, m \in Providers :
       /\ table[n] # NoProvider /\ table[m] # NoProvider /\ table[n].seq = table[m].seq
       => n = m

LoadedOnce ==
  /\ loads \in [Providers -> Nat]
  /\ \A n \in Providers : loads[n] <= (IF n \in Entered /\ entries[n].loaded THEN 1 ELSE 0)

Best(pick) ==
  pick.name # NoProvider =>
    /\ pick.name = Memory => pick.memory
    /\ \E best \in pick.able :
         /\ best.name = pick.name
         /\ \A other \in pick.able \ {best} :
              \/ other.priority < best.priority
              \/ other.priority = best.priority /\ other.seq > best.seq

CatalogInv == Numbered(entries, added) /\ LoadedOnce /\ Best(picked)

LEMMA CatalogStarts == PluginInit => CatalogInv
<1>. SUFFICES ASSUME PluginInit PROVE CatalogInv
  OBVIOUS
<1>1. /\ entries = [n \in Providers |-> NoProvider] /\ added = 0
      /\ loads = [n \in Providers |-> 0] /\ picked.name = NoProvider
  BY DEF PluginInit
<1>2. Numbered(entries, added)
  BY <1>1 DEF Numbered
<1>3. LoadedOnce
  BY <1>1 DEF LoadedOnce, Entered
<1>. QED
  BY <1>1, <1>2, <1>3 DEF CatalogInv, Best

LEMMA TableExtended ==
  ASSUME NEW table, NEW last, Numbered(table, last), NEW n \in Providers, table[n] = NoProvider,
         NEW e \in Entries, e.seq = last + 1
  PROVE  Numbered([table EXCEPT ![n] = e], last + 1)
<1>. DEFINE after == [table EXCEPT ![n] = e]
<1>1. after \in [Providers -> Entries \cup {NoProvider}] /\ last + 1 \in Nat /\ last \in Nat
  BY DEF Numbered
<1>2. after[n] = e /\ \A m \in Providers : m # n => after[m] = table[m]
  BY DEF Numbered
<1>. HIDE DEF after
<1>3. \A m \in Providers : m # n /\ after[m] # NoProvider =>
        after[m].seq \in 1..(last + 1) /\ after[m].seq # last + 1
  <2>1. \A k \in 1..last : k \in 1..(last + 1) /\ k # last + 1
    BY <1>1
  <2>. QED
    BY <1>2, <2>1 DEF Numbered
<1>4. e.seq \in 1..(last + 1)
  BY <1>1
<1>5. \A m \in Providers : after[m] # NoProvider => after[m].seq \in 1..(last + 1)
  BY <1>2, <1>3, <1>4
<1>6. ASSUME NEW m \in Providers, NEW k \in Providers, after[m] # NoProvider,
             after[k] # NoProvider, after[m].seq = after[k].seq
      PROVE  m = k
  <2>1. m = n <=> k = n
    BY <1>2, <1>3, <1>6
  <2>2. CASE m # n
    BY <1>2, <1>6, <2>1, <2>2 DEF Numbered
  <2>. QED
    BY <2>1, <2>2
<1>. QED
  BY <1>1, <1>5, <1>6 DEF after, Numbered

(* What a discovery has added so far.                                      *)
Progressed(acc) ==
  \E table, last, raised : /\ acc = [entries |-> table, seq |-> last, raised |-> raised]
                           /\ Numbered(table, last)

LEMMA DiscoverExtends ==
  ASSUME NEW acc, Progressed(acc), NEW n \in Providers, NEW own \in Priorities, NEW skip \in BOOLEAN
  PROVE  Progressed(DiscoverNext(acc, n, own, skip))
<1>0. PICK table, last, raised : /\ acc = [entries |-> table, seq |-> last, raised |-> raised]
                                 /\ Numbered(table, last)
  BY DEF Progressed
<1>1. CASE raised \/ (table[n] # NoProvider /\ skip)
  <2>1. DiscoverNext(acc, n, own, skip) = acc
    BY <1>0, <1>1 DEF DiscoverNext
  <2>. QED
    BY <2>1
<1>2. CASE ~(raised \/ (table[n] # NoProvider /\ skip)) /\ table[n] # NoProvider
  <2>1. DiscoverNext(acc, n, own, skip) = [entries |-> table, seq |-> last, raised |-> TRUE]
    BY <1>0, <1>2 DEF DiscoverNext
  <2>. QED
    BY <1>0, <2>1 DEF Progressed
<1>3. CASE ~raised /\ table[n] = NoProvider
  <2>. DEFINE e == [declared |-> 0, own |-> own, loaded |-> FALSE, seq |-> last + 1]
              t == [table EXCEPT ![n] = e]
  <2>1. DiscoverNext(acc, n, own, skip) = [entries |-> t, seq |-> last + 1, raised |-> FALSE]
    BY <1>0, <1>3 DEF DiscoverNext
  <2>2. e \in Entries /\ e.seq = last + 1
    BY <1>0, PluginAssumption DEF Entries, Numbered
  <2>. HIDE DEF e
  <2>3. Numbered(t, last + 1)
    BY <1>0, <1>3, <2>2, TableExtended
  <2>. HIDE DEF t
  <2>. QED
    BY <2>1, <2>3 DEF Progressed
<1>. QED
  BY <1>1, <1>2, <1>3

LEMMA EntriesAdded ==
  ASSUME CatalogInv, RegisterEngine \/ RegisterLazy \/ RegisterPlugin
  PROVE  CatalogInv'
<1>1. PICK n \in Providers, declared \in Priorities, own \in Priorities, loaded \in BOOLEAN :
        AddEntry(n, Entry(declared, own, loaded))
  <2>1. CASE RegisterEngine
    BY <2>1 DEF RegisterEngine
  <2>2. CASE RegisterLazy
    BY <2>2 DEF RegisterLazy
  <2>3. CASE RegisterPlugin
    BY <2>3, PluginAssumption DEF RegisterPlugin
  <2>. QED
    BY <2>1, <2>2, <2>3
<1>. DEFINE e == Entry(declared, own, loaded)
<1>2. Numbered(entries, added) /\ added \in Nat
  BY DEF CatalogInv, Numbered
<1>3. e \in Entries /\ e.seq = added + 1
  BY <1>2 DEF Entry, Entries
<1>4. /\ entries[n] = NoProvider /\ entries' = [entries EXCEPT ![n] = e] /\ added' = added + 1
      /\ loads' = [loads EXCEPT ![n] = 0] /\ UNCHANGED picked
  BY <1>1 DEF AddEntry, Entered
<1>. HIDE DEF e
<1>5. Numbered(entries', added')
  BY <1>2, <1>3, <1>4, TableExtended
<1>6. LoadedOnce'
  BY <1>2, <1>4 DEF CatalogInv, LoadedOnce, Entered, Numbered
<1>. QED
  BY <1>4, <1>5, <1>6 DEF CatalogInv

LEMMA EntriesDiscovered ==
  ASSUME CatalogInv, DiscoverEngines \/ DiscoverPlugins
  PROVE  CatalogInv'
<1>1. PICK own \in Priorities : Discover(own)
  BY PluginAssumption DEF DiscoverEngines, DiscoverPlugins
<1>. DEFINE before == [entries |-> entries, seq |-> added, raised |-> FALSE]
<1>2. PICK n \in Providers, m \in Providers, skip \in BOOLEAN :
        LET after == DiscoverNext(DiscoverNext(before, n, own, skip), m, own, skip)
        IN  /\ entries' = after.entries
            /\ added' = after.seq
            /\ loads' = [p \in Providers |-> IF after.entries[p] # entries[p] THEN 0 ELSE loads[p]]
  BY <1>1 DEF Discover
<1>. DEFINE first == DiscoverNext(before, n, own, skip)
            after == DiscoverNext(first, m, own, skip)
<1>3. Progressed(before)
  BY DEF CatalogInv, Progressed
<1>. HIDE DEF before
<1>4. Progressed(first)
  BY <1>3, DiscoverExtends
<1>. HIDE DEF first
<1>5. Progressed(after)
  BY <1>4, DiscoverExtends
<1>6. Numbered(after.entries, after.seq)
  BY <1>5 DEF Progressed
<1>7. /\ entries' = after.entries /\ added' = after.seq
      /\ loads' = [p \in Providers |-> IF entries'[p] # entries[p] THEN 0 ELSE loads[p]]
  BY <1>2 DEF first
<1>. HIDE DEF after
<1>8. LoadedOnce'
  <2>1. ASSUME NEW p \in Providers
        PROVE  loads'[p] <= (IF p \in Entered' /\ entries'[p].loaded THEN 1 ELSE 0)
    <3>1. loads[p] <= (IF entries[p] # NoProvider /\ entries[p].loaded THEN 1 ELSE 0)
      BY DEF CatalogInv, LoadedOnce, Entered
    <3>2. CASE entries'[p] # entries[p]
      BY <1>7, <3>2
    <3>3. CASE entries'[p] = entries[p]
      <4>1. loads'[p] = loads[p]
        BY <1>7, <3>3
      <4>. QED
        BY <3>1, <3>3, <4>1 DEF Entered
    <3>. QED
      BY <3>2, <3>3
  <2>2. loads' \in [Providers -> Nat]
    BY <1>7 DEF CatalogInv, LoadedOnce
  <2>. QED
    BY <2>1, <2>2 DEF LoadedOnce
<1>9. UNCHANGED picked
  BY <1>1 DEF Discover
<1>. QED
  BY <1>6, <1>7, <1>8, <1>9 DEF CatalogInv

LEMMA EntryRemoved ==
  ASSUME CatalogInv, UnregisterEntry
  PROVE  CatalogInv'
<1>1. PICK n \in Entered : /\ entries' = [entries EXCEPT ![n] = NoProvider]
                           /\ loads' = [loads EXCEPT ![n] = 0]
  BY DEF UnregisterEntry
<1>2. n \in Providers /\ UNCHANGED <<added, picked>>
  BY DEF UnregisterEntry, Entered
<1>3. Numbered(entries', added')
  BY <1>1, <1>2 DEF CatalogInv, Numbered
<1>4. LoadedOnce'
  BY <1>1, <1>2 DEF CatalogInv, LoadedOnce, Numbered, Entered
<1>. QED
  BY <1>2, <1>3, <1>4 DEF CatalogInv

(* Loading keeps the numbers, and an entry that is loaded stays loaded.    *)
LEMMA EntriesLoaded ==
  ASSUME CatalogInv, NEW S \in SUBSET Entered, NEW broken, Load(S, broken), UNCHANGED added
  PROVE  Numbered(entries', added') /\ LoadedOnce'
<1>. DEFINE due == {n \in S \ broken : ~entries[n].loaded}
<1>1. /\ entries' = [n \in Providers |-> IF n \in due THEN [entries[n] EXCEPT !.loaded = TRUE]
                                         ELSE entries[n]]
      /\ loads' = [n \in Providers |-> IF n \in due THEN loads[n] + 1 ELSE loads[n]]
  BY DEF Load
<1>2. \A n \in due : /\ n \in Providers /\ entries[n] \in Entries /\ n \in Entered
                     /\ ~entries[n].loaded
  BY DEF Entered, CatalogInv, Numbered
<1>. HIDE DEF due
<1>3. ASSUME NEW n \in due
      PROVE  /\ entries'[n] \in Entries /\ entries'[n] # NoProvider /\ entries'[n].loaded
             /\ entries'[n].seq = entries[n].seq /\ entries[n] # NoProvider
             /\ loads'[n] = 1
  <2>1. entries'[n] = [entries[n] EXCEPT !.loaded = TRUE] /\ loads'[n] = loads[n] + 1
    BY <1>1, <1>2
  <2>2. [entries[n] EXCEPT !.loaded = TRUE] \in Entries
    BY <1>2 DEF Entries
  <2>3. entries'[n] # NoProvider /\ entries[n] # NoProvider
    BY <1>2, <2>1, <2>2, PluginAssumption DEF Entries
  <2>4. entries'[n].loaded /\ entries'[n].seq = entries[n].seq
    BY <1>2, <2>1 DEF Entries
  <2>5. loads[n] = 0
    <3>1. loads[n] \in Nat /\ loads[n] <= 0
      BY <1>2 DEF CatalogInv, LoadedOnce
    <3>. QED
      BY <3>1
  <2>. QED
    BY <2>1, <2>2, <2>3, <2>4, <2>5
<1>4. \A n \in Providers : n \notin due => entries'[n] = entries[n] /\ loads'[n] = loads[n]
  BY <1>1
<1>5. entries' \in [Providers -> Entries \cup {NoProvider}]
  <2>1. \A n \in Providers : entries'[n] \in Entries \cup {NoProvider}
    BY <1>3, <1>4 DEF CatalogInv, Numbered
  <2>. QED
    BY <1>1, <2>1
<1>6. \A n \in Providers :
        /\ entries'[n] # NoProvider <=> entries[n] # NoProvider
        /\ entries[n] # NoProvider => entries'[n].seq = entries[n].seq
  BY <1>3, <1>4
<1>7. Numbered(entries', added')
  BY <1>5, <1>6 DEF CatalogInv, Numbered
<1>8. LoadedOnce'
  <2>1. ASSUME NEW n \in Providers
        PROVE  loads'[n] \in Nat /\ loads'[n] <= (IF n \in Entered' /\ entries'[n].loaded
                                                   THEN 1 ELSE 0)
    <3>1. CASE n \in due
      BY <1>3, <3>1 DEF Entered
    <3>2. CASE n \notin due
      BY <1>4, <3>2 DEF Entered, CatalogInv, LoadedOnce
    <3>. QED
      BY <3>1, <3>2
  <2>. QED
    BY <1>1, <2>1 DEF LoadedOnce
<1>. QED
  BY <1>7, <1>8

-----------------------------------------------------------------------------
(* The one selected has nobody ahead of it: the one with the fewest ahead. *)
LEMMA FirstIsFirst ==
  ASSUME CatalogInv, NEW S \in SUBSET Entered, S # {}
  PROVE  /\ First(S) \in S
         /\ \A m \in S \ {First(S)} :
              \/ entries[m].own < entries[First(S)].own
              \/ /\ entries[m].own = entries[First(S)].own
                 /\ entries[First(S)].seq < entries[m].seq
<1>1. /\ \A n \in S : /\ entries[n].own \in Int /\ entries[n].seq \in Nat
                    /\ entries[n].seq \in 1..added
      /\ \A n, m \in S : entries[n].seq = entries[m].seq => n = m
      /\ added \in Nat
  BY PluginAssumption DEF Entered, CatalogInv, Numbered, Entries
<1>. DEFINE Goes(n, m) == \/ entries[m].own < entries[n].own
                          \/ entries[m].own = entries[n].own /\ entries[n].seq < entries[m].seq
            Ahead(n) == {m \in S : Goes(m, n)}
<1>2. IsFiniteSet(S)
  <2>. DEFINE f == [n \in S |-> entries[n].seq]
  <2>1. f \in Injection(S, 1..added)
    BY <1>1 DEF Injection, IsInjective
  <2>2. IsFiniteSet(1..added)
    BY <1>1, FS_Interval
  <2>. QED
    BY <2>1, <2>2, FS_Injection
<1>3. \A n \in S : IsFiniteSet(Ahead(n)) /\ Cardinality(Ahead(n)) \in Nat
  BY <1>2, FS_Subset, FS_CardinalityType
<1>. DEFINE C == {Cardinality(Ahead(n)) : n \in S}
<1>4. C \in SUBSET Nat /\ C # {}
  BY <1>3
<1>5. PICK n \in S : \A m \in S : Cardinality(Ahead(n)) <= Cardinality(Ahead(m))
  <2>. HIDE DEF C
  <2>1. Min(C) \in C /\ \A c \in C : Min(C) <= c
    BY <1>4, MinimumIsLeast
  <2>. QED
    BY <2>1 DEF C
<1>6. ASSUME NEW m \in S, m # n
      PROVE  Goes(n, m)
  <2>1. Goes(n, m) \/ Goes(m, n)
    BY <1>1, <1>6
  <2>2. ASSUME Goes(m, n) PROVE FALSE
    <3>1. \A k \in S : Goes(k, m) => Goes(k, n)
      BY <1>1, <2>2
    <3>2. ~Goes(m, m)
      BY <1>1
    <3>3. Ahead(m) \in SUBSET Ahead(n) /\ m \in Ahead(n) /\ m \notin Ahead(m)
      BY <2>2, <3>1, <3>2
    <3>. HIDE DEF Ahead
    <3>4. /\ Cardinality(Ahead(m)) <= Cardinality(Ahead(n))
          /\ Cardinality(Ahead(n)) = Cardinality(Ahead(m)) => Ahead(n) = Ahead(m)
      BY <1>3, <3>3, FS_Subset
    <3>5. Cardinality(Ahead(m)) \in Nat /\ Cardinality(Ahead(n)) \in Nat
      BY <1>3
    <3>. QED
      BY <1>5, <3>3, <3>4, <3>5
  <2>. QED
    BY <2>1, <2>2
<1>7. \A k, m \in S : Goes(k, m) <=>
        \/ SortKey(k)[1] < SortKey(m)[1]
        \/ SortKey(k)[1] = SortKey(m)[1] /\ SortKey(k)[2] < SortKey(m)[2]
  BY <1>1 DEF SortKey
<1>. HIDE DEF Goes
<1>8. First(S) \in S /\ \A m \in S \ {First(S)} : Goes(First(S), m)
  <2>1. \E k \in S : \A m \in S \ {k} :
          \/ SortKey(k)[1] < SortKey(m)[1]
          \/ SortKey(k)[1] = SortKey(m)[1] /\ SortKey(k)[2] < SortKey(m)[2]
    BY <1>6, <1>7
  <2>2. First(S) \in S /\ \A m \in S \ {First(S)} :
          \/ SortKey(First(S))[1] < SortKey(m)[1]
          \/ /\ SortKey(First(S))[1] = SortKey(m)[1] /\ SortKey(First(S))[2] < SortKey(m)[2]
    BY <2>1, Zenon DEF First
  <2>. QED
    BY <1>7, <2>2
<1>. QED
  BY <1>8 DEF Goes

LEMMA CatalogStep ==
  ASSUME CatalogInv, CatalogNext \/ UNCHANGED catalogVars
  PROVE  CatalogInv'
<1>1. CASE UNCHANGED catalogVars
  BY <1>1 DEF catalogVars, CatalogInv, Numbered, LoadedOnce, Entered
<1>2. CASE ResolvePlugin
  <2>1. PICK n \in Entered : \E broken \in SUBSET {n} : Load({n}, broken)
    BY <1>2 DEF ResolvePlugin
  <2>2. UNCHANGED <<added, picked>>
    BY <1>2 DEF ResolvePlugin
  <2>3. Numbered(entries', added') /\ LoadedOnce'
    BY <2>1, <2>2, EntriesLoaded
  <2>. QED
    BY <2>2, <2>3 DEF CatalogInv
<1>3. CASE RequireAvailable
  <2>1. PICK n \in Entered, broken \in BOOLEAN, available \in BOOLEAN :
          /\ Load({n}, IF broken THEN {n} ELSE {})
          /\ picked' = IF available /\ (entries[n].loaded \/ ~broken)
                         THEN [name |-> n, able |-> {Candidate(n)}, memory |-> TRUE] ELSE picked
    BY <1>3 DEF RequireAvailable
  <2>2. UNCHANGED added
    BY <1>3 DEF RequireAvailable
  <2>3. Numbered(entries', added') /\ LoadedOnce'
    BY <2>1, <2>2, EntriesLoaded
  <2>4. Best([name |-> n, able |-> {Candidate(n)}, memory |-> TRUE])
    BY DEF Best, Candidate
  <2>5. Best(picked')
    BY <2>1, <2>4 DEF CatalogInv
  <2>. QED
    BY <2>3, <2>5 DEF CatalogInv
<1>4. CASE Select
  <2>1. PICK allowMemory \in BOOLEAN, broken \in SUBSET {n \in Entered : ~entries[n].loaded},
             unavailable \in SUBSET Entered :
          LET wanted == IF allowMemory THEN Entered ELSE Entered \ {Memory}
              able == wanted \ (broken \cup unavailable)
          IN  /\ Load(wanted, broken)
              /\ picked' = IF able = {} THEN picked
                           ELSE [name |-> First(able), able |-> {Candidate(n) : n \in able},
                                 memory |-> allowMemory]
    BY <1>4 DEF Select
  <2>. DEFINE wanted == IF allowMemory THEN Entered ELSE Entered \ {Memory}
              able == wanted \ (broken \cup unavailable)
  <2>2. UNCHANGED added /\ wanted \in SUBSET Entered /\ able \in SUBSET Entered
    BY <1>4 DEF Select
  <2>3. Numbered(entries', added') /\ LoadedOnce'
    BY <2>1, <2>2, EntriesLoaded
  <2>4. ASSUME able # {}
        PROVE  Best([name |-> First(able), able |-> {Candidate(n) : n \in able},
                     memory |-> allowMemory])
    <3>1. Memory \in able => allowMemory
      OBVIOUS
    <3>. HIDE DEF able
    <3>2. /\ First(able) \in able
          /\ \A m \in able \ {First(able)} :
               \/ entries[m].own < entries[First(able)].own
               \/ /\ entries[m].own = entries[First(able)].own
                  /\ entries[First(able)].seq < entries[m].seq
      BY <2>2, <2>4, FirstIsFirst
    <3>3. \A m \in able : entries[m].seq \in Int
      BY <2>2 DEF CatalogInv, Numbered, Entered
    <3>4. ASSUME NEW other \in {Candidate(n) : n \in able} \ {Candidate(First(able))}
          PROVE  \/ other.priority < Candidate(First(able)).priority
                 \/ /\ other.priority = Candidate(First(able)).priority
                    /\ other.seq > Candidate(First(able)).seq
      <4>1. PICK m \in able : other = Candidate(m)
        OBVIOUS
      <4>2. m # First(able)
        BY <4>1
      <4>. QED
        BY <3>2, <3>3, <4>1, <4>2 DEF Candidate
    <3>5. Candidate(First(able)).name = First(able)
      BY DEF Candidate
    <3>. QED
      BY <3>1, <3>2, <3>4, <3>5 DEF Best
  <2>5. Best(picked')
    BY <2>1, <2>4 DEF CatalogInv
  <2>. QED
    BY <2>3, <2>5 DEF CatalogInv
<1>. QED
  BY <1>1, <1>2, <1>3, <1>4, EntriesAdded, EntriesDiscovered, EntryRemoved DEF CatalogNext

LEMMA CatalogSelects == CatalogInv => SelectsBest
BY DEF CatalogInv, LoadedOnce, Best, SelectsBest

(* select returns an engine that could be loaded, the first by priority    *)
(* and order of registration, memory only where it is allowed or asked     *)
(* for; a loader returns at most once in the life of an entry.             *)
THEOREM SelectionsAreBest == Spec => []SelectsBest
<1>1. Init => CatalogInv
  BY CatalogStarts DEF Init
<1>2. CatalogInv /\ [Next]_vars => CatalogInv'
  BY PartSteps, CatalogStep
<1>. QED
  BY <1>1, <1>2, CatalogSelects, PTL DEF Spec

-----------------------------------------------------------------------------
(* Health reports                                                          *)

Component == [name : Int, status : HealthStatuses]

(* A report with components of different names, about what is expected.    *)
Honest ==
  /\ report.live = expected.live /\ report.ready \in BOOLEAN
  /\ report.components \subseteq Component /\ IsFiniteSet(report.components)
  /\ \A c, d \in report.components : c.name = d.name => c = d
  /\ report.ready => expected.live /\ expected.critical \subseteq {"healthy"}
  /\ \/ report.ready \/ ~expected.live \/ ~(expected.named \subseteq {"healthy"})
     \/ expected.all = {}
  /\ \A s \in expected.all : Severity[s] <= Severity[report.status]

HealthInv ==
  /\ checks \in [CheckNames -> [critical : BOOLEAN, alias : CheckNames] \cup {NoCheck}]
  /\ asked \in [CheckNames -> [critical : BOOLEAN, alias : CheckNames] \cup {NoCheck}]
  /\ answers \in [CheckNames -> Component \cup {NoCheck}]
  /\ report # NoCheck => Honest

LEMMA WorstStatus ==
  ASSUME NEW S \in SUBSET HealthStatuses, S # {}
  PROVE  \E s \in S : \A t \in S : Severity[t] <= Severity[s]
<1>1. HealthStatuses = {"healthy", "unknown", "degraded", "unhealthy"}
  BY DEF HealthStatuses, Severity
<1>2. /\ Severity["healthy"] = 0 /\ Severity["unknown"] = 1 /\ Severity["degraded"] = 2
      /\ Severity["unhealthy"] = 3
  BY DEF Severity
<1>0. \A t \in S : t \in {"healthy", "unknown", "degraded", "unhealthy"}
  BY <1>1
<1>3. CASE "unhealthy" \in S
  <2>1. \A t \in S : Severity[t] <= 3
    BY <1>0, <1>2
  <2>. QED
    BY <1>2, <1>3, <2>1
<1>4. CASE "unhealthy" \notin S /\ "degraded" \in S
  <2>1. \A t \in S : t \in {"healthy", "unknown", "degraded"}
    BY <1>0, <1>4
  <2>. QED
    BY <1>2, <1>4, <2>1
<1>5. CASE "unhealthy" \notin S /\ "degraded" \notin S /\ "unknown" \in S
  <2>1. \A t \in S : t \in {"healthy", "unknown"}
    BY <1>0, <1>5
  <2>. QED
    BY <1>2, <1>5, <2>1
<1>6. CASE "unhealthy" \notin S /\ "degraded" \notin S /\ "unknown" \notin S
  <2>1. \A t \in S : t = "healthy"
    BY <1>0, <1>6
  <2>. QED
    BY <1>2, <2>1
<1>. QED
  BY <1>3, <1>4, <1>5, <1>6

LEMMA LastPosition ==
  ASSUME NEW N \in Nat, NEW I \in SUBSET (1..N), I # {}
  PROVE  \E i \in I : \A j \in I : j <= i
<1>. DEFINE R == {N - i : i \in I}
<1>0. \A i \in I : N - i \in Nat /\ i \in Nat
  OBVIOUS
<1>1. R \in SUBSET Nat /\ R # {}
  BY <1>0
<1>2. PICK i \in I : \A j \in I : N - i <= N - j
  <2>. HIDE DEF R
  <2>1. Min(R) \in R /\ \A r \in R : Min(R) <= r
    BY <1>1, MinimumIsLeast
  <2>. QED
    BY <2>1 DEF R
<1>3. ASSUME NEW j \in I PROVE j <= i
  <2>1. N - i <= N - j /\ i \in Int /\ j \in Int
    BY <1>0, <1>2
  <2>. QED
    BY <2>1
<1>. QED
  BY <1>3

(* What from_components makes of a list, and of one without duplicates.    *)
LEMMA Reported ==
  ASSUME NEW N \in Nat, NEW list \in [1..N -> Component], NEW critical, NEW live
  PROVE  LET r == FromComponents(list, critical, live)
         IN  /\ r.live = live /\ r.ready \in BOOLEAN
             /\ r.components \subseteq Component /\ IsFiniteSet(r.components)
             /\ \A c, d \in r.components : c.name = d.name => c = d
             /\ \A i \in 1..N : Severity[list[i].status] <= Severity[r.status]
             /\ r.ready =>
                  live /\ \A i \in 1..N :
                            /\ list[i].name \in critical
                            /\ \A j \in 1..N : list[j].name = list[i].name => j = i
                            => list[i].status = "healthy"
             /\ \/ r.ready \/ ~live
                \/ \E i \in 1..N : list[i].name \in critical /\ list[i].status # "healthy"
<1>. DEFINE names == {list[i].name : i \in DOMAIN list}
            At(n) == CHOOSE i \in DOMAIN list :
                       list[i].name = n /\ \A j \in DOMAIN list : list[j].name = n => j <= i
            Last_(n) == list[At(n)]
            statuses == {list[i].status : i \in DOMAIN list}
            worst == IF list = <<>> THEN "unknown"
                     ELSE CHOOSE s \in statuses : \A t \in statuses : Severity[t] <= Severity[s]
            ready == live /\ \A n \in names \cap critical : Last_(n).status = "healthy"
            comps == {Last_(n) : n \in names}
<1>. DEFINE r == FromComponents(list, critical, live)
<1>1. r = [status |-> worst, live |-> live, ready |-> ready, components |-> comps]
  BY DEF FromComponents
<1>2. DOMAIN list = 1..N /\ \A i \in 1..N : list[i] \in Component
  OBVIOUS
<1>3. \A n \in names : At(n) \in DOMAIN list /\ list[At(n)].name = n
  <2>. SUFFICES ASSUME NEW n \in names
                PROVE  \E i \in DOMAIN list :
                         list[i].name = n /\ \A j \in DOMAIN list : list[j].name = n => j <= i
    BY Zenon
  <2>. DEFINE I == {i \in 1..N : list[i].name = n}
  <2>1. I \in SUBSET (1..N) /\ I # {}
    BY <1>2
  <2>2. PICK i \in I : \A j \in I : j <= i
    BY <2>1, LastPosition
  <2>. QED
    BY <1>2, <2>2
<1>. HIDE DEF At
<1>4. comps \subseteq Component /\ \A n \in names : Last_(n).name = n
  BY <1>2, <1>3
<1>5. IsFiniteSet(comps)
  <2>. DEFINE f == [i \in 1..N |-> Last_(list[i].name)]
  <2>1. f \in Surjection(1..N, comps)
    BY <1>2 DEF Surjection
  <2>2. IsFiniteSet(1..N)
    BY FS_Interval
  <2>. QED
    BY <2>1, <2>2, FS_Surjection
<1>6. \A c, d \in comps : c.name = d.name => c = d
  BY <1>4
<1>7. ASSUME NEW i \in 1..N PROVE Severity[list[i].status] <= Severity[worst]
  <2>1. list # <<>>
    BY <1>2
  <2>2. statuses \in SUBSET HealthStatuses /\ statuses # {} /\ list[i].status \in statuses
    BY <1>2 DEF Component
  <2>. HIDE DEF statuses
  <2>3. worst = CHOOSE s \in statuses : \A t \in statuses : Severity[t] <= Severity[s]
    BY <2>1
  <2>. HIDE DEF worst
  <2>4. \E s \in statuses : \A t \in statuses : Severity[t] <= Severity[s]
    BY <2>2, WorstStatus
  <2>5. \A t \in statuses : Severity[t] <= Severity[worst]
    BY <2>3, <2>4, Zenon
  <2>. QED
    BY <2>2, <2>5
<1>8. ASSUME ready, NEW i \in 1..N, list[i].name \in critical,
             \A j \in 1..N : list[j].name = list[i].name => j = i
      PROVE  list[i].status = "healthy"
  <2>1. At(list[i].name) = i /\ list[i].name \in names
    BY <1>2, <1>3, <1>8
  <2>. QED
    BY <1>8, <2>1
<1>11. ASSUME ~ready, live
       PROVE  \E i \in 1..N : list[i].name \in critical /\ list[i].status # "healthy"
  <2>1. PICK n \in names \cap critical : Last_(n).status # "healthy"
    BY <1>11
  <2>2. At(n) \in 1..N /\ list[At(n)].name = n
    BY <1>2, <1>3
  <2>. QED
    BY <2>1, <2>2
<1>12. ready => live
  OBVIOUS
<1>10. ready \in BOOLEAN
  OBVIOUS
<1>. HIDE DEF worst, ready, comps, names
<1>9. r.status = worst /\ r.live = live /\ r.ready = ready /\ r.components = comps
  BY <1>1
<1>. QED
  BY <1>4, <1>5, <1>6, <1>7, <1>8, <1>9, <1>10, <1>11, <1>12

LEMMA HealthStarts == HealthInit => HealthInv
BY DEF HealthInit, HealthInv

LEMMA ChecksChange ==
  ASSUME HealthInv,
         RegisterCheck \/ UnregisterCheck \/ CheckAll \/ \E n \in CheckNames : Evaluate(n)
  PROVE  HealthInv'
<1>1. CASE RegisterCheck \/ UnregisterCheck
  <2>1. UNCHANGED <<asked, answers, report, expected>>
    BY <1>1 DEF RegisterCheck, UnregisterCheck
  <2>2. checks' \in [CheckNames -> [critical : BOOLEAN, alias : CheckNames] \cup {NoCheck}]
    BY <1>1 DEF RegisterCheck, UnregisterCheck, HealthInv
  <2>. QED
    BY <2>1, <2>2 DEF HealthInv, Honest
<1>2. CASE CheckAll
  BY <1>2 DEF CheckAll, HealthInv
<1>3. ASSUME NEW n \in CheckNames, Evaluate(n) PROVE HealthInv'
  <2>1. PICK answer \in {[name |-> asked[n].alias, status |-> s] : s \in HealthStatuses}
                        \cup {[name |-> n, status |-> IF asked[n].critical THEN "unhealthy"
                                                      ELSE "degraded"]} :
          answers' = [answers EXCEPT ![n] = answer]
    BY <1>3 DEF Evaluate
  <2>2. asked[n] # NoCheck /\ UNCHANGED <<checks, asked, report, expected>>
    BY <1>3 DEF Evaluate
  <2>3. asked[n].alias \in Int /\ n \in Int
    BY <2>2, HealthAssumption DEF HealthInv
  <2>4. answer \in Component
    <3>1. "unhealthy" \in HealthStatuses /\ "degraded" \in HealthStatuses
      BY DEF HealthStatuses, Severity
    <3>. QED
      BY <2>1, <2>3, <3>1 DEF Component
  <2>5. answers' \in [CheckNames -> Component \cup {NoCheck}]
    BY <2>1, <2>4 DEF HealthInv
  <2>. QED
    BY <2>2, <2>5 DEF HealthInv, Honest
<1>. QED
  BY <1>1, <1>2, <1>3

LEMMA ReportMade ==
  ASSUME HealthInv, MakeReport
  PROVE  HealthInv'
<1>. DEFINE R == Registrations(asked)
<1>1. PICK live \in BOOLEAN, order \in Listings(R) :
       /\ \A i, j \in DOMAIN order : i < j => order[i] < order[j]
       /\ report' = FromComponents([i \in DOMAIN order |-> answers[order[i]]], CriticalAsked, live)
       /\ expected' = [critical |-> {answers[n].status : n \in Unambiguous},
                       named |-> {answers[n].status : n \in NamedCritical},
                       all |-> {answers[n].status : n \in R}, live |-> live]
  BY DEF MakeReport
<1>2. /\ \A n \in R : answers[n] # NoCheck
      /\ asked' = [n \in CheckNames |-> NoCheck] /\ answers' = asked' /\ UNCHANGED checks
  BY DEF MakeReport
<1>3. /\ \A n \in R : n \in CheckNames /\ n \in Int /\ answers[n] \in Component
      /\ IsFiniteSet(R)
  <2>1. R \in SUBSET CheckNames
    BY DEF Registrations
  <2>. HIDE DEF R
  <2>. QED
    BY <1>2, <2>1, HealthAssumption, FS_Subset DEF HealthInv
<1>. DEFINE N == Cardinality(R)
            list == [i \in DOMAIN order |-> answers[order[i]]]
            r == FromComponents(list, CriticalAsked, live)
<1>4. N \in Nat
  BY <1>3, FS_CardinalityType
<1>5. /\ order \in [1..N -> R] /\ \A n \in R : \E i \in 1..N : order[i] = n
      /\ CriticalAsked = {n \in R : asked[n].critical}
  BY <1>1 DEF Listings, Range, CriticalAsked
<1>. HIDE DEF N, R
<1>6. list \in [1..N -> Component] /\ \A i \in 1..N : list[i] = answers[order[i]]
  BY <1>3, <1>5
<1>7. \A i, j \in 1..N : order[i] = order[j] => i = j
  <2>1. \A i, j \in 1..N : i < j => order[i] < order[j]
    BY <1>1, <1>5
  <2>2. \A i \in 1..N : order[i] \in Int /\ i \in Int
    BY <1>3, <1>4, <1>5
  <2>. QED
    BY <2>1, <2>2
<1>. HIDE DEF list
<1>8. /\ r.live = live /\ r.ready \in BOOLEAN
      /\ r.components \subseteq Component /\ IsFiniteSet(r.components)
      /\ \A c, d \in r.components : c.name = d.name => c = d
      /\ \A i \in 1..N : Severity[list[i].status] <= Severity[r.status]
      /\ r.ready =>
           live /\ \A i \in 1..N :
                     /\ list[i].name \in CriticalAsked
                     /\ \A j \in 1..N : list[j].name = list[i].name => j = i
                     => list[i].status = "healthy"
      /\ \/ r.ready \/ ~live
         \/ \E i \in 1..N : list[i].name \in CriticalAsked /\ list[i].status # "healthy"
  BY <1>4, <1>6, Reported
<1>9. report' = r
  BY <1>1 DEF list
<1>. HIDE DEF r
<1>. DEFINE C == {answers[n].status : n \in Unambiguous}
            D == {answers[n].status : n \in NamedCritical}
<1>14. R = Registrations(asked)
  BY DEF R
<1>10. r.ready => live /\ C \subseteq {"healthy"}
  <2>. SUFFICES ASSUME r.ready, NEW n \in Unambiguous PROVE answers[n].status = "healthy"
    BY <1>8
  <2>1. /\ n \in R /\ n \in CriticalAsked
        /\ \A k \in R : answers[k].name = n <=> k = n
    BY <1>5, <1>14 DEF Unambiguous
  <2>2. PICK i \in 1..N : order[i] = n
    BY <1>5, <2>1
  <2>3. list[i] = answers[n] /\ list[i].name = n
    BY <1>6, <2>1, <2>2
  <2>4. ASSUME NEW j \in 1..N, list[j].name = list[i].name PROVE j = i
    <3>1. order[j] \in R /\ answers[order[j]].name = n
      BY <1>5, <1>6, <2>3, <2>4
    <3>2. order[j] = order[i]
      BY <2>1, <2>2, <3>1
    <3>. QED
      BY <1>7, <3>2
  <2>. QED
    BY <1>8, <2>1, <2>3, <2>4
<1>15. r.ready \/ ~live \/ ~(D \subseteq {"healthy"})
  <2>. SUFFICES ASSUME ~r.ready, live PROVE ~(D \subseteq {"healthy"})
    OBVIOUS
  <2>1. PICK i \in 1..N : list[i].name \in CriticalAsked /\ list[i].status # "healthy"
    BY <1>8
  <2>2. /\ order[i] \in R /\ answers[order[i]].name \in CriticalAsked
        /\ answers[order[i]].status # "healthy"
    BY <1>5, <1>6, <2>1
  <2>3. order[i] \in NamedCritical
    BY <1>5, <1>14, <2>2 DEF NamedCritical
  <2>. QED
    BY <2>2, <2>3
<1>11. \A s \in {answers[n].status : n \in R} : Severity[s] <= Severity[r.status]
  BY <1>5, <1>6, <1>8
<1>. HIDE DEF C, D
<1>12. /\ expected'.live = live /\ expected'.critical = C /\ expected'.named = D
       /\ expected'.all = {answers[n].status : n \in R}
  BY <1>1 DEF C, D
<1>13. Honest'
  BY <1>8, <1>9, <1>10, <1>11, <1>12, <1>15 DEF Honest
<1>. QED
  BY <1>2, <1>13 DEF HealthInv

LEMMA ComponentMerged ==
  ASSUME HealthInv, WithComponent
  PROVE  HealthInv'
<1>1. PICK n \in CheckNames, s \in HealthStatuses, critical \in BOOLEAN :
       LET old == {c \in report.components : c.name # n}
           all == old \cup {[name |-> n, status |-> s]}
           names == {c.name : c \in report.components}
       IN  /\ \E list \in Listings(all) :
                report' = FromComponents(list, IF critical THEN names \cup {n} ELSE names,
                                         report.live)
           /\ LET must == {c.status : c \in IF critical \/ n \in names THEN all ELSE old}
              IN  expected' = [critical |-> must, named |-> must,
                               all |-> {c.status : c \in all}, live |-> report.live]
  BY DEF WithComponent
<1>2. Honest /\ UNCHANGED <<checks, asked, answers>>
  BY DEF WithComponent, HealthInv
<1>. DEFINE old == {c \in report.components : c.name # n}
            new == [name |-> n, status |-> s]
            all == old \cup {new}
            names == {c.name : c \in report.components}
            crit == IF critical THEN names \cup {n} ELSE names
<1>3. PICK list \in Listings(all) : report' = FromComponents(list, crit, report.live)
  BY <1>1
<1>. DEFINE must == IF critical \/ n \in names THEN all ELSE old
            musts == {c.status : c \in must}
<1>4. expected' = [critical |-> musts, named |-> musts, all |-> {c.status : c \in all},
                   live |-> report.live]
  BY <1>1
<1>5. new \in Component /\ all \subseteq Component
  BY <1>2, HealthAssumption DEF Honest, Component
<1>6. \A c, d \in all : c.name = d.name => c = d
  BY <1>2 DEF Honest
<1>7. IsFiniteSet(all)
  <2>1. IsFiniteSet(old)
    BY <1>2, FS_Subset DEF Honest
  <2>. HIDE DEF old, new
  <2>. QED
    BY <2>1, FS_AddElement
<1>8. /\ \A c \in all : c.name \in crit <=> c \in IF critical \/ n \in names THEN all ELSE old
      /\ (IF critical \/ n \in names THEN all ELSE old) \subseteq all
  <2>1. \A c \in old : c.name \in names /\ c.name # n
    OBVIOUS
  <2>2. new \notin old /\ new.name = n
    OBVIOUS
  <2>. HIDE DEF old, new, names
  <2>3. CASE critical
    BY <2>1, <2>2, <2>3
  <2>4. CASE ~critical /\ n \in names
    BY <2>1, <2>2, <2>4
  <2>5. CASE ~critical /\ n \notin names
    BY <2>1, <2>2, <2>5
  <2>. QED
    BY <2>3, <2>4, <2>5
<1>. HIDE DEF all, crit, must
<1>. DEFINE N == Cardinality(all)
            r == FromComponents(list, crit, report.live)
<1>9. N \in Nat /\ list \in [1..N -> Component]
      /\ (\A i \in 1..N : list[i] \in all) /\ (\A c \in all : \E i \in 1..N : list[i] = c)
  <2>1. N \in Nat
    BY <1>7, FS_CardinalityType
  <2>2. list \in [1..N -> all] /\ Range(list) = all
    BY DEF Listings
  <2>. QED
    BY <1>5, <2>1, <2>2 DEF Range
<1>10. \A i, j \in 1..N : list[i] = list[j] => i = j
  <2>1. list \in Surjection(1..N, all)
    BY <1>9 DEF Surjection, Listings
  <2>2. IsFiniteSet(1..N) /\ Cardinality(1..N) = N
    BY <1>9, FS_Interval
  <2>3. list \in Injection(1..N, all)
    BY <2>1, <2>2, FS_Surjection
  <2>. QED
    BY <2>3 DEF Injection, IsInjective
<1>. HIDE DEF N
<1>11. /\ r.live = report.live /\ r.ready \in BOOLEAN
       /\ r.components \subseteq Component /\ IsFiniteSet(r.components)
       /\ \A c, d \in r.components : c.name = d.name => c = d
       /\ \A i \in 1..N : Severity[list[i].status] <= Severity[r.status]
       /\ r.ready =>
            report.live /\ \A i \in 1..N :
                             /\ list[i].name \in crit
                             /\ \A j \in 1..N : list[j].name = list[i].name => j = i
                             => list[i].status = "healthy"
       /\ \/ r.ready \/ ~report.live
          \/ \E i \in 1..N : list[i].name \in crit /\ list[i].status # "healthy"
  BY <1>9, Reported
<1>12. report' = r
  BY <1>3
<1>. HIDE DEF r
<1>13. r.ready <=> report.live /\ musts \subseteq {"healthy"}
  <2>5. \A i, j \in 1..N : list[j].name = list[i].name => j = i
    BY <1>6, <1>9, <1>10
  <2>1. r.ready <=> /\ report.live
                    /\ \A i \in 1..N : list[i].name \in crit => list[i].status = "healthy"
    BY <1>11, <2>5
  <2>2. (\A c \in all : c.name \in crit <=> c \in must) /\ must \subseteq all
    BY <1>8 DEF must
  <2>3. ASSUME \A i \in 1..N : list[i].name \in crit => list[i].status = "healthy"
        PROVE  musts \subseteq {"healthy"}
    <3>1. ASSUME NEW c \in must PROVE c.status = "healthy"
      <4>1. c \in all /\ c.name \in crit
        BY <2>2
      <4>2. PICK i \in 1..N : list[i] = c
        BY <1>9, <4>1
      <4>. QED
        BY <2>3, <4>1, <4>2
    <3>. QED
      BY <3>1
  <2>4. ASSUME musts \subseteq {"healthy"}, NEW i \in 1..N, list[i].name \in crit
        PROVE  list[i].status = "healthy"
    <3>1. list[i] \in must
      BY <1>9, <2>2, <2>4
    <3>. QED
      BY <2>4, <3>1
  <2>. QED
    BY <2>1, <2>3, <2>4
<1>14. \A t \in {c.status : c \in all} : Severity[t] <= Severity[r.status]
  BY <1>9, <1>11
<1>. HIDE DEF musts
<1>15. /\ expected'.live = report.live /\ expected'.critical = musts
       /\ expected'.named = musts /\ expected'.all = {c.status : c \in all}
  BY <1>4
<1>16. Honest'
  BY <1>11, <1>12, <1>13, <1>14, <1>15 DEF Honest
<1>. QED
  BY <1>2, <1>16 DEF HealthInv

LEMMA BrokerReports ==
  ASSUME HealthInv, BrokerHealth
  PROVE  HealthInv'
<1>1. PICK state \in BrokerStates, selected \in BOOLEAN,
           connection \in {"connecting", "connected", "reconnecting", "failed", "draining",
                          "closing", "closed"},
           engine \in {"healthy", "unhealthy", "raised"} :
       LET live == state \notin {"failed", "stopped"}
           list == IF selected
                     THEN <<[name |-> 1, status |-> ConnectionHealth(connection, engine)]>>
                   ELSE IF state = "running" THEN <<[name |-> 1, status |-> "unhealthy"]>>
                   ELSE <<>>
           usable == connection = "connected" /\ engine = "healthy"
           must == IF selected THEN {IF usable THEN "healthy" ELSE "unhealthy"}
                   ELSE IF state = "running" THEN {"unhealthy"}
                   ELSE {}
       IN  /\ state = "new" => ~selected
           /\ report' = FromComponents(list, {1}, live)
           /\ expected' = [critical |-> must, named |-> must,
                           all |-> {list[i].status : i \in DOMAIN list}, live |-> live]
  BY DEF BrokerHealth
<1>. DEFINE live == state \notin {"failed", "stopped"}
            s == ConnectionHealth(connection, engine)
            list == IF selected THEN <<[name |-> 1, status |-> s]>>
                    ELSE IF state = "running" THEN <<[name |-> 1, status |-> "unhealthy"]>>
                    ELSE <<>>
            usable == connection = "connected" /\ engine = "healthy"
            must == IF selected THEN {IF usable THEN "healthy" ELSE "unhealthy"}
                    ELSE IF state = "running" THEN {"unhealthy"}
                    ELSE {}
            r == FromComponents(list, {1}, live)
            all == {list[i].status : i \in DOMAIN list}
<1>2. /\ report' = r
      /\ expected' = [critical |-> must, named |-> must, all |-> all, live |-> live]
      /\ UNCHANGED <<checks, asked, answers>>
  BY <1>1 DEF BrokerHealth
<1>3. s \in HealthStatuses /\ (s = "healthy" <=> usable)
  BY DEF ConnectionHealth, HealthStatuses, Severity
<1>4. "unhealthy" \in HealthStatuses
  BY DEF HealthStatuses, Severity
<1>. HIDE DEF s, live, usable
<1>. DEFINE N == Len(list)
<1>5. /\ N \in {0, 1} /\ list \in [1..N -> Component]
      /\ \A i \in 1..N : list[i].name = 1
      /\ (\A i \in 1..N : list[i].status = "healthy") <=> must \subseteq {"healthy"}
  <2>1. CASE selected
    <3>1. list = <<[name |-> 1, status |-> s]>> /\ N = 1
      BY <2>1
    <3>2. [name |-> 1, status |-> s] \in Component
      BY <1>3 DEF Component
    <3>3. must \subseteq {"healthy"} <=> s = "healthy"
      BY <1>3, <2>1
    <3>. QED
      BY <3>1, <3>2, <3>3
  <2>2. CASE ~selected /\ state = "running"
    <3>1. list = <<[name |-> 1, status |-> "unhealthy"]>> /\ N = 1 /\ must = {"unhealthy"}
      BY <2>2
    <3>2. [name |-> 1, status |-> "unhealthy"] \in Component
      BY <1>4 DEF Component
    <3>. QED
      BY <3>1, <3>2
  <2>3. CASE ~selected /\ state # "running"
    <3>1. list = <<>> /\ N = 0 /\ must = {}
      BY <2>3
    <3>. QED
      BY <3>1
  <2>. QED
    BY <2>1, <2>2, <2>3
<1>. HIDE DEF list, N, must
<1>6. N \in Nat /\ \A i, j \in 1..N : i = j
  BY <1>5
<1>7. /\ r.live = live /\ r.ready \in BOOLEAN
      /\ r.components \subseteq Component /\ IsFiniteSet(r.components)
      /\ \A c, d \in r.components : c.name = d.name => c = d
      /\ \A i \in 1..N : Severity[list[i].status] <= Severity[r.status]
      /\ r.ready =>
           live /\ \A i \in 1..N :
                     /\ list[i].name \in {1}
                     /\ \A j \in 1..N : list[j].name = list[i].name => j = i
                     => list[i].status = "healthy"
      /\ \/ r.ready \/ ~live
         \/ \E i \in 1..N : list[i].name \in {1} /\ list[i].status # "healthy"
  BY <1>5, <1>6, Reported
<1>. HIDE DEF r
<1>8. r.ready <=> live /\ must \subseteq {"healthy"}
  BY <1>5, <1>6, <1>7
<1>10. \A t \in all : Severity[t] <= Severity[r.status]
  BY <1>5, <1>7
<1>. HIDE DEF all
<1>9. Honest'
  BY <1>2, <1>7, <1>8, <1>10 DEF Honest
<1>. QED
  BY <1>2, <1>9 DEF HealthInv

LEMMA HealthStep ==
  ASSUME HealthInv, HealthNext \/ UNCHANGED healthVars
  PROVE  HealthInv'
<1>1. CASE UNCHANGED healthVars
  BY <1>1 DEF healthVars, HealthInv, Honest
<1>. QED
  BY <1>1, ChecksChange, ReportMade, ComponentMerged, BrokerReports DEF HealthNext

LEMMA HonestIsReady == HealthInv => ReadyIsHonest
BY DEF HealthInv, Honest, ReadyIsHonest

(* A ready report is about a live process whose critical checks, of those  *)
(* it asked, are healthy, each that reports alone under its own name; one  *)
(* that is not ready has a reason; and none is better than the worst of    *)
(* the checks, whatever is registered or removed while they run.           *)
THEOREM ReadyReportsAreHonest == Spec => []ReadyIsHonest
<1>1. Init => HealthInv
  BY HealthStarts DEF Init
<1>2. HealthInv /\ [Next]_vars => HealthInv'
  BY PartSteps, HealthStep
<1>. QED
  BY <1>1, <1>2, HonestIsReady, PTL DEF Spec

-----------------------------------------------------------------------------
(* Batches                                                                 *)

Trying == {"engine", "layers", "attempt", "sleep"}

BatchTypes ==
  /\ free \in Nat /\ stop \in BOOLEAN /\ stopOnError \in BOOLEAN
  /\ dests \in [Items -> Seq(Destinations)] /\ todo \in [Items -> Seq(Destinations)]
  /\ accepted \in [Items -> BOOLEAN] /\ reported \in [Items -> {"none", "result", "error"}]
  /\ copies \in [Items -> [Destinations -> Nat]] /\ lost \in [Items -> [Destinations -> Nat]]
  /\ answered \in [Items -> SUBSET (Destinations \X BOOLEAN)]

(* The destinations left are the end of those found.                       *)
Placed(i) ==
  /\ IsInjective(dests[i]) /\ Len(todo[i]) <= Len(dests[i])
  /\ \A k \in 1..Len(todo[i]) : todo[i][k] = dests[i][Passed(i) + k]

(* What destination d of item i says for itself.                           *)
Has(i, d) == copies[i][d] > 0
Settles(i, d) ==
  /\ Has(i, d) \/ \E yes \in BOOLEAN : <<d, yes>> \in answered[i]
  /\ accepted[i] => Has(i, d) \/ <<d, TRUE>> \in answered[i]

(* The destinations passed are settled, those ahead have no copy.          *)
Sent(i) ==
  /\ \A n \in 1..Passed(i) : Settles(i, dests[i][n])
  /\ \A d \in Destinations :
       /\ Has(i, d) => \E n \in 1..Len(dests[i]) : n <= Passed(i) + 1 /\ dests[i][n] = d
       /\ copies[i][d] <= lost[i][d] + 1

(* Where the item is, and what is known there.                             *)
ItemAt(i) ==
  /\ step[i] \in {"new", "queued"} => dests[i] = <<>>
  /\ step[i] # "done" => reported[i] = "none"
  /\ i \in InFlight => todo[i] # <<>>
  /\ step[i] \in Trying => copies[i][Head1(i)] <= lost[i][Head1(i)]
  /\ step[i] = "emit" => Settles(i, Head1(i))
  /\ reported[i] = "result" => todo[i] = <<>>

Skipped(i) ==
  step[i] = "done" /\ reported[i] = "none" =>
    batch = "cancelled" \/ (stopOnError /\ stop /\ dests[i] = <<>>)

PermitsBalance == \E n \in Concurrencies : free + Cardinality(InFlight) = n

BatchInv ==
  /\ RetryInv /\ BatchTypes /\ PermitsBalance
  /\ batch # "running" => \A i \in Items : step[i] = "done"
  /\ \A i \in Items : Placed(i) /\ Sent(i) /\ ItemAt(i) /\ Skipped(i)

LEMMA FirstOf ==
  ASSUME NEW S, NEW list \in Seq(S), Len(list) # 0
  PROVE  1 \in 1..Len(list) /\ list # <<>> /\ Head(list) = list[1]
<1>1. Len(list) \in Nat
  OBVIOUS
<1>2. list # <<>>
  OBVIOUS
<1>. QED
  BY <1>1, <1>2

LEMMA DestinationsFound ==
  /\ <<Default>> \in Seq(Destinations) /\ IsInjective(<<Default>>) /\ <<Default>> # <<>>
  /\ \A l \in DestinationLists : l \in Seq(Destinations) /\ IsInjective(l)
<1>1. <<Default>> \in Seq(Destinations) /\ IsInjective(<<Default>>) /\ <<Default>> # <<>>
  BY DEF Destinations, IsInjective
<1>2. ASSUME NEW l \in DestinationLists
      PROVE  l \in Seq(Destinations) /\ IsInjective(l)
  <2>1. l \in Seq(Range(l)) /\ IsInjective(l)
    BY PublishAssumption
  <2>2. Range(l) \subseteq Destinations
    BY DEF Destinations
  <2>. QED
    BY <2>1, <2>2
<1>. QED
  BY <1>1, <1>2

LEMMA BatchStarts == PublishInit => BatchInv
<1>. SUFFICES ASSUME PublishInit PROVE BatchInv
  OBVIOUS
<1>1. RetryInv
  BY RetriesStart
<1>2. BatchTypes
  <2>1. /\ copies = [i \in Items |-> [d \in Destinations |-> 0]] /\ lost = copies
    BY DEF PublishInit
  <2>2. /\ copies \in [Items -> [Destinations -> Nat]] /\ lost \in [Items -> [Destinations -> Nat]]
    BY <2>1
  <2>3. /\ free \in Nat /\ stop \in BOOLEAN /\ stopOnError \in BOOLEAN
        /\ dests \in [Items -> Seq(Destinations)] /\ todo \in [Items -> Seq(Destinations)]
        /\ accepted \in [Items -> BOOLEAN] /\ reported \in [Items -> {"none", "result", "error"}]
        /\ answered \in [Items -> SUBSET (Destinations \X BOOLEAN)]
    <3>1. <<>> \in Seq(Destinations)
      OBVIOUS
    <3>2. free \in Nat
      BY PublishAssumption DEF PublishInit
    <3>. QED
      BY <3>1, <3>2 DEF PublishInit
  <2>. QED
    BY <2>2, <2>3 DEF BatchTypes
<1>3. PermitsBalance
  <2>1. InFlight = {}
    BY DEF PublishInit, InFlight
  <2>2. Cardinality(InFlight) = 0
    BY <2>1, FS_EmptySet
  <2>3. free \in Concurrencies /\ free \in Nat
    BY PublishAssumption DEF PublishInit
  <2>. QED
    BY <2>2, <2>3 DEF PermitsBalance
<1>4. ASSUME NEW i \in Items
      PROVE  Placed(i) /\ Sent(i) /\ ItemAt(i) /\ Skipped(i)
  <2>1. /\ step[i] = "new" /\ dests[i] = <<>> /\ todo[i] = <<>> /\ reported[i] = "none"
        /\ i \notin InFlight
    BY DEF PublishInit, InFlight
  <2>2. \A d \in Destinations : copies[i][d] = 0 /\ lost[i][d] = 0
    BY DEF PublishInit
  <2>3. Placed(i)
    BY <2>1 DEF Placed, IsInjective
  <2>4. Sent(i)
    BY <2>1, <2>2 DEF Sent, Has, Passed
  <2>5. ItemAt(i) /\ Skipped(i)
    BY <2>1 DEF ItemAt, Skipped, Trying
  <2>. QED
    BY <2>3, <2>4, <2>5
<1>. QED
  BY <1>1, <1>2, <1>3, <1>4 DEF BatchInv, PublishInit

(* A step of item i, which leaves the other items alone.                   *)
Alone(i) ==
  /\ UNCHANGED <<batch, stopOnError>> /\ (stop => stop')
  /\ \A j \in Items \ {i} :
       /\ step'[j] = step[j] /\ dests'[j] = dests[j] /\ todo'[j] = todo[j]
       /\ accepted'[j] = accepted[j] /\ reported'[j] = reported[j]
       /\ copies'[j] = copies[j] /\ lost'[j] = lost[j] /\ answered'[j] = answered[j]

LEMMA ItemStep ==
  ASSUME BatchInv, NEW i \in Items, step[i] # "done", Alone(i), RetryInv', BatchTypes',
         PermitsBalance', Placed(i)', Sent(i)', ItemAt(i)', Skipped(i)'
  PROVE  BatchInv'
<1>1. batch' = "running"
  BY DEF BatchInv, Alone
<1>2. ASSUME NEW j \in Items, j # i
      PROVE  Placed(j)' /\ Sent(j)' /\ ItemAt(j)' /\ Skipped(j)'
  <2>1. /\ step'[j] = step[j] /\ dests'[j] = dests[j] /\ todo'[j] = todo[j]
        /\ accepted'[j] = accepted[j] /\ reported'[j] = reported[j]
        /\ copies'[j] = copies[j] /\ lost'[j] = lost[j] /\ answered'[j] = answered[j]
    BY <1>2 DEF Alone
  <2>2. Placed(j) /\ Sent(j) /\ ItemAt(j) /\ Skipped(j)
    BY <1>2 DEF BatchInv
  <2>3. Passed(j)' = Passed(j)
    BY <2>1 DEF Passed
  <2>4. Placed(j)'
    BY <2>1, <2>2, <2>3 DEF Placed
  <2>5. \A d : (Has(j, d)' <=> Has(j, d)) /\ (Settles(j, d)' <=> Settles(j, d))
    BY <2>1 DEF Settles, Has
  <2>6. Sent(j)'
    BY <2>1, <2>2, <2>3, <2>5 DEF Sent
  <2>7. ItemAt(j)'
    BY <2>1, <2>2, <2>5 DEF ItemAt, Head1, InFlight
  <2>8. Skipped(j)'
    BY <2>1, <2>2 DEF Skipped, Alone
  <2>. QED
    BY <2>4, <2>6, <2>7, <2>8
<1>. QED
  BY <1>1, <1>2 DEF BatchInv

LEMMA PermitsMove ==
  ASSUME BatchInv, NEW i \in Items, NEW s, step' = [step EXCEPT ![i] = s],
         free' = free + (IF i \in InFlight THEN 1 ELSE 0)
                      - (IF s \in {"new", "queued", "done"} THEN 0 ELSE 1)
  PROVE  PermitsBalance'
<1>1. IsFiniteSet(InFlight) /\ IsFiniteSet(InFlight')
  <2>1. IsFiniteSet(Items)
    BY PublishAssumption, FS_Interval DEF Items
  <2>2. InFlight \in SUBSET Items /\ InFlight' \in SUBSET Items
    BY DEF InFlight
  <2>. QED
    BY <2>1, <2>2, FS_Subset
<1>2. /\ InFlight' \ {i} = InFlight \ {i}
      /\ i \in InFlight' <=> s \notin {"new", "queued", "done"}
  BY DEF InFlight, BatchInv, RetryInv, RetryTypes
<1>3. /\ Cardinality(InFlight) \in Nat /\ Cardinality(InFlight \ {i}) \in Nat
      /\ Cardinality(InFlight) = Cardinality(InFlight \ {i}) + IF i \in InFlight THEN 1 ELSE 0
  BY <1>1, CountOne
<1>4. /\ Cardinality(InFlight') \in Nat
      /\ Cardinality(InFlight') = Cardinality(InFlight' \ {i}) + IF i \in InFlight' THEN 1 ELSE 0
  BY <1>1, CountOne
<1>5. PICK n \in Concurrencies : free + Cardinality(InFlight) = n
  BY DEF BatchInv, PermitsBalance
<1>6. free \in Nat
  BY DEF BatchInv, BatchTypes
<1>7. free' + Cardinality(InFlight') = n
  <2>. DEFINE rest_ == Cardinality(InFlight \ {i})
  <2>1. rest_ \in Nat /\ Cardinality(InFlight) = rest_ + IF i \in InFlight THEN 1 ELSE 0
    BY <1>3
  <2>2. Cardinality(InFlight') = rest_ + IF s \in {"new", "queued", "done"} THEN 0 ELSE 1
    BY <1>2, <1>4
  <2>. HIDE DEF rest_
  <2>. QED
    BY <1>5, <1>6, <2>1, <2>2
<1>. QED
  BY <1>5, <1>7 DEF PermitsBalance

(* The destinations as seen from an item that is at one of them.           *)
LEMMA Current ==
  ASSUME BatchInv, NEW i \in Items, i \in InFlight
  PROVE  /\ Passed(i) \in Nat /\ Passed(i) + 1 \in 1..Len(dests[i])
         /\ Len(dests[i]) \in Nat /\ DOMAIN dests[i] = 1..Len(dests[i])
         /\ Head1(i) = dests[i][Passed(i) + 1] /\ Head1(i) \in Destinations
         /\ \A n \in 1..Len(dests[i]) : dests[i][n] \in Destinations
         /\ \A n, m \in 1..Len(dests[i]) : dests[i][n] = dests[i][m] => n = m
<1>1. dests[i] \in Seq(Destinations) /\ todo[i] \in Seq(Destinations) /\ todo[i] # <<>>
  BY DEF BatchInv, BatchTypes, ItemAt
<1>2. Placed(i)
  BY DEF BatchInv
<1>3. /\ Len(dests[i]) \in Nat /\ DOMAIN dests[i] = 1..Len(dests[i])
      /\ \A n \in 1..Len(dests[i]) : dests[i][n] \in Destinations
  BY <1>1
<1>4. Len(todo[i]) \in Nat /\ Len(todo[i]) # 0 /\ Head1(i) = todo[i][1] /\ Head1(i) \in Destinations
  BY <1>1 DEF Head1
<1>5. Len(todo[i]) <= Len(dests[i]) /\ todo[i][1] = dests[i][Passed(i) + 1]
  <2>1. 1 \in 1..Len(todo[i])
    BY <1>4
  <2>. QED
    BY <1>2, <2>1 DEF Placed
<1>6. Passed(i) \in Nat /\ Passed(i) + 1 \in 1..Len(dests[i])
  <2>. DEFINE a == Len(dests[i])
              b == Len(todo[i])
  <2>1. a \in Nat /\ b \in Nat /\ b # 0 /\ b <= a
    BY <1>3, <1>4, <1>5
  <2>2. Passed(i) = a - b
    BY DEF Passed
  <2>. HIDE DEF a, b
  <2>3. Passed(i) \in Nat /\ Passed(i) + 1 \in 1..a
    BY <2>1, <2>2
  <2>. QED
    BY <2>3 DEF a
<1>7. \A n, m \in 1..Len(dests[i]) : dests[i][n] = dests[i][m] => n = m
  BY <1>2, <1>3 DEF Placed, IsInjective
<1>. QED
  BY <1>3, <1>4, <1>5, <1>6, <1>7

(* The copies stay as they are, and so do the destinations and answers.    *)
Quiet(i) == UNCHANGED <<dests, todo, copies, lost, answered, accepted>>

LEMMA QuietItem ==
  ASSUME BatchInv, NEW i \in Items, NEW s, Quiet(i), step' = [step EXCEPT ![i] = s]
  PROVE  /\ Placed(i)' /\ Sent(i)' /\ Head1(i)' = Head1(i) /\ Passed(i)' = Passed(i)
         /\ \A d : (Has(i, d)' <=> Has(i, d)) /\ (Settles(i, d)' <=> Settles(i, d))
         /\ step'[i] = s /\ \A j \in Items \ {i} : step'[j] = step[j]
<1>1. Placed(i) /\ Sent(i)
  BY DEF BatchInv
<1>2. Head1(i)' = Head1(i) /\ Passed(i)' = Passed(i)
  BY DEF Quiet, Head1, Passed
<1>3. Placed(i)'
  BY <1>1, <1>2 DEF Quiet, Placed
<1>4. \A d : (Has(i, d)' <=> Has(i, d)) /\ (Settles(i, d)' <=> Settles(i, d))
  BY DEF Quiet, Has, Settles
<1>5. Sent(i)'
  BY <1>1, <1>2, <1>4 DEF Sent, Quiet
<1>6. step'[i] = s /\ \A j \in Items \ {i} : step'[j] = step[j]
  BY DEF BatchInv, RetryInv, RetryTypes
<1>. QED
  BY <1>2, <1>3, <1>4, <1>5, <1>6

(* publish raises before its first await or at one of the others.          *)
Raised(i) ==
  /\ step' = [step EXCEPT ![i] = "done"] /\ reported' = [reported EXCEPT ![i] = "error"]
  /\ stop' = TRUE

LEMMA ErrorListed ==
  ASSUME BatchInv, NEW i \in Items, step[i] \notin {"new", "done"}, RetryInv', Raised(i),
         Placed(i)', Sent(i)', Alone(i), stopOnError' = stopOnError,
         free' = IF step[i] = "queued" THEN free ELSE free + 1,
         copies' \in [Items -> [Destinations -> Nat]], lost' \in [Items -> [Destinations -> Nat]],
         UNCHANGED <<dests, todo, accepted, answered>>
  PROVE  BatchInv'
<1>1. /\ step'[i] = "done" /\ reported'[i] = "error"
      /\ reported' \in [Items -> {"none", "result", "error"}]
  BY DEF Raised, BatchInv, BatchTypes, RetryInv, RetryTypes
<1>2. ItemAt(i)' /\ Skipped(i)'
  BY <1>1 DEF ItemAt, Skipped, Trying, InFlight
<1>3. free' \in Nat
  BY DEF BatchInv, BatchTypes
<1>4. BatchTypes'
  BY <1>1, <1>3 DEF Raised, BatchInv, BatchTypes
<1>5. PermitsBalance'
  <2>1. i \in InFlight <=> step[i] # "queued"
    BY DEF InFlight
  <2>2. free \in Nat
    BY DEF BatchInv, BatchTypes
  <2>3. free' = free + (IF i \in InFlight THEN 1 ELSE 0) - 0
    BY <2>1, <2>2
  <2>. QED
    BY <2>3, PermitsMove DEF Raised
<1>. QED
  BY <1>2, <1>4, <1>5, ItemStep

LEMMA Errors ==
  ASSUME BatchInv, NEW i \in Items, RetryInv',
         EnvelopeFails(i) \/ EngineFails(i) \/ LayerFails(i) \/ ListenerRaises(i)
  PROVE  BatchInv'
<1>1. /\ Raised(i) /\ Quiet(i) /\ UNCHANGED <<batch, stopOnError>>
      /\ step[i] \notin {"new", "done"}
      /\ free' = IF step[i] = "queued" THEN free ELSE free + 1
  BY DEF EnvelopeFails, MayEnter, EngineFails, LayerFails, ListenerRaises, Raise, Raised, Quiet,
    control,
    history
<1>2. Placed(i)' /\ Sent(i)'
  BY <1>1, QuietItem DEF Raised
<1>3. Alone(i)
  BY <1>1 DEF Alone, Raised, Quiet, BatchInv, RetryInv, RetryTypes, BatchTypes
<1>. QED
  BY <1>1, <1>2, <1>3, ErrorListed DEF Quiet, BatchInv, BatchTypes

LEMMA NewItem ==
  ASSUME BatchInv, NEW i \in Items, RetryInv', StartItem(i) \/ EnterSemaphore(i)
  PROVE  BatchInv'
<1>0. /\ Placed(i) /\ Sent(i) /\ ItemAt(i) /\ BatchTypes
  BY DEF BatchInv
<1>1. step[i] \in {"new", "queued"} /\ dests[i] = <<>> /\ reported[i] = "none"
  BY <1>0 DEF StartItem, EnterSemaphore, MayStart, MayEnter, ItemAt
<1>2. CASE StartItem(i)
  <2>. DEFINE s == IF stopOnError /\ stop THEN "done" ELSE "queued"
  <2>1. step' = [step EXCEPT ![i] = s] /\ Quiet(i)
        /\ UNCHANGED <<control, free, batch, stop, reported>>
    BY <1>2 DEF StartItem, MayStart, Quiet, history
  <2>2. /\ Placed(i)' /\ Sent(i)' /\ step'[i] = s
        /\ \A j \in Items \ {i} : step'[j] = step[j]
    BY <2>1, QuietItem
  <2>3. ItemAt(i)' /\ Skipped(i)'
    BY <1>1, <2>1, <2>2 DEF ItemAt, Skipped, Trying, InFlight, Quiet, control
  <2>4. Alone(i)
    BY <2>1, <2>2 DEF Alone, Quiet, control
  <2>5. PermitsBalance'
    <3>1. i \notin InFlight /\ free \in Nat
      BY <1>0, <1>1 DEF InFlight, BatchTypes
    <3>2. free' = free + (IF i \in InFlight THEN 1 ELSE 0)
                       - (IF s \in {"new", "queued", "done"} THEN 0 ELSE 1)
      BY <2>1, <3>1
    <3>. QED
      BY <2>1, <3>2, PermitsMove
  <2>6. BatchTypes'
    BY <1>0, <2>1 DEF BatchTypes, Quiet, control
  <2>. QED
    BY <1>1, <2>2, <2>3, <2>4, <2>5, <2>6, ItemStep
<1>3. CASE EnterSemaphore(i)
  <2>1. PICK l \in DestinationLists :
          LET list == IF l = <<>> THEN <<Default>> ELSE l
          IN  dests' = [dests EXCEPT ![i] = list] /\ todo' = [todo EXCEPT ![i] = list]
    BY <1>3 DEF EnterSemaphore, MayEnter
  <2>. DEFINE list == IF l = <<>> THEN <<Default>> ELSE l
  <2>2. list \in Seq(Destinations) /\ IsInjective(list) /\ list # <<>>
    BY DestinationsFound
  <2>3. dests' = [dests EXCEPT ![i] = list] /\ todo' = [todo EXCEPT ![i] = list]
    BY <2>1
  <2>. HIDE DEF list
  <2>4. /\ step[i] = "queued" /\ free > 0 /\ free' = free - 1
        /\ step' = [step EXCEPT ![i] = "engine"]
        /\ UNCHANGED <<stopOnError, batch, stop, accepted, reported, copies, lost, answered>>
    BY <1>3 DEF EnterSemaphore, MayEnter, control, history
  <2>5. /\ dests'[i] = list /\ todo'[i] = list /\ step'[i] = "engine"
        /\ \A j \in Items \ {i} : /\ dests'[j] = dests[j] /\ todo'[j] = todo[j]
                                  /\ step'[j] = step[j]
    BY <1>0, <2>3, <2>4 DEF BatchTypes, BatchInv, RetryInv, RetryTypes
  <2>6. Alone(i)
    BY <2>4, <2>5 DEF Alone
  <2>7. BatchTypes'
    BY <1>0, <2>2, <2>3, <2>4 DEF BatchTypes
  <2>8. PermitsBalance'
    <3>1. i \notin InFlight /\ free \in Nat
      BY <1>0, <2>4 DEF InFlight, BatchTypes
    <3>2. free' = free + (IF i \in InFlight THEN 1 ELSE 0)
                       - (IF "engine" \in {"new", "queued", "done"} THEN 0 ELSE 1)
      BY <2>4, <3>1
    <3>. QED
      BY <2>4, <3>2, PermitsMove
  <2>9. Len(list) \in Nat /\ Len(list) # 0 /\ Passed(i)' = 0
    BY <2>2, <2>5 DEF Passed
  <2>10. Placed(i)'
    BY <2>2, <2>5, <2>9 DEF Placed
  <2>11. \A d \in Destinations : copies[i][d] = 0 /\ lost[i][d] \in Nat
    <3>1. Len(dests[i]) = 0
      BY <1>1
    <3>2. \A d \in Destinations : copies[i][d] \in Nat /\ lost[i][d] \in Nat
      BY <1>0 DEF BatchTypes
    <3>3. \A d \in Destinations : ~Has(i, d)
      BY <1>0, <3>1 DEF Sent
    <3>. QED
      BY <3>2, <3>3 DEF Has
  <2>12. Sent(i)'
    BY <2>4, <2>9, <2>11 DEF Sent, Has
  <2>13. ItemAt(i)'
    <3>1. Head1(i)' \in Destinations
      BY <2>2, <2>5 DEF Head1
    <3>. QED
      BY <1>1, <2>2, <2>4, <2>5, <2>11, <3>1 DEF ItemAt, Trying
  <2>14. Skipped(i)'
    BY <2>5 DEF Skipped
  <2>. QED
    BY <2>4, <2>6, <2>7, <2>8, <2>10, <2>12, <2>13, <2>14, ItemStep
<1>. QED
  BY <1>2, <1>3

(* Between the awaits of publish and of the retry loop.                    *)
LEMMA OnTheWay ==
  ASSUME BatchInv, NEW i \in Items, RetryInv', Quiet(i), Alone(i), step[i] \in Trying,
         NEW s \in Trying, step' = [step EXCEPT ![i] = s],
         UNCHANGED <<free, stop, reported>>
  PROVE  BatchInv'
<1>0. ItemAt(i) /\ BatchTypes
  BY DEF BatchInv
<1>1. Placed(i)' /\ Sent(i)' /\ Head1(i)' = Head1(i) /\ step'[i] = s
  BY QuietItem
<1>2. i \in InFlight /\ s \notin {"new", "queued", "done", "emit"} /\ step[i] # "done"
  BY DEF InFlight, Trying
<1>3. ItemAt(i)' /\ Skipped(i)'
  BY <1>0, <1>1, <1>2 DEF ItemAt, Skipped, Quiet
<1>4. free' = free + (IF i \in InFlight THEN 1 ELSE 0)
                   - (IF s \in {"new", "queued", "done"} THEN 0 ELSE 1)
  BY <1>0, <1>2 DEF BatchTypes
<1>5. PermitsBalance'
  BY <1>4, PermitsMove
<1>6. BatchTypes'
  BY <1>0 DEF BatchTypes, Quiet, Alone
<1>. QED
  BY <1>1, <1>2, <1>3, <1>5, <1>6, ItemStep

LEMMA WaySteps ==
  ASSUME BatchInv, NEW i \in Items, RetryInv', GotEngine(i) \/ CallTerminal(i) \/ Wake(i)
  PROVE  BatchInv'
<1>1. /\ Quiet(i) /\ UNCHANGED <<free, stop, stopOnError, batch, reported>>
      /\ step[i] \in Trying /\ \E s \in Trying : step' = [step EXCEPT ![i] = s]
  BY DEF GotEngine, CallTerminal, Wake, Quiet, history, control, Trying
<1>2. Alone(i)
  BY <1>1 DEF Alone, Quiet, BatchInv, RetryInv, RetryTypes
<1>. QED
  BY <1>1, <1>2, OnTheWay

(* A result for the destination that item i is at, which is settled now.   *)
LEMMA ResultListed ==
  ASSUME BatchInv, NEW i \in Items, i \in InFlight, RetryInv', NEW yes \in BOOLEAN,
         Result(i, yes), UNCHANGED <<batch, stopOnError, stop, dests, copies, lost>>,
         answered' \in [Items -> SUBSET (Destinations \X BOOLEAN)],
         answered[i] \subseteq answered'[i], \A j \in Items \ {i} : answered'[j] = answered[j],
         Has(i, Head1(i)) \/ \E y \in BOOLEAN : <<Head1(i), y>> \in answered'[i],
         accepted[i] /\ yes => Has(i, Head1(i)) \/ <<Head1(i), TRUE>> \in answered'[i]
  PROVE  BatchInv'
<1>0. Placed(i) /\ Sent(i) /\ ItemAt(i) /\ BatchTypes
  BY DEF BatchInv
<1>1. /\ Passed(i) \in Nat /\ Passed(i) + 1 \in 1..Len(dests[i]) /\ Len(dests[i]) \in Nat
      /\ Head1(i) = dests[i][Passed(i) + 1] /\ Head1(i) \in Destinations
      /\ \A n \in 1..Len(dests[i]) : dests[i][n] \in Destinations
      /\ \A n, m \in 1..Len(dests[i]) : dests[i][n] = dests[i][m] => n = m
  BY Current
<1>2. todo[i] \in Seq(Destinations) /\ todo[i] # <<>> /\ reported[i] = "none" /\ step[i] # "done"
  BY <1>0 DEF BatchTypes, ItemAt, InFlight
<1>3. /\ todo'[i] = Tail(todo[i]) /\ accepted'[i] = (accepted[i] /\ yes)
      /\ todo' \in [Items -> Seq(Destinations)] /\ accepted' \in [Items -> BOOLEAN]
      /\ \A j \in Items \ {i} : todo'[j] = todo[j] /\ accepted'[j] = accepted[j]
  <2>1. Tail(todo[i]) \in Seq(Destinations)
    BY <1>2
  <2>2. todo' = [todo EXCEPT ![i] = Tail(todo[i])]
        /\ accepted' = [accepted EXCEPT ![i] = AllAccepted(i, yes)]
    BY DEF Result
  <2>3. AllAccepted(i, yes) = (accepted[i] /\ yes) /\ AllAccepted(i, yes) \in BOOLEAN
    BY DEF AllAccepted
  <2>. QED
    BY <1>0, <2>1, <2>2, <2>3 DEF BatchTypes
<1>4. /\ Len(todo[i]) \in Nat /\ Len(todo[i]) # 0 /\ Len(todo'[i]) = Len(todo[i]) - 1
      /\ \A k \in 1..Len(todo'[i]) : todo'[i][k] = todo[i][k + 1]
      /\ todo'[i] \in Seq(Destinations)
  BY <1>2, <1>3
<1>5. Passed(i)' = Passed(i) + 1
  <2>1. Passed(i)' = Len(dests[i]) - Len(todo'[i]) /\ Passed(i) = Len(dests[i]) - Len(todo[i])
    BY DEF Passed
  <2>. QED
    BY <1>1, <1>4, <2>1
<1>6. Placed(i)'
  <2>1. Len(todo'[i]) <= Len(dests[i])
    BY <1>0, <1>1, <1>4 DEF Placed
  <2>2. ASSUME NEW k \in 1..Len(todo'[i])
        PROVE  todo'[i][k] = dests[i][Passed(i)' + k]
    <3>1. k + 1 \in 1..Len(todo[i]) /\ todo'[i][k] = todo[i][k + 1]
      BY <1>4
    <3>2. todo[i][k + 1] = dests[i][Passed(i) + (k + 1)]
      BY <1>0, <3>1 DEF Placed
    <3>3. Passed(i) + (k + 1) = Passed(i)' + k
      BY <1>1, <1>5
    <3>. QED
      BY <3>1, <3>2, <3>3
  <2>. QED
    BY <1>0, <2>1, <2>2 DEF Placed
<1>7. Sent(i)'
  <2>1. ASSUME NEW n \in 1..(Passed(i) + 1)
        PROVE  Settles(i, dests[i][n])'
    <3>1. CASE n = Passed(i) + 1
      BY <1>1, <1>3, <3>1 DEF Settles, Has
    <3>2. CASE n # Passed(i) + 1
      <4>1. n \in 1..Passed(i)
        BY <1>1, <3>2
      <4>2. Settles(i, dests[i][n])
        BY <1>0, <4>1 DEF Sent
      <4>. QED
        BY <1>3, <4>2 DEF Settles, Has
    <3>. QED
      BY <3>1, <3>2
  <2>2. ASSUME NEW d \in Destinations
        PROVE  /\ Has(i, d)' => \E n \in 1..Len(dests[i]) : n <= Passed(i)' + 1 /\ dests[i][n] = d
               /\ copies'[i][d] <= lost'[i][d] + 1
    <3>1. Has(i, d)' <=> Has(i, d)
      BY DEF Has
    <3>2. /\ Has(i, d) => \E n \in 1..Len(dests[i]) : n <= Passed(i) + 1 /\ dests[i][n] = d
          /\ copies[i][d] <= lost[i][d] + 1
      BY <1>0 DEF Sent
    <3>3. \A n \in 1..Len(dests[i]) : n <= Passed(i) + 1 => n <= Passed(i)' + 1
      BY <1>1, <1>5
    <3>. QED
      BY <3>1, <3>2, <3>3
  <2>3. \A n \in 1..Passed(i)' : Settles(i, dests[i][n])'
    BY <1>5, <2>1
  <2>. QED
    BY <2>2, <2>3 DEF Sent
<1>8. CASE Len(todo[i]) = 1
  <2>1. /\ step' = [step EXCEPT ![i] = "done"] /\ reported' = [reported EXCEPT ![i] = "result"]
        /\ free' = free + 1
    BY <1>8 DEF Result
  <2>2. /\ step'[i] = "done" /\ reported'[i] = "result"
        /\ reported' \in [Items -> {"none", "result", "error"}]
        /\ \A j \in Items \ {i} : step'[j] = step[j] /\ reported'[j] = reported[j]
    BY <1>0, <2>1 DEF BatchTypes, BatchInv, RetryInv, RetryTypes
  <2>3. todo'[i] = <<>>
    BY <1>4, <1>8
  <2>4. ItemAt(i)' /\ Skipped(i)'
    BY <2>2, <2>3 DEF ItemAt, Skipped, Trying, InFlight
  <2>5. free \in Nat /\ free' \in Nat
    BY <1>0, <2>1 DEF BatchTypes
  <2>6. PermitsBalance'
    <3>1. free' = free + (IF i \in InFlight THEN 1 ELSE 0)
                       - (IF "done" \in {"new", "queued", "done"} THEN 0 ELSE 1)
      BY <2>1, <2>5
    <3>. QED
      BY <2>1, <3>1, PermitsMove
  <2>7. BatchTypes'
    BY <1>0, <1>3, <2>2, <2>5 DEF BatchTypes
  <2>8. Alone(i)
    BY <1>3, <2>2 DEF Alone
  <2>. QED
    BY <1>2, <1>6, <1>7, <2>4, <2>6, <2>7, <2>8, ItemStep
<1>9. CASE Len(todo[i]) # 1
  <2>1. step' = [step EXCEPT ![i] = "engine"] /\ UNCHANGED <<reported, free>>
    BY <1>9 DEF Result
  <2>2. /\ step'[i] = "engine" /\ reported'[i] = "none"
        /\ \A j \in Items \ {i} : step'[j] = step[j] /\ reported'[j] = reported[j]
    BY <1>0, <1>2, <2>1 DEF BatchTypes, BatchInv, RetryInv, RetryTypes
  <2>3. 1 \in 1..Len(todo'[i]) /\ todo'[i] # <<>> /\ Head1(i)' = todo'[i][1]
    <3>. DEFINE rest_ == todo'[i]
    <3>1. rest_ \in Seq(Destinations) /\ Len(rest_) = Len(todo[i]) - 1
      BY <1>4
    <3>2. Len(rest_) \in Nat /\ Len(rest_) # 0
      BY <1>4, <1>9, <3>1
    <3>3. Head1(i)' = Head(rest_)
      BY DEF Head1
    <3>. HIDE DEF rest_
    <3>4. 1 \in 1..Len(rest_) /\ rest_ # <<>> /\ Head(rest_) = rest_[1]
      BY <3>1, <3>2, FirstOf
    <3>. QED
      BY <3>3, <3>4 DEF rest_
  <2>4. Head1(i)' = dests[i][Passed(i) + 2] /\ Passed(i) + 2 \in 1..Len(dests[i])
    <3>1. Head1(i)' = dests[i][Passed(i)' + 1]
      BY <1>6, <2>3 DEF Placed
    <3>2. Passed(i) = Len(dests[i]) - Len(todo[i])
      BY DEF Passed
    <3>3. Passed(i)' + 1 = Passed(i) + 2 /\ Passed(i) + 2 \in 1..Len(dests[i])
      <4>. DEFINE a == Len(dests[i])
                  b == Len(todo[i])
                  p == Passed(i)
                  q == Passed(i)'
      <4>1. p \in Nat /\ a \in Nat /\ b \in Nat /\ b # 0 /\ b # 1 /\ p = a - b /\ q = p + 1
        BY <1>1, <1>4, <1>5, <1>9, <3>2
      <4>. HIDE DEF a, b, p, q
      <4>2. q + 1 = p + 2 /\ p + 2 \in 1..a
        BY <4>1
      <4>. QED
        BY <4>2 DEF a, p, q
    <3>. QED
      BY <3>1, <3>3
  <2>5. copies[i][Head1(i)'] <= lost[i][Head1(i)']
    <3>. DEFINE d == dests[i][Passed(i) + 2]
    <3>1. d \in Destinations /\ d = Head1(i)'
      BY <1>1, <2>4
    <3>2. ~Has(i, d)
      <4>1. SUFFICES ASSUME Has(i, d) PROVE FALSE
        OBVIOUS
      <4>2. PICK n \in 1..Len(dests[i]) : n <= Passed(i) + 1 /\ dests[i][n] = d
        BY <1>0, <3>1, <4>1 DEF Sent
      <4>3. n = Passed(i) + 2
        BY <1>1, <2>4, <4>2
      <4>. QED
        BY <1>1, <4>2, <4>3
    <3>. HIDE DEF d
    <3>3. copies[i][d] \in Nat /\ lost[i][d] \in Nat
      BY <1>0, <3>1 DEF BatchTypes
    <3>4. copies[i][d] <= lost[i][d]
      BY <3>2, <3>3 DEF Has
    <3>. QED
      BY <3>1, <3>4
  <2>6. ItemAt(i)' /\ Skipped(i)'
    BY <2>2, <2>3, <2>5 DEF ItemAt, Skipped, Trying, InFlight
  <2>7. PermitsBalance'
    <3>1. free \in Nat
      BY <1>0 DEF BatchTypes
    <3>2. free' = free + (IF i \in InFlight THEN 1 ELSE 0)
                       - (IF "engine" \in {"new", "queued", "done"} THEN 0 ELSE 1)
      BY <2>1, <3>1
    <3>. QED
      BY <2>1, <3>2, PermitsMove
  <2>8. BatchTypes'
    BY <1>0, <1>3, <2>1 DEF BatchTypes
  <2>9. Alone(i)
    BY <1>3, <2>2 DEF Alone
  <2>. QED
    BY <1>2, <1>6, <1>7, <2>6, <2>7, <2>8, <2>9, ItemStep
<1>. QED
  BY <1>8, <1>9

LEMMA Results ==
  ASSUME BatchInv, NEW i \in Items, RetryInv', LayerAnswers(i) \/ Emitted(i)
  PROVE  BatchInv'
<1>0. BatchTypes /\ ItemAt(i) /\ i \in InFlight
  BY DEF BatchInv, LayerAnswers, Emitted, InFlight
<1>1. Head1(i) \in Destinations
  BY <1>0, Current
<1>2. CASE LayerAnswers(i)
  <2>1. PICK yes \in BOOLEAN :
          Result(i, yes) /\ answered' = [answered EXCEPT ![i] = @ \cup {<<Head1(i), yes>>}]
    BY <1>2 DEF LayerAnswers
  <2>2. UNCHANGED <<batch, stopOnError, stop, dests, copies, lost>>
    BY <1>2 DEF LayerAnswers, control
  <2>3. /\ answered' \in [Items -> SUBSET (Destinations \X BOOLEAN)]
        /\ answered'[i] = answered[i] \cup {<<Head1(i), yes>>}
        /\ \A j \in Items \ {i} : answered'[j] = answered[j]
    BY <1>0, <1>1, <2>1 DEF BatchTypes
  <2>4. Result(i, yes)
    BY <2>1
  <2>. QED
    BY <1>0, <2>2, <2>3, <2>4, ResultListed
<1>3. CASE Emitted(i)
  <2>1. /\ Result(i, accepted[i])
        /\ UNCHANGED <<batch, stopOnError, stop, dests, copies, lost, answered>>
    BY <1>3 DEF Emitted, control, history
  <2>2. accepted[i] \in BOOLEAN
    BY <1>0 DEF BatchTypes
  <2>3. Settles(i, Head1(i))
    BY <1>0, <1>3 DEF ItemAt, Emitted
  <2>4. answered' \in [Items -> SUBSET (Destinations \X BOOLEAN)]
    BY <1>0, <2>1 DEF BatchTypes
  <2>. QED
    BY <1>0, <2>1, <2>2, <2>3, <2>4, ResultListed DEF Settles
<1>. QED
  BY <1>2, <1>3

(* The destination that item i is trying gets one more copy.               *)
LEMMA CopyMade ==
  ASSUME BatchInv, NEW i \in Items, step[i] \in Trying, MoreCopies(i),
         lost' = lost \/ lost' = [lost EXCEPT ![i][Head1(i)] = @ + 1],
         UNCHANGED <<dests, todo, accepted, answered>>
  PROVE  /\ Placed(i)' /\ Sent(i)' /\ Head1(i)' = Head1(i) /\ Has(i, Head1(i))'
         /\ copies' \in [Items -> [Destinations -> Nat]]
         /\ lost' \in [Items -> [Destinations -> Nat]]
         /\ \A j \in Items \ {i} : copies'[j] = copies[j] /\ lost'[j] = lost[j]
         /\ lost' # lost => copies'[i][Head1(i)] <= lost'[i][Head1(i)]
<1>. DEFINE h == Head1(i)
<1>0. Placed(i) /\ Sent(i) /\ ItemAt(i) /\ BatchTypes
  BY DEF BatchInv
<1>1. i \in InFlight
  BY DEF Trying, InFlight
<1>2. /\ Passed(i) \in Nat /\ Passed(i) + 1 \in 1..Len(dests[i])
      /\ h = dests[i][Passed(i) + 1] /\ h \in Destinations
  BY <1>1, Current
<1>3. /\ copies[i] \in [Destinations -> Nat] /\ lost[i] \in [Destinations -> Nat]
      /\ copies[i][h] <= lost[i][h]
  BY <1>0 DEF BatchTypes, ItemAt
<1>4. Head1(i)' = Head1(i) /\ Passed(i)' = Passed(i) /\ Placed(i)'
  BY <1>0 DEF Head1, Passed, Placed
<1>. HIDE DEF h
<1>5. copies' = [copies EXCEPT ![i] = [copies[i] EXCEPT ![h] = copies[i][h] + 1]]
  BY DEF MoreCopies, h
<1>6. /\ copies' \in [Items -> [Destinations -> Nat]]
      /\ copies'[i][h] = copies[i][h] + 1
      /\ \A d \in Destinations \ {h} : copies'[i][d] = copies[i][d]
      /\ \A j \in Items \ {i} : copies'[j] = copies[j]
  <2>1. [copies[i] EXCEPT ![h] = copies[i][h] + 1] \in [Destinations -> Nat]
    BY <1>2, <1>3
  <2>. QED
    BY <1>0, <1>2, <1>3, <1>5, <2>1 DEF BatchTypes
<1>7. /\ lost' \in [Items -> [Destinations -> Nat]]
      /\ \A d \in Destinations : lost'[i][d] >= lost[i][d]
      /\ \A j \in Items \ {i} : lost'[j] = lost[j]
      /\ lost' # lost => lost'[i][h] = lost[i][h] + 1
  <2>1. CASE lost' = lost
    BY <1>0, <1>3, <2>1 DEF BatchTypes
  <2>2. CASE lost' = [lost EXCEPT ![i][Head1(i)] = @ + 1]
    <3>1. lost' = [lost EXCEPT ![i] = [lost[i] EXCEPT ![h] = lost[i][h] + 1]]
      BY <2>2 DEF h
    <3>2. [lost[i] EXCEPT ![h] = lost[i][h] + 1] \in [Destinations -> Nat]
      BY <1>2, <1>3
    <3>3. /\ lost' \in [Items -> [Destinations -> Nat]]
          /\ lost'[i] = [lost[i] EXCEPT ![h] = lost[i][h] + 1]
          /\ \A j \in Items \ {i} : lost'[j] = lost[j]
      BY <1>0, <3>1, <3>2 DEF BatchTypes
    <3>4. lost'[i][h] = lost[i][h] + 1 /\ \A d \in Destinations \ {h} : lost'[i][d] = lost[i][d]
      BY <1>2, <1>3, <3>3
    <3>5. \A d \in Destinations : lost'[i][d] >= lost[i][d]
      BY <1>3, <3>4
    <3>. QED
      BY <3>3, <3>4, <3>5
  <2>. QED
    BY <2>1, <2>2
<1>8. copies[i][h] \in Nat /\ lost[i][h] \in Nat /\ lost'[i][h] \in Nat
  BY <1>2, <1>3, <1>7
<1>9. Has(i, h)' /\ (lost' # lost => copies'[i][h] <= lost'[i][h])
  <2>1. h' = h
    BY <1>4 DEF h
  <2>2. copies'[i][h] > 0
    BY <1>6, <1>8
  <2>3. lost' # lost => copies'[i][h] <= lost'[i][h]
    BY <1>3, <1>6, <1>7, <1>8
  <2>. QED
    BY <2>1, <2>2, <2>3 DEF Has
<1>10. Sent(i)'
  <2>1. ASSUME NEW d \in Destinations
        PROVE  /\ Has(i, d) => Has(i, d)'
               /\ Has(i, d)' => Has(i, d) \/ d = h
               /\ copies'[i][d] <= lost'[i][d] + 1
    <3>1. copies[i][d] \in Nat /\ lost[i][d] \in Nat /\ lost'[i][d] \in Nat
          /\ lost'[i][d] >= lost[i][d] /\ copies[i][d] <= lost[i][d] + 1
      BY <1>0, <1>3, <1>7 DEF Sent
    <3>2. CASE d = h
      BY <1>3, <1>6, <3>1, <3>2 DEF Has
    <3>3. CASE d # h
      <4>1. copies'[i][d] = copies[i][d]
        BY <1>6, <3>3
      <4>. QED
        BY <3>1, <4>1 DEF Has
    <3>. QED
      BY <3>2, <3>3
  <2>2. ASSUME NEW n \in 1..Passed(i)
        PROVE  Settles(i, dests[i][n])'
    <3>1. Settles(i, dests[i][n])
      BY <1>0 DEF Sent
    <3>2. dests[i][n] \in Destinations
      <4>1. n \in 1..Len(dests[i])
        BY <1>2
      <4>. QED
        BY <1>1, <4>1, Current
    <3>. QED
      BY <2>1, <3>1, <3>2 DEF Settles
  <2>3. ASSUME NEW d \in Destinations, Has(i, d)'
        PROVE  \E n \in 1..Len(dests[i]) : n <= Passed(i) + 1 /\ dests[i][n] = d
    <3>1. CASE d = h
      BY <1>2, <3>1
    <3>2. CASE Has(i, d)
      BY <1>0, <3>2 DEF Sent
    <3>. QED
      BY <2>1, <2>3, <3>1, <3>2
  <2>. QED
    BY <1>4, <2>1, <2>2, <2>3 DEF Sent
<1>. QED
  BY <1>4, <1>6, <1>7, <1>9, <1>10 DEF h

LEMMA AttemptSteps ==
  ASSUME BatchInv, NEW i \in Items, RetryInv', AttemptReturns(i) \/ AttemptFails(i)
  PROVE  BatchInv'
<1>. DEFINE h == Head1(i)
<1>0. Placed(i) /\ Sent(i) /\ ItemAt(i) /\ BatchTypes
  BY DEF BatchInv
<1>1. /\ step[i] = "attempt" /\ step[i] \in Trying /\ i \in InFlight /\ reported[i] = "none"
  BY <1>0 DEF AttemptReturns, AttemptFails, Trying, InFlight, ItemAt
<1>2. h \in Destinations /\ free \in Nat
  BY <1>0, <1>1, Current DEF BatchTypes
<1>3. CASE AttemptReturns(i)
  <2>1. /\ step' = [step EXCEPT ![i] = "emit"]
        /\ UNCHANGED <<batch, stopOnError, stop, free, dests, todo, reported, lost>>
    BY <1>3 DEF AttemptReturns, control
  <2>2. step'[i] = "emit" /\ \A j \in Items \ {i} : step'[j] = step[j]
    BY <2>1 DEF BatchInv, RetryInv, RetryTypes
  <2>3. PermitsBalance'
    <3>1. free' = free + (IF i \in InFlight THEN 1 ELSE 0)
                       - (IF "emit" \in {"new", "queued", "done"} THEN 0 ELSE 1)
      BY <1>1, <1>2, <2>1
    <3>. QED
      BY <2>1, <3>1, PermitsMove
  <2>4. CASE MoreCopies(i) /\ UNCHANGED <<answered, accepted>>
    <3>1. /\ Placed(i)' /\ Sent(i)' /\ Head1(i)' = Head1(i) /\ Has(i, Head1(i))'
          /\ copies' \in [Items -> [Destinations -> Nat]]
          /\ \A j \in Items \ {i} : copies'[j] = copies[j]
      BY <1>1, <2>1, <2>4, CopyMade
    <3>2. ItemAt(i)' /\ Skipped(i)'
      BY <1>0, <1>1, <2>1, <2>2, <3>1 DEF ItemAt, Skipped, Trying, Settles
    <3>3. BatchTypes'
      BY <1>0, <2>1, <2>4, <3>1 DEF BatchTypes
    <3>4. Alone(i)
      BY <2>1, <2>2, <2>4, <3>1 DEF Alone
    <3>. QED
      BY <1>1, <2>3, <3>1, <3>2, <3>3, <3>4, ItemStep
  <2>5. CASE /\ answered' = [answered EXCEPT ![i] = @ \cup {<<Head1(i), FALSE>>}]
             /\ accepted' = [accepted EXCEPT ![i] = AllAccepted(i, FALSE)] /\ UNCHANGED copies
    <3>1. /\ answered' \in [Items -> SUBSET (Destinations \X BOOLEAN)]
          /\ answered'[i] = answered[i] \cup {<<h, FALSE>>}
          /\ \A j \in Items \ {i} : answered'[j] = answered[j]
      <4>1. answered' = [answered EXCEPT ![i] = answered[i] \cup {<<h, FALSE>>}]
        BY <2>5
      <4>2. answered \in [Items -> SUBSET (Destinations \X BOOLEAN)]
        BY <1>0 DEF BatchTypes
      <4>. HIDE DEF h
      <4>3. answered[i] \cup {<<h, FALSE>>} \in SUBSET (Destinations \X BOOLEAN)
        <5>. DEFINE no == FALSE
        <5>1. no \in BOOLEAN
          OBVIOUS
        <5>. HIDE DEF no
        <5>2. answered[i] \cup {<<h, no>>} \in SUBSET (Destinations \X BOOLEAN)
          BY <1>2, <4>2, <5>1
        <5>. QED
          BY <5>2 DEF no
      <4>. QED
        BY <4>1, <4>2, <4>3
    <3>2. /\ accepted' \in [Items -> BOOLEAN] /\ ~accepted'[i]
          /\ \A j \in Items \ {i} : accepted'[j] = accepted[j]
      BY <1>0, <2>5 DEF BatchTypes, AllAccepted
    <3>3. Head1(i)' = Head1(i) /\ Passed(i)' = Passed(i)
      BY <2>1 DEF Head1, Passed
    <3>4. Placed(i)'
      BY <1>0, <2>1, <3>3 DEF Placed
    <3>5. \A d : (Has(i, d)' <=> Has(i, d)) /\ (Settles(i, d) => Settles(i, d)')
      BY <2>5, <3>1, <3>2 DEF Has, Settles
    <3>6. Sent(i)'
      BY <1>0, <2>1, <2>5, <3>3, <3>5 DEF Sent
    <3>7. Settles(i, Head1(i))'
      BY <3>1, <3>2, <3>3 DEF Settles
    <3>8. ItemAt(i)' /\ Skipped(i)'
      BY <1>0, <1>1, <2>1, <2>2, <3>3, <3>7 DEF ItemAt, Skipped, Trying
    <3>9. BatchTypes'
      BY <1>0, <2>1, <2>5, <3>1, <3>2 DEF BatchTypes
    <3>10. Alone(i)
      BY <2>1, <2>2, <2>5, <3>1, <3>2 DEF Alone
    <3>. QED
      BY <1>1, <2>3, <3>4, <3>6, <3>8, <3>9, <3>10, ItemStep
  <2>. QED
    BY <1>3, <2>4, <2>5 DEF AttemptReturns
<1>4. CASE AttemptFails(i)
  <2>1. UNCHANGED <<batch, stopOnError, dests, todo, accepted, answered>>
    BY <1>4 DEF AttemptFails, control
  <2>2. \/ /\ step' = [step EXCEPT ![i] = "sleep"] /\ UNCHANGED <<reported, stop, free>>
        \/ Raised(i) /\ free' = free + 1
    BY <1>4 DEF AttemptFails, Raise, Raised
  <2>3. /\ Placed(i)' /\ Sent(i)' /\ Head1(i)' = h
        /\ copies' \in [Items -> [Destinations -> Nat]]
        /\ lost' \in [Items -> [Destinations -> Nat]]
        /\ \A j \in Items \ {i} : copies'[j] = copies[j] /\ lost'[j] = lost[j]
        /\ copies'[i][h] <= lost'[i][h]
    <3>1. CASE MoreCopies(i) /\ lost' = [lost EXCEPT ![i][Head1(i)] = @ + 1]
      <4>1. /\ Placed(i)' /\ Sent(i)' /\ Head1(i)' = h
            /\ copies' \in [Items -> [Destinations -> Nat]]
            /\ lost' \in [Items -> [Destinations -> Nat]]
            /\ \A j \in Items \ {i} : copies'[j] = copies[j] /\ lost'[j] = lost[j]
            /\ lost' # lost => copies'[i][Head1(i)] <= lost'[i][Head1(i)]
        BY <1>1, <2>1, <3>1, CopyMade
      <4>2. lost[i] \in [Destinations -> Nat]
        BY <1>0 DEF BatchTypes
      <4>3. lost' # lost
        <5>1. lost' = [lost EXCEPT ![i] = [lost[i] EXCEPT ![h] = lost[i][h] + 1]]
          BY <3>1
        <5>. HIDE DEF h
        <5>2. lost'[i] = [lost[i] EXCEPT ![h] = lost[i][h] + 1]
          BY <1>0, <5>1 DEF BatchTypes
        <5>3. lost'[i][h] = lost[i][h] + 1 /\ lost[i][h] \in Nat
          BY <1>2, <4>2, <5>2
        <5>. QED
          BY <5>3
      <4>. QED
        BY <4>1, <4>3
    <3>2. CASE UNCHANGED <<copies, lost>>
      <4>1. /\ Placed(i)' /\ Sent(i)' /\ Head1(i)' = h
        <5>1. \E s : step' = [step EXCEPT ![i] = s]
          BY <2>2 DEF Raised
        <5>2. Quiet(i)
          BY <2>1, <3>2 DEF Quiet
        <5>. QED
          BY <5>1, <5>2, QuietItem
      <4>2. copies[i][h] <= lost[i][h]
        BY <1>0, <1>1 DEF ItemAt
      <4>. QED
        BY <1>0, <3>2, <4>1, <4>2 DEF BatchTypes
    <3>. QED
      BY <1>4, <3>1, <3>2 DEF AttemptFails
  <2>. HIDE DEF h
  <2>4. CASE step' = [step EXCEPT ![i] = "sleep"] /\ UNCHANGED <<reported, stop, free>>
    <3>1. step'[i] = "sleep" /\ \A j \in Items \ {i} : step'[j] = step[j]
      BY <2>4 DEF BatchInv, RetryInv, RetryTypes
    <3>2. ItemAt(i)' /\ Skipped(i)'
      BY <1>0, <1>1, <2>1, <2>3, <2>4, <3>1 DEF ItemAt, Skipped
    <3>3. PermitsBalance'
      <4>1. free' = free + (IF i \in InFlight THEN 1 ELSE 0)
                         - (IF "sleep" \in {"new", "queued", "done"} THEN 0 ELSE 1)
        BY <1>1, <1>2, <2>4
      <4>. QED
        BY <2>4, <4>1, PermitsMove
    <3>4. BatchTypes'
      BY <1>0, <2>1, <2>3, <2>4 DEF BatchTypes
    <3>5. Alone(i)
      BY <2>1, <2>3, <2>4, <3>1 DEF Alone
    <3>. QED
      BY <1>1, <2>3, <3>2, <3>3, <3>4, <3>5, ItemStep
  <2>5. CASE Raised(i) /\ free' = free + 1
    <3>1. Alone(i)
      BY <2>1, <2>3, <2>5 DEF Alone, Raised, BatchInv, RetryInv, RetryTypes, BatchTypes
    <3>2. step[i] \notin {"new", "done"} /\ free' = IF step[i] = "queued" THEN free ELSE free + 1
      BY <1>1, <2>5
    <3>. QED
      BY <2>1, <2>3, <2>5, <3>1, <3>2, ErrorListed
  <2>. QED
    BY <2>2, <2>4, <2>5
<1>. QED
  BY <1>3, <1>4

LEMMA Ends ==
  ASSUME BatchInv, RetryInv', Return \/ Cancel
  PROVE  BatchInv'
<1>0. BatchTypes /\ batch = "running"
  BY DEF BatchInv, Return, AllDone, Cancel
<1>1. UNCHANGED <<stopOnError, stop, dests, todo, accepted, reported, copies, lost, answered>>
  BY DEF Return, Cancel, control, itemVars, history
<1>2. /\ \A i \in Items : step'[i] = "done"
      /\ Return => \A i \in Items : step[i] = "done"
      /\ Return => UNCHANGED <<free, step>>
      /\ Cancel => batch' = "cancelled" /\ free' = free + Cardinality(InFlight)
  BY DEF Return, AllDone, Cancel, itemVars
<1>3. IsFiniteSet(InFlight)
  <2>1. IsFiniteSet(Items)
    BY PublishAssumption, FS_Interval DEF Items
  <2>2. InFlight \in SUBSET Items
    BY DEF InFlight
  <2>. QED
    BY <2>1, <2>2, FS_Subset
<1>4. free \in Nat /\ Cardinality(InFlight) \in Nat
  BY <1>0, <1>3, FS_CardinalityType DEF BatchTypes
<1>5. InFlight' = {} /\ Cardinality({}) = 0
  BY <1>2, FS_EmptySet DEF InFlight
<1>6. PermitsBalance' /\ free' \in Nat
  <2>1. PICK n \in Concurrencies : free + Cardinality(InFlight) = n
    BY DEF BatchInv, PermitsBalance
  <2>2. CASE Return
    BY <1>2, <1>4, <2>1, <2>2 DEF PermitsBalance, InFlight
  <2>3. CASE Cancel
    <3>1. free' = n /\ n \in Nat
      BY <1>2, <1>4, <2>1, <2>3
    <3>2. free' + Cardinality(InFlight') = n
      BY <1>5, <3>1
    <3>. QED
      BY <2>1, <3>1, <3>2 DEF PermitsBalance
  <2>. QED
    BY <2>2, <2>3
<1>7. BatchTypes'
  BY <1>0, <1>1, <1>6 DEF BatchTypes
<1>8. ASSUME NEW i \in Items
      PROVE  Placed(i)' /\ Sent(i)' /\ ItemAt(i)' /\ Skipped(i)'
  <2>1. Placed(i) /\ Sent(i) /\ ItemAt(i) /\ Skipped(i)
    BY DEF BatchInv
  <2>2. Passed(i)' = Passed(i) /\ step'[i] = "done"
    BY <1>1, <1>2 DEF Passed
  <2>3. Placed(i)'
    BY <1>1, <2>1, <2>2 DEF Placed
  <2>4. \A d : (Has(i, d)' <=> Has(i, d)) /\ (Settles(i, d)' <=> Settles(i, d))
    BY <1>1 DEF Settles, Has
  <2>5. Sent(i)'
    BY <1>1, <2>1, <2>2, <2>4 DEF Sent
  <2>6. ItemAt(i)'
    BY <1>1, <2>1, <2>2 DEF ItemAt, InFlight, Trying
  <2>7. Skipped(i)'
    BY <1>0, <1>1, <1>2, <2>1, <2>2 DEF Skipped
  <2>. QED
    BY <2>3, <2>5, <2>6, <2>7
<1>. QED
  BY <1>2, <1>6, <1>7, <1>8 DEF BatchInv

LEMMA BatchStep ==
  ASSUME BatchInv, PublishNext \/ UNCHANGED batchVars
  PROVE  BatchInv'
<1>1. RetryInv'
  BY RetryStep DEF BatchInv
<1>2. CASE \E i \in Items : Progress(i) \/ Failure(i)
  BY <1>1, <1>2, NewItem, WaySteps, Errors, Results, AttemptSteps DEF Progress, Failure
<1>3. CASE Tick \/ UNCHANGED batchVars
  <2>1. UNCHANGED <<stopOnError, free, batch, stop, step, dests, todo, accepted, reported, copies,
                    lost, answered>>
    BY <1>3 DEF Tick, batchVars, control, itemVars, history
  <2>2. BatchTypes' /\ PermitsBalance' /\ batch' = batch
    BY <2>1 DEF BatchInv, BatchTypes, PermitsBalance, InFlight
  <2>3. ASSUME NEW i \in Items
        PROVE  Placed(i)' /\ Sent(i)' /\ ItemAt(i)' /\ Skipped(i)'
    <3>1. Placed(i) /\ Sent(i) /\ ItemAt(i) /\ Skipped(i)
      BY DEF BatchInv
    <3>2. Passed(i)' = Passed(i) /\ Head1(i)' = Head1(i)
      BY <2>1 DEF Passed, Head1
    <3>3. Placed(i)'
      BY <2>1, <3>1, <3>2 DEF Placed
    <3>4. \A d : (Has(i, d)' <=> Has(i, d)) /\ (Settles(i, d)' <=> Settles(i, d))
      BY <2>1 DEF Settles, Has
    <3>5. Sent(i)'
      BY <2>1, <3>1, <3>2, <3>4 DEF Sent
    <3>6. ItemAt(i)' /\ Skipped(i)'
      BY <2>1, <3>1, <3>2, <3>4 DEF ItemAt, InFlight, Skipped
    <3>. QED
      BY <3>3, <3>5, <3>6
  <2>. QED
    BY <1>1, <2>1, <2>2, <2>3 DEF BatchInv
<1>. QED
  BY <1>1, <1>2, <1>3, Ends DEF PublishNext

LEMMA BatchReports == BatchInv => ReportsAreTrue
<1>. SUFFICES ASSUME BatchInv PROVE ReportsAreTrue
  OBVIOUS
<1>1. PublishTypeOK
  BY DEF BatchInv, BatchTypes, RetryInv, RetryTypes, PublishTypeOK
<1>2. \E n \in Concurrencies : free + Cardinality(InFlight) = n
  BY DEF BatchInv, PermitsBalance
<1>3. ASSUME NEW i \in Items
      PROVE  LET held == {d \in Destinations : copies[i][d] > 0}
                 reached == {dests[i][n] : n \in {k \in DOMAIN dests[i] : k <= Passed(i) + 1}}
             IN  /\ \A n \in 1..Passed(i) :
                      \/ dests[i][n] \in held
                      \/ \E yes \in BOOLEAN : <<dests[i][n], yes>> \in answered[i]
                 /\ held \subseteq reached
                 /\ \A d \in held : copies[i][d] <= lost[i][d] + 1
                 /\ accepted[i] /\ reported[i] = "result" =>
                      \A d \in Range(dests[i]) : d \in held \/ <<d, TRUE>> \in answered[i]
                 /\ batch = "returned" /\ reported[i] = "none" => stopOnError /\ stop /\ held = {}
  <2>. DEFINE held == {d \in Destinations : copies[i][d] > 0}
              reached == {dests[i][n] : n \in {k \in DOMAIN dests[i] : k <= Passed(i) + 1}}
  <2>1. Placed(i) /\ Sent(i) /\ ItemAt(i) /\ Skipped(i) /\ BatchTypes
    BY DEF BatchInv
  <2>2. /\ dests[i] \in Seq(Destinations) /\ todo[i] \in Seq(Destinations)
        /\ Len(dests[i]) \in Nat /\ Len(todo[i]) \in Nat /\ DOMAIN dests[i] = 1..Len(dests[i])
        /\ \A n \in 1..Len(dests[i]) : dests[i][n] \in Destinations
    BY <2>1 DEF BatchTypes
  <2>3. Passed(i) \in Int /\ Passed(i) <= Len(dests[i])
    <3>. DEFINE a == Len(dests[i])
                b == Len(todo[i])
    <3>1. a \in Nat /\ b \in Nat /\ Passed(i) = a - b
      BY <2>2 DEF Passed
    <3>. HIDE DEF a, b
    <3>2. Passed(i) \in Int /\ Passed(i) <= a
      BY <3>1
    <3>. QED
      BY <3>2 DEF a
  <2>4. \A n \in 1..Passed(i) : n \in 1..Len(dests[i])
    BY <2>2, <2>3
  <2>5. \A n \in 1..Passed(i) :
          \/ dests[i][n] \in held
          \/ \E yes \in BOOLEAN : <<dests[i][n], yes>> \in answered[i]
    BY <2>1, <2>2, <2>4 DEF Sent, Settles, Has
  <2>6. held \subseteq reached
    BY <2>1, <2>2 DEF Sent, Has
  <2>7. \A d \in held : copies[i][d] <= lost[i][d] + 1
    BY <2>1 DEF Sent
  <2>8. ASSUME accepted[i], reported[i] = "result", NEW d \in Range(dests[i])
        PROVE  d \in held \/ <<d, TRUE>> \in answered[i]
    <3>1. PICK n \in 1..Len(dests[i]) : dests[i][n] = d
      BY <2>2 DEF Range
    <3>2. Passed(i) = Len(dests[i])
      <4>1. Len(todo[i]) = 0
        BY <2>1, <2>8 DEF ItemAt
      <4>. QED
        BY <2>2, <4>1 DEF Passed
    <3>3. Settles(i, d) /\ d \in Destinations
      BY <2>1, <2>2, <3>1, <3>2 DEF Sent
    <3>. QED
      BY <2>8, <3>3 DEF Settles, Has
  <2>9. ASSUME batch = "returned", reported[i] = "none"
        PROVE  stopOnError /\ stop /\ held = {}
    <3>1. step[i] = "done"
      BY <2>9 DEF BatchInv
    <3>2. stopOnError /\ stop /\ dests[i] = <<>>
      BY <2>1, <2>9, <3>1 DEF Skipped
    <3>3. Len(dests[i]) = 0
      BY <3>2
    <3>4. \A d \in Destinations : ~Has(i, d)
      BY <2>1, <3>3 DEF Sent
    <3>. QED
      BY <3>2, <3>4 DEF Has
  <2>. QED
    BY <2>5, <2>6, <2>7, <2>8, <2>9
<1>. QED
  BY <1>1, <1>2, <1>3 DEF ReportsAreTrue

(* What publish and publish_batch report is what the destinations hold,    *)
(* and no permit of the semaphore is lost or released twice.               *)
THEOREM ReportsStayTrue == Spec => []ReportsAreTrue
<1>1. Init => BatchInv
  BY BatchStarts DEF Init
<1>2. BatchInv /\ [Next]_vars => BatchInv'
  BY PartSteps, BatchStep
<1>. QED
  BY <1>1, <1>2, BatchReports, PTL DEF Spec
(* Of the items in one stage, one is the first.                            *)
LEMMA FirstItem ==
  ASSUME NEW s, \E i \in Items : step[i] = s
  PROVE  \E i \in Items : step[i] = s /\ \A j \in Items : j < i => step[j] # s
<1>. DEFINE at_ == {i \in Items : step[i] = s}
<1>1. at_ \subseteq Nat /\ at_ # {}
  BY DEF Items
<1>2. PICK i \in at_ : \A j \in at_ : i <= j
  BY <1>1, MinimumIsLeast
<1>3. \A j \in Items : j < i => step[j] # s
  BY <1>1, <1>2
<1>. QED
  BY <1>2, <1>3

LEMMA BatchGoesOn == BatchInv => BatchEnds
<1>. SUFFICES ASSUME BatchInv, batch = "running"
              PROVE  AllDone \/ TimeMayPass \/ \E i \in Items : MayGoOn(i)
  BY DEF BatchEnds
<1>0. RetryTypes /\ BatchTypes /\ PermitsBalance
  BY DEF BatchInv, RetryInv
<1>1. CASE \E i \in Items : step[i] \in {"engine", "layers", "attempt", "emit"}
  BY <1>1 DEF MayGoOn
<1>2. CASE \A i \in Items : step[i] \in {"new", "queued", "sleep", "done"}
  <2>1. CASE \E i \in Items : step[i] = "sleep"
    <3>1. Timed # {}
      BY <2>1 DEF Timed
    <3>2. \A i \in Timed : step[i] = "sleep" /\ timer[i] \in Nat
      BY <1>0, <1>2 DEF Timed, RetryTypes
    <3>3. CASE \A i \in Timed : timer[i] > 0
      BY <3>1, <3>3 DEF TimeMayPass
    <3>4. CASE ~\A i \in Timed : timer[i] > 0
      <4>1. PICK i \in Timed : ~(timer[i] > 0)
        BY <3>4
      <4>2. i \in Items /\ step[i] = "sleep" /\ timer[i] = 0
        BY <3>2, <4>1 DEF Timed
      <4>. QED
        BY <4>2 DEF MayGoOn
    <3>. QED
      BY <3>3, <3>4
  <2>2. CASE /\ \A i \in Items : step[i] # "sleep"
             /\ \E i \in Items : step[i] = "queued"
    <3>1. PICK i \in Items : step[i] = "queued" /\ \A j \in Items : j < i => step[j] # "queued"
      BY <2>2, FirstItem
    <3>2. InFlight = {}
      BY <1>2, <2>2 DEF InFlight
    <3>3. free > 0
      <4>1. PICK n \in Concurrencies : free + Cardinality(InFlight) = n
        BY <1>0 DEF PermitsBalance
      <4>2. Cardinality(InFlight) = 0 /\ n \in Nat \ {0} /\ free \in Nat
        BY <1>0, <3>2, FS_EmptySet, PublishAssumption DEF BatchTypes
      <4>. QED
        BY <4>1, <4>2
    <3>. QED
      BY <3>1, <3>3 DEF MayGoOn, MayEnter
  <2>3. CASE /\ \A i \in Items : step[i] \in {"new", "done"}
             /\ \E i \in Items : step[i] = "new"
    <3>1. PICK i \in Items : step[i] = "new" /\ \A j \in Items : j < i => step[j] # "new"
      BY <2>3, FirstItem
    <3>. QED
      BY <3>1 DEF MayGoOn, MayStart
  <2>. QED
    BY <1>2, <2>1, <2>2, <2>3 DEF AllDone
<1>. QED
  BY <1>0, <1>1, <1>2 DEF RetryTypes, Untimed

(* Tuples of six numbers, compared from the first.                         *)
LEMMA SixLess ==
  ASSUME NEW a1, NEW a2, NEW a3, NEW a4, NEW a5, NEW a6,
         NEW b1, NEW b2, NEW b3, NEW b4, NEW b5, NEW b6,
         \/ a1 < b1
         \/ a1 = b1 /\ a2 < b2
         \/ a1 = b1 /\ a2 = b2 /\ a3 < b3
         \/ a1 = b1 /\ a2 = b2 /\ a3 = b3 /\ a4 < b4
         \/ a1 = b1 /\ a2 = b2 /\ a3 = b3 /\ a4 = b4 /\ a5 < b5
         \/ a1 = b1 /\ a2 = b2 /\ a3 = b3 /\ a4 = b4 /\ a5 = b5 /\ a6 < b6
  PROVE  LexLess(<<a1, a2, a3, a4, a5, a6>>, <<b1, b2, b3, b4, b5, b6>>)
<1>. DEFINE a == <<a1, a2, a3, a4, a5, a6>>
            b == <<b1, b2, b3, b4, b5, b6>>
<1>1. /\ DOMAIN a = 1..6 /\ a[1] = a1 /\ a[2] = a2 /\ a[3] = a3 /\ a[4] = a4 /\ a[5] = a5
      /\ a[6] = a6
  OBVIOUS
<1>2. b[1] = b1 /\ b[2] = b2 /\ b[3] = b3 /\ b[4] = b4 /\ b[5] = b5 /\ b[6] = b6
  OBVIOUS
<1>. HIDE DEF a, b
<1>3. \E n \in 1..6 : a[n] < b[n] /\ \A m \in 1..(n - 1) : a[m] = b[m]
  BY <1>1, <1>2
<1>4. LexLess(a, b)
  BY <1>1, <1>3 DEF LexLess
<1>. QED
  BY <1>4 DEF a, b

LEMMA SameLeft ==
  ASSUME NEW i \in Items, step'[i] = step[i], todo'[i] = todo[i], attempt'[i] = attempt[i],
         timer'[i] = timer[i]
  PROVE  Left(i)' = Left(i)
BY DEF Left

(* The ways in which an item gets ahead.                                   *)
LEMMA LessLeft ==
  ASSUME BatchInv, RetryTypes', NEW i \in Items,
         \/ step[i] # "done" /\ step'[i] = "done"
         \/ step[i] = "new" /\ step'[i] = "queued"
         \/ step[i] = "queued" /\ step'[i] = "engine"
         \/ step[i] \in {"layers", "emit"} /\ step'[i] = "engine" /\ Len(todo'[i]) < Len(todo[i])
         \/ /\ todo'[i] = todo[i]
            /\ \/ step[i] = "engine" /\ step'[i] = "layers"
               \/ step[i] = "layers" /\ step'[i] = "attempt"
               \/ step[i] = "attempt" /\ step'[i] = "emit"
               \/ step[i] = "attempt" /\ step'[i] = "sleep" /\ attempt'[i] = attempt[i]
               \/ step[i] = "sleep" /\ step'[i] = "attempt" /\ attempt'[i] = attempt[i] + 1
               \/ step'[i] = step[i] /\ attempt'[i] = attempt[i] /\ timer'[i] < timer[i]
  PROVE  LexLess(Left(i)', Left(i))
<1>1. /\ attempt[i] \in 0..MaxAttempts /\ attempt'[i] \in 0..MaxAttempts /\ MaxAttempts \in Nat
      /\ timer[i] \in Nat /\ timer'[i] \in Nat
  BY PublishAssumption DEF BatchInv, RetryInv, RetryTypes
<1>. DEFINE stage(s) == CASE s = "new" -> 3 [] s = "queued" -> 2 [] s = "done" -> 0 [] OTHER -> 1
            phase_(s) == CASE s = "engine" -> 3 [] s = "layers" -> 2
                           [] s \in {"attempt", "sleep"} -> 1 [] OTHER -> 0
            over(s) == IF s = "attempt" THEN 1 ELSE 0
<1>2. /\ Left(i) = <<stage(step[i]), Len(todo[i]), phase_(step[i]), MaxAttempts - attempt[i],
                     over(step[i]), timer[i]>>
      /\ Left(i)' = <<stage(step'[i]), Len(todo'[i]), phase_(step'[i]),
                      MaxAttempts - attempt'[i], over(step'[i]), timer'[i]>>
  BY Zenon DEF Left
<1>3. \/ stage(step'[i]) < stage(step[i])
      \/ stage(step'[i]) = stage(step[i]) /\ Len(todo'[i]) < Len(todo[i])
      \/ /\ stage(step'[i]) = stage(step[i]) /\ Len(todo'[i]) = Len(todo[i])
         /\ phase_(step'[i]) < phase_(step[i])
      \/ /\ stage(step'[i]) = stage(step[i]) /\ Len(todo'[i]) = Len(todo[i])
         /\ phase_(step'[i]) = phase_(step[i])
         /\ MaxAttempts - attempt'[i] < MaxAttempts - attempt[i]
      \/ /\ stage(step'[i]) = stage(step[i]) /\ Len(todo'[i]) = Len(todo[i])
         /\ phase_(step'[i]) = phase_(step[i])
         /\ MaxAttempts - attempt'[i] = MaxAttempts - attempt[i]
         /\ over(step'[i]) < over(step[i])
      \/ /\ stage(step'[i]) = stage(step[i]) /\ Len(todo'[i]) = Len(todo[i])
         /\ phase_(step'[i]) = phase_(step[i])
         /\ MaxAttempts - attempt'[i] = MaxAttempts - attempt[i]
         /\ over(step'[i]) = over(step[i]) /\ timer'[i] < timer[i]
  <2>. DEFINE s == step[i]
              t == step'[i]
              a == attempt[i]
              b == attempt'[i]
              m == Len(todo[i])
              n == Len(todo'[i])
  <2>1. CASE \/ s # "done" /\ t = "done"
             \/ s = "new" /\ t = "queued"
             \/ s = "queued" /\ t = "engine"
    BY <2>1
  <2>2. CASE s \in {"layers", "emit"} /\ t = "engine" /\ n < m
    BY <2>2
  <2>3. CASE /\ todo'[i] = todo[i]
             /\ \/ s = "engine" /\ t = "layers"
                \/ s = "layers" /\ t = "attempt"
                \/ s = "attempt" /\ t = "emit"
    BY <2>3
  <2>4. CASE todo'[i] = todo[i] /\ s = "attempt" /\ t = "sleep" /\ b = a
    BY <2>4
  <2>5. CASE todo'[i] = todo[i] /\ s = "sleep" /\ t = "attempt" /\ b = a + 1
    <3>. HIDE DEF a, b
    <3>1. a \in Nat /\ b \in Nat /\ MaxAttempts \in Nat
      BY <1>1 DEF a, b
    <3>2. MaxAttempts - b < MaxAttempts - a
      BY <2>5, <3>1
    <3>3. stage(t) = stage(s) /\ phase_(t) = phase_(s) /\ n = m
      BY <2>5
    <3>. QED
      BY <3>2, <3>3 DEF a, b
  <2>6. CASE todo'[i] = todo[i] /\ t = s /\ b = a /\ timer'[i] < timer[i]
    BY <2>6
  <2>. QED
    BY <2>1, <2>2, <2>3, <2>4, <2>5, <2>6
<1>. HIDE DEF stage, phase_, over
<1>4. LexLess(<<stage(step'[i]), Len(todo'[i]), phase_(step'[i]), MaxAttempts - attempt'[i],
                over(step'[i]), timer'[i]>>,
              <<stage(step[i]), Len(todo[i]), phase_(step[i]), MaxAttempts - attempt[i],
                over(step[i]), timer[i]>>)
  BY <1>3, SixLess, SMT
<1>. QED
  BY <1>2, <1>4, Zenon

\* Item i gets ahead, the others stay.
ItemAhead(i) ==
  /\ LexLess(Left(i)', Left(i))
  /\ \A j \in Items : Left(j)' = Left(j) \/ LexLess(Left(j)', Left(j))

LEMMA OneAhead ==
  ASSUME NEW i \in Items, LexLess(Left(i)', Left(i)),
         \A j \in Items \ {i} : /\ step'[j] = step[j] /\ todo'[j] = todo[j]
                                /\ attempt'[j] = attempt[j] /\ timer'[j] = timer[j]
  PROVE  ItemAhead(i)
BY SameLeft DEF ItemAhead

LEMMA ItemGetsAhead ==
  ASSUME BatchInv, RetryTypes', NEW i \in Items, Progress(i) \/ Failure(i)
  PROVE  batch = "running" /\ UNCHANGED batch /\ ItemAhead(i)
<1>0. RetryTypes /\ BatchTypes /\ TimersEnd
  BY DEF BatchInv, RetryInv
<1>1. step[i] # "done" /\ UNCHANGED batch
  BY DEF Progress, Failure, StartItem, EnterSemaphore, GotEngine, CallTerminal, AttemptReturns,
    Wake, Emitted, EnvelopeFails, EngineFails, LayerAnswers, LayerFails, AttemptFails,
    ListenerRaises, MayStart, MayEnter
<1>2. batch = "running"
  BY <1>1 DEF BatchInv
<1>3. CASE StartItem(i) \/ EnvelopeFails(i) \/ EnterSemaphore(i) \/ GotEngine(i)
  <2>1. /\ \A j \in Items \ {i} : /\ step'[j] = step[j] /\ todo'[j] = todo[j]
                                  /\ attempt'[j] = attempt[j] /\ timer'[j] = timer[j]
        /\ step[i] = "new" => step'[i] \in {"queued", "done"}
        /\ step[i] = "queued" => step'[i] \in {"engine", "done"}
        /\ step[i] = "engine" => step'[i] = "layers" /\ todo'[i] = todo[i]
        /\ step[i] \in {"new", "queued", "engine"}
    BY <1>0, <1>3 DEF StartItem, EnvelopeFails, EnterSemaphore, GotEngine, MayStart, MayEnter,
      RetryTypes, BatchTypes
  <2>2. LexLess(Left(i)', Left(i))
    BY <2>1, LessLeft
  <2>. QED
    BY <1>1, <1>2, <2>1, <2>2, OneAhead
<1>4. CASE CallTerminal(i) \/ AttemptReturns(i) \/ Wake(i)
  <2>1. /\ \A j \in Items \ {i} : /\ step'[j] = step[j] /\ todo'[j] = todo[j]
                                  /\ attempt'[j] = attempt[j] /\ timer'[j] = timer[j]
        /\ todo'[i] = todo[i]
        /\ \/ step[i] = "layers" /\ step'[i] = "attempt"
           \/ step[i] = "attempt" /\ step'[i] = "emit"
           \/ step[i] = "sleep" /\ step'[i] = "attempt" /\ attempt'[i] = attempt[i] + 1
    BY <1>0, <1>4 DEF CallTerminal, AttemptReturns, Wake, RetryTypes
  <2>2. LexLess(Left(i)', Left(i))
    BY <2>1, LessLeft
  <2>. QED
    BY <1>1, <1>2, <2>1, <2>2, OneAhead
<1>5. CASE Emitted(i) \/ LayerAnswers(i)
  <2>1. /\ step[i] \in {"emit", "layers"} /\ UNCHANGED <<attempt, timer>>
        /\ todo' = [todo EXCEPT ![i] = Tail(@)]
        /\ IF Len(todo[i]) = 1 THEN step' = [step EXCEPT ![i] = "done"]
                               ELSE step' = [step EXCEPT ![i] = "engine"]
    BY <1>5 DEF Emitted, LayerAnswers, Result
  <2>2. /\ todo[i] # <<>> /\ todo[i] \in Seq(Destinations)
    BY <1>0, <2>1 DEF BatchInv, ItemAt, InFlight, BatchTypes
  <2>3. Len(Tail(todo[i])) < Len(todo[i])
    BY <2>2
  <2>4. /\ \A j \in Items \ {i} : /\ step'[j] = step[j] /\ todo'[j] = todo[j]
                                  /\ attempt'[j] = attempt[j] /\ timer'[j] = timer[j]
        /\ todo'[i] = Tail(todo[i]) /\ step'[i] \in {"engine", "done"}
    BY <1>0, <2>1 DEF RetryTypes, BatchTypes
  <2>5. LexLess(Left(i)', Left(i))
    BY <1>1, <2>1, <2>3, <2>4, LessLeft
  <2>. QED
    BY <1>1, <1>2, <2>4, <2>5, OneAhead
<1>6. CASE EngineFails(i) \/ LayerFails(i) \/ ListenerRaises(i) \/ AttemptFails(i)
  <2>1. /\ UNCHANGED <<todo, attempt>>
        /\ \/ step' = [step EXCEPT ![i] = "done"]
           \/ step[i] = "attempt" /\ step' = [step EXCEPT ![i] = "sleep"]
        /\ \E n : timer' = [timer EXCEPT ![i] = n]
    BY <1>6 DEF EngineFails, LayerFails, ListenerRaises, AttemptFails, Raise
  <2>2. /\ \A j \in Items \ {i} : /\ step'[j] = step[j] /\ todo'[j] = todo[j]
                                  /\ attempt'[j] = attempt[j] /\ timer'[j] = timer[j]
        /\ todo'[i] = todo[i] /\ attempt'[i] = attempt[i]
        /\ \/ step'[i] = "done"
           \/ step[i] = "attempt" /\ step'[i] = "sleep"
    BY <1>0, <2>1 DEF RetryTypes
  <2>3. LexLess(Left(i)', Left(i))
    BY <1>1, <2>2, LessLeft
  <2>. QED
    BY <1>1, <1>2, <2>2, <2>3, OneAhead
<1>. QED
  BY <1>1, <1>2, <1>3, <1>4, <1>5, <1>6 DEF Progress, Failure

\* What a step of the batch does to what its items have before them.
StepAhead ==
  /\ batch = "running" \/ UNCHANGED <<batch, step>>
  /\ \A i \in Items : Left(i)' = Left(i) \/ LexLess(Left(i)', Left(i))
  /\ batch' = batch => \E i \in Items : LexLess(Left(i)', Left(i))

LEMMA BatchGetsAhead ==
  ASSUME BatchInv, PublishNext
  PROVE  StepAhead
<1>0. RetryTypes /\ BatchTypes /\ RetryTypes'
  BY RetryStep DEF BatchInv, RetryInv
<1>1. CASE \E i \in Items : Progress(i) \/ Failure(i)
  BY <1>0, <1>1, ItemGetsAhead DEF ItemAhead, StepAhead
<1>2. CASE Tick
  <2>1. /\ UNCHANGED <<batch, step, todo, attempt>> /\ Timed # {}
        /\ \A i \in Timed : timer[i] \in Nat /\ timer'[i] = timer[i] - 1
        /\ \A i \in Items \ Timed : timer'[i] = timer[i]
    BY <1>0, <1>2 DEF Tick, TimeMayPass, RetryTypes, Timed
  <2>2. \A i \in Timed : LexLess(Left(i)', Left(i))
    BY <1>0, <2>1, LessLeft DEF Timed
  <2>3. \A i \in Items \ Timed : Left(i)' = Left(i)
    BY <2>1, SameLeft
  <2>4. batch = "running"
    BY <2>1 DEF BatchInv, Timed
  <2>. QED
    BY <2>1, <2>2, <2>3, <2>4 DEF StepAhead, Timed
<1>3. CASE Return
  BY <1>3, SameLeft DEF Return, itemVars, StepAhead
<1>4. CASE Cancel
  <2>1. /\ batch = "running" /\ batch' # batch /\ UNCHANGED <<todo, attempt>>
        /\ \A i \in Items : step'[i] = "done" /\ timer'[i] = 0
    BY <1>4 DEF Cancel
  <2>2. ASSUME NEW i \in Items
        PROVE  Left(i)' = Left(i) \/ LexLess(Left(i)', Left(i))
    <3>1. CASE step[i] # "done"
      BY <1>0, <2>1, <3>1, LessLeft
    <3>2. CASE step[i] = "done"
      <4>1. timer[i] = 0 \/ timer'[i] < timer[i]
        BY <1>0, <2>1 DEF RetryTypes
      <4>. QED
        BY <1>0, <2>1, <3>2, <4>1, LessLeft, SameLeft
    <3>. QED
      BY <3>1, <3>2
  <2>. QED
    BY <2>1, <2>2 DEF StepAhead
<1>. QED
  BY <1>1, <1>2, <1>3, <1>4 DEF PublishNext

(* A batch that runs can always go on without a failure: whatever raised,  *)
(* timed out or was skipped before, no permit is missing and no item waits *)
(* for another for ever (publish_batch).                                   *)
THEOREM BatchesGoOn == Spec => []BatchEnds
<1>1. Init => BatchInv
  BY BatchStarts DEF Init
<1>2. BatchInv /\ [Next]_vars => BatchInv'
  BY PartSteps, BatchStep
<1>. QED
  BY <1>1, <1>2, BatchGoesOn, PTL DEF Spec

(* Every step of a batch leaves its items less to do, in an order without  *)
(* infinite descent, so publish_batch ends after finitely many of them.    *)
THEOREM BatchesEnd == Spec => BatchStepsAhead
<1>1. Init => BatchInv
  BY BatchStarts DEF Init
<1>2. BatchInv /\ [Next]_vars => BatchInv'
  BY PartSteps, BatchStep
<1>3. BatchInv /\ [Next]_vars => [StepAhead]_batchVars
  BY PartSteps, BatchGetsAhead
<1>. QED
  BY <1>1, <1>2, <1>3, PTL DEF Spec, BatchStepsAhead, StepAhead

=============================================================================
