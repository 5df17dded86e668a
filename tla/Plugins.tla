------------------------------- MODULE Plugins -------------------------------
(***************************************************************************)
(* The registries of providers: EngineRegistry (broka.registry) with       *)
(* discover_engines (broka.discovery), PluginRegistry (broka.plugins) with *)
(* register_discovered_plugins, and SerializerRegistry                     *)
(* (broka.serialization).  The first two keep lazily loaded entries;       *)
(* catalog says which one a behaviour is about.  No operation awaits, and  *)
(* those of SerializerRegistry hold its lock, so each is one action.       *)
(* Names are numbers, in the order of their names; Memory is "memory".     *)
(***************************************************************************)
EXTENDS Integers, Sequences, FiniteSets, SequencesExt

CONSTANTS
  Providers,     \* names of engines or plugins
  Memory,
  Priorities,    \* priorities declared and of engine classes
  SerializerNames, ContentTypes,
  Instances,     \* tell serializer objects of one name and type apart
  NoProvider,
  MaxEntries     \* bound: entries ever added

ASSUME PluginAssumption ==
  /\ Providers \subseteq Nat /\ Memory \in Providers
  /\ NoProvider \notin Providers \cup SerializerNames
  /\ NoProvider \notin [type : ContentTypes, instance : Instances]
  /\ NoProvider \notin [declared : Priorities, own : Priorities, loaded : BOOLEAN, seq : Nat]
  /\ Priorities \subseteq Int /\ 0 \in Priorities /\ MaxEntries \in Nat

VARIABLES
  catalog,       \* "engines" or "plugins"
  entries,       \* entry of each name, or NoProvider
  added,         \* _sequence
  loads,         \* history: times the loader of the entry returned
  picked,        \* history: the last selection: its name, the candidates, memory allowed
  serializers,   \* [type, instance] of each name, or NoProvider
  contentTypes,  \* name that owns each content type, or NoProvider
  default,       \* name of the default serializer, or NoProvider
  known          \* history: names under which a serializer has been registered

catalogVars == <<catalog, entries, added, loads, picked>>
serializerVars == <<serializers, contentTypes, default, known>>
pluginVars == <<catalogVars, serializerVars>>

Entered == {n \in Providers : entries[n] # NoProvider}

-----------------------------------------------------------------------------
(* Adding entries                                                          *)

Entry(declared, own, loaded) ==
  [declared |-> declared, own |-> own, loaded |-> loaded, seq |-> added + 1]

\* _add_entry: a name that is taken is refused.
AddEntry(n, entry) ==
  /\ n \notin Entered /\ added < MaxEntries
  /\ entries' = [entries EXCEPT ![n] = entry]
  /\ loads' = [loads EXCEPT ![n] = 0]
  /\ added' = added + 1
  /\ UNCHANGED <<catalog, picked>>

RegisterEngine ==
  /\ catalog = "engines"
  /\ \E n \in Providers, own \in Priorities : AddEntry(n, Entry(own, own, TRUE))

\* The priority of the class is not known before it is loaded.
RegisterLazy ==
  /\ catalog = "engines"
  /\ \E n \in Providers, declared, own \in Priorities : AddEntry(n, Entry(declared, own, FALSE))

RegisterPlugin ==
  /\ catalog = "plugins"
  /\ \E n \in Providers, loaded \in BOOLEAN : AddEntry(n, Entry(0, 0, loaded))

\* register_lazy for each descriptor in the order of the names: a name that is
\* taken is skipped or ends the discovery with an error, what it has added stays.
DiscoverNext(acc, n, own, skip) ==
  IF acc.raised \/ (acc.entries[n] # NoProvider /\ skip) THEN acc
  ELSE IF acc.entries[n] # NoProvider
         THEN [entries |-> acc.entries, seq |-> acc.seq, raised |-> TRUE]
  ELSE [entries |-> [acc.entries EXCEPT ![n] = [declared |-> 0, own |-> own, loaded |-> FALSE,
                                                seq |-> acc.seq + 1]],
        seq |-> acc.seq + 1, raised |-> FALSE]

\* Two descriptors, of two names or of the same one.
Discover(own) ==
  /\ added + 2 <= MaxEntries
  /\ \E n, m \in Providers, ignoreRegistered \in BOOLEAN :
       LET before == [entries |-> entries, seq |-> added, raised |-> FALSE]
           after == DiscoverNext(DiscoverNext(before, n, own, ignoreRegistered), m, own,
                                 ignoreRegistered)
       IN  /\ n <= m
           /\ entries' = after.entries
           /\ added' = after.seq
           /\ loads' = [p \in Providers |-> IF after.entries[p] # entries[p] THEN 0 ELSE loads[p]]
  /\ UNCHANGED <<catalog, picked>>

DiscoverEngines == catalog = "engines" /\ \E own \in Priorities : Discover(own)

DiscoverPlugins == catalog = "plugins" /\ Discover(0)

UnregisterEntry ==
  /\ \E n \in Entered :
       /\ entries' = [entries EXCEPT ![n] = NoProvider]
       /\ loads' = [loads EXCEPT ![n] = 0]
  /\ UNCHANGED <<catalog, added, picked>>

-----------------------------------------------------------------------------
(* Loading and selecting                                                   *)

\* The entries that the loaders of the names in S leave, where those of the names
\* in broken raise or return what is no engine.
Load(S, broken) ==
  LET due == {n \in S \ broken : ~entries[n].loaded}
  IN  /\ entries' = [n \in Providers |-> IF n \in due THEN [entries[n] EXCEPT !.loaded = TRUE]
                                         ELSE entries[n]]
      /\ loads' = [n \in Providers |-> IF n \in due THEN loads[n] + 1 ELSE loads[n]]

ResolvePlugin ==
  /\ catalog = "plugins"
  /\ \E n \in Entered : \E broken \in SUBSET {n} : Load({n}, broken)
  /\ UNCHANGED <<catalog, added, picked>>

Candidate(n) == [name |-> n, priority |-> entries[n].own, seq |-> entries[n].seq]

\* resolve and _require_available: an engine by its name, or an error.
RequireAvailable ==
  /\ catalog = "engines"
  /\ \E n \in Entered, broken, available \in BOOLEAN :
       /\ Load({n}, IF broken THEN {n} ELSE {})
       /\ picked' = IF available /\ (entries[n].loaded \/ ~broken)
                      THEN [name |-> n, able |-> {Candidate(n)}, memory |-> TRUE] ELSE picked
  /\ UNCHANGED <<catalog, added>>

\* Faulty variant, for mutation: the declared priority counts.
DeclaredKey(n) == <<-entries[n].declared, entries[n].seq>>

\* (-priority, sequence), where a loaded class gives the priority.
SortKey(n) == <<-entries[n].own, entries[n].seq>>

First(S) ==
  CHOOSE n \in S : \A m \in S \ {n} :
    \/ SortKey(n)[1] < SortKey(m)[1]
    \/ SortKey(n)[1] = SortKey(m)[1] /\ SortKey(n)[2] < SortKey(m)[2]

\* select without a name: every entry is loaded and asked whether it is available.
Select ==
  /\ catalog = "engines"
  /\ \E allowMemory \in BOOLEAN, broken \in SUBSET {n \in Entered : ~entries[n].loaded},
        unavailable \in SUBSET Entered :
       LET asked == IF allowMemory THEN Entered ELSE Entered \ {Memory}
           able == asked \ (broken \cup unavailable)
       IN  /\ broken \cap unavailable = {}
           /\ Load(asked, broken)
           /\ picked' = IF able = {} THEN picked
                        ELSE [name |-> First(able), able |-> {Candidate(n) : n \in able},
                              memory |-> allowMemory]
  /\ UNCHANGED <<catalog, added>>

-----------------------------------------------------------------------------
(* Serializers                                                             *)

\* A name and a content type belong to one serializer each, unless replaced.
Free(n, s, replace) ==
  \/ replace
  \/ serializers[n] \in {NoProvider, s} /\ contentTypes[s.type] \in {NoProvider, n}

\* Faulty variant, for mutation: the former content type is kept.
KeepsFormerType(n) == contentTypes

WithoutFormerType(n) ==
  IF serializers[n] = NoProvider THEN contentTypes
  ELSE [contentTypes EXCEPT ![serializers[n].type] = NoProvider]

RegisterSerializer ==
  \E n \in SerializerNames, c \in ContentTypes, i \in Instances, replace, makeDefault \in BOOLEAN :
    LET s == [type |-> c, instance |-> i]
        owner == contentTypes[c]
        ousted == owner \notin {NoProvider, n}
        inherited == IF ousted /\ default = owner THEN n ELSE default
    IN  /\ Free(n, s, replace)
        /\ serializers' = [m \in SerializerNames |->
                             IF m = n THEN s ELSE IF ousted /\ m = owner THEN NoProvider
                             ELSE serializers[m]]
        /\ contentTypes' = [WithoutFormerType(n) EXCEPT ![c] = n]
        /\ default' = IF makeDefault \/ inherited = NoProvider THEN n ELSE inherited
        /\ known' = known \cup {n}

UnregisterSerializer ==
  \E n \in SerializerNames :
    /\ serializers[n] # NoProvider
    /\ serializers' = [serializers EXCEPT ![n] = NoProvider]
    /\ contentTypes' = [contentTypes EXCEPT ![serializers[n].type] = NoProvider]
    /\ default' = IF default = n THEN NoProvider ELSE default
    /\ UNCHANGED known

-----------------------------------------------------------------------------
\* The constructor takes any name for the default, or none; one that is not normalized is a
\* name under which nothing is ever registered.
PluginInit ==
  /\ catalog \in {"engines", "plugins"}
  /\ entries = [n \in Providers |-> NoProvider] /\ added = 0
  /\ loads = [n \in Providers |-> 0]
  /\ picked = [name |-> NoProvider, able |-> {}, memory |-> FALSE]
  /\ serializers = [n \in SerializerNames |-> NoProvider]
  /\ contentTypes = [c \in ContentTypes |-> NoProvider]
  /\ default \in SerializerNames \cup {NoProvider} /\ known = {}

CatalogNext ==
  \/ RegisterEngine \/ RegisterLazy \/ RegisterPlugin \/ DiscoverEngines \/ DiscoverPlugins
  \/ UnregisterEntry \/ ResolvePlugin \/ RequireAvailable \/ Select

SerializerNext == RegisterSerializer \/ UnregisterSerializer

-----------------------------------------------------------------------------
(* Properties                                                              *)

(* Whatever was registered lazily, discovered, loaded or removed before,   *)
(* selecting an engine yields one that could be loaded and is available,   *)
(* of the highest priority its class has, the first registered among       *)
(* equals, and memory only where it is allowed or asked for; a loader      *)
(* returns once in the life of an entry.                                   *)
SelectsBest ==
  /\ \A n \in Providers : loads[n] <= (IF n \in Entered /\ entries[n].loaded THEN 1 ELSE 0)
  /\ picked.name # NoProvider =>
       /\ picked.name = Memory => picked.memory
       /\ \E best \in picked.able :
            /\ best.name = picked.name
            /\ \A other \in picked.able \ {best} :
                 \/ other.priority < best.priority
                 \/ other.priority = best.priority /\ other.seq > best.seq

(* After any replacements and removals the two tables of the serializer    *)
(* registry agree, so that a content type leads to the one serializer that *)
(* declares it; and the default is a registered serializer, unless it is a *)
(* name given to the constructor under which none has been registered yet. *)
SerializersAgree ==
  /\ \A n \in SerializerNames :
       serializers[n] # NoProvider => contentTypes[serializers[n].type] = n
  /\ \A c \in ContentTypes : contentTypes[c] # NoProvider =>
       /\ serializers[contentTypes[c]] # NoProvider
       /\ serializers[contentTypes[c]].type = c
  /\ default \in known => serializers[default] # NoProvider

=============================================================================
