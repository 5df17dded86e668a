------------------------------- MODULE Health -------------------------------
(***************************************************************************)
(* Health reports (broka.observability.health): the checks of a            *)
(* HealthRegistry run at the same time while checks are registered,        *)
(* replaced and removed; HealthReport.from_components and with_component;  *)
(* and the reports of ConnectionManager.health and Broker.health.          *)
(***************************************************************************)
EXTENDS Integers, Sequences, FiniteSets, SequencesExt

CONSTANTS
  CheckNames,    \* numbers, in the order of the names
  NoCheck,
  MaxChecks      \* bound: registrations

ASSUME HealthAssumption == CheckNames \subseteq Int /\ IsFiniteSet(CheckNames)

Severity == [healthy |-> 0, unknown |-> 1, degraded |-> 2, unhealthy |-> 3]
HealthStatuses == DOMAIN Severity

VARIABLES
  checks,        \* _checks: [critical, alias], alias being the name it reports, or NoCheck
  asked,         \* registrations of the check_all under way
  answers,       \* their ComponentHealth: [name, status], or NoCheck
  probing,       \* check_all is under way
  report,        \* the last HealthReport: [status, live, ready, components], or NoCheck
  expected,      \* history: statuses it is about, [critical, named, all, live], or NoCheck
  registrations

healthVars == <<checks, asked, answers, probing, report, expected, registrations>>

\* The sequences of the elements of S.
Listings(S) == {list \in [1..Cardinality(S) -> S] : Range(list) = S}

\* from_components: a later component of the same name replaces an earlier one.
FromComponents(list, critical, live) ==
  LET names == {list[i].name : i \in DOMAIN list}
      Last_(n) == list[CHOOSE i \in DOMAIN list :
                         list[i].name = n /\ \A j \in DOMAIN list : list[j].name = n => j <= i]
      statuses == {list[i].status : i \in DOMAIN list}
  IN  [status |-> IF list = <<>> THEN "unknown"
                  ELSE CHOOSE s \in statuses : \A t \in statuses : Severity[t] <= Severity[s],
       live |-> live,
       ready |-> live /\ \A n \in names \cap critical : Last_(n).status = "healthy",
       components |-> {Last_(n) : n \in names}]

-----------------------------------------------------------------------------
RegisterCheck ==
  /\ registrations < MaxChecks
  /\ registrations' = registrations + 1
  /\ \E n \in CheckNames, alias \in CheckNames, critical, replace \in BOOLEAN :
       checks' = IF checks[n] # NoCheck /\ ~replace THEN checks
                 ELSE [checks EXCEPT ![n] = [critical |-> critical, alias |-> alias]]
  /\ UNCHANGED <<asked, answers, probing, report, expected>>

UnregisterCheck ==
  /\ \E n \in CheckNames : checks[n] # NoCheck /\ checks' = [checks EXCEPT ![n] = NoCheck]
  /\ UNCHANGED <<asked, answers, probing, report, expected, registrations>>

Registrations(table) == {n \in CheckNames : table[n] # NoCheck}

\* check_all, up to its gather
CheckAll ==
  /\ ~probing /\ probing' = TRUE
  /\ asked' = checks /\ answers' = [n \in CheckNames |-> NoCheck]
  /\ report' = NoCheck /\ expected' = NoCheck
  /\ UNCHANGED <<checks, registrations>>

\* One check answers, or raises, times out or returns something else.
Evaluate(n) ==
  /\ probing /\ asked[n] # NoCheck /\ answers[n] = NoCheck
  /\ \E answer \in {[name |-> asked[n].alias, status |-> s] : s \in HealthStatuses}
                   \cup {[name |-> n, status |-> IF asked[n].critical THEN "unhealthy"
                                                 ELSE "degraded"]} :
       answers' = [answers EXCEPT ![n] = answer]
  /\ UNCHANGED <<checks, asked, probing, report, expected, registrations>>

\* Faulty variant, for mutation: the registry is read again after the checks.
CriticalNow == {n \in Registrations(checks) : checks[n].critical}

CriticalAsked == {n \in Registrations(asked) : asked[n].critical}

\* The critical checks that report under their own name, and alone do; the checks that
\* report under the name of a critical one.
Unambiguous ==
  {n \in Registrations(asked) :
     asked[n].critical /\ \A k \in Registrations(asked) : answers[k].name = n <=> k = n}
NamedCritical ==
  {n \in Registrations(asked) :
     \E k \in Registrations(asked) : asked[k].critical /\ answers[n].name = k}

\* gather returns.
MakeReport ==
  /\ probing /\ \A n \in Registrations(asked) : answers[n] # NoCheck
  /\ probing' = FALSE
  /\ \E live \in BOOLEAN, order \in Listings(Registrations(asked)) :
       /\ \A i, j \in DOMAIN order : i < j => order[i] < order[j]
       /\ report' = FromComponents([i \in DOMAIN order |-> answers[order[i]]], CriticalAsked, live)
       /\ expected' = [critical |-> {answers[n].status : n \in Unambiguous},
                       named |-> {answers[n].status : n \in NamedCritical},
                       all |-> {answers[n].status : n \in Registrations(asked)},
                       live |-> live]
  /\ asked' = [n \in CheckNames |-> NoCheck] /\ answers' = asked'
  /\ UNCHANGED <<checks, registrations>>

\* with_component: every component of the report counts as critical from now on.
WithComponent ==
  /\ report # NoCheck /\ ~probing
  /\ \E n \in CheckNames, s \in HealthStatuses, critical \in BOOLEAN :
       LET old == {c \in report.components : c.name # n}
           all == old \cup {[name |-> n, status |-> s]}
           names == {c.name : c \in report.components}
       IN  /\ \E list \in Listings(all) :
                report' = FromComponents(list, IF critical THEN names \cup {n} ELSE names,
                                         report.live)
           /\ LET must == {c.status : c \in IF critical \/ n \in names THEN all ELSE old}
              IN  expected' = [critical |-> must, named |-> must,
                               all |-> {c.status : c \in all}, live |-> report.live]
  /\ UNCHANGED <<checks, asked, answers, probing, registrations>>

\* ConnectionManager.health: the state after the healthcheck, which may have failed.
ConnectionHealth(state, engine) ==
  CASE state = "connected" /\ engine # "raised" -> IF engine = "healthy" THEN "healthy"
                                                   ELSE "degraded"
    [] state \in {"connecting", "reconnecting", "draining"} -> "degraded"
    [] OTHER -> "unhealthy"

BrokerStates == {"new", "starting", "running", "draining", "stopped", "failed"}

\* Broker.health: the engine is looked up, with its connection, before the healthcheck and the
\* lifecycle state is read after it: any state a broker that has been started goes through.
\* An engine is in the table from the end of the connect to the first step of the disconnect,
\* whatever the state.  No HealthRegistry is used.
BrokerHealth ==
  /\ ~probing /\ registrations = 0
  /\ \E state \in BrokerStates, selected \in BOOLEAN,
        connection \in {"connecting", "connected", "reconnecting", "failed", "draining",
                       "closing", "closed"},
        engine \in {"healthy", "unhealthy", "raised"} :
       LET live == state \notin {"failed", "stopped"}
           list == IF selected
                     THEN <<[name |-> 1, status |-> ConnectionHealth(connection, engine)]>>
                   ELSE IF state = "running" THEN <<[name |-> 1, status |-> "unhealthy"]>>
                   ELSE <<>>
           usable == connection = "connected" /\ engine = "healthy"
           must == IF selected THEN {IF usable THEN "healthy" ELSE "unhealthy"}
                   ELSE IF state = "running" THEN {"unhealthy"}
                   ELSE {}
       IN  /\ state = "new" => ~selected
           /\ report' = FromComponents(list, {1}, live)
           /\ expected' = [critical |-> must, named |-> must,
                           all |-> {list[i].status : i \in DOMAIN list}, live |-> live]
  /\ UNCHANGED <<checks, asked, answers, probing, registrations>>

-----------------------------------------------------------------------------
HealthInit ==
  /\ checks = [n \in CheckNames |-> NoCheck] /\ asked = checks /\ answers = checks
  /\ probing = FALSE /\ report = NoCheck /\ expected = NoCheck /\ registrations = 0

HealthNext ==
  \/ RegisterCheck \/ UnregisterCheck \/ CheckAll \/ MakeReport \/ WithComponent \/ BrokerHealth
  \/ \E n \in CheckNames : Evaluate(n)

-----------------------------------------------------------------------------
(* Properties                                                              *)

(* A report that is ready is about a live process, and every critical      *)
(* check that was registered when it began is healthy, whatever happens to *)
(* the registry meanwhile, unless that check reported under another name   *)
(* or another one under its name; a report is not ready only because the   *)
(* process is not live or a check that reports under a critical name is    *)
(* not healthy.  The status is never better than that of any check.  A     *)
(* broker with a selected engine is ready only with a connected, healthy   *)
(* engine; of a report without components nothing is claimed.              *)
ReadyIsHonest ==
  report # NoCheck =>
    /\ report.ready => expected.live /\ expected.critical \subseteq {"healthy"}
    /\ report.ready \/ ~expected.live \/ ~(expected.named \subseteq {"healthy"})
                    \/ expected.all = {}
    /\ \A s \in expected.all : Severity[s] <= Severity[report.status]

=============================================================================
