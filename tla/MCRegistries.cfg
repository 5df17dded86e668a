SPECIFICATION Spec
CONSTANTS
  Patterns <- MCPatterns
  Messages <- MCMessages
  h1 = h1
  t1 = t1
  Types = {t1}
  Ranks = {1, 2}
  Names = {n1}
  Sinks = {s1, s2}
  Calls = {k1}
  None = None
  HistoryLimit = 1
  MaxSequence <- MCMaxSequence
  MaxDisturbance = 2
  MaxVersion = 3
  Classes = {x1, x2}
  Readers = {r1}
  NoClass = NoClass
  Providers = {1, 2, 3}
  Memory = 1
  Priorities = {0, 1}
  SerializerNames = {z1, z2}
  ContentTypes = {y1, y2}
  Instances = {1, 2}
  NoProvider = NoProvider
  MaxEntries = 3
  Subs = {a1, a2}
  Nobody = Nobody
  MaxConsumers = 3
  MaxMishaps = 3
  Publishers = {p1, p2}
  Topics = {t2}
  NoTopic = NoTopic
  LocalConsumers = {c1, c2}
  ConsumerIds = {i1, i2}
  NoConsumer = NoConsumer
  Concurrency = 1
  MaxDeliveries = 2
  MaxUpsets = 2
  CheckNames = {1, 2}
  NoCheck = NoCheck
  MaxChecks = 3
  Deferred = {e1, e2, e3}
  NumItems = 2
  d1 = d1
  d2 = d2
  Default = d0
  DestinationLists <- MCDestinationLists
  Concurrencies = {1, 2}
  Strategies = {"fixed", "linear", "exponential", "full_jitter", "equal_jitter", "decorrelated_jitter"}
  Initial = 1
  Multiplier = 2
  Maximum = 2
  MaxAttempts = 3
  MaxElapsed = 2
  AttemptTimeout = 1
  MaxFailures = 2
INVARIANTS
  CallsTheSnapshot
  EmitWaitsForAll
  UpcastsAgree
  SelectsBest
  SerializersAgree
  HandlesAgree
  LocalPublishSettles
  ReadyIsHonest
  ShutdownDrains
  ReportsAreTrue
  RetriesInTime
  BatchEnds
CHECK_DEADLOCK FALSE
