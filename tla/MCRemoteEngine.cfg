SPECIFICATION RemoteFairSpec
CONSTANTS
  Kinds = {"redis", "rabbitmq", "kafka"}
  Messages = {m1, m2}
  Consumers = {w1, w2}
  Nobody = Nobody
  NumSlots = 2
  Capacity = 2
  MaxRecords = 1
  MaxEngineFaults <- MCMaxEngineFaults
INVARIANTS
  NothingLost
  EffectivelyOnce
PROPERTIES
  EveryMessageHandled
CHECK_DEADLOCK FALSE
