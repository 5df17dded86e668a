SPECIFICATION FairQueueSpec
CONSTANTS
  Items = {i1, i2, i3}
  Workers = {w1, w2}
  Capacity = 1
  Policies = {"block", "drop-newest"}
  MaxAttempts = 2
  Stop = Stop
  Closer = Closer
  NoItem = NoItem
CHECK_DEADLOCK FALSE
INVARIANTS
  NeitherLostNorDoubled
PROPERTIES
  CloseReturns
