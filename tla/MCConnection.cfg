SPECIFICATION FairSpec
CONSTANTS
  Workers = {w1, w2}
  Closers = {c1}
  Heartbeat = heartbeat
  NoOne = nobody
  MaxRestarts = 1
INVARIANTS
  ConnectedHasTransport
PROPERTIES
  EveryCallReturns
  HeartbeatRepairs
