SPECIFICATION BreakerFairSpec
CONSTANTS
  Callers = {c1, c2, c3}
  FailureThreshold = 2
  RecoveryTimeout = 1
  HalfOpenMaxCalls = 1
  SuccessThreshold = 2
  WindowSize = 3
  MinimumCalls = 3
  RatePercent = 60
  ListenerMayRaise = TRUE
INVARIANTS
  ProbeAccounting
PROPERTIES
  HealsWithoutFailures
