SPECIFICATION FairSpec
CONSTANTS
  Messages = {m1, m2}
  Dispatchers = {d1, d2}
  Suspects = {m2}
  Nothing = Nothing
  BatchSize = 2
  MaxAttempts = 2
  MaxFaults = 1
INVARIANTS
  LeasesExclude
PROPERTIES
  KeepsContract
  RowsSettle
CHECK_DEADLOCK FALSE
