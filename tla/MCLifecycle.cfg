SPECIFICATION FairSpec
CONSTANTS
  NumComponents = 3
  t1 = t1
  t2 = t2
  Tasks = {t1, t2}
  Spawner <- LastSpawns
  MaxRestarts = 1
  MaxFaults = 1
INVARIANTS
  NothingOrphaned
  DependenciesAreUp
  TasksEndFirst
PROPERTIES
  ShutdownEnds
CHECK_DEADLOCK FALSE
