SPECIFICATION FairSpec
CONSTANTS
  Messages = {m1, m2}
  Dispatchers = {d1, d2}
  Idle = idle
  MaxEntries = 2
  BatchSize = 2
  MaxAttempts = 2
  MaxFaults = 2
PROPERTIES
  ImplementsContract
  EveryRecordSettles
