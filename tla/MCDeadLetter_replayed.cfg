SPECIFICATION Spec
CONSTANTS
  Records = {r1, r2}
  Calls = {c1, c2}
  NoSnapshot = NoSnapshot
  Options <- CallOptions
  MaxEntries = 1
  MaxReplayAttempts = 2
  MaxReplayBatch = 2
  FailuresToQuarantine = 2
  MaxFaults = 0
PROPERTY
  ReplayedIsNotQuarantined
