SPECIFICATION FairSpec
CONSTANTS
  Boot = Boot
  Reply = Reply
  Subscribers = {s1}
  Requests = {r1, r2}
  MaxPending = 1
  MaxStarts = 2
  MaxCalls = 2
  MaxFaults = 1
INVARIANTS
  NothingLeft
  PendingIsExact
  ReplyPathExists
PROPERTIES
  RequestEnds
CHECK_DEADLOCK FALSE
