SPECIFICATION FairSpec
CONSTANTS
  Parts = {p1, p2}
  Main = main
  Free = free
  MaxTries = 2
  MaxPublishes = 2
  MaxDeliveries = 3
  MaxFaults = 1
\* A message at rest stays there.
CHECK_DEADLOCK FALSE
INVARIANTS
  StateFollowsTransport
  NothingIsLost
PROPERTIES
  EveryDeliveryEnds
