SPECIFICATION FairSpec
CONSTANTS
  c1 = c1  c2 = c2
  Client <- TwoClients
  BroadcastCap = 1
  SendCap = 1
  MaxMessages = 2
INVARIANTS TypeOK ClosedOnce CountedAreQueued
PROPERTIES ImplementsSubscription GoneIsForgotten BroadcastsHandedOut
CHECK_DEADLOCK FALSE
