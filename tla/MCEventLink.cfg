SPECIFICATION FairSpec
CONSTANTS
  MaxEvents <- Few
  Oversize <- OneOversize
  WireCap = 2
INVARIANTS TypeOK ReadsWholeFrames ShownAreStored
PROPERTIES ImplementsEventFeed PublisherStops ConsumerStops
CHECK_DEADLOCK FALSE
