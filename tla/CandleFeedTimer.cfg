\* The timer against the ticks of one data loop.
SPECIFICATION FairSpec
CONSTANTS
  IdleTimeout = 3
INVARIANTS
  FeedInv
PROPERTIES
  IdleMeansQuiet
  TicksOrEnds
  ConnectionReleased
CHECK_DEADLOCK FALSE
