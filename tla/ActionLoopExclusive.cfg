\* One loop at a time, ending anywhere and started again.
SPECIFICATION FairSpec
CONSTANTS
  r1 = r1
  Runners = {r1}
  MaxPositions = 3
  OpenPositionsLimit = 2
  Exclusive = TRUE
INVARIANTS
  ExclusiveInv
  SingleFill
  LimitRespected
  ClosedAfterExit
  AtMostOneOrphan
PROPERTIES
  NothingTradedAfterClose
  ImplementsLifecycle
  EntryResolves
  SoldIsClosed
  ExitKeepsTrying
