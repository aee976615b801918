\* A position is announced as closed while its purchase is not sold.
SPECIFICATION Spec
CONSTANTS
  r1 = r1
  Runners = {r1}
  MaxPositions = 1
  OpenPositionsLimit = 1
  Exclusive = TRUE
INVARIANTS
  ClosedMeansFlat
