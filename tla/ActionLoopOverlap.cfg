\* Three loops on one workload at the same time.
SPECIFICATION Spec
CONSTANTS
  r1 = r1
  r2 = r2
  r3 = r3
  Runners = {r1, r2, r3}
  MaxPositions = 1
  OpenPositionsLimit = 1
  Exclusive = FALSE
SYMMETRY RunnerSymmetry
INVARIANTS
  SharedInv
  NoNakedSell
