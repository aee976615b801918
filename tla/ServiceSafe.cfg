\* One workload, two identities of runners, one position.
SPECIFICATION ServiceSpec
CONSTANTS
  w = w
  i1 = i1
  i2 = i2
  Workload = w
  NoWorkload = NoWorkload
  Runners = {i1, i2}
  MaxPositions = 1
  OpenPositionsLimit = 1
  Exclusive = FALSE
  MaxStarts = 2
SYMMETRY RunnerSymmetry
CONSTRAINT UntilOverlap
INVARIANTS
  ServiceInv
  OverlapOnlyByData
PROPERTIES
  AloneFollowsLifecycle
