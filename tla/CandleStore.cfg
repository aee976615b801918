\* Two runners of one workload, which may overlap.
SPECIFICATION Spec
CONSTANTS
  k1 = k1
  g1 = g1
  g2 = g2
  Keys = {k1}
  Generations = {g1, g2}
  WindowSize = 2
  MaxHistory = 2
  MaxMinute = 3
  MaxCandles = 4
SYMMETRY GenerationSymmetry
INVARIANTS
  OrderInv
  NewestKept
PROPERTIES
  SnapshotStable
