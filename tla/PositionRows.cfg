\* A zone ahead of UTC, and a clock that is set back up to twice.
SPECIFICATION Spec
CONSTANTS
  p1 = p1
  p2 = p2
  Positions = {p1, p2}
  Zone = 1
  Validity = 2
  SetBack = 3
  MaxSetBacks = 2
  MaxTime = 10
SYMMETRY PositionSymmetry
INVARIANTS
  RowsInv
PROPERTIES
  EntryValidity
  EntryGetsItsTime
CHECK_DEADLOCK FALSE
