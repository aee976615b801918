\* Three demotions, each followed by a reconnection.
SPECIFICATION FairSpec
CONSTANTS
  u1 = u1
  u2 = u2
  i1 = i1
  i2 = i2
  NoInstance = NoInstance
  Users = {u1, u2}
  Instances = {i1, i2}
  MaxIdle = 2
  MaxHandles = 4
  MaxFailovers = 3
INVARIANTS
  ClientInv
PROPERTIES
  HandsOutOpen
  Reconnects
