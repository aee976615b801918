\* One workload: the registry and its watchers.
SPECIFICATION FairSpec
CONSTANTS
  w1 = w1
  i1 = i1
  i2 = i2
  Workloads = {w1}
  Runners = {i1, i2}
  NoWorkload = NoWorkload
INVARIANTS
  ControllerInv
  OneRunnerPerWorkload
PROPERTIES
  LoopsEndTogether
  
