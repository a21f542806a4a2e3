SPECIFICATION FairSpec
CONSTANTS
  v1 = v1
  v2 = v2
  v3 = v3
  s1 = s1
  s2 = s2
  f1 = f1
  f2 = f2
  None = None
  VMs <- ThreeVMs
  Takers <- OneTaker
  Fillers <- TwoFillers
  WarmSize = 1
  LeaderElect = TRUE
  Mishaps = 1
INVARIANTS
  OvershootBounded
PROPERTIES
  PoolRefills
CHECK_DEADLOCK FALSE
