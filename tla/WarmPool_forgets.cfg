SPECIFICATION Spec
CONSTANTS
  v1 = v1
  v2 = v2
  v3 = v3
  s1 = s1
  s2 = s2
  f1 = f1
  f2 = f2
  None = None
  VMs <- ThreeVMs
  Takers <- OneTaker
  Fillers <- TwoFillers
  WarmSize = 1
  LeaderElect = FALSE
  Mishaps = 1
INVARIANTS
  RestartForgetsNothing
SYMMETRY Symmetry
CHECK_DEADLOCK FALSE
