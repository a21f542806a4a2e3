SPECIFICATION Spec
CONSTANTS
  a = a
  v1 = v1
  v2 = v2
  w1 = w1
  w2 = w2
  None = None
  Sandboxes <- One
  Workers <- TwoWorkers
  VMs <- TwoVMs
  BackAll = TRUE
  Annotated <- Nobody
  Labelled <- Nobody
  Mappable <- One
  HasPorts <- One
  HasSecret <- One
  WarmStates <- Nobody
  MaxLag = 1
  Budget <- BudgetSafety
INVARIANTS
  TypeOK
  IInv
  FinsInv
  SecretsInv
  LeakCauses
  OneVmCauses
  FinalizerGuardsVM
  StatusHasVm
  SecretLeakCauses
PROPERTIES
  TerminatedBeforeRelease
  ImplementsLife
SYMMETRY Symmetry
CHECK_DEADLOCK FALSE
