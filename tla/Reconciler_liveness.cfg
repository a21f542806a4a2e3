SPECIFICATION FairSpec
CONSTANTS
  a = a
  v1 = v1
  v2 = v2
  w1 = w1
  w2 = w2
  None = None
  Sandboxes <- One
  Workers <- OneWorker
  VMs <- OneVM
  BackAll = TRUE
  Annotated <- Nobody
  Labelled <- One
  Mappable <- One
  HasPorts <- Nobody
  HasSecret <- Nobody
  WarmStates <- PoolStates
  MaxLag = 2
  Budget <- BudgetLiveness
INVARIANTS
  IInv
  FinsInv
PROPERTIES
  DeletionCompletes
  Converges
CHECK_DEADLOCK FALSE
