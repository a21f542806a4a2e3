SPECIFICATION FairSpec
CONSTANTS
  a = a
  v1 = v1
  v2 = v2
  w1 = w1
  w2 = w2
  None = None
  Sandboxes <- One
  Workers <- OneWorker
  VMs <- OneVM
  BackAll = FALSE
  Annotated <- Nobody
  Labelled <- One
  Mappable <- One
  HasPorts <- Nobody
  HasSecret <- Nobody
  WarmStates <- Nobody
  MaxLag = 2
  Budget <- BudgetAdopt
PROPERTIES
  AdoptedDeletionCompletes
CHECK_DEADLOCK FALSE
