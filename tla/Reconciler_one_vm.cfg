SPECIFICATION Spec
CONSTANTS
  a = a
  v1 = v1
  v2 = v2
  w1 = w1
  w2 = w2
  None = None
  Sandboxes <- One
  Workers <- OneWorker
  VMs <- TwoVMs
  BackAll = TRUE
  Annotated <- Nobody
  Labelled <- Nobody
  Mappable <- One
  HasPorts <- Nobody
  HasSecret <- Nobody
  WarmStates <- Nobody
  MaxLag = 2
  Budget <- BudgetCreate
INVARIANTS
  OneVmPerSandbox
CHECK_DEADLOCK FALSE
