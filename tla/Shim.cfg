SPECIFICATION FairSpec
CONSTANTS
  c1 = c1
  Clients = {c1}
  Payloads <- MCPayloads
  MaxCalls = 4
  GiveUps = 1
  Mishaps = 1
INVARIANTS
  TypeOK
  EnvApplied
  WorkspaceOwned
  GateCauses
  StartupCauses
  LogCauses
CHECK_DEADLOCK FALSE
PROPERTIES
  CommandReaped
  ShutdownEnds
