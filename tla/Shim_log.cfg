SPECIFICATION Spec
CONSTANTS
  c1 = c1
  Clients = {c1}
  Payloads <- MCPayloads
  MaxCalls = 2
  GiveUps = 0
  Mishaps = 0
INVARIANTS
  StartupLogged
CHECK_DEADLOCK FALSE
