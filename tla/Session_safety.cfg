SPECIFICATION Spec
CONSTANTS
  sec = sec
  cfg = cfg
  k1 = k1
  k2 = k2
  n1 = n1
  n2 = n2
  u1 = u1
  u2 = u2
  r1 = r1
  img = img
  v1 = v1
  v2 = v2
  None = None
  Specs <- MCSpecs
  Secrets = {sec}
  ConfigMaps = {cfg}
  Keys = {k1, k2}
  KeysOf <- MCKeysOf
  Prefixes = {"", "p"}
  Names = {n1, n2}
  Prefixed <- MCPrefixed
  Ids = {u1, u2}
  Content <- MCContent
  Roles = {r1}
  Images = {"shim", img}
  DefaultImage = "shim"
  WarmImage = "shim"
  WarmRole = r1
  WarmPool = TRUE
  VMs = {v1, v2}
  Minimum = 2
  Maximum = 4
  Second = 2
  MaxTime = 1
  Edits = 1
  Mishaps = 1
INVARIANTS
  TypeOK
  SecretsOutOfPayload
  SessionInv
  EnvAsDeclared
  LifetimeMapped
CHECK_DEADLOCK FALSE
