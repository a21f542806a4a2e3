SPECIFICATION FairSpec
CONSTANTS
  main = main
  pump1 = pump1
  pump2 = pump2
  rest = rest
  Nobody = Nobody
  Callers = {main, pump1, pump2, rest}
  Starter = main
  PumpOf <- MCPumpOf
  Execs = 2
  Interactive = {1, 2}
  Chunks = 2
  Outputs = 1
  Margin = 1
  Lifetimes = {2}
  Delay = 1
  MaxTime = 1
  Requests = 1
  Mishaps = 1
INVARIANTS
  TypeOK
  TokenOutlivesRequest
  StdinIntact
  ExecResult
CHECK_DEADLOCK FALSE
PROPERTIES
  ImplementsProvider
  ExecReturns
