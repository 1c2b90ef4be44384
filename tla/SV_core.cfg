SPECIFICATION FairSpec
CONSTANTS
  ui = ui
  mcp = mcp
  s1 = s1
  s2 = s2
  k1 = k1
  pause = pause
  cancel = cancel
  stop = stop
  Clients = {ui, mcp}
  Services = {s1, s2}
  Keys = {k1}
  Mutations = {pause, cancel}
  Stop = stop
  MaxAttempts = 2
  MaxCalls = 1
  MaxFaults = 1
  None = None
INVARIANTS AppliedOnce SuccessIsReal
PROPERTY CallsReturn
CHECK_DEADLOCK FALSE
