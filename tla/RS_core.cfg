SPECIFICATION FairSpec
CONSTANTS
  r1 = r1
  r2 = r2
  k1 = k1
  k2 = k2
  cli = cli
  service = service
  mcp = mcp
  Runs = {r1, r2}
  Keys = {k1, k2}
  Callers = {cli, service}
  Actions = {"pause", "resume", "interrupt", "cancel", "recover"}
  MaxFaults = 1
  MaxControls = 2
  None = None
INVARIANT ResultsAreReal
PROPERTIES StartsOnce StartsFinish
