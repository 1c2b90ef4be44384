SPECIFICATION FairSpec
CONSTANTS
  impl = impl
  lint = lint
  ci = ci
  RunLimit = RunLimit
  Runner = runner
  None = None
  Nodes = {impl, lint, ci}
  Verifiers = {lint, ci}
  External = {ci}
  Entry = impl
  Edges <- CheckedLoop
  MaxRepairs = 1
  NodeCalls <- OneCiCall
  NodeRepairs <- OneRepairPerNode
  MaxCalls = 4
  Expirable = {}
  Controllers = {cli, inproc}
  Recovers = {}
  Actions = {"pause", "resume", "interrupt", "cancel"}
  MaxIntents = 2
  MaxCrashes = 1
INVARIANTS AttemptsSettled BudgetsHeld
PROPERTIES BarrierHolds PauseSettles
CHECK_DEADLOCK FALSE
