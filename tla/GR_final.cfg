SPECIFICATION FairSpec
CONSTANTS
  impl = impl
  lint = lint
  ci = ci
  RunLimit = RunLimit
  Runner = runner
  None = None
  Nodes = {impl, ci}
  Verifiers = {ci}
  External = {ci}
  Entry = impl
  Edges <- RepairLoop
  MaxRepairs = 1
  NodeCalls <- Unlimited
  NodeRepairs <- OneRepairPerNode
  MaxCalls = 3
  Expirable = {RunLimit}
  Controllers = {cli}
  Recovers = {cli}
  Actions = {"resume", "interrupt", "cancel"}
  MaxIntents = 2
  MaxCrashes = 1
INVARIANT ReportTellsEnd
PROPERTIES ImplementsWalk RunEnds
CHECK_DEADLOCK FALSE
