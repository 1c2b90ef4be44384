SPECIFICATION Spec
CONSTANTS
  work = work
  check = check
  alpha = alpha
  beta = beta
  gamma = gamma
  Scheduler = scheduler
  None = None
  Branches = {alpha, beta}
  BranchOrder <- TwoBranches
  MaxConcurrency = 2
  Nodes = {work, check}
  Verifiers = {check}
  External = {check}
  Entry = work
  Edges <- CheckedWork
  MaxCalls = 3
  UsedBefore = {0}
  MaxRepairs = 1
  NodeCalls <- TwoCalls
  NodeRepairs <- OneRepair
  Expires = FALSE
  Controllers = {human}
  Actions = {"pause", "resume", "interrupt", "cancel"}
  MaxIntents = 2
  MaxCrashes = 1
INVARIANTS AttemptsSettled LedgerExact JoinTellsBranches
PROPERTY BarrierHolds
CHECK_DEADLOCK FALSE
