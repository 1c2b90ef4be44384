SPECIFICATION FairSpec
CONSTANTS
  work = work
  check = check
  alpha = alpha
  beta = beta
  gamma = gamma
  Scheduler = scheduler
  None = None
  Branches = {alpha, beta, gamma}
  BranchOrder <- ThreeBranches
  MaxConcurrency = 2
  Nodes = {check}
  Verifiers = {check}
  External = {check}
  Entry = check
  Edges <- OneNode
  MaxCalls = 3
  UsedBefore = {0, 1}
  MaxRepairs = 0
  NodeCalls <- TwoCalls
  NodeRepairs <- OneRepair
  Expires = TRUE
  Controllers = {human}
  Actions = {"interrupt"}
  MaxIntents = 1
  MaxCrashes = 1
INVARIANT NonePending
CHECK_DEADLOCK FALSE
PROPERTY RunEnds
