SPECIFICATION FairSpec
CONSTANTS
  None = None
  k1 = k1
  k2 = k2
  inner = inner
  host = host
  Keys <- MCKeys
  Controllers <- MCControllers
  Procs = {host}
  Host = host
  Home <- MCHome
  MaxConcurrency = 1
  MaxAttempts <- MCAttempts
  MaxFaults = 2
INVARIANTS StartedOnce SlotsConserved ResultIsReal ExistenceIsRecorded
PROPERTY PollsSettle
CHECK_DEADLOCK FALSE
