SPECIFICATION Spec
CONSTANTS
  Clients = {c1}
  Digests = {d1, d2}
  MaxRevision = 2
  MaxContract = 2
  MaxEdits = 1
  Keys = {k1}
  MaxRetries = 1
  MaxFaults = 2
  None = None
INVARIANTS FrozenForOne VerdictIsBacked
PROPERTY VerificationSettles
CHECK_DEADLOCK FALSE
