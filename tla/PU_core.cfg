SPECIFICATION Spec
CONSTANTS
  Runs = {r1, r2}
  Callers = {c1, c2}
  MaxNumber = 2
  MaxFaults = 2
  MaxCalls = 3
  MaxTurns = 1
  None = None
INVARIANTS CreatedOnce LostOneIsFound
PROPERTY HandleStays
CHECK_DEADLOCK FALSE
