SPECIFICATION ObservedSpec
CONSTANTS
  Attempts = 2
  MaxExecutions = 3
  MaxContinuations = 1
  RotateAfterFailures = 1
  MaxCancels = 1
  MaxSessionFaults = 1
  Capacity = 2
  BatchSize = 2
  MaxFlushes = 1
INVARIANTS SessionsWearOut
PROPERTIES LeavesAnswered AnsweredIsReplayed TelemetryIsTransparent
CHECK_DEADLOCK FALSE
