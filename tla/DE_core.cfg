SPECIFICATION DecisionsSpec
CONSTANTS
  Cli = {c1}
  Service = s
  MaxIds = 3
  MaxCalls = 3
  MaxCallFaults = 1
  Nil = Nil
INVARIANTS DecidedIsDelivered ConfirmedOnce
PROPERTIES ImplementsLineage RecordedIsReported
CHECK_DEADLOCK FALSE
