SPECIFICATION FairSpec
CONSTANTS
  t1 = t1
  t2 = t2
  t3 = t3
  p1 = p1
  Flushers = {t1, t2, t3}
  Processes = {p1}
  ProcessOf <- OneProcess
  Tears = TRUE
  MaxEvents = 3
  MaxFaults = 2
  None = None
  Torn = Torn
PROPERTIES ImplementsTrail DeliveredUnlessTorn
CHECK_DEADLOCK FALSE
