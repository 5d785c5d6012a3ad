SPECIFICATION Spec
CONSTANTS
  Every = 1
  Hour = 1
  Grace = 0
  MaxHourly = 2
  Single = TRUE
  CatchUp = 1
  MaxEvents = 2
  MaxRequests = 2
  MaxTime = 2
  MaxStops = 1
CHECK_DEADLOCK FALSE
INVARIANTS OneRunPerCause NoEventMissed
