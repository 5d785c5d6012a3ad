SPECIFICATION Spec
CONSTANTS
  Runs = {r1, r2}
  Wakes = {w1, w2}
  Series = {s1}
  None = None
  Budgets <- Ample
  Scopes = {"web"}
  MaxPasses = 2
  CallLimit = 2
  MaxRev = 3
  MaxCrashes = 1
INVARIANTS OneRunPerWake OneUnfinished ScheduledIsCurrent PassesAreRuns CallsWithinGrant
PROPERTY StoppedStaysStopped
CHECK_DEADLOCK FALSE
