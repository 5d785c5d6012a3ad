SPECIFICATION FairSpec
CONSTANTS
  Runs = {r1, r2}
  Wakes = {w1, w2}
  Series = {s1}
  None = None
  Budgets <- Ample
  Scopes = {"web"}
  MaxPasses = 2
  CallLimit = 2
  MaxRev = 1
  MaxCrashes = 1
PROPERTIES WakeSettles SeriesEnds
CHECK_DEADLOCK FALSE
