SPECIFICATION FairSpec
CONSTANTS
  Owners = {o1, o2}
  None = None
  Plans <- Pair
  StepLimit = 2
  CallLimit = 2
  MaxSteps = 4
  MaxCrashes = 1
  Retries = FALSE
INVARIANTS TypeOK CompletedIsReal CancelledIsQuiet
PROPERTY PlanningEnds
