SPECIFICATION FairSpec
CONSTANTS
  Actions = {a1}
  Idempotent = {a1}
  Linked = {a1}
  None = None
  MaxAttempts = 2
  MaxCrashes = 1
  MaxStalls = 1
CHECK_DEADLOCK FALSE
INVARIANT AttemptsMatchRow
PROPERTIES NoCallAfterRejection EveryDeliverySettles
