SPECIFICATION Spec
CONSTANTS
  Actions = {a1, a2}
  Idempotent = {}
  Linked = {}
  None = None
  MaxAttempts = 2
  MaxCrashes = 1
  MaxStalls = 0
CHECK_DEADLOCK FALSE
SYMMETRY Interchangeable
INVARIANTS TypeOK AtMostOneEffect SuccessIsReal
PROPERTY KeepsPromise
