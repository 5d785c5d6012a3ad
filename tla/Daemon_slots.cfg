SPECIFICATION SchedSpec
CONSTANTS
  w1 = w1
  w2 = w2
  id = id
  None = None
  Actions = {e, c}
  Idempotent = {}
  Consequential = {c}
  Workers = {w1, w2}
  WorkerId <- SameId
  MaxAttempts = 2
  MaxAgain = 1
  Slots = {e}
  Timed = {}
  Manual = {}
  Schedulers = {s1, s2}
  MaxRows = 1
SYMMETRY Symmetry
INVARIANTS
  AttemptsMatchRow
  ClaimsMatchActions
PROPERTY
  KeepsPromise
