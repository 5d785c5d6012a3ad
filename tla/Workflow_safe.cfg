SPECIFICATION Spec
CONSTANTS
  Roots = {"r1", "r2"}
  Skills = {s1, s2}
  None = None
  Program <- Parallel
  SkillProgram <- Approved
  Attempts <- ActTwice
  Backoff = TRUE
  Batch = 1
  MaxCrashes = 1
CHECK_DEADLOCK FALSE
INVARIANTS ProposedPerThrow OneChildPerAttempt  EmittedPerCrash
PROPERTY ForwardOnly
