SPECIFICATION FairSpec
CONSTANTS
  Roots = {"r1"}
  Skills = {s1}
  None = None
  Program <- Waits
  SkillProgram <- Reads
  Attempts <- OneChild
  Backoff = TRUE
  Batch = 2
  MaxCrashes = 1
CHECK_DEADLOCK FALSE
PROPERTY RunsEnd
