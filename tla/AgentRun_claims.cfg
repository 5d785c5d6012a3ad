SPECIFICATION Spec
CONSTANTS
  Owners = {o1}
  None = None
  Plans <- Fan
  StepLimit = 4
  CallLimit = 2
  MaxSteps = 5
  MaxCrashes = 1
  Retries = TRUE
INVARIANTS StepsBegunOnce DependenciesFirst OneLoop
PROPERTY NoStartAfterCancel
