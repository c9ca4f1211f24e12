CONSTANTS
  a = a
  b = b
  Callers = {a, b}
  Operations <- MCOneLineEach
  Wishes <- MCControls
  Minutes = {1}
  Step = 1
  NoOne = NoOne
  NoJob = NoJob
  NoState = NoState
  NoTarget = NoTarget
  Roles = FALSE
  MaxTime = 1
  MaxCrashes = 0
SPECIFICATION Spec
INVARIANTS
  TypeOK
  OneTimeDriver
  JobHoldsRun
  LeaseIsJob
CHECK_DEADLOCK FALSE
