CONSTANTS
  a = a
  b = b
  Callers = {a}
  Operations <- MCSets
  Wishes <- MCWishes
  Minutes = {1}
  Step = 1
  NoOne = NoOne
  NoJob = NoJob
  NoState = NoState
  NoTarget = NoTarget
  Roles = FALSE
  MaxTime = 1
  MaxCrashes = 0
SPECIFICATION Spec
INVARIANTS SetTakesEffect
CHECK_DEADLOCK FALSE
