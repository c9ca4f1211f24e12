CONSTANTS
  a = a
  b = b
  Callers = {a, b}
  Operations <- MCBothChange
  Wishes <- MCFew
  Minutes = {1}
  Step = 2
  NoOne = NoOne
  NoJob = NoJob
  NoState = NoState
  NoTarget = NoTarget
  Roles = TRUE
  MaxTime = 1
  MaxCrashes = 1
SPECIFICATION FairSpec
INVARIANTS
  ChangesAlone
  CompletedAtTarget
PROPERTIES CallsEnd
CHECK_DEADLOCK FALSE
