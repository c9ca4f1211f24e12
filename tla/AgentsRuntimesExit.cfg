CONSTANTS
  Workspaces = {a, b}
  Callers = {x}
  MaxLoaded = 2
  NoWorkspace = NoWorkspace
  MaxChanges = 1
SPECIFICATION Spec
INVARIANTS ExitLosesOnlyFailedSaves
