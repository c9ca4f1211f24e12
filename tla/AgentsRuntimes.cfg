CONSTANTS
  Workspaces = {a, b}
  Callers = {x, y, z}
  MaxLoaded = 1
  NoWorkspace = NoWorkspace
  MaxChanges = 2
SPECIFICATION Spec
SYMMETRY Symmetry
INVARIANTS
  TypeOK
  WithinCapacity
  OneRuntime
  WorkKeepsRuntime
  NoChangeLost
  NothingLeftBehind
  WaitsAreFounded
