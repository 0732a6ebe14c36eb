\* Two clients, two tasks whose handlers call, two names.
SPECIFICATION Spec
CONSTANTS
  x = x
  y = y
  c1 = c1
  c2 = c2
  Clients = {c1, c2}
  Owner = c1
  NTasks = 2
  Names = {x, y}
  None = None
  SetUps <- BothRegistered
  MaxCalls = 3
\* Calls are bounded, and the manager may be destroyed.
CHECK_DEADLOCK FALSE
INVARIANTS UsedTasksLive DisciplinedNeverStuck
PROPERTIES CallsReturn
