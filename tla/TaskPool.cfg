\* Three workers, tasks that enqueue tasks, and an empty function.
SPECIFICATION Spec
CONSTANTS
  Workers = {w1, w2, w3}
  MaxTasks = 3
  MaxEmpty = 1
\* The pool may have been stopped.
CHECK_DEADLOCK FALSE
INVARIANTS OnePlace NoSleeperBesideTask StopDrainsFunctions
PROPERTIES OwedTasksRun
