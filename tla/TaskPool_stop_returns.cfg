\* One worker about to wait, and a stop().
SPECIFICATION Spec
CONSTANTS
  Workers = {w1}
  MaxTasks = 1
  MaxEmpty = 0
CHECK_DEADLOCK FALSE
PROPERTIES StopReturns
