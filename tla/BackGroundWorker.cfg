\* The worker has no parameters: all of its states, with a task_completed
\* handler and without one.  The destroyed worker stops.
SPECIFICATION WorkerSpec
CHECK_DEADLOCK FALSE
INVARIANTS WorkerTypeOK OneRunPerRequest CancelReachesHandledTask
PROPERTIES RequestRunsOrEnds
