\* Two clients beside the main loop; the commands 0 and 1 are those that
\* kStart and kStop have, and 0 has no handler.
SPECIFICATION Spec
CONSTANTS
  Clients = {c1, c2}
  Main = main
  Commands = {0, 1}
  Handled = {1}
  MaxCalls = 3
\* The task may have been stopped and joined.
CHECK_DEADLOCK FALSE
INVARIANTS InOrder StopIsLast JoinedOnce AnswersMatch
PROPERTIES BehindStopNeverAnswered CallsBeforeStopReturn StopJoins
