\* Two children one after the other, or at once, that overflow a pipe.
SPECIFICATION Spec
CONSTANTS
  MaxStarts = 2
  Capacity = 1
  MaxOutput = 2
\* The object may have been destroyed.
CHECK_DEADLOCK FALSE
INVARIANTS TypeOK ResultComplete ExitedIsReaped
PROPERTIES CallsReturn
