\* Two other threads set the state while the task publishes events.
SPECIFICATION Safety
CONSTANTS
  States = {"a", "b", "c", "d"}
  Commands = {"go", "stay"}
  Table <- MCTable
  Main = main
  Setters = {s1, s2}
  MaxCalls = 4
SYMMETRY Symmetry
\* Nobody calls again once MaxCalls calls have returned.
CHECK_DEADLOCK FALSE
INVARIANTS TransitionsAreTheTables Followed
