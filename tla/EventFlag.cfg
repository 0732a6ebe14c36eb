\* Two waiters in both modes and two setters.
SPECIFICATION Spec
CONSTANTS
  Bits = {b1, b2}
  Waiters = {w1, w2}
  Setters = {s1, s2}
INVARIANTS NoLostWakeup
PROPERTIES MatchedWaiterReturns
