\* Two objects of one name, two clearers on the one and one on the other.
SPECIFICATION Spec
CONSTANTS
  s1 = s1
  s2 = s2
  r1 = r1
  c1 = c1
  c2 = c2
  c3 = c3
  o1 = o1
  o2 = o2
  Senders = {s1, s2}
  Receivers = {r1}
  Clearers = {c1, c2, c3}
  Objects = {o1, o2}
  Uses <- Shared
  Capacity = 2
  Timeouts <- SomeTimeouts
  Clocks = {0, 600}
  MaxSent = 3
\* Nobody is obliged to send, and MaxSent ends the sending.
CHECK_DEADLOCK FALSE
INVARIANTS TypeOK Conserved AttributesPutBack WaitsAsLong
PROPERTIES ClearReturns ImplementsFifoQueue
