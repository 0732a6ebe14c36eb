\* Three objects in two processes, and as many queues as they can have open.
SPECIFICATION NameSpec
CONSTANTS
  p1 = p1
  p2 = p2
  o1 = o1
  o2 = o2
  o3 = o3
  Processes = {p1, p2}
  Instances = {o1, o2, o3}
  In <- TwoAndOne
  Sizes = {1, 2}
  q1 = q1
  q2 = q2
  q3 = q3
  Queues = {q1, q2, q3}
  None = None
SYMMETRY Alike
INVARIANTS NameHasOwner OwnerHasNewQueue
