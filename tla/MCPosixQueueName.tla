--------------------------- MODULE MCPosixQueueName ---------------------------
(* PosixQueueName for TLC, with the processes and their objects given here. *)
EXTENDS PosixQueueName, TLC

CONSTANTS p1, p2, o1, o2, o3, q1, q2, q3

(* Two objects of one process, the third of another. *)
TwoAndOne == [o \in Instances |-> IF o = o3 THEN p2 ELSE p1]

(* Which queue is which makes no difference, nor which of the two objects. *)
Alike == Permutations(Queues) \cup Permutations({o1, o2})
==============================================================================
