-------------------------- MODULE MCEventTaskManager --------------------------
(* EventTaskManager for TLC, with the names and clients given here.         *)
EXTENDS EventTaskManager

CONSTANTS x, y, c1, c2

(* The two tasks are registered, each under a name. *)
BothRegistered == {[n \in Names |-> IF n = x THEN 1 ELSE 2]}
==============================================================================
