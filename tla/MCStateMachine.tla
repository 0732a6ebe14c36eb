---------------------------- MODULE MCStateMachine ----------------------------
(* StateMachine for TLC: "c" is a state that the table lacks and that the   *)
(* table's own transition from "b" leads to.                                *)
EXTENDS StateMachine, TLC

MCTable == [a |-> [go |-> "b", stay |-> Keep],
            b |-> [go |-> "c", stay |-> "a"],
            d |-> [go |-> NoEvent, stay |-> "d"]]

Symmetry == Permutations(Setters)

==============================================================================
