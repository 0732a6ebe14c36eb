------------------------- MODULE MCPosixMessageQueue -------------------------
(* PosixMessageQueue for TLC, with the threads named here and the objects   *)
(* they use.                                                                *)
EXTENDS PosixMessageQueue

CONSTANTS s1, s2, r1, c1, c2, c3, o1, o2

(* Two clearers share an object, the third has one of its own; a sender is *)
(* beside the two, and one, with the receiver, beside the third.           *)
Shared == [t \in Threads |-> IF t \in {s2, r1, c3} THEN o2 ELSE o1]

(* More than a second, and a time gone by. *)
SomeTimeouts == {1400, -500}
==============================================================================
