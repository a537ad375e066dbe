--------------------------- MODULE MCInputArbiter ---------------------------
(* The arbiter with two standalone controllers and a Keyboard + Mouse       *)
(* composite whose two peers register as group 1.                           *)
EXTENDS InputArbiter, TLC

CONSTANTS pad, bridge, keyboard, mouse

MCGroupOf == [k \in Key |-> IF k \in {keyboard, mouse} THEN 1 ELSE 0]

MCSymmetry == Permutations(Key \cap {pad, bridge}) \cup Permutations(Key \cap {keyboard, mouse})
=============================================================================
