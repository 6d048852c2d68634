---------------------------- MODULE MCAimControl ----------------------------
(* Where the hand may point, for AimControl. *)
EXTENDS AimControl

FarAndLevel == [a \in Axes |-> IF a = "yaw" THEN {0, 14} ELSE {0, 5}]
SomeThrows  == {0, 3}
=============================================================================
