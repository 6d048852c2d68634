------------------------- MODULE MCControllerInput -------------------------
(***************************************************************************)
(* One walking key and one button key: each is one of its kind, and the    *)
(* kinds differ in what PlayingInput does without a stick.                 *)
(***************************************************************************)
EXTENDS ControllerInput

OneWalk   == <<"W">>
NoWalk    == <<>>
OneButton == <<"CONTROL">>
AnyMap    == {"none", "demo", "game"}
NoMenu    == {"demo", "game"}
OnlyGame    == {"game"}
MenuAndGame == {"none", "game"}
=============================================================================
