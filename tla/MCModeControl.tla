---------------------------- MODULE MCModeControl ----------------------------
(***************************************************************************)
(* Time in steps of 50 ms: the debounce is three of them, and a frame      *)
(* takes none, one or two, so that it can end on, before and past it.      *)
(***************************************************************************)
EXTENDS ModeControl

Steps == {0, 1, 2}
AnyMap == {"none", "demo", "game"}
=============================================================================
