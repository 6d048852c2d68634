---------------------------- MODULE MCViewSetup ----------------------------
(***************************************************************************)
(* Two cameras that may change places, and one that CheckView refuses.     *)
(***************************************************************************)
EXTENDS ViewSetup, TLC

CONSTANTS still, turned, broken

SomeCameras == {still, turned, broken}
Refused == {broken}
Interchangeable == Permutations({still, turned})
=============================================================================
