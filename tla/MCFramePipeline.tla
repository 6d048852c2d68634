--------------------------- MODULE MCFramePipeline ---------------------------
(***************************************************************************)
(* FramePipeline for TLC: the decisions a run offers the engine thread.    *)
(***************************************************************************)
EXTENDS FramePipeline

AnyDecision   == [worldInEyes : BOOLEAN, sheet : BOOLEAN, placed : BOOLEAN]
\* A map is loaded throughout, and the window over it never comes up.
WorldDecision == {d \in AnyDecision : d.worldInEyes /\ ~d.sheet /\ ~d.placed}
\* Maps come and go, and a window that is up has its place.
SheetsPlaced  == {d \in AnyDecision : d.sheet => d.placed}
=============================================================================
