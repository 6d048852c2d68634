--------------------------- MODULE HeadsetPicture ---------------------------
(***************************************************************************)
(* What the wearer of the headset is promised, with no threads in it.      *)
(*                                                                         *)
(* The game decides, frame by frame, what the headset should show.  Later  *)
(* a picture appears.  A picture is composed from ONE decision: the world  *)
(* in the two eyes, the quad over it and the crosshair were all drawn for  *)
(* the same frame, and in the mode that frame was decided in.  Frames may  *)
(* be skipped; they are never shown out of order.                          *)
(*                                                                         *)
(* FramePipeline implements this specification.                            *)
(***************************************************************************)
EXTENDS Naturals, Sequences

VARIABLES
    decided,    \* the decisions so far: decided[t] is the one of ticket t
    shown       \* the picture the compositor was last given

vars == <<decided, shown>>

\* One decision of the engine thread: what belongs in both eyes, whether the
\* game's window goes on a quad, and whether that quad has a place in the room.
Decision == [worldInEyes : BOOLEAN, sheet : BOOLEAN, placed : BOOLEAN]

Overlays == {"none", "sheet", "hud"}

\* ticket 0 with nothing in it: what the headset shows before the first frame.
NoPicture ==
    [ticket |-> 0, world |-> FALSE, eyes |-> <<0, 0>>, overlay |-> "none",
     panel |-> 0, aim |-> 0]

\* The picture p shows nothing but what decision d asked for, drawn for ticket t.
Composed(p, t, d) ==
    /\ p.world => /\ d.worldInEyes
                  /\ p.eyes = <<t, t>>
    /\ p.overlay = "sheet" => /\ d.sheet /\ d.placed
                              /\ p.world = d.worldInEyes
                              /\ p.panel = t
    /\ p.overlay = "hud"   => /\ ~d.sheet
                              /\ p.world
                              /\ p.panel = t
    /\ p.aim # 0           => /\ ~d.sheet
                              /\ p.world
                              /\ p.aim = t

Init == decided = <<>> /\ shown = NoPicture

Decide ==
    /\ \E d \in Decision : decided' = Append(decided, d)
    /\ UNCHANGED shown

Show ==
    /\ shown'.ticket \in DOMAIN decided
    /\ shown'.ticket >= shown.ticket
    /\ Composed(shown', shown'.ticket, decided[shown'.ticket])
    /\ UNCHANGED decided

Next == Decide \/ Show

Spec == Init /\ [][Next]_vars
=============================================================================
