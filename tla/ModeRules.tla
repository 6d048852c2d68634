------------------------------ MODULE ModeRules ------------------------------
(***************************************************************************)
(* The rules that say what the headset shows and whom the controllers      *)
(* belong to: pure functions of their arguments, shared by the modules     *)
(* that use them.                                                          *)
(***************************************************************************)

VrModes == {"idle", "menu", "watch", "play"}

\* cursorShowing is recorded with the inputs and decides nothing.
ModeInputs == [sessionRunning : BOOLEAN, mapLoaded : BOOLEAN, demoPlaying : BOOLEAN,
               manualSheet : BOOLEAN]

ModeResults == [mode : VrModes, worldInEyes : BOOLEAN, sheet : BOOLEAN, sheetOpaque : BOOLEAN,
                pointer : BOOLEAN]

NoMode == [mode |-> "idle", worldInEyes |-> FALSE, sheet |-> FALSE, sheetOpaque |-> FALSE,
           pointer |-> FALSE]

DecideMode(in) ==
    IF ~in.sessionRunning THEN NoMode
    ELSE [mode        |-> IF ~in.mapLoaded THEN "menu" ELSE IF in.demoPlaying THEN "watch" ELSE "play",
          worldInEyes |-> in.mapLoaded,
          sheet       |-> ~in.mapLoaded \/ in.manualSheet,
          sheetOpaque |-> ~in.mapLoaded,
          pointer     |-> ~in.mapLoaded \/ in.manualSheet]

\* The cursor moves the sheet's switch by its edge, and over a game only.
NextSheetOverride(current, cursorNow, cursorWas, mode) ==
    IF mode # "play" \/ cursorNow = cursorWas THEN current ELSE cursorNow

ModeTakesGameInput(m) == m.mode = "play" /\ ~m.pointer

\* The edge on which everything held is let go.
ModeChanges(old, new) == new.mode # old.mode \/ new.sheet # old.sheet
=============================================================================
