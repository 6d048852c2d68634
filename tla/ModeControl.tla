----------------------------- MODULE ModeControl -----------------------------
(***************************************************************************)
(* What the headset shows, decided once a frame on the engine thread.      *)
(*                                                                         *)
(* The map, the demo flag and the session say which mode it is; over a     *)
(* world the window is on or off by a switch, which the viewer's menu      *)
(* button flips and an edge of the debounced cursor moves in a game.  A    *)
(* change of mode or window also forces free look while playing and puts   *)
(* it back afterwards, and turns the room onto the player once there is a  *)
(* camera to turn it to.                                                   *)
(*                                                                         *)
(* In the low-latency arrangement the button is read on the engine thread, *)
(* after the decision; in the safe one by the render thread, at any time.  *)
(* What a change releases is in ControllerInput.                           *)
(***************************************************************************)
EXTENDS Integers, ModeRules

CONSTANTS
    LowLatency,     \* mirv_vr_xr latency low
    DebounceMs,     \* kCursorDebounceMs
    FrameMs,        \* bound: how long a frame may take
    Maps            \* bound: what may be loaded, of "none", "demo", "game"

ASSUME FlagAssumption  == LowLatency \in BOOLEAN
ASSUME TimeAssumption  == DebounceMs \in Nat /\ FrameMs \subseteq Nat
ASSUME BoundAssumption == Maps \subseteq {"none", "demo", "game"}

VARIABLES
    \* The engine thread.
    epc,            \* "read" the inputs, or "decide"
    manualSheet,    \* the switch as it was read, a local of the frame
    cursorShowing,  \* g_CursorShowing, debounced
    changedFor,     \* how long ago g_CursorChangedAt is, -1 for not set
    cursorWas,      \* the cursor of the last decision
    mode,           \* g_Mode
    freeLook,       \* AfxVr's free look
    freeLookWasOn,  \* g_FreeLookWasOn: forced on, and what was there is saved
    freeLookBefore, \* g_FreeLookBeforePlay
    alignPending,   \* g_AlignToPlayerPending
    \* Also written by the render thread.
    override,       \* g_MenuOverride
    \* The world.
    running,        \* g_SessionRunning
    map,            \* what the engine has loaded
    cursor,         \* the game is in front and shows a pointer
    camera,         \* whose the last plausible view is: nobody's, an earlier map's, the player's
    \* History.
    seen,           \* the cursor as the last frame saw it
    steadyFor,      \* for how long every frame has seen it so, up to DebounceMs
    raised,         \* the window was put up for the modal that now shows the cursor
    wanted          \* the free look the viewer last chose outside a game

cursorVars == <<cursorShowing, changedFor, seen, steadyFor>>
sheetVars  == <<override, raised>>
lookVars   == <<freeLook, freeLookWasOn, freeLookBefore, wanted>>
worldVars  == <<running, map, cursor, camera>>
vars == <<epc, manualSheet, cursorVars, cursorWas, mode, lookVars, alignPending, sheetVars, worldVars>>

-----------------------------------------------------------------------------
Cameras == {"none", "leftover", "player"}

Inputs(switch) ==
    [sessionRunning |-> running, mapLoaded |-> map # "none", demoPlaying |-> map = "demo",
     manualSheet |-> switch]

Least(m, n) == IF m < n THEN m ELSE n

\* Mutant: a cursor that goes back does not start the count again.
DebounceOn(ms) ==
    IF cursor = cursorShowing THEN UNCHANGED <<cursorShowing, changedFor>>
    ELSE IF changedFor = -1 THEN changedFor' = 0 /\ UNCHANGED cursorShowing
    ELSE IF changedFor + ms >= DebounceMs THEN cursorShowing' = cursor /\ changedFor' = -1
    ELSE changedFor' = changedFor + ms /\ UNCHANGED cursorShowing

\* The buy menu flickers the cursor: a change counts once it has lasted.
Debounce(ms) ==
    IF cursor = cursorShowing THEN changedFor' = -1 /\ UNCHANGED cursorShowing
    ELSE IF changedFor = -1 THEN changedFor' = 0 /\ UNCHANGED cursorShowing
    ELSE IF changedFor + ms >= DebounceMs THEN cursorShowing' = cursor /\ changedFor' = -1
    ELSE changedFor' = changedFor + ms /\ UNCHANGED cursorShowing

\* The top of the frame: the jump detector, and the inputs of the decision.
ReadInputs ==
    /\ epc = "read"
    /\ epc' = "decide"
    /\ manualSheet' = override
    /\ \E ms \in FrameMs :
         /\ Debounce(ms)
         /\ steadyFor' = IF cursor = seen THEN Least(steadyFor + ms, DebounceMs) ELSE 0
    /\ seen' = cursor
    /\ \E jumped \in {FALSE, camera = "player"} : alignPending' = (alignPending \/ jumped)
    /\ UNCHANGED <<cursorWas, mode, lookVars, sheetVars, worldVars>>

\* Mutant: the cursor is read as a level.
SwitchByLevel(m) == IF m = "play" THEN override \/ cursorShowing ELSE override

\* The cursor's edge moves the switch itself, for the decision and for good.
Switch(m) == NextSheetOverride(override, cursorShowing, cursorWas, m)

MoveSwitch ==
    LET probe == DecideMode(Inputs(manualSheet))
        next  == Switch(probe.mode)
    IN  /\ override' = next
        /\ raised' = (cursorShowing /\ (raised \/ (next /\ ~override)))

\* What DecideMode is given: the switch that was read, or the one just moved to.
Decided ==
    DecideMode(Inputs(IF override' = override THEN manualSheet ELSE override'))

\* Mutant: what was there before is saved again on every change.
ForceFreeLookAgain(next) ==
    IF next.mode = "play"
      THEN freeLookBefore' = freeLook /\ freeLookWasOn' = TRUE /\ freeLook' = TRUE
      ELSE freeLookWasOn' = FALSE /\ UNCHANGED freeLookBefore
           /\ freeLook' = IF freeLookWasOn THEN freeLookBefore ELSE freeLook

\* Playing, free look is on; what was there before is saved once and put back.
ForceFreeLook(next) ==
    IF next.mode = "play"
      THEN /\ freeLookBefore' = IF freeLookWasOn THEN freeLookBefore ELSE freeLook
           /\ freeLookWasOn' = TRUE /\ freeLook' = TRUE
      ELSE /\ freeLookWasOn' = FALSE /\ UNCHANGED freeLookBefore
           /\ freeLook' = IF freeLookWasOn THEN freeLookBefore ELSE freeLook

\* A view has once been plausible, and its origin is not the world's.
HasCamera == camera # "none"

\* Armed on the way into a game, and performed when there is a camera: in the same
\* place, under the same change.
Aligns(next) ==
    /\ next.mode = "play" /\ HasCamera
    /\ alignPending \/ mode.mode # "play"

AlignToPlayer(next) ==
    alignPending' = IF Aligns(next) THEN FALSE
                    ELSE alignPending \/ (next.mode = "play" /\ mode.mode # "play")

Decide ==
    /\ epc = "decide"
    /\ epc' = "read"
    /\ MoveSwitch
    /\ cursorWas' = cursorShowing
    /\ LET next == Decided
       IN  /\ mode' = next
           /\ IF ModeChanges(mode, next)
                THEN AlignToPlayer(next) /\ ForceFreeLook(next)
                ELSE UNCHANGED <<alignPending, freeLook, freeLookWasOn, freeLookBefore>>
    /\ UNCHANGED <<manualSheet, cursorVars, wanted, worldVars>>

Frame == ReadInputs \/ Decide

\* A short press of the menu button, where the controllers are read.
PressMenuButton ==
    /\ running /\ (LowLatency => epc = "read")
    /\ override' = ~override
    /\ UNCHANGED <<epc, manualSheet, cursorVars, cursorWas, mode, lookVars, alignPending, raised, worldVars>>

\* The left grip while watching, where the controllers are read, or the console.
ToggleFreeLook ==
    /\ LowLatency => epc = "read"
    /\ freeLook' = ~freeLook
    /\ wanted' = IF mode.mode = "play" THEN wanted ELSE freeLook'
    /\ UNCHANGED <<epc, manualSheet, cursorVars, cursorWas, mode, freeLookWasOn, freeLookBefore,
                   alignPending, sheetVars, worldVars>>

\* The game, the runtime and the desktop.  A map that is left leaves its last view
\* behind, until the view setup of the next one writes over it.
MapChanges ==
    /\ epc = "read"
    /\ map' \in Maps \ {map}
    /\ camera' = IF camera = "none" THEN "none" ELSE "leftover"
    /\ UNCHANGED <<epc, manualSheet, cursorVars, cursorWas, mode, lookVars, alignPending, sheetVars,
                   running, cursor>>

ViewSetup ==
    /\ epc = "read" /\ map # "none"
    /\ camera' = "player"
    /\ UNCHANGED <<epc, manualSheet, cursorVars, cursorWas, mode, lookVars, alignPending, sheetVars,
                   running, map, cursor>>

CursorChanges ==
    /\ cursor' = ~cursor
    /\ UNCHANGED <<epc, manualSheet, cursorVars, cursorWas, mode, lookVars, alignPending, sheetVars,
                   running, map, camera>>

SessionChanges ==
    /\ epc = "read"
    /\ running' = ~running
    /\ UNCHANGED <<epc, manualSheet, cursorVars, cursorWas, mode, lookVars, alignPending, sheetVars,
                   map, cursor, camera>>

World == PressMenuButton \/ ToggleFreeLook \/ MapChanges \/ ViewSetup \/ CursorChanges \/ SessionChanges

Init ==
    /\ epc = "read" /\ manualSheet = FALSE
    /\ cursorShowing = FALSE /\ changedFor = -1 /\ cursorWas = FALSE
    /\ mode = NoMode
    /\ freeLook \in BOOLEAN /\ freeLookWasOn = FALSE /\ freeLookBefore = FALSE
    /\ alignPending = FALSE /\ override = FALSE
    /\ running = FALSE /\ map \in Maps /\ cursor \in BOOLEAN /\ camera = "none"
    /\ seen = FALSE /\ steadyFor = 0 /\ raised = FALSE /\ wanted = freeLook

Next == Frame \/ World

Spec == Init /\ [][Next]_vars

\* The game calls the frame whatever is loaded.
FairSpec == Spec /\ WF_vars(Frame)

-----------------------------------------------------------------------------
(* What must hold.                                                         *)

\* Every variable has its type; the saved free look is believed only while it is.
TypeOK ==
    /\ epc \in {"read", "decide"} /\ manualSheet \in BOOLEAN
    /\ cursorShowing \in BOOLEAN /\ cursorWas \in BOOLEAN
    /\ changedFor \in -1 .. DebounceMs /\ steadyFor \in 0 .. DebounceMs /\ seen \in BOOLEAN
    /\ mode \in ModeResults
    /\ freeLook \in BOOLEAN /\ freeLookWasOn \in BOOLEAN /\ freeLookBefore \in BOOLEAN
    /\ alignPending \in BOOLEAN /\ override \in BOOLEAN
    /\ running \in BOOLEAN /\ map \in Maps /\ cursor \in BOOLEAN /\ camera \in Cameras
    /\ raised \in BOOLEAN /\ wanted \in BOOLEAN

\* Out of a game free look is what the viewer last chose there, whatever the window
\* and the session did meanwhile.
FreeLookIsRestored == mode.mode # "play" => freeLook = wanted

\* "A sheet that blinks is worse": the cursor the decision uses moves only after every
\* frame of the debounce has seen it moved.
CursorMovesOnceSteady ==
    [][cursorShowing' # cursorShowing => steadyFor' = DebounceMs /\ cursorShowing' = cursor]_vars

\* A modal raises the window once: one that the viewer has put away does not spring
\* back while the cursor is still showing.
RaisedOncePerModal == [][epc = "decide" /\ epc' = "read" /\ ~override /\ override' => ~raised]_vars

\* "Perform it at the first frame that actually has a camera."
AlignsOnceThereIsACamera ==
    LET ready == mode.mode = "play" /\ camera = "player"
    IN  alignPending /\ ready ~> ~alignPending \/ ~ready
=============================================================================
