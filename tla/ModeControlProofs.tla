-------------------------- MODULE ModeControlProofs --------------------------
(***************************************************************************)
(* What TLAPS proves of ModeControl, in both arrangements, for every       *)
(* debounce, every frame time and every set of maps.                       *)
(***************************************************************************)
EXTENDS ModeControl, TLAPS

\* The count of the debounce is the true age of a cursor that is not the shown one.
CountIsTheAge ==
    IF seen = cursorShowing THEN changedFor = -1 ELSE changedFor = steadyFor

\* What was there before is saved exactly while playing, and is what the viewer chose.
SavedWhilePlaying ==
    /\ freeLookWasOn <=> mode.mode = "play"
    /\ wanted = IF freeLookWasOn THEN freeLookBefore ELSE freeLook

\* A modal that has raised the window is one whose edge has been seen.
RaisedBySeenEdge == raised => cursorWas

ModeInv == TypeOK /\ CountIsTheAge /\ SavedWhilePlaying /\ RaisedBySeenEdge

\* Every input gives one of the results.
LEMMA DecideModeTyped ==
  ASSUME NEW switch \in BOOLEAN, TypeOK
  PROVE  DecideMode(Inputs(switch)) \in ModeResults
<1>1. /\ Inputs(switch).sessionRunning \in BOOLEAN /\ Inputs(switch).mapLoaded \in BOOLEAN
      /\ Inputs(switch).demoPlaying \in BOOLEAN /\ Inputs(switch).manualSheet \in BOOLEAN
  BY DEF Inputs, TypeOK
<1> QED
  BY <1>1 DEF DecideMode, ModeResults, NoMode, VrModes

\* The debounce keeps its count within bounds and equal to the age, and moves the
\* cursor only when the age is whole.
LEMMA DebounceCounts ==
  ASSUME ModeInv, ReadInputs
  PROVE  /\ cursorShowing' \in BOOLEAN /\ seen' \in BOOLEAN
         /\ changedFor' \in -1 .. DebounceMs /\ steadyFor' \in 0 .. DebounceMs
         /\ CountIsTheAge'
         /\ cursorShowing' # cursorShowing => steadyFor' = DebounceMs /\ cursorShowing' = cursor
<1>1. PICK ms \in FrameMs :
        /\ Debounce(ms)
        /\ steadyFor' = IF cursor = seen THEN Least(steadyFor + ms, DebounceMs) ELSE 0
  BY DEF ReadInputs
<1>2. /\ ms \in Nat /\ DebounceMs \in Nat /\ steadyFor \in 0 .. DebounceMs
      /\ changedFor \in -1 .. DebounceMs
      /\ cursor \in BOOLEAN /\ seen \in BOOLEAN /\ cursorShowing \in BOOLEAN
      /\ seen' = cursor /\ cursor' = cursor
  BY TimeAssumption DEF ModeInv, TypeOK, ReadInputs, worldVars
<1>3. steadyFor' \in 0 .. DebounceMs
  BY <1>1, <1>2 DEF Least
<1>4. CASE cursor = cursorShowing
  BY <1>1, <1>2, <1>3, <1>4 DEF Debounce, CountIsTheAge
<1>5. CASE cursor # cursorShowing /\ seen = cursorShowing
  BY <1>1, <1>2, <1>3, <1>5 DEF Debounce, CountIsTheAge, ModeInv
<1>6. CASE cursor # cursorShowing /\ seen # cursorShowing
  <2>1. cursor = seen /\ changedFor = steadyFor /\ changedFor # -1
    BY <1>2, <1>6 DEF ModeInv, CountIsTheAge
  <2>2. steadyFor' = IF changedFor + ms < DebounceMs THEN changedFor + ms ELSE DebounceMs
    BY <1>1, <2>1 DEF Least
  <2>3. CASE changedFor + ms >= DebounceMs
    BY <1>1, <1>2, <1>3, <1>6, <2>1, <2>2, <2>3 DEF Debounce, CountIsTheAge
  <2>4. CASE changedFor + ms < DebounceMs
    BY <1>1, <1>2, <1>3, <1>6, <2>1, <2>2, <2>4 DEF Debounce, CountIsTheAge
  <2> QED
    BY <1>2, <2>3, <2>4
<1> QED
  BY <1>4, <1>5, <1>6

\* The decision keeps the saved free look with the mode, and raises by an edge only.
LEMMA DecideKeeps ==
  ASSUME ModeInv, Decide
  PROVE  ModeInv' /\ (~override /\ override' => ~raised)
<1> DEFINE probe == DecideMode(Inputs(manualSheet))
<1>1. /\ TypeOK /\ SavedWhilePlaying /\ RaisedBySeenEdge /\ CountIsTheAge
  BY DEF ModeInv
<1>2. /\ override' = NextSheetOverride(override, cursorShowing, cursorWas, probe.mode)
      /\ override' \in BOOLEAN /\ raised' \in BOOLEAN
  BY <1>1 DEF Decide, MoveSwitch, Switch, NextSheetOverride, TypeOK
<1>3. ~override /\ override' => cursorShowing /\ ~cursorWas
  BY <1>1, <1>2 DEF NextSheetOverride, TypeOK
<1>4. mode' = Decided /\ mode' \in ModeResults
  <2>1. (IF override' = override THEN manualSheet ELSE override') \in BOOLEAN
    BY <1>1, <1>2 DEF TypeOK
  <2> QED
    BY <1>1, <2>1, DecideModeTyped DEF Decide, Decided
<1>5. /\ freeLook' \in BOOLEAN /\ freeLookWasOn' \in BOOLEAN /\ freeLookBefore' \in BOOLEAN
      /\ alignPending' \in BOOLEAN
      /\ SavedWhilePlaying'
  <2>1. CASE ModeChanges(mode, mode')
    <3>1. AlignToPlayer(mode') /\ ForceFreeLook(mode') /\ wanted' = wanted
      BY <1>4, <2>1 DEF Decide
    <3>2. alignPending' \in BOOLEAN
      BY <1>1, <3>1 DEF AlignToPlayer, TypeOK
    <3>3. CASE mode'.mode = "play"
      BY <1>1, <3>1, <3>2, <3>3 DEF ForceFreeLook, SavedWhilePlaying, TypeOK
    <3>4. CASE mode'.mode # "play"
      BY <1>1, <3>1, <3>2, <3>4 DEF ForceFreeLook, SavedWhilePlaying, TypeOK
    <3> QED
      BY <3>3, <3>4
  <2>2. CASE ~ModeChanges(mode, mode')
    <3>1. /\ UNCHANGED <<alignPending, freeLook, freeLookWasOn, freeLookBefore>>
          /\ wanted' = wanted /\ mode'.mode = mode.mode
      BY <1>4, <2>2 DEF Decide, ModeChanges
    <3> QED
      BY <1>1, <3>1 DEF SavedWhilePlaying, TypeOK
  <2> QED
    BY <2>1, <2>2
<1>6. TypeOK'
  BY <1>1, <1>2, <1>4, <1>5 DEF TypeOK, Decide, cursorVars, worldVars
<1>7. RaisedBySeenEdge'
  BY DEF RaisedBySeenEdge, Decide, MoveSwitch
<1>8. CountIsTheAge'
  BY <1>1 DEF CountIsTheAge, Decide, cursorVars
<1>9. ~override /\ override' => ~raised
  BY <1>1, <1>3 DEF RaisedBySeenEdge
<1> QED
  BY <1>5, <1>6, <1>7, <1>8, <1>9 DEF ModeInv

\* The buttons, the game and the desktop leave what the frames have counted alone.
LEMMA WorldKeeps ==
  ASSUME ModeInv, World
  PROVE  ModeInv' /\ UNCHANGED <<cursorVars, cursorWas, mode, raised>>
<1>1. /\ TypeOK /\ SavedWhilePlaying /\ RaisedBySeenEdge /\ CountIsTheAge
  BY DEF ModeInv
<1>2. /\ UNCHANGED <<epc, manualSheet, cursorVars, cursorWas, mode, freeLookWasOn, freeLookBefore,
                     alignPending, raised>>
      /\ override' \in BOOLEAN
      /\ running' \in BOOLEAN /\ map' \in Maps /\ cursor' \in BOOLEAN /\ camera' \in Cameras
      /\ freeLook' \in BOOLEAN /\ wanted' \in BOOLEAN
      /\ wanted' = IF freeLookWasOn THEN freeLookBefore ELSE freeLook'
  <2>1. CASE PressMenuButton
    BY <1>1, <2>1 DEF PressMenuButton, TypeOK, SavedWhilePlaying, cursorVars, lookVars, worldVars
  <2>2. CASE ToggleFreeLook
    <3>1. freeLook' = ~freeLook /\ wanted' = IF mode.mode = "play" THEN wanted ELSE freeLook'
      BY <2>2 DEF ToggleFreeLook
    <3> QED
      BY <1>1, <2>2, <3>1 DEF ToggleFreeLook, TypeOK, SavedWhilePlaying, cursorVars, sheetVars, worldVars
  <2>3. CASE MapChanges
    BY <1>1, <2>3 DEF MapChanges, TypeOK, SavedWhilePlaying, cursorVars, lookVars, sheetVars, Cameras
  <2>4. CASE ViewSetup
    BY <1>1, <2>4 DEF ViewSetup, TypeOK, SavedWhilePlaying, cursorVars, lookVars, sheetVars, Cameras
  <2>5. CASE CursorChanges
    BY <1>1, <2>5 DEF CursorChanges, TypeOK, SavedWhilePlaying, cursorVars, lookVars, sheetVars
  <2>6. CASE SessionChanges
    BY <1>1, <2>6 DEF SessionChanges, TypeOK, SavedWhilePlaying, cursorVars, lookVars, sheetVars
  <2> QED
    BY <2>1, <2>2, <2>3, <2>4, <2>5, <2>6 DEF World
<1>3. TypeOK'
  BY <1>1, <1>2 DEF TypeOK, cursorVars
<1>4. SavedWhilePlaying' /\ RaisedBySeenEdge' /\ CountIsTheAge'
  BY <1>1, <1>2 DEF SavedWhilePlaying, RaisedBySeenEdge, CountIsTheAge, cursorVars
<1> QED
  BY <1>2, <1>3, <1>4 DEF ModeInv

\* Reading the inputs moves nothing but the cursor and what is asked of the alignment.
LEMMA ReadKeeps == ASSUME ModeInv, ReadInputs PROVE ModeInv'
<1>1. /\ TypeOK /\ SavedWhilePlaying /\ RaisedBySeenEdge
  BY DEF ModeInv
<1>2. alignPending' \in BOOLEAN
  BY <1>1 DEF ReadInputs, TypeOK
<1>3. TypeOK'
  BY <1>1, <1>2, DebounceCounts DEF ReadInputs, TypeOK, lookVars, sheetVars, worldVars
<1>4. SavedWhilePlaying' /\ RaisedBySeenEdge'
  BY <1>1 DEF ReadInputs, SavedWhilePlaying, RaisedBySeenEdge, lookVars, sheetVars
<1> QED
  BY <1>3, <1>4, DebounceCounts DEF ModeInv

LEMMA InitMode == Init => ModeInv
<1> SUFFICES ASSUME Init PROVE ModeInv
  OBVIOUS
<1>1. TypeOK
  <2>1. mode \in ModeResults
    BY DEF Init, ModeResults, NoMode, VrModes
  <2>2. changedFor \in -1 .. DebounceMs /\ steadyFor \in 0 .. DebounceMs
    BY TimeAssumption DEF Init
  <2>3. wanted = freeLook /\ freeLook \in BOOLEAN /\ wanted \in BOOLEAN
    BY Zenon DEF Init
  <2> QED
    BY <2>1, <2>2, <2>3, Zenon DEF Init, TypeOK, Cameras
<1>2. CountIsTheAge /\ SavedWhilePlaying /\ RaisedBySeenEdge
  BY DEF Init, CountIsTheAge, SavedWhilePlaying, RaisedBySeenEdge, NoMode
<1> QED
  BY <1>1, <1>2 DEF ModeInv

LEMMA StutterMode == ASSUME ModeInv, UNCHANGED vars PROVE ModeInv'
BY DEF vars, cursorVars, lookVars, sheetVars, worldVars, ModeInv, TypeOK, CountIsTheAge,
       SavedWhilePlaying, RaisedBySeenEdge

LEMMA StepMode == ModeInv /\ [Next]_vars => ModeInv'
BY ReadKeeps, DecideKeeps, WorldKeeps, StutterMode DEF Next, Frame

THEOREM ModeInvariant == Spec => []ModeInv
BY InitMode, StepMode, PTL DEF Spec

\* Every variable of the mode keeps its type (TypeOK), in particular the debounce's
\* count never passes kCursorDebounceMs, however long a frame takes.
THEOREM TypeCorrect == Spec => []TypeOK
<1>1. ModeInv => TypeOK
  BY DEF ModeInv
<1> QED
  BY <1>1, ModeInvariant, PTL

\* Whatever the window, the session and the maps did while a game was played, the free
\* look the viewer had chosen is there again when it is not (FreeLookIsRestored).
THEOREM FreeLookRestored == Spec => []FreeLookIsRestored
<1>1. ModeInv => FreeLookIsRestored
  BY DEF ModeInv, SavedWhilePlaying, FreeLookIsRestored
<1> QED
  BY <1>1, ModeInvariant, PTL

\* The cursor the decision is made from moves only after every frame of a whole
\* debounce has seen it moved (CursorMovesOnceSteady).
THEOREM CursorSteady == Spec => CursorMovesOnceSteady
<1>1. ASSUME ModeInv, [Next]_vars
      PROVE  [cursorShowing' # cursorShowing
                => steadyFor' = DebounceMs /\ cursorShowing' = cursor]_vars
  <2>1. CASE ReadInputs
    BY <1>1, <2>1, DebounceCounts
  <2>2. CASE Decide
    BY <2>2 DEF Decide, cursorVars
  <2>3. CASE World
    BY <1>1, <2>3, WorldKeeps DEF cursorVars
  <2> QED
    BY <1>1, <2>1, <2>2, <2>3 DEF Next, Frame
<1> QED
  BY <1>1, ModeInvariant, PTL DEF Spec, CursorMovesOnceSteady

\* A modal raises the window once: put away by hand, it stays away while that modal
\* still shows the cursor (RaisedOncePerModal).
THEOREM RaisedOnce == Spec => RaisedOncePerModal
<1>1. ASSUME ModeInv, [Next]_vars
      PROVE  [epc = "decide" /\ epc' = "read" /\ ~override /\ override' => ~raised]_vars
  <2>1. CASE ReadInputs
    BY <2>1 DEF ReadInputs
  <2>2. CASE Decide
    BY <1>1, <2>2, DecideKeeps
  <2>3. CASE World
    <3>1. epc' = epc
      BY <2>3 DEF World, PressMenuButton, ToggleFreeLook, MapChanges, ViewSetup, CursorChanges,
                  SessionChanges
    <3> QED
      BY <3>1
  <2> QED
    BY <1>1, <2>1, <2>2, <2>3 DEF Next, Frame
<1> QED
  BY <1>1, ModeInvariant, PTL DEF Spec, RaisedOncePerModal
=============================================================================
