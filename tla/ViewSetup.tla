------------------------------ MODULE ViewSetup ------------------------------
(***************************************************************************)
(* The game's view structure, which the hook borrows.                      *)
(*                                                                         *)
(* Once a frame the engine sets its view up in a persistent structure; the *)
(* hook reads it as the base camera and may write the head into it.  Then  *)
(* every pass of the next frame writes an eye, or the base again, into the *)
(* same structure, from which the engine reads its camera the next time.   *)
(* All of it runs on the engine thread, in this order, for ever: prepare   *)
(* the frame, the passes, the engine's camera, the view setup.             *)
(*                                                                         *)
(* A view is a camera of the game, what was put on top of it and how many  *)
(* heads that is, and the meaning of the field of view: "asked" is the     *)
(* engine's request at 4:3, "scaled" the same in place for the window.     *)
(***************************************************************************)
EXTENDS Integers

CONSTANTS
    Cameras,        \* where the game may want the camera
    Broken,         \* those that CheckView refuses
    Structs,        \* bound: how many view structures the engine uses, one after the other
    LastPass        \* bound: the last pass of a frame, of the 3 there may be

ASSUME CameraAssumption  == Broken \subseteq Cameras
ASSUME BoundAssumption   == Structs \in Nat \ {0} /\ LastPass \in 2 .. 3

VARIABLES
    \* The engine.
    pc,             \* "frame", "passes", "engine", "setup", "rescale"
    drawing,        \* the pass that has begun, -1 for none yet
    at,             \* the view structure in use
    view,           \* what it holds
    weapon,         \* and its weapon field of view, the game's or an eye's
    newest,         \* the camera the game asked for last
    left,           \* history: the field of view the engine left for this frame's passes
    stoppedLate,    \* history: the last eye was once switched off between setup and passes
    \* The hook.
    viewStruct,     \* g_ViewStruct, 0 for null
    base,           \* g_BaseOrigin, g_BaseAngles, g_BaseFov
    dirty,          \* g_Dirty
    lastWritten,    \* g_LastWritten, in a set that is empty until there is one
    original,       \* g_OriginalWeaponFov, likewise
    passEntryFov,   \* g_PassEntryFov, likewise
    eye,            \* g_Eyes: "off", with a field of view of its "own", or the "game"'s
    head,           \* g_Head.enabled
    weaponFov,      \* g_WeaponFov
    pass0Mode       \* g_Pass0Mode

engineVars == <<drawing, at, newest, left, stoppedLate>>
baseVars   == <<viewStruct, base, dirty, lastWritten>>
fovVars    == <<original, passEntryFov>>
choiceVars == <<eye, head, weaponFov, pass0Mode>>
vars == <<pc, engineVars, view, weapon, baseVars, fovVars, choiceVars>>

-----------------------------------------------------------------------------
Passes   == 0 .. LastPass
EyePass  == 1 .. LastPass
EyeNames == <<"left", "right", "spare">>
Fovs     == {"asked", "scaled", "eye", "tiny"}
Views    == [camera : Cameras, by : {"game", "sky", "head", "left", "right", "spare"},
             heads : 0 .. 2, fov : Fovs]

\* A value of a set, or none yet.
OneOf(S) == {{}} \cup {{x} : x \in S}

\* What the engine writes when it computes a camera.
Fresh(c) == [camera |-> c, by |-> "game", heads |-> 0, fov |-> "asked"]

\* ComposeViewAngles and the offsets: a head, or an eye, on top of a camera.
\* Bound: two heads stand for any number of them.
Compose(v, who, fov) ==
    [camera |-> v.camera, by |-> who, heads |-> IF v.heads < 2 THEN v.heads + 1 ELSE 2, fov |-> fov]

AnyEyeEnabled == \E k \in EyePass : eye[k] # "off"

ViewIsPlausible(v) == v.camera \notin Broken

\* A pass has something to write.
DrawsEyes == viewStruct # 0 /\ AnyEyeEnabled /\ ViewIsPlausible(base)

\* Mutant: the borrowed value is forgotten without being given back.
ForgetWeaponFov == weapon

\* The weapon's field given back.  The hook does this only to the structure in use, for
\* the view is set up in a new one before anything else looks at it.
RestoreWeaponFov ==
    IF viewStruct # 0 /\ original # {}
      THEN CHOOSE w \in original : TRUE
      ELSE weapon

-----------------------------------------------------------------------------
\* The top of a frame: eyes and head from the runtime's poses, or left as they were
\* without a session or without poses; no head in the menu.
Prepare ==
    /\ pc = "frame"
    /\ pc' = "passes"
    /\ \/ UNCHANGED <<eye, head>>
       \/ /\ eye' = [eye EXCEPT ![1] = "own", ![2] = "own"]
          /\ head' \in BOOLEAN
    /\ UNCHANGED <<engineVars, view, weapon, baseVars, fovVars, weaponFov, pass0Mode>>

\* The engine's field of view as the main pass found it.
EntryFov(entry) == IF entry = {} THEN base.fov ELSE CHOOSE f \in entry : TRUE

\* Mutant: an eye is put on top of what the last pass left.
OnTopOfTheLastPass(k, fov) == Compose(view, EyeNames[k], fov)

\* An eye's view, from the base camera.
EyeView(k, fov) == Compose(base, EyeNames[k], fov)

\* Mutant: a pass without an eye is left as it was.
LeftAlone(k, fov) == view

\* A pass without an eye gets the base camera back; the main pass may be made to see
\* next to nothing.
BareView(k, fov) ==
    [base EXCEPT !.fov = IF k = 0 /\ pass0Mode = "tiny" THEN "tiny" ELSE fov,
                 !.by  = IF k = 0 /\ pass0Mode = "up" THEN "sky" ELSE @]

\* AfxVr_OnBeginRenderPass of pass k, once the structure is known.
WritePass(k, restored, entry) ==
    LET enabled == k \in EyePass /\ eye[k] # "off"
        fov     == IF enabled /\ eye[k] = "own" THEN "eye" ELSE EntryFov(entry)
        written == IF enabled THEN EyeView(k, fov) ELSE BareView(k, fov)
        lent    == enabled /\ weaponFov
    IN  /\ view' = written
        /\ lastWritten' = {written}
        /\ dirty' = (dirty \/ enabled)
        /\ weapon' = IF lent THEN "eye" ELSE restored
        /\ original' = IF ~lent THEN {} ELSE IF original = {} THEN {weapon} ELSE original

\* One more pass begins, the last one or not; recordings have passes of their own.
BeginPass ==
    LET k        == drawing + 1
        lent     == k \in EyePass /\ eye[k] # "off" /\ weaponFov
        restored == IF lent THEN weapon ELSE RestoreWeaponFov
        entry    == IF k = 0 /\ viewStruct # 0 /\ ViewIsPlausible(view)
                      THEN {view.fov} ELSE passEntryFov
    IN  /\ pc = "passes" /\ k \in Passes
        /\ drawing' = k
        /\ pc' \in IF k = LastPass THEN {"engine"} ELSE {"passes", "engine"}
        /\ IF DrawsEyes THEN WritePass(k, restored, entry)
           ELSE /\ weapon' = restored
                /\ original' = IF lent \/ viewStruct = 0 THEN original ELSE {}
                /\ UNCHANGED <<view, dirty, lastWritten>>
        /\ passEntryFov' = entry
        /\ UNCHANGED <<at, newest, left, stoppedLate, viewStruct, base, choiceVars>>

-----------------------------------------------------------------------------
\* The engine computes a camera, or on a paused demo leaves the view as it is; it may
\* write the weapon's field too, or use a new structure with values of its own.
ComputeCamera ==
    /\ pc = "engine"
    /\ pc' = "setup"
    /\ \/ UNCHANGED <<at, view, newest>> /\ weapon' \in {weapon, "game"}
       \/ \E c \in Cameras :
            /\ newest' = c /\ view' = Fresh(c)
            /\ \/ UNCHANGED at /\ weapon' \in {weapon, "game"}
               \/ at < Structs /\ at' = at + 1 /\ weapon' = "game"
    /\ drawing' = -1 /\ left' = "asked"
    /\ UNCHANGED <<stoppedLate, baseVars, fovVars, choiceVars>>

\* Mutants: the base is put back over whatever the engine wrote, or only while a
\* session is drawing eyes.
AlwaysRestore(now) == dirty
RestoreForEyes(now) == dirty /\ AnyEyeEnabled /\ now \in lastWritten

\* Only if the structure holds exactly what was written last.
ShouldRestoreBaseView(now) == dirty /\ now \in lastWritten

\* AfxVr_BeforeViewSetupRead: the view as the trampoline reads it.
BeforeViewSetupRead ==
    IF at = viewStruct /\ ShouldRestoreBaseView(view) THEN base ELSE view

\* AfxVr_AfterViewSetup puts the head on what was read, for a pass has to have an eye.
WritesHead(read) == head /\ AnyEyeEnabled /\ ViewIsPlausible(read)

\* What is left to put back before the next read.
DirtyAfter(read) == WritesHead(read) \/ (dirty /\ at # viewStruct)

\* The trampoline: read, an override of the game's camera by someone else's, the head.
\* A camera path or mirv_input replaces what was read, and is written back.
SetUpView ==
    /\ pc = "setup"
    /\ pc' = "rescale"
    /\ \E read \in {BeforeViewSetupRead}
                 \cup {[Fresh(c) EXCEPT !.fov = BeforeViewSetupRead.fov] : c \in Cameras} :
         LET written == IF WritesHead(read) THEN Compose(read, "head", read.fov) ELSE read
         IN  /\ base' = read
             /\ newest' = IF read = BeforeViewSetupRead THEN newest ELSE read.camera
             /\ view' = written
             /\ dirty' = DirtyAfter(read)
             /\ lastWritten' =
                  IF WritesHead(read) THEN {written}
                  ELSE IF at = viewStruct /\ ShouldRestoreBaseView(view) THEN {base}
                  ELSE lastWritten
    /\ viewStruct' = at
    /\ weapon' = IF at = viewStruct THEN RestoreWeaponFov ELSE weapon
    /\ original' = {}
    /\ UNCHANGED <<drawing, at, left, stoppedLate, passEntryFov, choiceVars>>

\* The engine then rescales the field of view in place for the window's shape.
Rescale ==
    /\ pc = "rescale"
    /\ pc' = "frame"
    /\ view' \in {view, [view EXCEPT !.fov = IF @ = "asked" THEN "scaled" ELSE @]}
    /\ left' = view'.fov
    /\ UNCHANGED <<drawing, at, newest, stoppedLate, weapon, baseVars, fovVars, choiceVars>>

-----------------------------------------------------------------------------
\* Console commands run between the passes and the view setup, or, if one the hook
\* dispatches at the top of its frame is executed at once, between setup and passes.
AtConsole == pc \in {"engine", "frame"}

\* mirv_vr_xr stop, mirv_vr_eye, mirv_vr_ipd.
SetEye ==
    /\ AtConsole
    /\ \/ eye' = [eye EXCEPT ![1] = "off", ![2] = "off"] /\ head' \in {head, FALSE}
       \/ eye' = [k \in EyePass |-> "off"] /\ UNCHANGED head
       \/ \E k \in EyePass, e \in {"own", "game"} : eye' = [eye EXCEPT ![k] = e] /\ UNCHANGED head
    /\ stoppedLate' = (stoppedLate \/ (pc = "frame" /\ \A k \in EyePass : eye'[k] = "off"))
    /\ UNCHANGED <<pc, drawing, at, newest, left, view, weapon, baseVars, fovVars, weaponFov, pass0Mode>>

\* mirv_vr_weaponfov: switched off, it gives the field back at once.
SetWeaponFov ==
    /\ AtConsole
    /\ weaponFov' = ~weaponFov
    /\ IF weaponFov
         THEN weapon' = RestoreWeaponFov /\ original' = {}
         ELSE UNCHANGED <<weapon, original>>
    /\ UNCHANGED <<pc, engineVars, view, baseVars, passEntryFov, eye, head, pass0Mode>>

\* mirv_vr_pass0.
SetPass0Mode ==
    /\ AtConsole
    /\ pass0Mode' \in {"off", "tiny", "up"} \ {pass0Mode}
    /\ UNCHANGED <<pc, engineVars, view, weapon, baseVars, fovVars, eye, head, weaponFov>>

Init ==
    /\ pc = "frame" /\ drawing = -1 /\ at = 1
    /\ newest \in Cameras
    /\ view = Fresh(newest) /\ left = "asked" /\ stoppedLate = FALSE /\ weapon = "game"
    /\ viewStruct = 0 /\ base = Fresh(newest) /\ dirty = FALSE /\ lastWritten = {}
    /\ original = {} /\ passEntryFov = {}
    /\ eye = [k \in EyePass |-> "off"] /\ head = FALSE
    /\ weaponFov = FALSE /\ pass0Mode = "off"

Next ==
    \/ Prepare
    \/ BeginPass
    \/ ComputeCamera
    \/ SetUpView
    \/ Rescale
    \/ SetEye
    \/ SetWeaponFov
    \/ SetPass0Mode

Spec == Init /\ [][Next]_vars

-----------------------------------------------------------------------------
TypeOK ==
    /\ pc \in {"frame", "passes", "engine", "setup", "rescale"}
    /\ drawing \in -1 .. LastPass /\ at \in 1 .. Structs /\ viewStruct \in 0 .. Structs
    /\ view \in Views /\ weapon \in {"game", "eye"}
    /\ newest \in Cameras /\ left \in Fovs /\ stoppedLate \in BOOLEAN
    /\ base \in Views /\ dirty \in BOOLEAN
    /\ lastWritten \in OneOf(Views) /\ original \in OneOf({"game", "eye"})
    /\ passEntryFov \in OneOf(Fovs)
    /\ eye \in [EyePass -> {"off", "own", "game"}] /\ head \in BOOLEAN
    /\ weaponFov \in BOOLEAN /\ pass0Mode \in {"off", "tiny", "up"}

\* The head is put on the game's own camera, never on a camera the hook wrote: what a
\* pass or the head left in the structure is put back before it is read (MirvVr.cpp 388).
\* Unless the last eye goes off between the view setup and the passes: then the head's
\* write, remembered with a field of view that the engine has rescaled since, stays.
HeadIsAddedOnce == ~stoppedLate => base.heads = 0

\* And never at the price of a camera the engine computed: once the view is set up, the
\* base is the newest camera the game asked for, as long as it keeps its structure
\* (MirvVrMath.h 240).
CameraIsNotFrozen ==
    viewStruct # 0 /\ pc # "setup" /\ at = 1 => base.camera = newest

\* The weapon's field holds an eye's value only between that eye's pass and the next view
\* setup, and then what is kept to be put back is the game's (MirvVr.cpp 205).
WeaponFovIsBorrowed ==
    weapon = "eye" => original = {"game"} /\ (drawing \in EyePass \/ pc = "setup")

\* While eyes are drawn, a pass shows the base camera with its own eye on it
\* once, or bare, whatever the passes before it and the last frame left (MirvVr.cpp 524); and
\* without a field of view of its own it has the one the engine left for this frame's
\* passes, not the number the view was set up with (584).
EachPassHasItsView ==
    [][drawing' >= 0 /\ drawing' # drawing /\ DrawsEyes
         => LET v       == view'
                enabled == drawing' \in EyePass /\ eye[drawing'] # "off"
            IN  /\ v.camera = base.camera
                /\ ~stoppedLate => v.heads = IF enabled THEN 1 ELSE 0
                /\ enabled => v.by = EyeNames[drawing']
                /\ \/ v.fov = left
                   \/ drawing' \in EyePass /\ eye[drawing'] = "own"
                   \/ drawing' = 0 /\ pass0Mode = "tiny"]_vars
=============================================================================
