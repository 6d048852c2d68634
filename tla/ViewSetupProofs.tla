--------------------------- MODULE ViewSetupProofs ---------------------------
(***************************************************************************)
(* What TLAPS proves of ViewSetup, for every set of cameras, every number  *)
(* of view structures and passes, and any number of frames.                *)
(***************************************************************************)
EXTENDS ViewSetup, TLAPS

\* Where a frame is in its passes, and what the hook knows of the structure in use.
FrameInv ==
    /\ pc \in {"setup", "rescale", "frame"} => drawing = -1
    /\ pc = "engine" => drawing >= 0
    /\ viewStruct \in {0, at} \/ (pc = "setup" /\ viewStruct < at)
    /\ viewStruct = 0 => ~dirty /\ original = {}

\* What is composed in the structure will be recognised before the next read, or is
\* about to be overwritten by the main pass.
ComposedInv ==
    ~stoppedLate =>
      /\ base.heads = 0
      /\ view.heads # 0 =>
           /\ viewStruct = at
           /\ IF pc \in {"rescale", "frame"} \/ (drawing = -1 /\ pc = "passes")
                THEN AnyEyeEnabled /\ ViewIsPlausible(base)
                ELSE dirty /\ lastWritten = {view}

\* Until it is replaced, the structure holds the newest camera, whoever wrote it last.
CameraInv ==
    at = 1 => /\ view.camera = newest
              /\ viewStruct # 0 /\ pc # "setup" => base.camera = newest
              /\ dirty => \A v \in lastWritten : v.camera = base.camera

\* An eye's value in the weapon's field is always owed the game's.
WeaponInv ==
    /\ original \in {{}, {"game"}}
    /\ weapon = "eye" => /\ viewStruct = at /\ original = {"game"}
                         /\ drawing \in EyePass \/ pc = "setup"

-----------------------------------------------------------------------------
\* One value of a set is what was put in.
LEMMA TheOne ==
  ASSUME NEW x
  PROVE  (CHOOSE y \in {x} : TRUE) = x
OBVIOUS

LEMMA OneOfFacts ==
  ASSUME NEW S, NEW x \in S
  PROVE  {} \in OneOf(S) /\ {x} \in OneOf(S)
BY DEF OneOf

LEMMA OneOfChoice ==
  ASSUME NEW S, NEW o \in OneOf(S), o # {}
  PROVE  (CHOOSE y \in o : TRUE) \in S
BY TheOne DEF OneOf

\* Composing gives a view.
LEMMA ComposeTyped ==
  ASSUME NEW v \in Views, NEW fov \in Fovs, NEW who \in {"head", "left", "right", "spare"}
  PROVE  Compose(v, who, fov) \in Views
BY DEF Compose, Views

LEMMA EyeNamesTyped ==
  ASSUME NEW k \in EyePass
  PROVE  EyeNames[k] \in {"left", "right", "spare"}
<1>1. k \in {1, 2, 3}
  BY BoundAssumption DEF EyePass
<1> QED
  BY <1>1 DEF EyeNames

LEMMA RestoreTyped ==
  ASSUME TypeOK
  PROVE  RestoreWeaponFov \in {"game", "eye"}
<1>1. original \in OneOf({"game", "eye"}) /\ weapon \in {"game", "eye"}
  BY DEF TypeOK
<1> QED
  BY <1>1, OneOfChoice DEF RestoreWeaponFov

\* A pass keeps every variable in its type.
LEMMA PassTyped ==
  ASSUME TypeOK, BeginPass
  PROVE  TypeOK'
<1> DEFINE k        == drawing + 1
           lent     == k \in EyePass /\ eye[k] # "off" /\ weaponFov
           restored == IF lent THEN weapon ELSE RestoreWeaponFov
           entry    == IF k = 0 /\ viewStruct # 0 /\ ViewIsPlausible(view)
                         THEN {view.fov} ELSE passEntryFov
<1>1. /\ pc' \in {"passes", "engine"} /\ k \in Passes /\ drawing' = k /\ passEntryFov' = entry
      /\ UNCHANGED <<at, newest, left, stoppedLate, viewStruct, base, choiceVars>>
  BY DEF BeginPass
<1>2. k \in -1 .. LastPass
  BY <1>1, BoundAssumption DEF Passes
<1>3. entry \in OneOf(Fovs)
  BY OneOfFacts DEF TypeOK, Views
<1>4. restored \in {"game", "eye"}
  BY RestoreTyped DEF TypeOK
<1>5. /\ view' \in Views /\ weapon' \in {"game", "eye"} /\ dirty' \in BOOLEAN
      /\ lastWritten' \in OneOf(Views) /\ original' \in OneOf({"game", "eye"})
  <2>1. CASE DrawsEyes
    <3> DEFINE enabled == k \in EyePass /\ eye[k] # "off"
               fov     == IF enabled /\ eye[k] = "own" THEN "eye" ELSE EntryFov(entry)
               written == IF enabled THEN EyeView(k, fov) ELSE BareView(k, fov)
    <3>1. WritePass(k, restored, entry)
      BY <2>1 DEF BeginPass
    <3>2. EntryFov(entry) \in Fovs
      BY <1>3, OneOfChoice DEF EntryFov, TypeOK, Views
    <3>3. fov \in Fovs
      BY <3>2 DEF Fovs
    <3>4. BareView(k, fov) \in Views
      BY <3>3 DEF BareView, TypeOK, Views, Fovs
    <3>5. enabled => EyeView(k, fov) \in Views
      BY <3>3, ComposeTyped, EyeNamesTyped DEF EyeView, TypeOK
    <3>6. written \in Views
      BY <3>4, <3>5
    <3>7. /\ view' = written /\ lastWritten' = {written} /\ dirty' = (dirty \/ enabled)
          /\ weapon' = IF enabled /\ weaponFov THEN "eye" ELSE restored
          /\ original' = IF ~(enabled /\ weaponFov) THEN {}
                         ELSE IF original = {} THEN {weapon} ELSE original
      BY <3>1 DEF WritePass
    <3>8. dirty' \in BOOLEAN
      BY <3>7
    <3> HIDE DEF written, restored
    <3> QED
      BY <3>6, <3>7, <3>8, <1>4, OneOfFacts DEF TypeOK
  <2>2. CASE ~DrawsEyes
    BY <2>2, <1>4, OneOfFacts DEF BeginPass, TypeOK
  <2> QED
    BY <2>1, <2>2
<1> HIDE DEF k, entry
<1> QED
  BY <1>1, <1>2, <1>3, <1>5 DEF TypeOK, choiceVars

\* What the view setup reads is a view.
LEMMA ReadTyped ==
  ASSUME TypeOK
  PROVE  /\ BeforeViewSetupRead \in Views
         /\ \A c \in Cameras : [Fresh(c) EXCEPT !.fov = BeforeViewSetupRead.fov] \in Views
<1>1. BeforeViewSetupRead \in Views
  BY DEF BeforeViewSetupRead, TypeOK
<1> QED
  BY <1>1 DEF Fresh, Views, Fovs

LEMMA SetUpTyped ==
  ASSUME TypeOK, SetUpView
  PROVE  TypeOK'
<1>1. PICK read \in {BeforeViewSetupRead}
             \cup {[Fresh(c) EXCEPT !.fov = BeforeViewSetupRead.fov] : c \in Cameras} :
        /\ base' = read
        /\ newest' = IF read = BeforeViewSetupRead THEN newest ELSE read.camera
        /\ view' = IF WritesHead(read) THEN Compose(read, "head", read.fov) ELSE read
        /\ dirty' = DirtyAfter(read)
        /\ lastWritten' =
             IF WritesHead(read) THEN {Compose(read, "head", read.fov)}
             ELSE IF at = viewStruct /\ ShouldRestoreBaseView(view) THEN {base} ELSE lastWritten
  BY DEF SetUpView
<1>2. read \in Views /\ read.fov \in Fovs /\ read.camera \in Cameras
  BY ReadTyped, <1>1 DEF Views
<1>3. Compose(read, "head", read.fov) \in Views
  BY <1>2, ComposeTyped
<1>4. view' \in Views /\ base' \in Views /\ newest' \in Cameras /\ lastWritten' \in OneOf(Views)
  BY <1>1, <1>2, <1>3, OneOfFacts DEF TypeOK
<1>5. dirty' \in BOOLEAN
  BY <1>1 DEF DirtyAfter, WritesHead
<1>6. weapon' \in {"game", "eye"} /\ original' \in OneOf({"game", "eye"})
  BY RestoreTyped, OneOfFacts DEF SetUpView, TypeOK
<1> QED
  BY <1>4, <1>5, <1>6 DEF SetUpView, TypeOK, choiceVars

LEMMA EngineTyped ==
  ASSUME TypeOK, ComputeCamera \/ Rescale \/ Prepare
  PROVE  TypeOK'
<1>1. CASE ComputeCamera
  <2>1. view' \in Views /\ newest' \in Cameras /\ at' \in 1 .. Structs /\ weapon' \in {"game", "eye"}
    BY <1>1, BoundAssumption DEF ComputeCamera, TypeOK, Fresh, Views, Fovs
  <2> QED
    BY <1>1, <2>1, BoundAssumption DEF ComputeCamera, TypeOK, baseVars, fovVars, choiceVars, Fovs
<1>2. CASE Rescale
  <2>1. view' \in Views /\ left' \in Fovs
    BY <1>2 DEF Rescale, TypeOK, Views, Fovs
  <2> QED
    BY <1>2, <2>1 DEF Rescale, TypeOK, baseVars, fovVars, choiceVars
<1>3. CASE Prepare
  <2>1. eye' \in [EyePass -> {"off", "own", "game"}] /\ head' \in BOOLEAN
    BY <1>3 DEF Prepare, TypeOK
  <2> QED
    BY <1>3, <2>1 DEF Prepare, TypeOK, engineVars, baseVars, fovVars
<1> QED
  BY <1>1, <1>2, <1>3

LEMMA ConsoleTyped ==
  ASSUME TypeOK, SetEye \/ SetWeaponFov \/ SetPass0Mode
  PROVE  TypeOK'
<1>1. CASE SetEye
  <2>1. eye' \in [EyePass -> {"off", "own", "game"}] /\ head' \in BOOLEAN /\ stoppedLate' \in BOOLEAN
    BY <1>1 DEF SetEye, TypeOK
  <2> QED
    BY <1>1, <2>1 DEF SetEye, TypeOK, baseVars, fovVars
<1>2. CASE SetWeaponFov
  <2>1. weapon' \in {"game", "eye"} /\ original' \in OneOf({"game", "eye"})
    BY <1>2, RestoreTyped, OneOfFacts DEF SetWeaponFov, TypeOK
  <2> QED
    BY <1>2, <2>1 DEF SetWeaponFov, TypeOK, engineVars, baseVars
<1>3. CASE SetPass0Mode
  BY <1>3 DEF SetPass0Mode, TypeOK, engineVars, baseVars, fovVars
<1> QED
  BY <1>1, <1>2, <1>3

\* Every variable keeps its type: a view holds one of the game's cameras with at most the
\* heads that are counted, and a remembered value is one that was written (MirvVr.cpp 61).
THEOREM TypeCorrect == Spec => []TypeOK
<1>1. Init => TypeOK
  <2> SUFFICES ASSUME Init PROVE TypeOK
    OBVIOUS
  <2>1. Fresh(newest) \in Views
    BY DEF Init, Fresh, Views, Fovs
  <2>2. lastWritten \in OneOf(Views) /\ original \in OneOf({"game", "eye"}) /\ passEntryFov \in OneOf(Fovs)
    BY DEF Init, OneOf
  <2>3. drawing \in -1 .. LastPass /\ at \in 1 .. Structs /\ viewStruct \in 0 .. Structs
    BY BoundAssumption DEF Init
  <2>4. eye \in [EyePass -> {"off", "own", "game"}] /\ left \in Fovs
    BY DEF Init, Fovs
  <2>5. view = Fresh(newest) /\ base = Fresh(newest) /\ newest \in Cameras
    BY DEF Init
  <2>6. stoppedLate \in BOOLEAN /\ dirty \in BOOLEAN /\ head \in BOOLEAN /\ weaponFov \in BOOLEAN
    BY DEF Init
  <2>7. /\ pc = "frame" /\ pass0Mode = "off" /\ weapon = "game"
    BY DEF Init
  <2> QED
    BY <2>1, <2>2, <2>3, <2>4, <2>5, <2>6, <2>7 DEF TypeOK
<1>2. TypeOK /\ [Next]_vars => TypeOK'
  <2> SUFFICES ASSUME TypeOK, [Next]_vars PROVE TypeOK'
    OBVIOUS
  <2>1. CASE Next
    BY <2>1, PassTyped, SetUpTyped, EngineTyped, ConsoleTyped DEF Next
  <2>2. CASE UNCHANGED vars
    BY <2>2 DEF vars, engineVars, baseVars, fovVars, choiceVars, TypeOK
  <2> QED
    BY <2>1, <2>2
<1> QED
  BY <1>1, <1>2, PTL DEF Spec

-----------------------------------------------------------------------------
Inv == TypeOK /\ FrameInv /\ ComposedInv /\ CameraInv /\ WeaponInv

LEMMA InitInv == Init => FrameInv /\ ComposedInv /\ CameraInv /\ WeaponInv
BY BoundAssumption DEF Init, FrameInv, ComposedInv, CameraInv, WeaponInv, Fresh

\* A value that is restored is the game's.
LEMMA RestoreIsGames ==
  ASSUME TypeOK, FrameInv, WeaponInv, pc # "setup" \/ viewStruct = at
  PROVE  RestoreWeaponFov = "game"
<1>1. weapon \in {"game", "eye"} /\ original \in {{}, {"game"}}
  BY DEF TypeOK, WeaponInv
<1>2. CASE original = {}
  BY <1>1, <1>2 DEF RestoreWeaponFov, WeaponInv
<1>3. CASE original = {"game"}
  BY <1>3, TheOne DEF RestoreWeaponFov, FrameInv
<1> QED
  BY <1>1, <1>2, <1>3

LEMMA PassKeepsInv ==
  ASSUME Inv, BeginPass
  PROVE  (FrameInv /\ ComposedInv /\ CameraInv /\ WeaponInv)'
<1> DEFINE k        == drawing + 1
           lent     == k \in EyePass /\ eye[k] # "off" /\ weaponFov
           restored == IF lent THEN weapon ELSE RestoreWeaponFov
           entry    == IF k = 0 /\ viewStruct # 0 /\ ViewIsPlausible(view)
                         THEN {view.fov} ELSE passEntryFov
           enabled  == k \in EyePass /\ eye[k] # "off"
           fov      == IF enabled /\ eye[k] = "own" THEN "eye" ELSE EntryFov(entry)
           written  == IF enabled THEN EyeView(k, fov) ELSE BareView(k, fov)
<1> USE DEF Inv
<1>1. /\ pc = "passes" /\ pc' \in {"passes", "engine"} /\ k \in Passes /\ drawing' = k
      /\ UNCHANGED <<at, newest, left, stoppedLate, viewStruct, base, choiceVars>>
  BY DEF BeginPass
<1>2. drawing \in -1 .. LastPass /\ k \in 0 .. LastPass /\ LastPass \in Int
  BY <1>1, BoundAssumption DEF Passes, TypeOK
<1>3. AnyEyeEnabled' = AnyEyeEnabled /\ ViewIsPlausible(base)' = ViewIsPlausible(base)
  BY <1>1 DEF AnyEyeEnabled, ViewIsPlausible, choiceVars
<1>4. viewStruct \in {0, at}
  BY <1>1 DEF FrameInv
<1>5. CASE DrawsEyes
  <2>1. /\ view' = written /\ lastWritten' = {written} /\ dirty' = (dirty \/ enabled)
        /\ weapon' = IF lent THEN "eye" ELSE restored
        /\ original' = IF ~lent THEN {} ELSE IF original = {} THEN {weapon} ELSE original
    BY <1>5 DEF BeginPass, WritePass
  <2>2. viewStruct = at /\ viewStruct # 0
    BY <1>4, <1>5 DEF DrawsEyes
  <2>3. written.camera = base.camera /\ (enabled \/ written.heads = base.heads)
    BY DEF EyeView, BareView, Compose, TypeOK, Views
  <2>4. CameraInv'
    BY <1>1, <2>1, <2>2, <2>3 DEF CameraInv
  <2>5. ComposedInv'
    <3>1. CASE enabled
      <4>1. dirty' /\ lastWritten' = {view'} /\ viewStruct' = at'
        BY <1>1, <2>1, <2>2, <3>1
      <4>2. drawing' # -1 /\ pc' \in {"passes", "engine"} /\ base' = base
            /\ stoppedLate' = stoppedLate
        BY <1>1, <1>2
      <4>3. ~stoppedLate => base.heads = 0
        BY DEF ComposedInv
      <4> QED
        BY <4>1, <4>2, <4>3 DEF ComposedInv
    <3>2. CASE ~enabled
      BY <1>1, <2>1, <2>3, <3>2 DEF ComposedInv
    <3> QED
      BY <3>1, <3>2
  <2>6. FrameInv'
    BY <1>1, <1>2, <2>2 DEF FrameInv
  <2>7. WeaponInv'
    <3>1. CASE lent
      <4>1. original' = {"game"}
        BY <2>1, <3>1 DEF WeaponInv, TypeOK
      <4> QED
        BY <1>1, <2>1, <2>2, <3>1, <4>1 DEF WeaponInv
    <3>2. CASE ~lent
      <4>1. restored = "game"
        BY <1>1, <3>2, RestoreIsGames
      <4>2. original' = {} /\ weapon' = restored
        BY <2>1, <3>2
      <4> QED
        BY <4>1, <4>2 DEF WeaponInv
    <3> QED
      BY <3>1, <3>2
  <2> QED
    BY <2>4, <2>5, <2>6, <2>7
<1>6. CASE ~DrawsEyes
  <2>1. /\ UNCHANGED <<view, dirty, lastWritten>> /\ weapon' = restored
        /\ original' = IF lent \/ viewStruct = 0 THEN original ELSE {}
    BY <1>6 DEF BeginPass
  <2>2. CameraInv'
    BY <1>1, <2>1 DEF CameraInv
  <2>3. ComposedInv'
    <3>1. drawing = -1 /\ ~stoppedLate => view.heads = 0
      BY <1>1, <1>2, <1>4, <1>6, BoundAssumption DEF ComposedInv, DrawsEyes, TypeOK
    <3> QED
      BY <1>1, <1>2, <2>1, <3>1 DEF ComposedInv
  <2>4. FrameInv'
    BY <1>1, <1>2, <2>1 DEF FrameInv
  <2>5. WeaponInv'
    <3>1. CASE lent
      BY <1>1, <2>1, <3>1 DEF WeaponInv
    <3>2. CASE ~lent
      BY <1>1, <2>1, <3>2, RestoreIsGames DEF WeaponInv
    <3> QED
      BY <3>1, <3>2
  <2> QED
    BY <2>2, <2>3, <2>4, <2>5
<1> QED
  BY <1>5, <1>6

LEMMA SetUpKeepsInv ==
  ASSUME Inv, SetUpView
  PROVE  (FrameInv /\ ComposedInv /\ CameraInv /\ WeaponInv)'
<1> USE DEF Inv
<1>1. PICK read \in {BeforeViewSetupRead}
             \cup {[Fresh(c) EXCEPT !.fov = BeforeViewSetupRead.fov] : c \in Cameras} :
        /\ base' = read
        /\ newest' = IF read = BeforeViewSetupRead THEN newest ELSE read.camera
        /\ view' = IF WritesHead(read) THEN Compose(read, "head", read.fov) ELSE read
        /\ dirty' = DirtyAfter(read)
        /\ lastWritten' =
             IF WritesHead(read) THEN {Compose(read, "head", read.fov)}
             ELSE IF at = viewStruct /\ ShouldRestoreBaseView(view) THEN {base} ELSE lastWritten
  BY DEF SetUpView
<1>2. /\ pc = "setup" /\ pc' = "rescale" /\ viewStruct' = at /\ original' = {}
      /\ weapon' = IF at = viewStruct THEN RestoreWeaponFov ELSE weapon
      /\ UNCHANGED <<drawing, at, left, stoppedLate, passEntryFov, choiceVars>>
  BY DEF SetUpView
<1>3. at # 0
  BY DEF TypeOK
<1>4. FrameInv'
  BY <1>2, <1>3 DEF FrameInv
<1>5. WeaponInv'
  BY <1>2, RestoreIsGames DEF WeaponInv, TypeOK
<1>6. ComposedInv'
  <2>1. ~stoppedLate => BeforeViewSetupRead.heads = 0
    BY <1>2 DEF ComposedInv, BeforeViewSetupRead, ShouldRestoreBaseView
  <2>2. ~stoppedLate => read.heads = 0
    BY <1>1, <2>1 DEF Fresh
  <2>3. WritesHead(read) => AnyEyeEnabled' /\ ViewIsPlausible(base)'
    BY <1>1, <1>2 DEF WritesHead, AnyEyeEnabled, ViewIsPlausible, choiceVars
  <2> QED
    BY <1>1, <1>2, <2>2, <2>3 DEF ComposedInv
<1>7. CameraInv'
  <2> SUFFICES ASSUME at = 1
      PROVE  /\ view'.camera = newest' /\ base'.camera = newest'
             /\ dirty' => \A v \in lastWritten' : v.camera = base'.camera
    BY <1>2 DEF CameraInv
  <2>1. BeforeViewSetupRead.camera = newest
    BY DEF CameraInv, BeforeViewSetupRead, ShouldRestoreBaseView
  <2>2. read.camera = newest' /\ view'.camera = read.camera
    BY <1>1, <2>1 DEF Compose
  <2>3. CASE WritesHead(read)
    <3>1. lastWritten' = {Compose(read, "head", read.fov)} /\ base' = read
      BY <1>1, <2>3
    <3>2. Compose(read, "head", read.fov).camera = read.camera
      BY DEF Compose
    <3> QED
      BY <2>2, <3>1, <3>2
  <2>4. CASE ~WritesHead(read)
    <3>1. viewStruct \in Nat
      BY DEF TypeOK
    <3>2. dirty' => dirty /\ at # viewStruct
      BY <1>1, <2>4 DEF DirtyAfter
    <3>3. ~dirty'
      BY <1>2, <3>1, <3>2 DEF FrameInv
    <3> QED
      BY <2>2, <3>3, <1>1
  <2> QED
    BY <2>3, <2>4
<1> QED
  BY <1>4, <1>5, <1>6, <1>7

LEMMA EngineKeepsInv ==
  ASSUME Inv, ComputeCamera \/ Rescale \/ Prepare
  PROVE  (FrameInv /\ ComposedInv /\ CameraInv /\ WeaponInv)'
<1> USE DEF Inv
<1>1. CASE ComputeCamera
  <2>1. /\ pc = "engine" /\ pc' = "setup" /\ drawing' = -1
        /\ UNCHANGED <<stoppedLate, baseVars, fovVars, choiceVars>>
    BY <1>1 DEF ComputeCamera
  <2>2. \/ UNCHANGED <<at, view, newest>> /\ weapon' \in {weapon, "game"}
        \/ /\ newest' \in Cameras /\ view' = Fresh(newest')
           /\ \/ UNCHANGED at /\ weapon' \in {weapon, "game"}
              \/ at' = at + 1 /\ weapon' = "game"
    BY <1>1 DEF ComputeCamera
  <2>3. FrameInv'
    <3>1. at \in Nat /\ at' \in {at, at + 1}
      BY <1>1 DEF ComputeCamera, TypeOK
    <3>2. viewStruct \in {0, at} /\ at > 0
      BY <2>1 DEF FrameInv, TypeOK
    <3>3. viewStruct' \in {0, at'} \/ viewStruct' < at'
      BY <2>1, <3>1, <3>2 DEF baseVars
    <3> QED
      BY <2>1, <3>3 DEF FrameInv, baseVars, fovVars
  <2>4. ComposedInv'
    BY <2>1, <2>2 DEF ComposedInv, Fresh, baseVars
  <2>5. CameraInv'
    BY <2>1, <2>2 DEF CameraInv, Fresh, baseVars, TypeOK
  <2>6. WeaponInv'
    BY <2>1, <2>2 DEF WeaponInv, baseVars, fovVars
  <2> QED
    BY <2>3, <2>4, <2>5, <2>6
<1>2. CASE Rescale
  <2>1. /\ pc = "rescale" /\ pc' = "frame"
        /\ UNCHANGED <<drawing, at, newest, stoppedLate, weapon, baseVars, fovVars, choiceVars>>
    BY <1>2 DEF Rescale
  <2>2. view'.camera = view.camera /\ view'.heads = view.heads
    BY <1>2 DEF Rescale, TypeOK, Views
  <2>3. AnyEyeEnabled' = AnyEyeEnabled /\ ViewIsPlausible(base)' = ViewIsPlausible(base)
    BY <2>1 DEF AnyEyeEnabled, ViewIsPlausible, choiceVars, baseVars
  <2> QED
    BY <2>1, <2>2, <2>3 DEF FrameInv, ComposedInv, CameraInv, WeaponInv, baseVars, fovVars
<1>3. CASE Prepare
  <2>1. /\ pc = "frame" /\ pc' = "passes" /\ drawing = -1
        /\ UNCHANGED <<engineVars, view, weapon, baseVars, fovVars, weaponFov, pass0Mode>>
    BY <1>3 DEF Prepare, FrameInv
  <2>2. ViewIsPlausible(base)' = ViewIsPlausible(base)
    BY <2>1 DEF ViewIsPlausible, baseVars
  <2>3. AnyEyeEnabled => AnyEyeEnabled'
    BY <1>3 DEF Prepare, AnyEyeEnabled, TypeOK
  <2> QED
    BY <2>1, <2>2, <2>3
       DEF FrameInv, ComposedInv, CameraInv, WeaponInv, engineVars, baseVars, fovVars
<1> QED
  BY <1>1, <1>2, <1>3

LEMMA ConsoleKeepsInv ==
  ASSUME Inv, SetEye \/ SetWeaponFov \/ SetPass0Mode
  PROVE  (FrameInv /\ ComposedInv /\ CameraInv /\ WeaponInv)'
<1> USE DEF Inv
<1>1. CASE SetEye
  <2>1. /\ pc \in {"engine", "frame"}
        /\ stoppedLate' = (stoppedLate \/ (pc = "frame" /\ \A k \in EyePass : eye'[k] = "off"))
        /\ UNCHANGED <<pc, drawing, at, newest, left, view, weapon, baseVars, fovVars>>
    BY <1>1 DEF SetEye, AtConsole
  <2>2. ~stoppedLate' => ~stoppedLate /\ (pc = "frame" => AnyEyeEnabled')
    BY <2>1 DEF AnyEyeEnabled
  <2>3. ViewIsPlausible(base)' = ViewIsPlausible(base)
    BY <2>1 DEF ViewIsPlausible, baseVars
  <2> QED
    BY <2>1, <2>2, <2>3 DEF FrameInv, ComposedInv, CameraInv, WeaponInv, baseVars, fovVars
<1>2. CASE SetWeaponFov
  <2>1. /\ pc \in {"engine", "frame"} /\ weapon' \in {weapon, RestoreWeaponFov}
        /\ UNCHANGED <<pc, engineVars, view, baseVars, passEntryFov, eye, head>>
        /\ (original' = {} /\ weapon' = RestoreWeaponFov) \/ UNCHANGED <<weapon, original>>
    BY <1>2 DEF SetWeaponFov, AtConsole
  <2>2. AnyEyeEnabled' = AnyEyeEnabled /\ ViewIsPlausible(base)' = ViewIsPlausible(base)
    BY <2>1 DEF AnyEyeEnabled, ViewIsPlausible, baseVars
  <2>3. RestoreWeaponFov = "game"
    BY <2>1, RestoreIsGames
  <2> QED
    BY <2>1, <2>2, <2>3 DEF FrameInv, ComposedInv, CameraInv, WeaponInv, engineVars, baseVars
<1>3. CASE SetPass0Mode
  <2>1. UNCHANGED <<pc, engineVars, view, weapon, baseVars, fovVars, eye, head, weaponFov>>
    BY <1>3 DEF SetPass0Mode
  <2>2. AnyEyeEnabled' = AnyEyeEnabled /\ ViewIsPlausible(base)' = ViewIsPlausible(base)
    BY <2>1 DEF AnyEyeEnabled, ViewIsPlausible, baseVars
  <2> QED
    BY <2>1, <2>2 DEF FrameInv, ComposedInv, CameraInv, WeaponInv, engineVars, baseVars, fovVars
<1> QED
  BY <1>1, <1>2, <1>3

LEMMA ViewInvariant == Spec => []Inv
<1>1. Init => FrameInv /\ ComposedInv /\ CameraInv /\ WeaponInv
  BY InitInv
<1>2. Inv /\ TypeOK' /\ [Next]_vars => (FrameInv /\ ComposedInv /\ CameraInv /\ WeaponInv)'
  <2> SUFFICES ASSUME Inv, [Next]_vars PROVE (FrameInv /\ ComposedInv /\ CameraInv /\ WeaponInv)'
    OBVIOUS
  <2>1. CASE Next
    BY <2>1, PassKeepsInv, SetUpKeepsInv, EngineKeepsInv, ConsoleKeepsInv DEF Next
  <2>2. CASE UNCHANGED vars
    BY <2>2 DEF Inv, FrameInv, ComposedInv, CameraInv, WeaponInv, AnyEyeEnabled, ViewIsPlausible,
                vars, engineVars, baseVars, fovVars, choiceVars
  <2> QED
    BY <2>1, <2>2
<1>3. Inv <=> TypeOK /\ FrameInv /\ ComposedInv /\ CameraInv /\ WeaponInv
  BY DEF Inv
<1> QED
  BY <1>1, <1>2, <1>3, TypeCorrect, PTL DEF Spec

\* The base camera is never one the hook composed, however the engine's cameras, paused
\* frames, passes, new structures and commands alternate, as long as the last eye is not
\* switched off between the view setup and the passes (MirvVr.cpp 388).
THEOREM HeadAddedOnce == Spec => []HeadIsAddedOnce
<1>1. Inv => HeadIsAddedOnce
  BY DEF Inv, ComposedInv, HeadIsAddedOnce
<1> QED
  BY <1>1, ViewInvariant, PTL

\* Putting the base back never costs a camera the engine computed: in its first structure
\* the base after the view setup is the newest camera (MirvVrMath.h 240).
THEOREM CameraFollows == Spec => []CameraIsNotFrozen
<1>1. Inv => CameraIsNotFrozen
  BY DEF Inv, CameraInv, CameraIsNotFrozen
<1> QED
  BY <1>1, ViewInvariant, PTL

\* An eye's value is in the weapon's field only while the game's own is kept, and never
\* in the main pass (MirvVr.cpp 205).
THEOREM WeaponFovBorrowed == Spec => []WeaponFovIsBorrowed
<1>1. Inv => WeaponFovIsBorrowed
  BY DEF Inv, WeaponInv, WeaponFovIsBorrowed
<1> QED
  BY <1>1, ViewInvariant, PTL

-----------------------------------------------------------------------------
\* From the view setup to the main pass the structure holds the base's camera, with the
\* field of view that the engine left in it; from then on that value is remembered.
EntryInv ==
    /\ pc \in {"rescale", "frame"} \/ (pc = "passes" /\ drawing = -1) => view.camera = base.camera
    /\ pc = "frame" \/ (pc = "passes" /\ drawing = -1) => view.fov = left
    /\ pc = "passes" /\ drawing >= 0 /\ viewStruct # 0 /\ ViewIsPlausible(base)
         => passEntryFov = {left}

\* What the pass that begins has for its field of view, and what is kept of it.
LEMMA EntryIsLeft ==
  ASSUME Inv, EntryInv, pc = "passes", drawing + 1 \in Passes, viewStruct # 0, ViewIsPlausible(base)
  PROVE  (IF drawing + 1 = 0 /\ viewStruct # 0 /\ ViewIsPlausible(view)
            THEN {view.fov} ELSE passEntryFov) = {left}
<1>1. drawing \in -1 .. LastPass /\ LastPass \in Int
  BY BoundAssumption DEF Inv, TypeOK
<1>2. CASE drawing = -1
  <2>1. view.camera = base.camera /\ view.fov = left
    BY <1>2 DEF EntryInv
  <2> QED
    BY <1>2, <2>1 DEF ViewIsPlausible
<1>3. CASE drawing # -1
  <2>1. drawing >= 0 /\ drawing + 1 # 0
    BY <1>1, <1>3
  <2> QED
    BY <2>1 DEF EntryInv
<1> QED
  BY <1>2, <1>3

LEMMA EntryKept ==
  ASSUME Inv, EntryInv, [Next]_vars
  PROVE  EntryInv'
<1>1. CASE Prepare
  BY <1>1 DEF Prepare, EntryInv, Inv, FrameInv, ViewIsPlausible, engineVars, baseVars, fovVars
<1>2. CASE BeginPass
  <2>1. /\ pc = "passes" /\ drawing + 1 \in Passes /\ drawing' = drawing + 1
        /\ pc' \in {"passes", "engine"}
        /\ passEntryFov' = IF drawing + 1 = 0 /\ viewStruct # 0 /\ ViewIsPlausible(view)
                             THEN {view.fov} ELSE passEntryFov
        /\ UNCHANGED <<left, viewStruct, base>>
    BY <1>2 DEF BeginPass
  <2>2. drawing' >= 0
    BY <2>1, BoundAssumption DEF Passes
  <2>3. viewStruct # 0 /\ ViewIsPlausible(base) => passEntryFov' = {left}
    BY <2>1, EntryIsLeft
  <2>4. ViewIsPlausible(base)' = ViewIsPlausible(base)
    BY <2>1 DEF ViewIsPlausible
  <2> QED
    BY <2>1, <2>2, <2>3, <2>4 DEF EntryInv
<1>3. CASE ComputeCamera
  BY <1>3 DEF ComputeCamera, EntryInv
<1>4. CASE SetUpView
  <2>1. PICK read :
          base' = read /\ view' = IF WritesHead(read) THEN Compose(read, "head", read.fov) ELSE read
    BY <1>4 DEF SetUpView
  <2>2. view'.camera = base'.camera /\ pc' = "rescale"
    BY <1>4, <2>1 DEF SetUpView, Compose
  <2> QED
    BY <2>2 DEF EntryInv
<1>5. CASE Rescale
  <2>1. view'.camera = view.camera /\ left' = view'.fov
    BY <1>5 DEF Rescale, Inv, TypeOK, Views
  <2> QED
    BY <1>5, <2>1 DEF Rescale, EntryInv, baseVars
<1>6. CASE SetEye \/ SetWeaponFov \/ SetPass0Mode
  <2>1. /\ pc \in {"engine", "frame"}
        /\ UNCHANGED <<pc, drawing, left, view, viewStruct, base, passEntryFov>>
    BY <1>6 DEF SetEye, SetWeaponFov, SetPass0Mode, AtConsole, engineVars, baseVars, fovVars
  <2> QED
    BY <2>1 DEF EntryInv, Inv, FrameInv
<1>7. CASE UNCHANGED vars
  BY <1>7 DEF vars, engineVars, baseVars, fovVars, EntryInv, ViewIsPlausible
<1> QED
  BY <1>1, <1>2, <1>3, <1>4, <1>5, <1>6, <1>7 DEF Next

\* The field of view of what a pass without one of its own writes is the engine's.
LEMMA PassWrites ==
  ASSUME Inv, EntryInv, BeginPass, DrawsEyes
  PROVE  LET k       == drawing'
             enabled == k \in EyePass /\ eye[k] # "off"
         IN  /\ view'.camera = base.camera
             /\ enabled => view'.heads = (IF base.heads < 2 THEN base.heads + 1 ELSE 2)
             /\ ~enabled => view'.heads = base.heads
             /\ enabled => view'.by = EyeNames[k]
             /\ \/ view'.fov = left
                \/ k \in EyePass /\ eye[k] = "own"
                \/ k = 0 /\ pass0Mode = "tiny"
<1> DEFINE k        == drawing + 1
           lent     == k \in EyePass /\ eye[k] # "off" /\ weaponFov
           restored == IF lent THEN weapon ELSE RestoreWeaponFov
           entry    == IF k = 0 /\ viewStruct # 0 /\ ViewIsPlausible(view)
                         THEN {view.fov} ELSE passEntryFov
           enabled  == k \in EyePass /\ eye[k] # "off"
           fov      == IF enabled /\ eye[k] = "own" THEN "eye" ELSE EntryFov(entry)
           written  == IF enabled THEN EyeView(k, fov) ELSE BareView(k, fov)
<1>1. pc = "passes" /\ k \in Passes /\ drawing' = k /\ WritePass(k, restored, entry)
  BY DEF BeginPass
<1>2. view' = written
  BY <1>1 DEF WritePass
<1>3. entry = {left}
  BY <1>1, EntryIsLeft DEF DrawsEyes
<1>4. EntryFov(entry) = left
  BY <1>3, TheOne DEF EntryFov
<1>5. base \in Views
  BY DEF Inv, TypeOK
<1> HIDE DEF k, entry
<1>6. CASE enabled
  <2>1. view' = Compose(base, EyeNames[k], fov)
    BY <1>2, <1>6 DEF EyeView
  <2>2. fov = left \/ eye[k] = "own"
    BY <1>4, <1>6
  <2> HIDE DEF fov
  <2> QED
    BY <1>1, <1>6, <2>1, <2>2 DEF Compose
<1>7. CASE ~enabled
  <2>1. view' = BareView(k, left)
    BY <1>2, <1>4, <1>7
  <2>2. /\ view'.camera = base.camera /\ view'.heads = base.heads
        /\ view'.fov = IF k = 0 /\ pass0Mode = "tiny" THEN "tiny" ELSE left
    BY <1>5, <2>1 DEF BareView, Views
  <2> QED
    BY <1>1, <1>7, <2>2
<1> QED
  BY <1>6, <1>7

LEMMA OnlyPassesDraw ==
  ASSUME Next, drawing' >= 0, drawing' # drawing
  PROVE  BeginPass
<1>1. ComputeCamera => drawing' = -1
  BY DEF ComputeCamera
<1>2. Prepare \/ SetUpView \/ Rescale \/ SetEye \/ SetWeaponFov \/ SetPass0Mode => drawing' = drawing
  BY DEF Prepare, SetUpView, Rescale, SetEye, SetWeaponFov, SetPass0Mode, engineVars
<1> QED
  BY <1>1, <1>2 DEF Next

\* Every pass that is drawn for an eye, or beside one, shows the base camera with no more
\* than its own eye on it, and with the field of view the engine left for the frame's
\* passes unless it has its own, for any order of frames and commands (MirvVr.cpp 524, 584).
THEOREM PassHasItsView == Spec => EachPassHasItsView
<1> DEFINE Shown ==
      drawing' >= 0 /\ drawing' # drawing /\ DrawsEyes
        => LET v       == view'
               enabled == drawing' \in EyePass /\ eye[drawing'] # "off"
           IN  /\ v.camera = base.camera
               /\ ~stoppedLate => v.heads = IF enabled THEN 1 ELSE 0
               /\ enabled => v.by = EyeNames[drawing']
               /\ \/ v.fov = left
                  \/ drawing' \in EyePass /\ eye[drawing'] = "own"
                  \/ drawing' = 0 /\ pass0Mode = "tiny"
<1>1. Init => EntryInv
  BY DEF Init, EntryInv, Fresh
<1>2. Inv /\ EntryInv /\ [Next]_vars => EntryInv'
  BY EntryKept
<1>3. Inv /\ EntryInv /\ [Next]_vars => [Shown]_vars
  <2> SUFFICES ASSUME Inv, EntryInv, Next, drawing' >= 0, drawing' # drawing, DrawsEyes
               PROVE  Shown
    OBVIOUS
  <2>1. BeginPass
    BY OnlyPassesDraw
  <2>2. ~stoppedLate => base.heads = 0
    BY DEF Inv, ComposedInv
  <2> QED
    BY <2>1, <2>2, PassWrites
<1> HIDE DEF Shown
<1>4. Spec => [][Shown]_vars
  BY <1>1, <1>2, <1>3, ViewInvariant, PTL DEF Spec
<1> QED
  BY <1>4 DEF EachPassHasItsView, Shown
=============================================================================
