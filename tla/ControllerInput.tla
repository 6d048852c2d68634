--------------------------- MODULE ControllerInput ---------------------------
(***************************************************************************)
(* The keys and the mouse button the controllers hold down in the game.    *)
(*                                                                         *)
(* The controllers are read once a frame: on the engine thread in the      *)
(* low-latency arrangement, on the render thread (inside eye 0, under the  *)
(* mode of its ticket) in the safe one.  A held key has a latch, which     *)
(* both threads set without a lock, and then a change of it is queued for  *)
(* the engine thread, which sends what is due at the top of its frame; the *)
(* mouse button has two latches and is queued in the same way.  The game   *)
(* acts on a key until it hears it come up, so every way out of the        *)
(* playing layout must let go of everything.                               *)
(*                                                                         *)
(* Also here, because they run in the same frame: the decision of the mode *)
(* and what it releases, the placing of the window and the pointer, whose  *)
(* click goes to the game at once.  The right mouse button is the left one *)
(* again; motion, wheel and console commands hold nothing and are left out.*)
(***************************************************************************)
EXTENDS Integers, ModeRules, SequencesExt

CONSTANTS
    LowLatency,     \* mirv_vr_xr latency low
    PointerPosts,   \* mirv_vr_pointer post
    FocusMayBeLost, \* whether another window may come to the front
    SessionMayLeave,\* whether the session, or its focus, may be taken away
    RuntimeMayFail, \* whether waits, syncs and locates may fail
    MenuButtonUsed, \* whether the viewer presses the menu button
    WalkKeys,       \* the held keys of the stick, in the order they are set
    ButtonKeys,     \* the held keys of the buttons, in order
    TapKey,         \* a key that is tapped and never held
    KeyCap,         \* QueueKeyState's limit on the keys pending
    TapCap,         \* QueueKeyTap's
    MaxAhead,       \* frames the game lets its render thread fall behind
    Maps            \* bound: what may be loaded, of "none", "demo", "game"

AllHeld  == WalkKeys \o ButtonKeys
HeldKeys == ToSet(AllHeld)
GameKeys == HeldKeys \cup {TapKey}

ASSUME KeyAssumption  == /\ WalkKeys \in Seq(STRING) /\ ButtonKeys \in Seq(STRING)
                         /\ IsInjective(AllHeld) /\ TapKey \notin HeldKeys
ASSUME CapAssumption  == KeyCap \in Nat /\ TapCap \in Nat /\ MaxAhead \in Nat \ {0}
ASSUME FlagAssumption == /\ LowLatency \in BOOLEAN /\ PointerPosts \in BOOLEAN
                         /\ FocusMayBeLost \in BOOLEAN /\ SessionMayLeave \in BOOLEAN
                         /\ RuntimeMayFail \in BOOLEAN /\ MenuButtonUsed \in BOOLEAN
                         /\ Maps \subseteq {"none", "demo", "game"}

VARIABLES
    \* The engine thread.
    epc,            \* where it is in its frame
    mode,           \* g_Mode
    placed,         \* g_MenuPlaced
    cursorPressed,  \* g_CursorPressed
    aimed,          \* this frame has located the hands
    queue,          \* the modes of the eye-0 callbacks not yet run
    \* The render thread.
    rpc,            \* where it is in its callback
    \* Both threads.
    todo,           \* what each thread has still to do to latches and buttons
    half,           \* a thread has set a latch and not yet queued what it means
    running,        \* g_SessionRunning
    focused,        \* g_State is FOCUSED and the actions are attached
    viewsValid,     \* g_ViewsValid
    latch,          \* g_HeldKey
    fireHeld,       \* g_FireHeld
    prevMenu,       \* g_PrevMenuButton
    pendingKeys,    \* g_PendingKeys
    pendingMouse,   \* g_PendingMouse: the left button's down and up
    \* The world.
    menuButton,     \* the menu button of the controller is down
    focus,          \* the game's window is in front
    game,           \* the keys the game has down
    button          \* the left mouse button: [real, posted] down

engine == <<epc, mode, placed, cursorPressed, aimed, queue>>
work   == <<todo, half, latch, fireHeld, pendingKeys, pendingMouse>>
xr     == <<running, focused, viewsValid>>
world  == <<menuButton, focus, game, button>>
vars   == <<engine, rpc, work, xr, prevMenu, world>>

-----------------------------------------------------------------------------
Threads == {"engine", "render"}

Modes == {DecideMode(in) : in \in ModeInputs}

\* What the level name and the demo flag say of a map.
Inputs(map, switch) ==
    [sessionRunning |-> running, mapLoaded |-> map # "none", demoPlaying |-> map = "demo",
     manualSheet |-> switch]

PendingKeys == [key : GameKeys, delay : 0 .. 2, down : BOOLEAN]
NoMouse == [down |-> FALSE, up |-> FALSE]

\* What a thread does to the controls: a held key, the trigger's button, the pointer's.
Tasks == [op : {"key"}, key : HeldKeys, want : BOOLEAN] \cup [op : {"fire"}, want : BOOLEAN]
             \cup [op : {"point"}, want : {FALSE}]

SetKey(k, want) == [op |-> "key", key |-> k, want |-> want]
SetFire(want)   == [op |-> "fire", want |-> want]
ReleasePointer  == [op |-> "point", want |-> FALSE]

SetKeys(keys, want) == [i \in DOMAIN keys |-> SetKey(keys[i], want[keys[i]])]

\* Mutant: the keys added to the layout later are forgotten.
ReleaseWalking == SetKeys(WalkKeys, [k \in HeldKeys |-> FALSE])

ReleaseHeldKeys == SetKeys(AllHeld, [k \in HeldKeys |-> FALSE])

\* The trigger's latch and the pointer's, each with a release of its own.
ReleaseGameButtons == <<SetFire(FALSE), ReleasePointer>>

LetGo == ReleaseHeldKeys \o ReleaseGameButtons

\* PlayingInput: without a stick everything is let go first, then the buttons follow
\* the controller.
PlayingInput ==
    {walk \o SetKeys(ButtonKeys, want) \o <<SetFire(fire)>> :
        walk \in {SetKeys(WalkKeys, w) : w \in [ToSet(WalkKeys) -> BOOLEAN]} \cup {ReleaseHeldKeys},
        want \in [ToSet(ButtonKeys) -> BOOLEAN], fire \in BOOLEAN}

-----------------------------------------------------------------------------
(* Setting latches and queueing what they mean, on either thread.          *)

Doing(t, op) == todo[t] # <<>> /\ Head(todo[t]).op = op
Done(t) == todo' = [todo EXCEPT ![t] = Tail(@)]

\* SetHeldKey, up to the write of the latch.
LatchKey(t) ==
    /\ Doing(t, "key") /\ ~half[t]
    /\ LET k == Head(todo[t]).key
           want == Head(todo[t]).want
       IN  IF latch[k] = want
             THEN Done(t) /\ UNCHANGED <<latch, half>>
             ELSE latch' = [latch EXCEPT ![k] = want] /\ half' = [half EXCEPT ![t] = TRUE]
                  /\ UNCHANGED todo
    /\ UNCHANGED <<engine, rpc, xr, prevMenu, world, fireHeld, pendingKeys, pendingMouse>>

\* QueueKeyState: a full queue drops the key and says nothing.
QueueKeyState(t) ==
    /\ Doing(t, "key") /\ half[t]
    /\ half' = [half EXCEPT ![t] = FALSE]
    /\ Done(t)
    /\ pendingKeys' =
         IF Len(pendingKeys) < KeyCap
           THEN Append(pendingKeys, [key |-> Head(todo[t]).key, delay |-> 0, down |-> Head(todo[t]).want])
           ELSE pendingKeys
    /\ UNCHANGED <<engine, rpc, xr, prevMenu, world, latch, fireHeld, pendingMouse>>

\* The trigger, in the game or let go, up to the write of its latch.
LatchFire(t) ==
    /\ Doing(t, "fire") /\ ~half[t]
    /\ IF fireHeld = Head(todo[t]).want
         THEN Done(t) /\ UNCHANGED <<fireHeld, half>>
         ELSE fireHeld' = Head(todo[t]).want /\ half' = [half EXCEPT ![t] = TRUE] /\ UNCHANGED todo
    /\ UNCHANGED <<engine, rpc, xr, prevMenu, world, latch, pendingKeys, pendingMouse>>

\* Mutant: the pointer's latch is reset, and what it held down is forgotten.
ForgetPointer(t) ==
    /\ Doing(t, "point") /\ ~half[t]
    /\ cursorPressed' = FALSE
    /\ Done(t)
    /\ UNCHANGED <<epc, mode, placed, aimed, queue, rpc, half, xr, prevMenu, world, latch, fireHeld,
                   pendingKeys, pendingMouse>>

\* The pointer's latch is only cleared here.
LatchPointer(t) ==
    /\ Doing(t, "point") /\ ~half[t]
    /\ cursorPressed' = FALSE
    /\ IF cursorPressed THEN half' = [half EXCEPT ![t] = TRUE] /\ UNCHANGED todo
                        ELSE Done(t) /\ UNCHANGED half
    /\ UNCHANGED <<epc, mode, placed, aimed, queue, rpc, xr, prevMenu, world, latch, fireHeld,
                   pendingKeys, pendingMouse>>

\* QueueMouseButton, for either latch, under a lock of its own.
QueueMouseButton(t) ==
    /\ Doing(t, "fire") \/ Doing(t, "point")
    /\ half[t]
    /\ half' = [half EXCEPT ![t] = FALSE]
    /\ Done(t)
    /\ pendingMouse' = IF Head(todo[t]).want THEN [pendingMouse EXCEPT !.down = TRUE]
                       ELSE [pendingMouse EXCEPT !.up = TRUE]
    /\ UNCHANGED <<engine, rpc, xr, prevMenu, world, latch, fireHeld, pendingKeys>>

Work(t) ==
    \/ LatchKey(t) \/ QueueKeyState(t)
    \/ LatchFire(t) \/ LatchPointer(t) \/ QueueMouseButton(t)

\* QueueKeyTap: down now and up two frames later, both or neither.
QueueKeyTap ==
    IF Len(pendingKeys) < TapCap
      THEN {pendingKeys \o <<[key |-> TapKey, delay |-> 0, down |-> TRUE],
                             [key |-> TapKey, delay |-> 2, down |-> FALSE]>>}
      ELSE {}

\* Mutant: the button is read with the rest of the playing layout.
ReadWhilePlaying(m) == IF ModeTakesGameInput(m) THEN menuButton ELSE prevMenu

\* The menu button is read before the mode is looked at.
ReadMenuButton(m) == menuButton

\* ProcessInput, up to its first release or key.
ProcessInput(t, m) ==
    \/ /\ ~focused
       /\ todo' = [todo EXCEPT ![t] = LetGo]
       /\ UNCHANGED <<prevMenu, pendingKeys>>
    \/ /\ focused /\ RuntimeMayFail       \* xrSyncActions failed
       /\ UNCHANGED <<todo, prevMenu, pendingKeys>>
    \/ /\ focused
       /\ prevMenu' = ReadMenuButton(m)
       /\ pendingKeys' \in {pendingKeys} \cup QueueKeyTap
       /\ \E tasks \in IF ModeTakesGameInput(m) THEN PlayingInput ELSE {LetGo} :
             todo' = [todo EXCEPT ![t] = tasks]

-----------------------------------------------------------------------------
(* The engine thread.                                                      *)

\* PollEvents, and the operator's start and stop.
SessionBegins ==
    /\ epc = "drain" /\ ~running
    /\ running' = TRUE /\ focused' = FALSE
    /\ UNCHANGED <<engine, rpc, work, viewsValid, prevMenu, world>>

FocusChanges ==
    /\ epc = "drain" /\ running /\ (focused => SessionMayLeave)
    /\ focused' = ~focused
    /\ UNCHANGED <<engine, rpc, work, running, viewsValid, prevMenu, world>>

SessionEnds ==
    /\ epc = "drain" /\ running /\ SessionMayLeave
    /\ running' = FALSE /\ focused' = FALSE
    /\ viewsValid' \in {viewsValid, FALSE}
    /\ UNCHANGED <<engine, rpc, work, prevMenu, world>>

\* Mutant: a release is held back like a press.
SendOnlyInFront(p) == focus

\* SendGameKey: a press goes only to the game, a release goes out anyway.
SendGameKey(p) == focus \/ ~p.down

\* What the game has of a key once the pending ones at these places are sent in order.
Sent(k, places) ==
    LET own == {i \in places : pendingKeys[i].key = k}
    IN  IF own = {} THEN game[k] ELSE pendingKeys[Max(own)].down

Due(p) == p.delay = 0

\* The loop over what is pending: what is due leaves, the rest waits a frame less.
Waiting(keys) ==
    LET left[i \in 0 .. Len(keys)] ==
            IF i = 0 THEN <<>>
            ELSE IF Due(keys[i]) THEN left[i - 1]
            ELSE Append(left[i - 1], [keys[i] EXCEPT !.delay = @ - 1])
    IN  left[Len(keys)]

\* A real button event reaches the game's window too while that is in front.
Released(b) == [real |-> FALSE, posted |-> b.posted /\ ~focus]

\* The drain: what is due is taken out under the lock and sent in order, then the
\* mouse, a press before a release.
Drain ==
    /\ epc = "drain"
    /\ epc' = "decide"
    /\ LET due == {i \in DOMAIN pendingKeys : Due(pendingKeys[i]) /\ SendGameKey(pendingKeys[i])}
       IN  game' = [k \in GameKeys |-> Sent(k, due)]
    /\ pendingKeys' = Waiting(pendingKeys)
    /\ button' = IF pendingMouse.up THEN Released(button)
                 ELSE IF pendingMouse.down /\ focus THEN [button EXCEPT !.real = TRUE]
                 ELSE button
    /\ pendingMouse' = NoMouse
    /\ UNCHANGED <<mode, placed, cursorPressed, aimed, queue, rpc, todo, half, latch, fireHeld, xr,
                   prevMenu, menuButton, focus>>

\* Mutant: only a change of the mode itself lets go.
Leaves(next) == next.mode # mode.mode

LetsGo(next) == ModeChanges(mode, next)

\* The decision, what the last mode held down, and the window asked for the front.
Decide ==
    /\ epc = "decide"
    /\ epc' = "wait"
    /\ \E map \in Maps, switch \in BOOLEAN :
         LET next == DecideMode(Inputs(map, switch))
         IN  /\ mode' = next
             /\ todo' = [todo EXCEPT !["engine"] = IF LetsGo(next) THEN LetGo ELSE <<>>]
             /\ placed' = (placed /\ ~(next.sheet /\ (~mode.sheet \/ next.mode # mode.mode)))
             /\ focus' \in IF next.sheet /\ ~mode.sheet THEN {focus, TRUE} ELSE {focus}
    /\ UNCHANGED <<cursorPressed, aimed, queue, rpc, half, latch, fireHeld, pendingKeys,
                   pendingMouse, xr, prevMenu, menuButton, game, button>>

\* EngineThread_WaitAndLocate: the wait may be outstanding or fail, and then nothing
\* is read.
WaitAndLocate ==
    /\ epc = "wait" /\ todo["engine"] = <<>>
    /\ \/ /\ LowLatency /\ running
          /\ epc' = "input" /\ aimed' = TRUE
          /\ ProcessInput("engine", mode)
       \/ /\ ~LowLatency \/ ~running \/ RuntimeMayFail
          /\ epc' = "place"
          /\ UNCHANGED <<aimed, todo, prevMenu, pendingKeys>>
    /\ UNCHANGED <<mode, placed, cursorPressed, queue, rpc, half, latch, fireHeld, pendingMouse,
                   xr, world>>

\* LocateViews, on whichever thread has read the controllers.
LocateViews == viewsValid' = TRUE \/ (RuntimeMayFail /\ UNCHANGED viewsValid)

Located ==
    /\ epc = "input" /\ todo["engine"] = <<>>
    /\ epc' = "place"
    /\ LocateViews
    /\ UNCHANGED <<mode, placed, cursorPressed, aimed, queue, rpc, work, running, focused, prevMenu, world>>

PlaceMenu ==
    /\ epc = "place"
    /\ epc' = "point"
    /\ placed' = (placed \/ (mode.sheet /\ viewsValid))
    /\ UNCHANGED <<mode, cursorPressed, aimed, queue, rpc, work, xr, prevMenu, world>>

\* MoveMouseToSheet: posted to the window, or sent if the game is in front.
MoveMouseToSheet(down) ==
    IF PointerPosts THEN button' = [button EXCEPT !.posted = down]
    ELSE IF focus THEN button' = [button EXCEPT !.real = down]
    ELSE UNCHANGED button

\* The pointer owns the mouse while the ray of a hand is on a window that is up.
\* Only the low-latency arrangement locates the hands; a frame that did not, points
\* as the last one did.
SheetTakesThePointer == mode.sheet /\ mode.pointer /\ placed

PointAtMenu ==
    /\ epc = "point"
    /\ epc' = "queue" /\ aimed' = FALSE
    /\ \E hit \in {FALSE, LowLatency /\ SheetTakesThePointer}, pressed \in BOOLEAN :
         /\ aimed \/ ~SheetTakesThePointer \/ (cursorPressed => hit /\ pressed)
         /\ cursorPressed' = (hit /\ pressed)
         /\ IF cursorPressed' # cursorPressed THEN MoveMouseToSheet(cursorPressed') ELSE UNCHANGED button
    /\ UNCHANGED <<mode, placed, queue, rpc, work, xr, prevMenu, menuButton, focus, game>>

\* The passes of the frame: eye 0 carries the mode of its ticket.
QueuePasses ==
    /\ epc = "queue" /\ Len(queue) < MaxAhead
    /\ epc' = "drain"
    /\ queue' = IF ~LowLatency /\ running /\ mode.worldInEyes THEN Append(queue, mode) ELSE queue
    /\ UNCHANGED <<mode, placed, cursorPressed, aimed, rpc, work, xr, prevMenu, world>>

-----------------------------------------------------------------------------
(* The render thread, in the safe arrangement: eye 0 reads the controllers. *)

\* SubmitEye(0): nothing is read without a session, a wait and a begin.
SubmitEye ==
    /\ rpc = "idle" /\ queue # <<>>
    /\ queue' = Tail(queue)
    /\ \/ /\ running
          /\ rpc' = "input"
          /\ ProcessInput("render", Head(queue))
       \/ /\ ~running \/ RuntimeMayFail
          /\ UNCHANGED <<rpc, todo, prevMenu, pendingKeys>>
    /\ UNCHANGED <<epc, mode, placed, cursorPressed, aimed, half, latch, fireHeld, pendingMouse, xr, world>>

EyeLocated ==
    /\ rpc = "input" /\ todo["render"] = <<>>
    /\ rpc' = "idle"
    /\ LocateViews
    /\ UNCHANGED <<engine, work, running, focused, prevMenu, world>>

-----------------------------------------------------------------------------
(* The hands of the viewer, and the desktop.                               *)

PressMenuButton ==
    /\ MenuButtonUsed
    /\ menuButton' = ~menuButton
    /\ UNCHANGED <<engine, rpc, work, xr, prevMenu, focus, game, button>>

ForegroundChanges ==
    /\ FocusMayBeLost
    /\ focus' = ~focus
    /\ UNCHANGED <<engine, rpc, work, xr, prevMenu, menuButton, game, button>>

-----------------------------------------------------------------------------
Init ==
    /\ epc = "drain" /\ mode = NoMode /\ placed = FALSE /\ cursorPressed = FALSE /\ aimed = FALSE
    /\ queue = <<>>
    /\ rpc = "idle"
    /\ todo = [t \in Threads |-> <<>>] /\ half = [t \in Threads |-> FALSE]
    /\ running = FALSE /\ focused = FALSE /\ viewsValid = FALSE
    /\ latch = [k \in HeldKeys |-> FALSE] /\ fireHeld = FALSE /\ prevMenu = FALSE
    /\ pendingKeys = <<>> /\ pendingMouse = NoMouse
    /\ menuButton = FALSE /\ focus = TRUE
    /\ game = [k \in GameKeys |-> FALSE] /\ button = [real |-> FALSE, posted |-> FALSE]

EngineFrame ==
    \/ Drain \/ Decide \/ Work("engine") \/ WaitAndLocate \/ Located
    \/ PlaceMenu \/ PointAtMenu \/ QueuePasses

RenderCallback == SubmitEye \/ Work("render") \/ EyeLocated

World == SessionBegins \/ FocusChanges \/ SessionEnds \/ PressMenuButton \/ ForegroundChanges

Next == EngineFrame \/ RenderCallback \/ World

Spec == Init /\ [][Next]_vars

\* The game keeps calling the frame and draining its passes; the viewer, the
\* runtime and the desktop owe nothing.
FairSpec == Spec /\ WF_vars(EngineFrame) /\ WF_vars(RenderCallback)

-----------------------------------------------------------------------------
(* What must hold.                                                         *)

\* What the game will have of a held key once everything queued is sent.
Settled(k) == Sent(k, DOMAIN pendingKeys)

Unqueued(k) == \E t \in Threads : half[t] /\ Head(todo[t]).op = "key" /\ Head(todo[t]).key = k

\* A thread has cleared a latch of the mouse button, and is about to queue its release.
ButtonUnqueued ==
    \E t \in Threads : half[t] /\ Head(todo[t]).op \in {"fire", "point"} /\ ~Head(todo[t]).want

\* A key that is down in the game, or will be, has a latch that will bring it up.
\* The hazard is a release that goes missing with its latch already clear.
KeysHaveTheirLatch == \A k \in HeldKeys : Settled(k) => latch[k] \/ Unqueued(k)

\* A tapped key that is down has its way up queued, however often it is tapped and
\* however full the queue was.
TapsWillComeUp ==
    game[TapKey] => \E i \in DOMAIN pendingKeys : pendingKeys[i].key = TapKey /\ ~pendingKeys[i].down

\* Whatever key is down, or will be, there is something that brings it up.
NoKeyIsStuck == KeysHaveTheirLatch /\ TapsWillComeUp

\* The same of the mouse button, which two latches can hold down: one of them is set, or
\* its release is queued, or about to be by the thread that cleared it.
ButtonHasItsLatch ==
    button.real \/ button.posted => fireHeld \/ cursorPressed \/ pendingMouse.up \/ ButtonUnqueued

\* A frame that does not take the controllers for the game ends with no latch of
\* the playing layout set, and the pointer holds nothing without a window.
LeftModesHoldNothing ==
    epc = "drain" =>
        /\ ~ModeTakesGameInput(mode) => ~fireHeld /\ \A k \in HeldKeys : ~latch[k]
        /\ cursorPressed => mode.sheet

\* A latch that a late callback sets is let go, as long as there is a world to hand over
\* eyes for.  At the menu there is none, and nothing reads the controllers any more.
OverAWorld == running /\ mode.worldInEyes /\ ~ModeTakesGameInput(mode)
LatchesAreLetGoOverAWorld ==
    \A k \in HeldKeys : latch[k] /\ OverAWorld ~> ~latch[k] \/ ~OverAWorld

\* A player does not walk into a wall for ever: out of the playing layout a key
\* that is down in the game comes up.
KeysComeUp ==
    \A k \in HeldKeys : game[k] /\ ~ModeTakesGameInput(mode) ~> ~game[k] \/ ModeTakesGameInput(mode)

\* "The menu button, in every mode": holding it is noticed while the session is
\* on a face.
MenuButtonIsHeard ==
    menuButton /\ running /\ focused ~> prevMenu \/ ~menuButton \/ ~running \/ ~focused

\* A window that is up is put somewhere, or goes away.
WindowIsPlaced == mode.sheet /\ running ~> placed \/ ~mode.sheet \/ ~running

\* What the viewer cannot do without comes about in every mode: keys that come up, a menu
\* button that is heard, a window that is somewhere.
ViewerIsNotStuck == KeysComeUp /\ MenuButtonIsHeard /\ WindowIsPlaced
=============================================================================
