# Verification of cs2-vr-spectator

TLA+ models of the parts of `cs2-vr-spectator` whose correctness depends on
order: two threads of a game, an OpenXR runtime, a desktop that takes the focus
away, and a viewer with controllers. TLC checks the models on small instances;
TLAPS proves the theorems listed below for every value of the constants.

Paths are relative to the repository; `MirvVrXr.cpp` stands for
`src/AfxHookSource2/MirvVrXr.cpp`, and so on.

## The system

A DLL hooked into Counter-Strike 2 renders the game once per eye and hands the
images to an OpenXR runtime. A launcher injects it, a server on the desktop
follows its log and sends it commands through a pipe.

| Component | State it keeps | Operations | Talks to |
|---|---|---|---|
| Frame pipeline (`MirvVrXr.cpp`, `docs/patches/002-per-pass-camera.patch`) | ring of frame records, serial, wait and begin flags, copied eyes and panel, swapchains | engine frame, pass callbacks, session events, start and stop | the runtime, the game's render queue |
| Mode control (`MirvVrXr.cpp`, `MirvVrMath.h`) | mode, window switch, debounced cursor, forced free look, pending alignment | one decision per frame | everything that asks for the mode |
| Controller input (`MirvVrXr.cpp`) | latches of held keys and buttons, pending keys and mouse, pointer | read controllers, drain, release | the desktop's input queue, mode control |
| Aim and roaming control (`MirvVrXr.cpp`) | servos, carried counts, room reference, body turn | hand aim, stick aim, body snap | mouse queue, view setup |
| View setup (`MirvVr.cpp`) | base camera, composed head, eye table, weapon field of view | before/after view setup, per-pass eye | the engine's view structure |
| Session lifecycle (`MirvVrXr.cpp`) | instance, session, actions, autostart timers | start, stop, retry | the runtime |
| Remote control pipe (`MirvVrXrPipe.cpp`, `tools/server/src/pipe.rs`) | the connection, half a line, the queue of commands, stop event | connect, read, queue, drain, shut down | server, launcher, scripts, engine thread |
| Log follower and control server (`tools/server/src`) | offset, partial line, ring, cursor, parsed state | poll, restart, page read, command gate | `console.log`, browser, pipe |
| Launcher (`tools/launcher`) | child process, staged files, log position | preflight, suspended start, inject, resume, follow | the game |

Interactions. The **engine thread** runs `MirvVrXr_EngineThread_Frame` at the
top of a frame: poll the runtime's events, drain what the controllers asked for,
decide the mode, wait and locate (in the low-latency arrangement), place the
window, point at it, publish a record under a new ticket, queue the passes. The
**render thread** runs the passes' callbacks up to a few frames later with the
ticket they were given by value. The ring and the located views are under
`g_ViewMutex`, the pending keys under `g_CmdMutex`; every other global the two
threads share (`g_SessionRunning`, `g_FrameBegun`, `g_FrameWaited`, the
controllers' latches, `g_MenuOverride`) is bare.

What is hard here: callbacks that run under a newer mode than their frame's; a
wait and its begin on different threads; a session that ends without
`SessionStop`; swapchains destroyed under a copy; passes the game throws away;
key presses whose release is dropped, reordered or sent to another window; a
decision that must wait for something that comes frames later. `PROJECT.json`
lists each under `hazards` at its line, with the properties that cover it or the reason why none does.

What makes each part correct:

- *Frame pipeline*: a picture shows one frame's decision, drawn from one frame's
  poses; every begin has its wait and every begun frame is ended; no layer
  refers to a swapchain without a released image.
- *Controller input*: whatever is down in the game has something that will
  bring it up, and does come up when the viewer stops playing.
- *Mode control*: the window comes and goes once per modal and otherwise by hand; free look is
  given back; the room is turned onto a player, not onto an old camera.
- *Aim*: no count is sent a second time while the first is on its way, the error never
  grows, the aim stays in the cone about the body and comes to rest on the hand.
- *View setup*: the head is composed into the game's own camera exactly once,
  and what was written is put back before the game reads it.
- *Session lifecycle*: a stop undoes what a start did; a second session works
  like the first; retries are bounded.
- *Pipe*: a command is executed at most once, whole unless it is longer than the pipe keeps, and
  in the order of its writing;
  nobody answers it, the log is all a client can look at; the thread can always be shut down.
- *Log follower*: every complete line is seen once and in order, and a reader's
  cursor never silently skips.
- *Launcher*: the game is resumed only with the hook in it, and never left suspended.

## Plan

In order, most important first; all of it is done but the last item, which stands
apart: a process that only reads the log, and on which nothing in the game depends.

1. `FramePipeline` with the abstract `HeadsetPicture`; proofs in `FramePipelineProofs`.
2. `ModeRules` and `ControllerInput`; proofs in `ControllerInputProofs`.
3. `ModeControl`; proofs in `ModeControlProofs`.
4. `ViewSetup`: the base camera, the stale-base guard, the pass loop's eye
   switch and the weapon field of view; proofs in `ViewSetupProofs`.
5. `SessionLifecycle`: autostart, instance, session, actions, and what survives
   a stop; proofs in `SessionLifecycleProofs`.
6. `RemoteControl` with the abstract `CommandChannel`, and `Launcher`, which
   is composed with it; proofs in `ChannelProofs` and `LauncherProofs`.
7. `AimControl`: servo, tracker, cone and carried counts; proofs in `AimControlProofs`.
8. `LogFollower` with an abstract append-only log, and the server's command gate.

Every invariant and every action property the runs check is a theorem, some of them under
a hypothesis that the section on the proofs explains. Still worth proving: what remains of
`PosesBelongToTheImages` and `LayersAreReleased` when passes are lost, `NoKeyIsStuck` with the
controllers read on the render thread, and `NeverWorseNorPast` for counts worth more than is believed.

## Modules

| Module | Models | Kind |
|---|---|---|
| `HeadsetPicture` | what the wearer is promised: one decision per picture, in order | abstract specification |
| `FramePipeline` | the frame's way from decision to `xrEndFrame`, on both threads | component |
| `MCFramePipeline` | the decisions a run offers | for TLC |
| `FramePipelineProofs` | theorems about `FramePipeline` | proofs |
| `ModeRules` | `DecideMode`, `NextSheetOverride`, `ModeTakesGameInput` | pure operators |
| `ControllerInput` | held keys, taps, trigger and pointer button, from controller to game | component |
| `MCControllerInput` | small key layouts and sets of maps | for TLC |
| `ControllerInputProofs` | theorems about `ControllerInput` | proofs |
| `ModeControl` | the decision of the mode and what it changes besides the controls | component |
| `MCModeControl` | time in steps of 50 ms, and the set of maps | for TLC |
| `ModeControlProofs` | theorems about `ModeControl` | proofs |
| `ViewSetup` | the game's view structure: who writes it, when, and what is put back | component |
| `MCViewSetup` | two good cameras that are interchangeable and one that is refused | for TLC |
| `ViewSetupProofs` | theorems about `ViewSetup` | proofs |
| `SessionLifecycle` | loader, instance, session, swapchains, the autostart and the commands | component |
| `MCSessionLifecycle` | a back buffer of one size | for TLC |
| `SessionLifecycleProofs` | theorems about `SessionLifecycle` | proofs |
| `CommandChannel` | what the pipe promises: at most once, whole but for overlong lines, in order | abstract specification |
| `RemoteControl` | the pipe's thread, the queue, the drain, and the clients | component |
| `ChannelProofs` | theorems about `RemoteControl`, as far as `Launcher` drives it | proofs |
| `Launcher` | `cs2vr.exe` from its arguments to its return; extends `RemoteControl` | composition |
| `MCLauncher` | three clients, four lines, and the commands that differ | for TLC |
| `LauncherProofs` | theorems about `Launcher` | proofs |
| `AimControl` | the servo, the tracker, the cone, and the frames that use them | component |
| `MCAimControl` | where the hand points, and how far the stick is thrown | for TLC |
| `AimControlProofs` | theorems about `AimControl` | proofs |

### FramePipeline

`epc` and `rpc` say where each thread is; an action is what a thread does
between two points at which the other can see a difference: each OpenXR call
that can block or fail is a step of its own, so is each copy into a swapchain.
`queue` holds the callbacks `[into, ticket]` pushed on the passes; `Take` starts
the next one, `LoseCallback` is the game's discarding of a pass in
`Before_Present`. `ring` is `g_FrameRing`, read only through `ReadFrameRecord`.
A picture is represented by the ticket of the pass that drew it: `image[s]` is
whose picture swapchain `s` last took, `proj.of` whose poses will be reported.
`xr` is the runtime: which wait is outstanding and which frame is open.
`decided` and `shown` are histories, what `HeadsetPicture` talks about. The runtime may refuse to begin
a frame it has handed out; `xr.refused` remembers that it did in this session. `RecordTime` is the time a
frame is ended with: a record published in the low-latency arrangement (`timed`) brings its own, and
`EyeLocate` writes it over that of a wait the render thread has made.

`lowLatency` says which thread waits; `SetLatency` is the console command, which
is refused while the session runs. Left out: diagnostics (forced passes, swapped eyes, crop,
probes) and the geometry of the layers.

### ControllerInput

One reading of the controllers is `ProcessInput`, which leaves the thread a list
`todo` of calls to `SetHeldKey`, of trigger changes and of `ReleaseGameButtons`;
`Work` performs them one at a time, each in two steps because its latch
and the queue are written apart: `LatchKey` and `QueueKeyState` for a key, `LatchFire` or `LatchPointer` and
`QueueMouseButton` for the button. The engine thread's change of mode leaves the
same kind of list. `Drain` is the top of the engine frame, where focus decides
what is sent. `game` is what the game believes to be down, `button` the left
mouse button as the system and as the game's window see it. The walking keys
stand for the stick, the button keys for the rest of the layout; `TapKey` for
escape and reload. The second mouse button repeats the first. `LowLatency` is a
constant here: what one arrangement leaves behind for the other is left out.

### ModeControl

`ReadInputs` and `Decide` are the two halves of the decision; between them the
render thread may flip the window's switch (`PressMenuButton`). `raised`,
`wanted`, `seen` and `steadyFor` are histories. What a change of mode releases
is in `ControllerInput`.

### ViewSetup

One thread, four parties: the trampoline around the engine's view setup, the
pass loop, the session that turns eyes and head on and off, and the engine,
which may compute a camera, leave the old view alone (a paused demo), or use a
new structure. `pc` is the place in the frame, in the order the passes of a frame
find the view set up before them (`docs/experiments`, 04):
`Prepare`, `BeginPass` for each pass, `ComputeCamera`, `SetUpView`, `Rescale`.
`Rescale` is the engine changing the field of view in place between view
setup and passes (experiment 18); it may or may not.

A view is abstracted to what its history is: `camera`, a camera of the game's;
`heads`, how often a head or an eye was composed onto it; `by`, by whom last;
`fov`, whose convention. Two views are the same when these are, which stands for the bit
equality of `SameView`. Two cameras of the game compare different or equal as model
values do; an engine that computes the very view the hook wrote is not modelled.
The engine is assumed to write the whole view or nothing of it.

Console commands run in two places: with the game's own commands, and where the hook
itself executes a due command at the top of its frame (3803), which is between
a view setup and its passes. `stoppedLate` is the history of the last eye having
been switched off there. `AddYaw`, `AddMove`, `Recenter`, free look, the level horizon and room
scale change where a composed view points, not when it is composed, and are left out.

### SessionLifecycle

`epc` is the place in the engine frame: the events, the autostart, and the commands that
the drain or the game dispatches. A handle is the number of the instance or session it was
made for, so that one that outlived its session can be told from a good one; that is
why `actionSet` and `attached`, which the code never resets, matter. `xr` is the runtime's
own idea of the session. Every call that can fail may. `EnsureSwapchains` belongs to the
render thread and takes place between any two steps of the engine; what the two
threads do to each other within a frame is in `FramePipeline`. `chains` are the
swapchains the hook knows, `live` those the runtime holds.

A session's states are told apart where the hook does something about them.
The frames since the last attempt (`age`) stand for its time.

### RemoteControl and Launcher

`pipe` is the one instance, `holder` the client that has it open, `bytes` the
pieces of lines in it. `written` is every line in the order of the writes, and a line is
afterwards named by its place there: `Assembled` makes it `Mixed`, a line nobody
wrote, when its pieces are of two lines. `PipeThread` has a step for each wait and each
call on the pipe; `epc = "closing"` is the engine thread inside `PipeShutdown`. The
server tries `Tries` times, the others once. A client's write may fail because the hook closed the
instance meanwhile. Of a line that is longer than eight times `kPipeMaxLine` (`Overlong`) `Read` may drop what
has come so far (`MirvVrXrPipe.cpp` 164); `cut` remembers it. What is run as that line is then its end, which may
say anything (`Says`).

`Launcher` extends it with `lpc`, where `wmain` is, and is one of its clients once the
game runs. The game's process is `game`; `hooked` says whether the hook is inside,
which a call given up after a minute may still bring about. What the log says decides only how long it is
followed, and whether an older one could be deleted is not asked, so it may say anything.
`KeepsTheOrder` says that all of it implements `CommandChannel`, with `written`
for what was sent and `ran` for what was run.

### AimControl

Each frame is one of the branches of `PlayingInput`, and deterministic: what is not known is
the game, which answers after `delay` frames (`flying` is what has not arrived), makes of a
count what `worth` says, or is deaf; and the viewer. Angles are whole numbers, a
count being believed to be worth two, and do not wrap. The factors of the code
(0.6, 0.5, 0.35) are kept as fractions; what is carried over is in parts of a count.

Left out: the learning of what a count is worth (`MirvVrMath.h` 850), so that a wrong
gain stays wrong; the stick's pitch, which has no cone; the change of method by
console; snap turning. `clean` marks a run of the servos that began with nothing under way
and a game that listened: without it nothing can be said of what they measure.

## Runs

| Run | Result | Shows |
|---|---|---|
| `frame_both` | holds | both arrangements, every decision: one decision per picture, poses of its own images, acceptable layers; no frame ends at a later wait's time, and where the render thread waits it ends at its own |
| `frame_live` | holds | a ring that is too short and a stop that times out: the fallbacks never borrow another frame's mode or aim, and every begun frame is ended |
| `frame_lost` | holds | discarded passes and a ring that wraps: wait and begin stay matched, no callback misses its record, the engine thread never hangs in a second wait, unless the runtime refused to begin a frame |
| `input_low` | holds | keys keep their latch whatever has the focus; nothing held outside the playing layout; every tap comes up |
| `input_live` | holds | keys come up, the menu button is heard, the window is placed; a button that is down has its latch |
| `input_safe` | holds | latches of keys set by late callbacks are let go over a world |
| `mode_safe` | holds | free look restored, steady cursor, one raise per modal |
| `mode_align` | **violated** | an alignment that is never performed |
| `view_safe` | holds | the head is added once and never hides a new camera; the structure and the weapon's field are given back; each pass has its own view and the engine's field of view |
| `session_safe` | holds | handles of one session come and go together, hook and runtime agree on whether it is begun, no swapchain is forgotten, the autostart tries for a bounded time and rests for a reason, a ready session is begun |
| `desktop` | holds | a line is run at most once, in order, and whole unless it is overlong; the pipe's thread stops and listens again; nothing queued is lost; the server answers; no game is left suspended or run without the hook |
| `aim` | holds | while the game listens nothing under way is sent again and the error never grows; the aim stays in the cone and comes to the hand |

The violated run checks one sentence of the code's own comments; `findings` in
`PROJECT.json` quotes it and says where the code does otherwise.

### Other disagreements

Met while modelling, and without a run of their own. All lines are of
`MirvVrXr.cpp` unless said otherwise.

- On STOPPING `PollEvents` (3336) ends the session but leaves `g_FrameWaited` set, which only
  `SessionStop` clears (3683). When the runtime begins the session again the engine
  thread skips its wait, and the first eye calls `xrBeginFrame` with no frame handed
  out by the new one; the comment at 185 says "The two must stay matched one to one".
  With two sessions `BeginHasItsWait` fails in `FramePipeline`.
- `SessionStop` (3669) waits for an open frame only. `SubmitPanel` copies into the
  panel's swapchain before any frame is begun (the comment at 4790 says so), so its
  swapchain may be destroyed under the copy, against the comment at 3657.
- Safe arrangement: the engine thread turns to the menu and releases everything
  (3926); the queued eye of a playing frame then presses a key (4864), and at the menu
  nothing reads the controllers again. The comment at 3925 says that must be impossible "by
  construction rather than by care". Hence `LatchesAreLetGoOverAWorld`.
- Low latency: `PublishFrameRecord` (3239) copies `g_FrameState` whether or not
  this frame waited, so a frame can be ended with another wait's display time;
  the comment at 3241 says the wait is the frame's own. `EndsAtItsOwnTime` therefore
  excludes a later wait's time everywhere, an earlier one's for the safe arrangement alone.
- A record published in low latency keeps its time (`timingValid`, 3244). When the session is stopped, the
  arrangement changed to safe and the session started again, an eye of such a record still in the queue is begun with
  the render thread's own wait and then given the record's time (4894-4897). Hence `begins = 1` in
  `EndsAtItsOwnTime`; with a second session and both arrangements it fails.
- When the runtime refuses to begin a frame (4647, 4859), the wait made for it counts as used:
  `g_FrameWaited` is cleared before (4639, 4847). The next wait is then a second one for the same frame, on either
  thread, against "One wait per begin, always" (3201). Hence `xr.refused` in `EngineLeavesTheWait`.
- The drain sends a press before a release whichever came first (3766). Closing
  a window with the trigger held queues both, and `g_FireHeld` stays set with
  the button up.
- Over a window `ReleaseGameButtons` runs every frame (2861) and releases the
  pointer's button; a held click is let go and pressed again.
- With `mirv_vr_pointer post` the pointer presses by message and is released by
  `SendInput` (2473), which another window gets. With `send`, a release is
  dropped while the game is not in front (2000) and its latch is cleared. The
  run that checks `ButtonHasItsLatch` keeps the game in front.
- Safe arrangement: the trigger's latch is written without a lock and the press queued afterwards (2743).
  The engine thread may clear the latch and queue the release in between (2467), and the drain may send
  that first; the button is then down with no latch. The release has the same gap (2467-2473). TLC finds it in 34 steps from the
  constants of `input_safe`; `ButtonHasItsLatch` is checked for low latency, where one thread does both.
- Safe arrangement: between the two halves of `SetHeldKey` (760) the other
  thread can queue the release first. `KeysHaveTheirLatch` is checked for low
  latency.
- Safe arrangement: at the main menu no eyes are handed over and nothing reads
  the controllers, the menu button (2801, "in every mode") included.
  `MenuButtonIsHeard` is checked for low latency.
- `NextSheetOverride` (`MirvVrMath.h` 716) ignores the edge in every mode but
  PLAY, so a modal closed after a demo was loaded leaves its window up.
- `AfxVr_PlausibleViewCount` is never reset (4003), so on a second map the room
  can be aligned to the first map's last view.

- After a lost second eye, the next first eye stores its ticket (4825) before it
  finds that it has no wait and returns (4834) with one eye still counted as
  copied. The second eye of the new ticket then passes the test of 5052, and a
  picture is shown with the left eye of one ticket and the right one of the next;
  the comment at 5049 says never to.
- `mirv_vr_xr stop` dispatched at the top of a frame (3803) switches the eyes off
  after the head was written and before the passes. The field of view has been
  rescaled since, so `ShouldRestoreBaseView` no longer recognises the view; on a
  paused demo the head stays in the game's camera, and is added once more when a
  session starts again. The comment at `MirvVr.cpp` 505 says the flag prevents this.
- When the engine uses a new view structure while `g_Dirty` is set, the flag
  and the last written view of the old one stay (`MirvVr.cpp` 390). A camera that
  equals the last written view bit for bit is then replaced by an older base.
  `CameraIsNotFrozen` is stated for the first structure.
- `g_ActionSet`, `g_ActionsAttached` and `g_AimSpace` are never reset: after `stop` and
  `start`, which `docs/install.md` 205 recommends, the controllers count as attached and
  are not (1838). After `quit` they belong to an instance that is gone. Hence
  `FirstSessionHasItsControllers`.
- `CreateActions` (1674) takes an action set that exists for a finished one, so a failure
  half way is a success the next time.
- `LoadLoader` keeps `g_hLoader` when the library has no entry points (1134); the
  next attempt returns at 1098 and `MirvVrXr_Start` calls a null pointer. The model's
  loaders have them.
- `mirv_vr_autostart` (5595) resets the signals and not the attempts: armed again after
  it gave up, the autostart tries once. Its help says "It fires once" (5621),
  which 3380 explains is no longer so.
- `xrBeginSession` that fails on READY is never called again (3329).
- A client that connects, writes and leaves between `CreateNamedPipeW` and
  `ConnectNamedPipe` is taken for none (`MirvVrXrPipe.cpp` 135): its line is lost, and it was
  told that it was sent. So is a line that finds sixteen others waiting (592), after it was
  echoed to the log.
- Of a line that outgrows eight times `kPipeMaxLine` the thread drops what has come (`MirvVrXrPipe.cpp` 164) and not what
  is still to come: its end, up to the newline, is echoed and run as a line that nobody wrote, although
  no line of more than `kPipeMaxLine` is to be run (81). `CommandChannel` says so (`Cut`).
- When the pipe's name is taken its thread ends with `g_PipeThread` set
  (`MirvVrXrPipe.cpp` 112): the pipe counts as open and `mirv_vr_pipe 1` does nothing. A
  shutdown that times out (204) leaves the stop event set, with the same result.
- Whether the old log could be deleted is not looked at (`main.cpp` 665); if not, its
  lines are taken for this launch's. No property says otherwise. Some configs that could not be copied do not stop a
  launch (651), although "the game always runs the ones that came with this release" (209).
- `StopHandAim` cancels the servos and keeps an outcome that was reached (2412): when the
  pose comes back the hand counts as ready at once, without having been brought onto
  the hand (2517).
- Yaw that arrived and pitch that gave up is not the case of 2531: the next attempt comes at
  once and not after half a second.
- When yaw has nothing to send its delay is not measured, and two frames are taken for both
  axes although pitch may have measured three (2526); "so the delay is known" (2360).
- A tracker that believes the delay two frames too short rings for ever, and so does one
  that is one frame short with counts worth twice what it believes; hence `BelievesRight`.

### Bounds, and why they are enough

- *Frames*: `MaxSerial` 2 to 3 with `MaxAhead` 1 to 2 lets the engine thread be
  a whole frame ahead while an older eye is owed, which is where every property
  of the pipeline can fail.
- *Ring*: 1 to 3 for the real 8. What matters is only whether the lag is smaller than
  the ring: in `frame_both` it is, `frame_lost` wraps it, in `frame_live` the ring is
  too short; `TicketsFound` is proved for every ring.
- *Sessions*: one begin in the pipeline. In `session_safe` one instance and two sessions, because
  what is left over needs a second one; two attempts of the autostart, so that there is one that is
  not the last; two menu frames would only be waited out. One event may be
  under way when the next one happens.
- *Desktop*: three lines, each of four kinds, over a queue of two, so that it can be full and a client can follow
  another; two tries, so that there is one that is not the last.
- *Aim*: a delay of one frame, where nothing is ever under way, and of three; the hand in two
  places on each axis, yaw further than pitch so that one servo ends before the other;
  two disturbances: something goes wrong and, while that is being dealt with, something else does.
- *Decisions*: all of `worldInEyes`, `sheet`, `placed` in `frame_both`; `frame_live`
  shows a window only once it is placed, and `frame_lost` keeps a world without a
  window to afford its third frame.
- *Keys*: one key of each kind in `PlayingInput` (`input_safe` has a button key alone, and a viewer who leaves the
  menu button, `MenuButtonUsed`; the stick's keys and the menu button are in the two other runs); keys do not interact except
  through the order of the queue, which two keys and a tap exercise. A frame can
  queue four ways of taps, every held key twice and every button once more: 24 for the code's eight held
  keys, four of them buttons, which is exactly the limit of `QueueKeyState`, and 9 for the two keys of
  `input_low`, its `KeyCap`. `TapCap` 2 for 16 refuses a tap when two keys are pending;
  `TapCap` 0 in the runs of the safe arrangement leaves taps out.
- *Maps*: none, a demo, a game; a run that needs fewer says so in its cfg.
- *View*: two structures, because only being replaced once more matters; passes 0 to
  2 of 0 to 3, the two eyes of a session (the spare pass is reached from the console
  alone and treated alike); two heads stand for any number; two cameras, to tell a new
  one from an old one, and one that `CheckView` refuses.
- *Time*: steps of 50 ms, so that the debounce of 150 ms is three and a frame
  ends before, on and past it.

`CHECK_DEADLOCK FALSE` stands in the pipeline's runs, which stop when
`MaxSerial` frames have been composed, in `desktop`, where the game may be gone and the
launcher have returned with no line left to write, and in `aim`, whose deaf
game is an end only because `MaxDisturbances` bounds what can happen.

### Fairness

The game calls the engine frame for as long as it runs and drains the passes it
was given, so each thread has weak fairness of its own steps
(`EngineProgress`, `Render`; `EngineFrame`, `RenderCallback`; `Frame`). Nothing
is assumed of the viewer, the operator, the desktop or the runtime's session
events. `SessionLifecycle` and `AimControl` have the same of their `Frame`: the frame goes on,
whatever the runtime, the viewer and the game make of it. In `desktop`
`FairSpec` is fair to the pipe's thread (`PipeThread`), to the engine thread's frames
(`Engine`) and to a request the server has begun (`ServerSteps`): two threads and a process that the system
schedules. Nothing is assumed of the launcher, a script, or who wants a command run.
`xrWaitFrame` returns when no other wait is outstanding, as OpenXR
requires; that is a guard, not fairness. `input_live` has a runtime that does
not fail, because a call that fails for ever makes every such property false.

## Proofs

`FramePipelineProofs`, from the named assumptions of `FramePipeline`:

- `TypeCorrect`. `TypeOK` is not inductive: a frame could count a third copied
  eye. `EyeCount` ties the count to where the render thread is (between the
  first eye and the second it is at most one). One lemma per group of variables,
  in it one step per action.
- `TicketsFound`. The invariant `RingInv` says that the tickets of the
  callbacks in flight are within `MaxAhead` of the serial and that each such
  ticket's slot still holds its record; `SlotsDiffer` is the arithmetic: two
  tickets closer than the ring's length have different slots.
- `TimesKept`. `RuntimeInv` says what the hook's flags tell of the runtime (a session taken to run
  does run; one that does not has neither a wait nor a frame). `LatestInv` says that nobody holds the time of a
  wait still to come, and what an open frame outlived by the next wait keeps. `TimeInv`, for the render thread's own
  waits, says that each is followed by its begin and that the time it was given stands until the frame is ended; it
  takes that no record brings the time of another arrangement (`OneArrangement`), which the first session, or a process that never
  changes the arrangement, guarantees.
- `PictureImplemented`: `FramePipeline` implements `HeadsetPicture`. Each end of a frame is `Show` or
  changes nothing of it, which takes `PictureInv`: passes come in pairs (`PassesPaired`), between
  the eyes of an open frame comes nothing but the second (`SecondOwed`), an open frame is in
  somebody's hands (`OpenInv`), what counts as copied is there and of the right ticket (`EyesInv`,
  `PanelInv`), records say what was decided under their ticket (`RecordInv`), eyes are drawn for
  a world alone (`WorldInv`), and tickets are queued, run and shown in order (`OrderInv`). It holds for
  every ring, also one that is too short. It assumes that no pass is lost (`~PassesMayBeLost`):
  after a lost second eye the code shows a left eye with the right one of the next picture (see
  *Other disagreements*).
- `BeginsMatched`, `LayersReleased`, `PosesBelong`, for a session that is begun once
  (`MaxBegins <= 1`), the last two again without lost passes. `SessionInv` ties `g_FrameWaited` and
  `frameBegun` to the runtime. It is false of a second session, where a flag may be left over from the
  first (see *Other disagreements*), so the hypothesis is not one of convenience.

`ControllerInputProofs`, from those of `ControllerInput`, for every layout of keys:

- `ButtonLatched`: a mouse button that is down has its latch, a release in the queue, or a release that the thread
  which cleared the latch is about to queue. `ButtonInv` names, for each way in which the
  button was pressed, which of these it is, and that what the pointer posts never mixes
  with what the trigger does. When the game may lose the focus this is false, since a release then clears the latch and is dropped
  or goes to another window, and so it is in the safe arrangement, where two threads write one latch (see *Other disagreements*); so the
  theorem is about low latency and a game that stays in front (`LowLatency`, `~FocusMayBeLost`).
- `LeavingLetsGo`, with the controllers read on the engine thread (`LowLatency`; the other
  arrangement has its releases outstanding in a late callback, which is what `input_safe` is about). `LeavingInv` says that outside
  the playing layout all that is left to do is to let go, and whatever a latch still holds is
  among it; `RenderIdle` that the other thread has nothing to do with it.
- `NoKeyStuck`, in the same arrangement. `Settled` compares a latch with what the game will have been told once the
  queue is drained, so the proof is about the drain's loop: `WaitingIs` says what it keeps (those that
  are not due, in order, one frame nearer), by the least count at which it would not; and about room: `RoomInv`
  bounds what a frame queues by `4 + 2 * Len(AllHeld) + Len(ButtonKeys)`, which the queue must
  hold, because `QueueKeyState` drops what does not fit while the latch changes all the same. With the code's eight
  keys, four of them buttons, that is 24, its limit, with nothing to spare. `WaitInv` keeps a tap's
  way up behind the tap.

`ModeControlProofs`, from those of `ModeControl`; the invariant is `ModeInv`:

- `FreeLookRestored`: free look is saved exactly while playing, and what is
  saved is what the viewer chose (`SavedWhilePlaying`).
- `CursorSteady`: the debounce's count equals the true age of the unseen change
  (`CountIsTheAge`), so that a flicker in between always starts it again.
- `RaisedOnce`: a modal that raised the window is one whose edge has been
  consumed (`RaisedBySeenEdge`), so only a new edge can raise it again.

`ViewSetupProofs`, from those of `ViewSetup`; the invariant is `Inv`:

- `TypeCorrect`: one lemma per group of actions; what is given back is a value
  that was kept.
- `HeadAddedOnce`: that the base is free of heads is not inductive, because a
  composed view may be read back. `ComposedInv` says what makes that impossible: a
  composed view in the structure is either exactly the one remembered, with the dirty flag set, or
  the main pass is still to come, with an eye and a plausible base to make it
  write. `FrameInv` ties the structure the hook knows to the one in use.
- `CameraFollows`: in the first structure whatever is remembered as written was
  composed on the base's camera, which is the newest (`CameraInv`).
- `PassHasItsView`: each pass draws with its own view and the field of view that the engine left.
  `EntryInv` says where that value is on its way there: in the structure until the main pass, remembered as
  `passEntryFov` from then on.
- `WeaponFovBorrowed`: `WeaponInv` is that property and the fact that what is kept is the
  game's value; `RestoreIsGames` says what a restoration gives.

`SessionLifecycleProofs`, from those of `SessionLifecycle`; the invariant is `SessionInv`:

- `HandlesBelong`, `BegunAgrees` and `ControllersAttached` need to know what the runtime may
  still say: with a session gone its events are gone, but for the one that says that the
  runtime itself goes away (`EventsInv`); and handles are counted up (`CountInv`), so that the
  first session is the first to have attached anything.
- `SwapchainsKnown`: the hook asks its first swapchain whether it has any; `ChainInv` says that
  it stands for all of them, also between a set that failed half way and the next attempt.
- `AutoStartTries`: `TryInv` says that an autostart that has not come to rest has an attempt left.

`ChannelProofs`, from those of `RemoteControl` and `Launcher`; the invariant is `ChannelInv`:

- `Implements`: every step of the pipe is one of `CommandChannel` or changes nothing of
  it. It takes that an overlong line in the queue has lost its beginning (`Runnable`), that what is on its way (in the pipe, in the thread's hands, in the
  queue, being run) is in the order of its writing at every moment, and that nobody
  writes behind the half of a line that a client which has gone left in the pipe.
- `PipeClosed` and `NothingLost` follow from where the pipe's thread is when the
  handle is closed, and from the queue being emptied by the drain alone.

`LauncherProofs`; the invariant is `LaunchInv`:

- `LaunchWhole`: at each of the launcher's lines, what the game's process has become; it is
  resumed only where the hook is known to be inside, and every other way out terminates it.

`AimControlProofs`, from those of `AimControl`; the invariant is `AimInv`:

- `UnderWayIsKnown`. It is not inductive, since before the first answer a servo does
  not know the delay. `Sound` says what it has instead: either nothing was sent, or the
  first correction was sent so many frames ago and flies at just that place, alone, or the delay it has measured is the game's and the last corrections it remembers are
  those that fly. `LagIsTheDelay` is the step between the second and the third: the frame
  in which the first correction is seen is the frame in which it arrives, as long as a count is
  worth at least a quarter of what is believed, which every whole worth is. `OneAtATime` keeps the tracker from sending meanwhile.
- `AimComesCloser`: the error never grows and never changes its side. That is not inductive, because what is
  on its way may yet take the aim past. `Straight` adds, for an aim that comes from above,
  that before the delay is known there is one correction of at most six tenths of the error, and
  afterwards that everything on its way brings the aim nearer and all of it together will not take it past,
  but for one half of a believed count that rounding may overshoot by (`Overshot`), and then what is carried
  over forbids a count back. From below it is the same with every sign changed (`FromBelow`, by `DueMirrored` and `NumbersMirrored`):
  the rounding is symmetrical. Two hypotheses: `worth <= Believed`, counts that do
  no more than is believed; and a tolerance of a count at least, which 0.3 degrees is for any count that turns no more than
  that: with less, a servo goes on correcting within a count of its target and may step over it.
  For counts worth up to twice what is believed the run `aim` checks it; no
  invariant as tidy was found there, since the error then does change in ways that depend on
  how far off the hand was.
- `BodyFollows`: `StepBringsBack` is the arithmetic of the snap; a snap that is wider
  than the cone would turn the body out on the other side.

Only model-checked are the liveness properties, which are outside this prover's reach as
ENABLED is: `EngineLeavesTheWait`, `OpenFramesAreEnded`, `ViewerIsNotStuck`,
`LatchesAreLetGoOverAWorld`, `AutoStartSettles`, `ReadyIsAnswered`, `StoppedThreadEnds`,
`ClientsAreServed` and `AimComesToTheHand`; and of the safety properties `NeverWorseNorPast` for
counts worth more than is believed.

## Not modelled

- *Log follower and control server*: a process of its own that reads `console.log` from an offset,
  keeps the last lines with a cursor each, and answers requests from them. What it keeps
  goes back to nobody but the page; what it writes goes through the pipe, and that is in
  `RemoteControl`. Two of its hazards are worth knowing: a log that was written anew and has outgrown
  the old offset before the next look is not noticed (`logtail.rs` `read_chunk`), and a
  follower replaced for another path numbers its lines from one again
  (`main.rs` 227), so that a page with an old cursor sees nothing and is told of nothing missed.
- *Aim*: the learning of what a count is worth, snap turning, roaming through a demo, and how
  far and which way a composed view points (`AddYaw`, `AddMove`, `Recenter`, free look, room scale). These are
  floating-point geometry, in which order decides nothing but the amount.
- For good: the console's parsing and printing, the projection matrices and quaternions,
  HTTP, JSON and VDF parsing, the web page, the OpenXR probe, the scripts that build
  and stage a release, and the unit tests, which were used as a reference.
