---------------------------- MODULE FramePipeline ----------------------------
(***************************************************************************)
(* The way of one frame to the headset.                                    *)
(*                                                                         *)
(* The engine thread decides a frame at the top of it, publishes the       *)
(* decision in a ring under a serial number (the ticket), and queues the   *)
(* callbacks that will hand the finished images over, each carrying the    *)
(* ticket by value.  The render thread runs those callbacks in order, one  *)
(* or more frames later: the main pass (the panel, or at the menu the      *)
(* whole frame), then eye 0, which opens an OpenXR frame, then eye 1,      *)
(* which closes it.  Only the ring and the located views are locked; the   *)
(* flags g_SessionRunning, g_FrameBegun and g_FrameWaited are bare.        *)
(*                                                                         *)
(* lowLatency selects between the two arrangements of xrWaitFrame: on the  *)
(* engine thread (TRUE), or on the render thread (FALSE).                  *)
(*                                                                         *)
(* A picture is identified by the ticket of the pass that drew it.         *)
(***************************************************************************)
EXTENDS Integers, Sequences

CONSTANTS
    FrameRing,      \* kFrameRing: records kept for the render thread
    MaxAhead,       \* frames the game lets its render thread fall behind
    Arrangements,   \* the values of mirv_vr_xr latency the operator uses
    PanelEnabled,   \* mirv_vr_panel on, placed and shown
    StopTimesOut,   \* whether the 200 ms of SessionStop may pass
    PassesMayBeLost,\* whether the game may discard a pass's callbacks unrun
    Offered,        \* bound: the decisions it may come to while a session runs
    MaxSerial,      \* bound: frames the engine thread composes
    MaxBegins       \* bound: times the runtime begins the session

ASSUME RingAssumption  == FrameRing \in Nat \ {0}
ASSUME AheadAssumption == MaxAhead \in Nat \ {0}
ASSUME FlagAssumption  == /\ Arrangements \subseteq BOOLEAN /\ Arrangements # {}
                          /\ PanelEnabled \in BOOLEAN
                          /\ StopTimesOut \in BOOLEAN
                          /\ PassesMayBeLost \in BOOLEAN
ASSUME BoundAssumption == /\ Offered \subseteq [worldInEyes : BOOLEAN, sheet : BOOLEAN, placed : BOOLEAN]
                          /\ MaxSerial \in Nat
                          /\ MaxBegins \in Nat

VARIABLES
    \* The engine thread.
    epc,            \* where it is in its frame
    mode,           \* g_Mode and g_MenuPlaced, as one decision
    serial,         \* g_FrameSerial
    renderedBy,     \* the ticket g_RenderedViews belongs to, 0 for none
    \* Shared by the two threads.
    session,        \* g_Session is not XR_NULL_HANDLE
    running,        \* g_SessionRunning
    lowLatency,     \* g_LowLatency
    frameWaited,    \* g_FrameWaited
    frameBegun,     \* g_FrameBegun
    frameState,     \* g_FrameState: the wait whose prediction it holds
    viewsValid,     \* g_ViewsValid
    ring,           \* g_FrameRing
    queue,          \* the callbacks pushed on the render passes, in order
    \* The render thread.
    rpc,            \* where it is in its callback
    job,            \* the callback it runs
    frame,          \* g_SubmittedFrame
    panelFrame,     \* the record of a main-pass callback, a local there
    submittedTicket,\* g_SubmittedTicket
    rtTime,         \* g_RtFrameState: the wait whose prediction it holds
    eyesCopied,     \* g_EyesCopied
    proj,           \* [valid, of]: g_ProjViewsValid and whose poses
    panelCopied,    \* g_PanelCopied
    panelTicket,    \* g_PanelTicket
    chains,         \* the swapchains exist
    released,       \* the swapchains an image of which has been released
    image,          \* the ticket whose picture each swapchain last took
    \* The OpenXR runtime, and what it was given.
    xr,             \* [running, waited, open, refused]
    waits,          \* frames it has handed out with xrWaitFrame
    begins,         \* times the session was begun
    decided,        \* history: the decision published under each ticket
    shown           \* history: the picture of the last accepted xrEndFrame

engineVars  == <<epc, mode, serial, renderedBy, decided>>
panelVars   == <<panelCopied, panelTicket, chains, released>>
eyeVars     == <<frame, submittedTicket, eyesCopied, proj>>
callback    == <<rpc, job, panelFrame>>
sessionVars == <<session, running, begins, lowLatency>>
vars == <<engineVars, sessionVars, frameWaited, frameBegun, frameState, viewsValid,
          ring, queue, callback, eyeVars, rtTime, panelVars, image, xr, waits, shown>>

-----------------------------------------------------------------------------
(* Data.                                                                   *)

Tickets == 0 .. MaxSerial           \* 0: no ticket
Eyes    == {0, 1}
Panel   == 2                       \* kPanelSwapchain
Swaps   == Eyes \cup {Panel}
Waits   == Nat                      \* 0: none

HP == INSTANCE HeadsetPicture WITH decided <- decided, shown <- shown

\* DecideMode, as far as the render thread can tell: no session; no map (the
\* window on a screen); a map; a map with the window over it.  The window is placed
\* from the located views, and stays placed until the decision changes.
Idle  == [worldInEyes |-> FALSE, sheet |-> FALSE, placed |-> FALSE]
Decisions == [worldInEyes : BOOLEAN, sheet : BOOLEAN, placed : BOOLEAN]
Decided ==
    IF running THEN {d \in Offered : /\ d.worldInEyes \/ d.sheet
                                     /\ d.placed => d.sheet /\ (viewsValid \/ mode.placed)}
               ELSE {Idle}

\* timed: timingValid, the arrangement the record was published under.
FrameRecords == [serial : Tickets, mode : Decisions, rendered : BOOLEAN, time : Waits,
                 timed : BOOLEAN]
NoRecord == [serial |-> 0, mode |-> Idle, rendered |-> FALSE, time |-> 0, timed |-> FALSE]

\* A cleared record is the only one with no serial.
Valid(rec) == rec.serial # 0

Slot(ticket) == ticket % FrameRing

\* Mutants of ReadFrameRecord: the slot is believed whatever is in it; the newest
\* frame is asked for instead of the callback's own.
ReadAnyRecord(ticket) == ring[Slot(ticket)]
ReadNewestRecord(ticket) ==
    LET rec == ring[Slot(ticket)]
    IN  IF ticket # 0 /\ rec.serial = serial THEN rec ELSE NoRecord

ReadFrameRecord(ticket) ==
    LET rec == ring[Slot(ticket)]
    IN  IF ticket # 0 /\ rec.serial = ticket THEN rec ELSE NoRecord

\* A callback: the swapchain it fills, and the ticket it was given by value.
Jobs == [into : Swaps, ticket : Tickets]
NoJob == [into |-> Panel, ticket |-> 0]

Rings    == [0 .. FrameRing - 1 -> FrameRecords]
Queues   == Seq(Jobs)
Poses    == [valid : BOOLEAN, of : Tickets]
Images   == [Swaps -> Tickets]
XrStates == [running : BOOLEAN, waited : Waits, open : Waits, refused : BOOLEAN]
Pictures == [ticket : Tickets, world : BOOLEAN, eyes : Tickets \X Tickets,
             overlay : HP!Overlays, panel : Tickets, aim : Tickets]

EnginePcs == {"top", "xrWait", "endSession", "stopWait", "teardown", "publish", "main", "eye0", "eye1"}
PanelPcs  == {"menuWait", "menuBegin", "menuAcquire", "menuCopy", "menuEnd",
              "menuEndEmpty", "panelAcquire", "panelCopy"}
EyePcs    == {"eyeWait", "eyeBegin", "eyeLocate", "eyeAcquire", "eyeCopy", "eyeEnd"}
RenderPcs == {"idle"} \cup PanelPcs \cup EyePcs

NoXr == [running |-> FALSE, waited |-> 0, open |-> 0, refused |-> FALSE]

MenuMode(d) == ~d.worldInEyes /\ d.sheet

-----------------------------------------------------------------------------
(* The OpenXR runtime.  xrWaitFrame blocks while a frame it handed out has *)
(* not been begun, and fails when the session does not run or something    *)
(* else is wrong; xrBeginFrame needs a frame that was handed out, may      *)
(* refuse it all the same, and discards one that is still open; xrEndFrame *)
(* needs an open frame and refuses a layer whose swapchain never had an    *)
(* image released.  A frame that was refused stays handed out, and that    *)
(* there was one in this session is a history.                             *)

WaitReturns == xr.running => xr.waited = 0

XrWait ==
    /\ xr.running /\ xr.waited = 0
    /\ waits' = waits + 1
    /\ xr' = [xr EXCEPT !.waited = waits + 1]
    /\ frameState' = waits + 1

CanBegin == xr.running /\ xr.waited # 0

XrBegin  == xr' = [xr EXCEPT !.waited = 0, !.open = xr.waited]
XrRefuse == xr' = [xr EXCEPT !.refused = TRUE]

XrEnd(picture, layers) ==
    IF xr.running /\ xr.open # 0 /\ layers \subseteq released
      THEN xr' = [xr EXCEPT !.open = 0] /\ shown' = picture
      ELSE UNCHANGED <<xr, shown>>

-----------------------------------------------------------------------------
(* The engine thread.                                                      *)

\* PollEvents, READY.
PollReady ==
    /\ epc = "top" /\ session /\ ~running /\ ~xr.running /\ begins < MaxBegins
    /\ running' = TRUE
    /\ xr' = [NoXr EXCEPT !.running = TRUE]
    /\ begins' = begins + 1
    /\ UNCHANGED <<engineVars, session, lowLatency, frameWaited, frameBegun, frameState, viewsValid,
                   ring, queue, callback, eyeVars, rtTime, panelVars, image, waits, shown>>

\* PollEvents, STOPPING: the flag is cleared, and then the session is ended.
PollStopping ==
    /\ epc = "top" /\ running
    /\ running' = FALSE
    /\ epc' = "endSession"
    /\ UNCHANGED <<mode, serial, renderedBy, decided, session, begins, lowLatency, frameWaited,
                   frameBegun, frameState, viewsValid, ring, queue, callback, eyeVars, rtTime,
                   panelVars, image, xr, waits, shown>>

EndSession ==
    /\ epc = "endSession"
    /\ xr' = NoXr
    /\ epc' = "top"
    /\ UNCHANGED <<mode, serial, renderedBy, decided, sessionVars, frameWaited, frameBegun,
                   frameState, viewsValid, ring, queue, callback, eyeVars, rtTime, panelVars,
                   image, waits, shown>>

\* PollEvents, INSTANCE_LOSS_PENDING: the flag is cleared and nothing is ended.
PollInstanceLoss ==
    /\ epc = "top" /\ running
    /\ running' = FALSE
    /\ UNCHANGED <<engineVars, session, begins, lowLatency, frameWaited, frameBegun, frameState,
                   viewsValid, ring, queue, callback, eyeVars, rtTime, panelVars, image, xr,
                   waits, shown>>

\* MirvVrXr_SessionStart, from a console command, a key or the autostart.
SessionStart ==
    /\ epc = "top" /\ ~session /\ begins < MaxBegins
    /\ session' = TRUE
    /\ UNCHANGED <<engineVars, running, begins, lowLatency, frameWaited, frameBegun, frameState,
                   viewsValid, ring, queue, callback, eyeVars, rtTime, panelVars, image, xr,
                   waits, shown>>

\* MirvVrXr_SessionStop: stop wanting passes; wait for an open frame, but only
\* if the session ran and no longer than 200 ms; then take everything down.
SessionStop ==
    /\ epc = "top" /\ session
    /\ running' = FALSE
    /\ epc' = IF running THEN "stopWait" ELSE "teardown"
    /\ UNCHANGED <<mode, serial, renderedBy, decided, session, begins, lowLatency, frameWaited,
                   frameBegun, frameState, viewsValid, ring, queue, callback, eyeVars, rtTime,
                   panelVars, image, xr, waits, shown>>

StopWait ==
    /\ epc = "stopWait"
    /\ ~frameBegun \/ StopTimesOut
    /\ epc' = "teardown"
    /\ UNCHANGED <<mode, serial, renderedBy, decided, sessionVars, frameWaited, frameBegun,
                   frameState, viewsValid, ring, queue, callback, eyeVars, rtTime, panelVars,
                   image, xr, waits, shown>>

\* mirv_vr_xr latency: refused while the session runs.
SetLatency ==
    /\ epc = "top" /\ ~running
    /\ lowLatency' \in Arrangements \ {lowLatency}
    /\ UNCHANGED <<engineVars, session, running, begins, frameWaited, frameBegun, frameState,
                   viewsValid, ring, queue, callback, eyeVars, rtTime, panelVars, image, xr,
                   waits, shown>>

\* Mutant: the copied flag survives the swapchain it was copied into.
KeepPanelCopied == released' = {} /\ UNCHANGED <<panelCopied, panelTicket>>

DestroySwapchains ==
    /\ panelCopied' = FALSE
    /\ panelTicket' = 0
    /\ released' = {}

Teardown ==
    /\ epc = "teardown"
    /\ epc' = "top"
    /\ xr' = NoXr
    /\ session' = FALSE
    /\ DestroySwapchains /\ chains' = FALSE
    /\ frameBegun' = FALSE
    /\ frameWaited' = FALSE
    /\ proj' = [proj EXCEPT !.valid = FALSE]
    /\ viewsValid' = FALSE
    /\ UNCHANGED <<mode, serial, renderedBy, decided, running, begins, lowLatency, frameState,
                   ring, queue, callback, frame, submittedTicket, eyesCopied, rtTime, image,
                   waits, shown>>

\* Mutant of WaitAndLocate: it waits again though the last wait is not taken.
WaitAgain ==
    /\ epc = "top"
    /\ epc' = IF lowLatency /\ running THEN "xrWait" ELSE "publish"
    /\ UNCHANGED <<mode, serial, renderedBy, decided, sessionVars, frameWaited, frameBegun,
                   frameState, viewsValid, ring, queue, callback, eyeVars, rtTime, panelVars,
                   image, xr, waits, shown>>

\* EngineThread_WaitAndLocate, up to xrWaitFrame: the old prediction is cleared.
WaitAndLocate ==
    /\ epc = "top"
    /\ IF lowLatency /\ running /\ ~frameWaited
         THEN epc' = "xrWait" /\ frameState' = 0
         ELSE epc' = "publish" /\ UNCHANGED frameState
    /\ UNCHANGED <<mode, serial, renderedBy, decided, sessionVars, frameWaited, frameBegun,
                   viewsValid, ring, queue, callback, eyeVars, rtTime, panelVars, image, xr,
                   waits, shown>>

\* The rest of it: the wait may have failed, and so may the locate after it.
XrWaitReturns ==
    /\ epc = "xrWait" /\ WaitReturns
    /\ epc' = "publish"
    /\ \/ /\ XrWait
          /\ frameWaited' = TRUE
          /\ viewsValid' \in {viewsValid, TRUE}
       \/ UNCHANGED <<xr, waits, frameState, frameWaited, viewsValid>>
    /\ UNCHANGED <<mode, serial, renderedBy, decided, sessionVars, frameBegun, ring, queue,
                   callback, eyeVars, rtTime, panelVars, image, shown>>

\* The tickets whose callbacks have still to run, or are running.
Queued == {queue[i].ticket : i \in DOMAIN queue}
InFlight == Queued \cup (IF rpc = "idle" THEN {} ELSE {job.ticket})

\* External: the game bounds how far its render thread falls behind.
Throttled == \A t \in InFlight : serial + 1 - t <= MaxAhead

\* DecideMode and EngineThread_PlaceMenu decide, PublishFrameRecord writes the
\* decision down under the lock.
PublishFrameRecord ==
    /\ epc = "publish" /\ Throttled /\ serial < MaxSerial
    /\ epc' = "main"
    /\ serial' = serial + 1
    /\ mode' \in Decided
    /\ ring' = [ring EXCEPT ![Slot(serial + 1)] =
                    [serial |-> serial + 1, mode |-> mode', rendered |-> viewsValid,
                     time |-> frameState, timed |-> lowLatency]]
    /\ renderedBy' = IF viewsValid THEN serial + 1 ELSE renderedBy
    /\ decided' = Append(decided, mode')
    /\ UNCHANGED <<sessionVars, frameWaited, frameBegun, frameState, viewsValid, queue, callback,
                   eyeVars, rtTime, panelVars, image, xr, waits, shown>>

WantsPanel  == PanelEnabled \/ mode.sheet
WantsPasses == running /\ ~MenuMode(mode)

\* EngineThread_BeginMainRenderPass.
BeginMainRenderPass ==
    /\ epc = "main"
    /\ queue' = IF WantsPanel THEN Append(queue, [into |-> Panel, ticket |-> serial]) ELSE queue
    /\ epc' = IF WantsPasses THEN "eye0" ELSE "top"
    /\ UNCHANGED <<mode, serial, renderedBy, decided, sessionVars, frameWaited, frameBegun,
                   frameState, viewsValid, ring, callback, eyeVars, rtTime, panelVars, image,
                   xr, waits, shown>>

\* EngineThread_BeginNextRenderPass, once for each eye.
BeginNextRenderPass ==
    /\ epc \in {"eye0", "eye1"}
    /\ queue' = Append(queue, [into |-> IF epc = "eye0" THEN 0 ELSE 1, ticket |-> serial])
    /\ epc' = IF epc = "eye0" THEN "eye1" ELSE "top"
    /\ UNCHANGED <<mode, serial, renderedBy, decided, sessionVars, frameWaited, frameBegun,
                   frameState, viewsValid, ring, callback, eyeVars, rtTime, panelVars, image,
                   xr, waits, shown>>

Engine ==
    \/ PollReady \/ PollStopping \/ EndSession \/ PollInstanceLoss
    \/ SessionStart \/ SessionStop \/ StopWait \/ Teardown \/ SetLatency
    \/ WaitAndLocate \/ XrWaitReturns
    \/ PublishFrameRecord \/ BeginMainRenderPass \/ BeginNextRenderPass

-----------------------------------------------------------------------------
(* The render thread.  A callback is taken from the queue and runs to its  *)
(* end before the next; the engine thread runs between any two steps.      *)

Take(swap) ==
    /\ rpc = "idle" /\ queue # <<>>
    /\ Head(queue).into = swap
    /\ queue' = Tail(queue)

\* External: a pass that has no capture point, or no device context, discards its
\* callbacks.
LoseCallback ==
    /\ PassesMayBeLost
    /\ rpc = "idle" /\ queue # <<>>
    /\ queue' = Tail(queue)
    /\ UNCHANGED <<engineVars, sessionVars, frameWaited, frameBegun, frameState, viewsValid, ring,
                   callback, eyeVars, rtTime, panelVars, image, xr, waits, shown>>

\* A callback goes on to another step, or returns and its locals are gone.
Goto(next) == rpc' = next /\ UNCHANGED <<job, panelFrame>>
Return == rpc' = "idle" /\ job' = NoJob /\ panelFrame' = NoRecord

\* The outcomes of EnsureSwapchains: there and of the right size; made, or made
\* again for a new back buffer; or not to be had.
EnsureSwapchains ==
    \/ chains /\ UNCHANGED panelVars
    \/ chains' \in BOOLEAN /\ DestroySwapchains

\* A record that has a time, as those published in the low-latency arrangement
\* have, carries its own prediction.
RecordTime(rec, otherwise) == IF rec.timed THEN rec.time ELSE otherwise

\* Mutant of TakeEngineWait: the wait is used and not marked as used.
BorrowEngineWait(rec, next) ==
    /\ IF frameWaited
         THEN rtTime' = RecordTime(rec, frameState) /\ Goto(next)
         ELSE UNCHANGED rtTime /\ Return
    /\ UNCHANGED <<xr, waits, frameState, frameWaited>>

\* The frame's wait: taken over from the engine thread, or made here.
TakeEngineWait(rec, next) ==
    /\ IF frameWaited
         THEN /\ rtTime' = RecordTime(rec, frameState)
              /\ frameWaited' = FALSE
              /\ Goto(next)
         ELSE UNCHANGED <<rtTime, frameWaited>> /\ Return
    /\ UNCHANGED <<xr, waits, frameState>>

WaitHere(next) ==
    /\ WaitReturns
    /\ \/ XrWait /\ rtTime' = frameState' /\ Goto(next)
       \/ frameState' = 0 /\ UNCHANGED <<xr, waits, rtTime>> /\ Return
    /\ UNCHANGED frameWaited

TakeWait(rec, next) == IF lowLatency THEN TakeEngineWait(rec, next) ELSE WaitHere(next)

BeginFrame(next) ==
    \/ CanBegin /\ XrBegin /\ frameBegun' = TRUE /\ Goto(next)
    \/ /\ IF CanBegin THEN XrRefuse ELSE UNCHANGED xr
       /\ Return /\ UNCHANGED frameBegun

\* MirvVrXr_RenderThread_SubmitPanel, up to where it knows what to do.
SubmitPanel ==
    /\ Take(Panel)
    /\ panelCopied' = FALSE
    /\ panelTicket' = 0
    /\ LET ticket == Head(queue).ticket
           rec    == ReadFrameRecord(ticket)
       IN  IF running /\ Valid(rec) /\ (PanelEnabled \/ rec.mode.sheet)
             THEN /\ job' = Head(queue)
                  /\ panelFrame' = rec
                  /\ rpc' = IF ~MenuMode(rec.mode) THEN "panelAcquire"
                            ELSE IF frameBegun THEN "menuAcquire"
                            ELSE "menuWait"
             ELSE Return
    /\ UNCHANGED <<engineVars, sessionVars, frameWaited, frameBegun, frameState, viewsValid, ring,
                   frame, submittedTicket, eyesCopied, proj, rtTime, chains, released, image, xr,
                   waits, shown>>

PanelAcquire ==
    /\ rpc = "panelAcquire"
    /\ EnsureSwapchains
    /\ \/ Return
       \/ chains' /\ Goto("panelCopy")
    /\ UNCHANGED <<engineVars, sessionVars, frameWaited, frameBegun, frameState, viewsValid, ring,
                   queue, eyeVars, rtTime, image, xr, waits, shown>>

\* Copied and released; a failed wait or release leaves the flags down.
PanelCopy ==
    /\ rpc = "panelCopy"
    /\ Return
    /\ \/ /\ image' = [image EXCEPT ![Panel] = job.ticket]
          /\ released' = released \cup {Panel}
          /\ panelCopied' = TRUE
          /\ panelTicket' = job.ticket
       \/ UNCHANGED <<image, released, panelCopied, panelTicket>>
    /\ UNCHANGED <<engineVars, sessionVars, frameWaited, frameBegun, frameState, viewsValid, ring,
                   queue, eyeVars, rtTime, chains, xr, waits, shown>>

\* RenderThread_MenuFrame opens a frame unless one is open already.
MenuWait ==
    /\ rpc = "menuWait"
    /\ TakeWait(panelFrame, "menuBegin")
    /\ UNCHANGED <<engineVars, sessionVars, frameBegun, viewsValid, ring, queue, eyeVars,
                   panelVars, image, shown>>

MenuBegin ==
    /\ rpc = "menuBegin"
    /\ BeginFrame("menuAcquire")
    /\ UNCHANGED <<engineVars, sessionVars, frameWaited, frameState, viewsValid, ring, queue,
                   eyeVars, rtTime, panelVars, image, waits, shown>>

\* Mutant of MenuAcquire: with nothing to copy it returns and the frame stays open.
MenuAcquireOrReturn ==
    /\ rpc = "menuAcquire"
    /\ eyesCopied' = 0
    /\ EnsureSwapchains
    /\ \/ Return
       \/ chains' /\ Goto("menuCopy")
    /\ UNCHANGED <<engineVars, sessionVars, frameWaited, frameBegun, frameState, viewsValid, ring,
                   queue, frame, submittedTicket, proj, rtTime, image, xr, waits, shown>>

MenuAcquire ==
    /\ rpc = "menuAcquire"
    /\ eyesCopied' = 0
    /\ EnsureSwapchains
    /\ \/ Goto("menuEndEmpty")
       \/ chains' /\ Goto("menuCopy")
    /\ UNCHANGED <<engineVars, sessionVars, frameWaited, frameBegun, frameState, viewsValid, ring,
                   queue, frame, submittedTicket, proj, rtTime, image, xr, waits, shown>>

MenuCopy ==
    /\ rpc = "menuCopy"
    /\ Goto("menuEnd")
    /\ image' = [image EXCEPT ![Panel] = job.ticket]
    /\ released' = released \cup {Panel}
    /\ UNCHANGED <<engineVars, sessionVars, frameWaited, frameBegun, frameState, viewsValid, ring,
                   queue, eyeVars, rtTime, panelCopied, panelTicket, chains, xr, waits, shown>>

\* The frame is ended whether or not the sheet is in it.
MenuEnd ==
    /\ rpc \in {"menuEnd", "menuEndEmpty"}
    /\ Return
    /\ LET sheet == rpc = "menuEnd" /\ panelFrame.mode.sheet /\ panelFrame.mode.placed /\ chains
       IN  XrEnd([ticket  |-> panelFrame.serial, world |-> FALSE, eyes |-> <<0, 0>>,
                  overlay |-> IF sheet THEN "sheet" ELSE "none",
                  panel   |-> IF sheet THEN image[Panel] ELSE 0,
                  aim     |-> 0],
                 IF sheet THEN {Panel} ELSE {})
    /\ frameBegun' = FALSE
    /\ panelCopied' = FALSE
    /\ UNCHANGED <<engineVars, sessionVars, frameWaited, frameState, viewsValid, ring, queue,
                   eyeVars, rtTime, panelTicket, chains, released, image, waits>>

\* MirvVrXr_RenderThread_SubmitEye(0), up to the wait.
SubmitFirstEye ==
    /\ Take(0)
    /\ LET ticket == Head(queue).ticket
           rec    == ReadFrameRecord(ticket)
       IN  IF running
             THEN /\ frame' = rec
                  /\ submittedTicket' = ticket
                  /\ IF Valid(rec) /\ ~rec.mode.worldInEyes
                       THEN Return
                       ELSE job' = Head(queue) /\ rpc' = "eyeWait" /\ UNCHANGED panelFrame
             ELSE UNCHANGED <<frame, submittedTicket>> /\ Return
    /\ UNCHANGED <<engineVars, sessionVars, frameWaited, frameBegun, frameState, viewsValid, ring,
                   eyesCopied, proj, rtTime, panelVars, image, xr, waits, shown>>

EyeWait ==
    /\ rpc = "eyeWait"
    /\ TakeWait(frame, "eyeBegin")
    /\ UNCHANGED <<engineVars, sessionVars, frameBegun, viewsValid, ring, queue, eyeVars,
                   panelVars, image, shown>>

EyeBegin ==
    /\ rpc = "eyeBegin"
    /\ BeginFrame("eyeLocate")
    /\ UNCHANGED <<engineVars, sessionVars, frameWaited, frameState, viewsValid, ring, queue,
                   eyeVars, rtTime, panelVars, image, waits, shown>>

\* Mutant: the poses of the frame rendered last, whoever is asking.
LatestProjection(rec, located) ==
    IF renderedBy # 0 THEN [valid |-> TRUE, of |-> renderedBy] ELSE [valid |-> located, of |-> 0]

\* The poses to report are the record's; without a record, whatever was rendered
\* or located last.
Projection(rec, located) ==
    IF Valid(rec) THEN [valid |-> rec.rendered, of |-> rec.serial]
    ELSE IF renderedBy # 0 THEN [valid |-> TRUE, of |-> renderedBy]
    ELSE [valid |-> located, of |-> 0]

\* Mutants of EyeLocate: the count of copied eyes runs on from the frame before; the
\* time is looked up again, where the engine thread may have waited meanwhile.
EyeLocateKeepsCount ==
    /\ rpc = "eyeLocate"
    /\ IF frameBegun THEN Goto("eyeAcquire") ELSE Return
    /\ viewsValid' \in {viewsValid, viewsValid \/ ~lowLatency}
    /\ EnsureSwapchains
    /\ proj' = Projection(frame, viewsValid')
    /\ rtTime' = RecordTime(frame, rtTime)
    /\ UNCHANGED <<engineVars, sessionVars, frameWaited, frameBegun, frameState, ring, queue,
                   eyesCopied, frame, submittedTicket, image, xr, waits, shown>>

EyeLocateLooksAgain ==
    /\ rpc = "eyeLocate"
    /\ IF frameBegun THEN Goto("eyeAcquire") ELSE Return
    /\ viewsValid' \in {viewsValid, viewsValid \/ ~lowLatency}
    /\ eyesCopied' = 0
    /\ EnsureSwapchains
    /\ proj' = Projection(frame, viewsValid')
    /\ rtTime' = frameState
    /\ UNCHANGED <<engineVars, sessionVars, frameWaited, frameBegun, frameState, ring, queue,
                   frame, submittedTicket, image, xr, waits, shown>>

\* The safe arrangement locates here, for the next frame.  The time of the record, if
\* it has one, goes over that of this thread's own wait.  A frame that was closed
\* meanwhile, by a session being taken down, is left alone.
EyeLocate ==
    /\ rpc = "eyeLocate"
    /\ IF frameBegun THEN Goto("eyeAcquire") ELSE Return
    /\ viewsValid' \in {viewsValid, viewsValid \/ ~lowLatency}
    /\ eyesCopied' = 0
    /\ EnsureSwapchains
    /\ proj' = Projection(frame, viewsValid')
    /\ rtTime' = RecordTime(frame, rtTime)
    /\ UNCHANGED <<engineVars, sessionVars, frameWaited, frameBegun, frameState, ring, queue,
                   frame, submittedTicket, image, xr, waits, shown>>

\* MirvVrXr_RenderThread_SubmitEye(1): only an open frame takes a second eye,
\* and one from another ticket empties the frame.
SubmitSecondEye ==
    /\ Take(1)
    /\ IF running /\ frameBegun
         THEN /\ job' = Head(queue) /\ rpc' = "eyeAcquire" /\ UNCHANGED panelFrame
              /\ IF Head(queue).ticket = submittedTicket
                   THEN UNCHANGED <<eyesCopied, proj>>
                   ELSE eyesCopied' = 0 /\ proj' = [proj EXCEPT !.valid = FALSE]
         ELSE UNCHANGED <<eyesCopied, proj>> /\ Return
    /\ UNCHANGED <<engineVars, sessionVars, frameWaited, frameBegun, frameState, viewsValid, ring,
                   frame, submittedTicket, rtTime, panelVars, image, xr, waits, shown>>

AfterEye == IF job.into = 0 THEN Return ELSE Goto("eyeEnd")

\* The runtime may not want this frame rendered, and an acquire may fail.
EyeAcquire ==
    /\ rpc = "eyeAcquire"
    /\ \/ AfterEye
       \/ chains /\ job.ticket = submittedTicket /\ Goto("eyeCopy")
    /\ UNCHANGED <<engineVars, sessionVars, frameWaited, frameBegun, frameState, viewsValid, ring,
                   queue, eyeVars, rtTime, panelVars, image, xr, waits, shown>>

EyeCopy ==
    /\ rpc = "eyeCopy"
    /\ AfterEye
    /\ image' = [image EXCEPT ![job.into] = job.ticket]
    /\ released' = released \cup {job.into}
    /\ eyesCopied' = eyesCopied + 1
    /\ UNCHANGED <<engineVars, sessionVars, frameWaited, frameBegun, frameState, viewsValid, ring,
                   queue, frame, submittedTicket, proj, rtTime, panelCopied, panelTicket, chains,
                   xr, waits, shown>>

\* What eye 1 puts over the world.  A crosshair is drawn in a game only; that a
\* demo has none is left out, so a world without a sheet stands for a game.
HaveWorld == eyesCopied = 2 /\ proj.valid
HavePanelImage == Valid(frame) /\ panelTicket = frame.serial /\ panelCopied /\ chains
HaveSheet == HavePanelImage /\ frame.mode.worldInEyes /\ frame.mode.sheet /\ frame.mode.placed
\* Mutant: the panel is cut up as the engine's mode of now has it.
HaveLivePanel == HavePanelImage /\ ~mode.sheet /\ PanelEnabled
HavePanel == HavePanelImage /\ ~frame.mode.sheet /\ PanelEnabled
HaveCrosshair == Valid(frame) /\ frame.serial = job.ticket /\ frame.rendered /\ ~frame.mode.sheet

EyeOverlay ==
    IF ~HaveWorld THEN "none" ELSE IF HaveSheet THEN "sheet" ELSE IF HavePanel THEN "hud" ELSE "none"

EyeLayers ==
    (IF HaveWorld THEN Eyes ELSE {}) \cup (IF EyeOverlay # "none" THEN {Panel} ELSE {})

EyeEnd ==
    /\ rpc = "eyeEnd"
    /\ Return
    /\ XrEnd([ticket  |-> job.ticket, world |-> HaveWorld,
              eyes    |-> IF HaveWorld THEN <<image[0], image[1]>> ELSE <<0, 0>>,
              overlay |-> EyeOverlay,
              panel   |-> IF EyeOverlay = "none" THEN 0 ELSE image[Panel],
              aim     |-> IF HaveWorld /\ HaveCrosshair THEN frame.serial ELSE 0],
             EyeLayers)
    /\ frameBegun' = FALSE
    /\ panelCopied' = FALSE
    /\ UNCHANGED <<engineVars, sessionVars, frameWaited, frameState, viewsValid, ring, queue,
                   eyeVars, rtTime, panelTicket, chains, released, image, waits>>

Render ==
    \/ LoseCallback
    \/ SubmitPanel \/ PanelAcquire \/ PanelCopy
    \/ MenuWait \/ MenuBegin \/ MenuAcquire \/ MenuCopy \/ MenuEnd
    \/ SubmitFirstEye \/ EyeWait \/ EyeBegin \/ EyeLocate
    \/ SubmitSecondEye \/ EyeAcquire \/ EyeCopy \/ EyeEnd

-----------------------------------------------------------------------------
Init ==
    /\ epc = "top" /\ mode = Idle /\ serial = 0 /\ renderedBy = 0 /\ decided = <<>>
    /\ session = FALSE /\ running = FALSE /\ begins = 0 /\ lowLatency \in Arrangements
    /\ frameWaited = FALSE /\ frameBegun = FALSE /\ frameState = 0 /\ viewsValid = FALSE
    /\ ring = [s \in 0 .. FrameRing - 1 |-> NoRecord] /\ queue = <<>>
    /\ rpc = "idle" /\ job = NoJob /\ frame = NoRecord /\ panelFrame = NoRecord
    /\ submittedTicket = 0 /\ rtTime = 0 /\ eyesCopied = 0
    /\ proj = [valid |-> FALSE, of |-> 0]
    /\ panelCopied = FALSE /\ panelTicket = 0 /\ chains = FALSE /\ released = {}
    /\ image = [s \in Swaps |-> 0]
    /\ xr = NoXr /\ waits = 0 /\ shown = HP!NoPicture

Next == Engine \/ Render

Spec == Init /\ [][Next]_vars

\* Both threads keep running: the game calls EngineThread_Prepare every frame,
\* and its render thread drains the passes it was given.  The session events and
\* the operator's commands are not owed to anybody.
EngineProgress ==
    \/ EndSession \/ StopWait \/ Teardown
    \/ WaitAndLocate \/ XrWaitReturns
    \/ PublishFrameRecord \/ BeginMainRenderPass \/ BeginNextRenderPass

FairSpec == Spec /\ WF_vars(EngineProgress) /\ WF_vars(Render)

-----------------------------------------------------------------------------
(* What must hold.                                                         *)

EngineTypes ==
    /\ epc \in EnginePcs /\ mode \in Decisions /\ serial \in Tickets /\ renderedBy \in Tickets
    /\ decided \in Seq(Decisions)

SharedTypes ==
    /\ session \in BOOLEAN /\ running \in BOOLEAN /\ begins \in Nat /\ lowLatency \in BOOLEAN
    /\ frameWaited \in BOOLEAN /\ frameBegun \in BOOLEAN /\ frameState \in Waits
    /\ viewsValid \in BOOLEAN
    /\ ring \in Rings /\ queue \in Queues

RenderTypes ==
    /\ rpc \in RenderPcs /\ job \in Jobs
    /\ frame \in FrameRecords /\ panelFrame \in FrameRecords
    /\ submittedTicket \in Tickets /\ rtTime \in Waits
    /\ eyesCopied \in 0 .. 2 /\ proj \in Poses
    /\ panelCopied \in BOOLEAN /\ panelTicket \in Tickets /\ chains \in BOOLEAN

RuntimeTypes ==
    /\ released \in SUBSET Swaps /\ image \in Images
    /\ xr \in XrStates /\ waits \in Waits /\ shown \in Pictures

\* Every variable has its type; of the values only one is no matter of course:
\* no frame counts more than its two eyes.
TypeOK == EngineTypes /\ SharedTypes /\ RenderTypes /\ RuntimeTypes

\* Every picture is composed from one decision and none is shown out of order.
\* The hazard is a mode, a menu or an aim that changes on the engine thread while
\* the render thread still owes an eye of the old one.
ShowsOneDecision == HP!Spec

\* A callback always finds the record of its own ticket, if the ring is deeper
\* than the game lets its render thread fall behind.
TicketsAreFound ==
    MaxAhead < FrameRing => \A t \in InFlight : Valid(ReadFrameRecord(t))

\* The poses reported for a world are the ones its images were drawn from,
\* unless the record fell out of the ring; the crosshair never uses the fallback.
PosesBelongToTheImages ==
    rpc = "eyeEnd" /\ HaveWorld /\ running =>
        /\ Valid(frame) => proj.of = job.ticket /\ image[0] = proj.of /\ image[1] = proj.of
        /\ HaveCrosshair => Valid(frame)

\* No frame is ended with a layer the runtime must refuse: every swapchain it
\* references still exists and has had an image released since it was made.
LayersAreReleased ==
    rpc = "eyeEnd" /\ running => EyeLayers \subseteq released

\* "One wait per begin, always": whoever is about to begin a frame has a wait of
\* the running session outstanding, which nobody else will begin.
BeginHasItsWait ==
    rpc \in {"eyeBegin", "menuBegin"} /\ running => xr.waited # 0

\* A frame is never ended against the display time of a wait later than its own, which
\* the engine thread may make as soon as this one is taken; and where the render thread
\* waits, not against an earlier one's either.  (On the engine thread a record may carry
\* an earlier wait's: it is published whether or not this frame waited.  A later session
\* may meet a record of the other arrangement.)
EndsAtItsOwnTime ==
    rpc \in {"eyeEnd", "menuEnd", "menuEndEmpty"} /\ running /\ xr.open # 0 /\ ~xr.refused =>
        /\ rtTime <= xr.open
        /\ ~lowLatency /\ (begins = 1 \/ TRUE \notin Arrangements) => rtTime = xr.open

\* A frame that was begun is ended, whatever mode the engine goes to meanwhile,
\* as long as its session runs and no pass is lost.
OpenFramesAreEnded == xr.open # 0 ~> xr.open = 0 \/ ~running

\* The engine thread does not stay in xrWaitFrame: "a frame the render thread
\* never picks up must not cause a second wait".  One the runtime refused to begin
\* does: its wait counts as used.
EngineLeavesTheWait == epc = "xrWait" ~> epc # "xrWait" \/ xr.refused
=============================================================================
