--------------------------- MODULE SessionLifecycle ---------------------------
(***************************************************************************)
(* How the headset session comes and goes: the autostart that keeps trying *)
(* while nobody has the headset on, the instance, the session with its     *)
(* space, actions and swapchains, the runtime's events, and the commands   *)
(* that start and stop all of it by hand.  What one session leaves behind  *)
(* for the next is what can go wrong here.                                 *)
(*                                                                         *)
(* Everything runs on the engine thread but EnsureSwapchains, which the    *)
(* render thread calls while it submits; what these two do to each other   *)
(* within a frame is FramePipeline's, and so are the frame's own flags.    *)
(* A handle is the number of the instance or the session it was made for,  *)
(* zero being the null handle: a handle may outlive what it stands for.    *)
(***************************************************************************)
EXTENDS Integers, FiniteSets, Sequences

CONSTANTS
    MenuFrames,     \* kAutoStartMenuFrames
    MaxAttempts,    \* kAutoStartMaxAttempts
    RetryTime,      \* kAutoStartRetryMs, in frames
    ChainCount,     \* kSwapchainCount: two eyes, the panel, the pointer's dot
    Sizes,          \* the sizes the game's back buffer may have
    Backlog,        \* bound: events the runtime holds back
    MaxInstances,   \* bound: instances that come up
    MaxSessions,    \* bound: sessions that come up
    MaxRearms       \* bound: mirv_vr_autostart commands

ASSUME CountAssumption == /\ MenuFrames \in Nat \ {0} /\ MaxAttempts \in Nat \ {0}
                          /\ RetryTime \in Nat \ {0} /\ Backlog \in Nat \ {0}
ASSUME BoundAssumption == /\ MaxInstances \in Nat /\ MaxSessions \in Nat /\ MaxRearms \in Nat
ASSUME SizeAssumption  == ChainCount \in Nat \ {0} /\ Sizes \subseteq Nat \ {0}

VARIABLES
    epc,            \* the engine thread: "poll", "auto" or "commands"
    \* The hook's handles and flags.
    loader,         \* g_hLoader
    instance,       \* g_Instance
    session,        \* g_Session
    space,          \* g_Space
    state,          \* g_State
    running,        \* g_SessionRunning
    actionSet,      \* g_ActionSet
    attached,       \* g_ActionsAttached
    instances,      \* how many instances have come up
    sessions,       \* how many sessions have
    refused,        \* the runtime has refused to begin this session
    chains,         \* the indices of g_Swapchain that are not null
    chainSize,      \* g_SwapchainWidth and g_SwapchainHeight
    \* The autostart.
    armed,          \* g_AutoStart: "unread", "off" or "on"
    done,           \* g_AutoStartDone
    lastTick,       \* g_AutoStartLastTick
    frames,         \* g_AutoStartFrames
    attempts,       \* g_AutoStartAttempts
    age,            \* frames since g_AutoStartLastAttempt
    rearms,         \* bound
    \* The runtime and the game.
    xr,             \* the live session: its state, whether it is begun, whether it has actions
    lost,           \* the runtime is going away
    events,         \* what PollEvents has still to read
    live,           \* how many swapchains the runtime holds for this process
    demo,           \* the demo's tick, or NoTick without a demo
    plausible       \* AfxVr_PlausibleViewCount is not zero

handles  == <<loader, instance, instances, session, sessions, space, actionSet, attached>>
swap     == <<chains, chainSize, live>>
auto     == <<armed, done, lastTick, frames, attempts, age, rearms>>
runtime  == <<xr, lost, events>>
game     == <<demo, plausible>>
vars     == <<epc, handles, state, running, refused, swap, auto, runtime, game>>

-----------------------------------------------------------------------------
Null   == 0
NoTick == -1
Ticks  == {0, 1}        \* a tick is compared with the last one seen and no more
Eyes   == 0 .. ChainCount - 1

\* Never: no attempt has been made.  Older attempts than RetryTime are all alike.
Never == RetryTime

\* What the hook does nothing about is told apart no further: UNKNOWN is IDLE too, VISIBLE is
\* FOCUSED too, and EXITING is LOSS_PENDING too.
SessionStates == {"UNKNOWN", "READY", "SYNCHRONIZED", "VISIBLE", "STOPPING", "EXITING"}

NoSession == [state |-> "UNKNOWN", begun |-> FALSE, actions |-> FALSE]

Younger(n) == IF n = Never THEN Never ELSE n + 1

-----------------------------------------------------------------------------
(* The instance and the session.                                           *)

\* LoadLoader: a library that is loaded is not looked at again.  One that is found has the
\* loader's entry points.
LoadLoader == {loader, TRUE}

\* MirvVrXr_Start: whatever fails after xrCreateInstance takes the instance down again.
Instances(l) ==
    IF instance # Null THEN {instance}
    ELSE {Null} \cup (IF l /\ instances < MaxInstances THEN {instances + 1} ELSE {})

StartInstance ==
    /\ loader' \in IF instance # Null THEN {loader} ELSE LoadLoader
    /\ instance' \in Instances(loader')
    /\ instances' = IF instance' > instances THEN instance' ELSE instances

\* Mutant: a session without its space is left standing.
KeepsTheSession ==
    {[session |-> Null, space |-> Null]} \cup
        (IF ~lost /\ sessions < MaxSessions
           THEN [session : {sessions + 1}, space : {Null, sessions + 1}] ELSE {})

\* xrCreateSession and xrCreateReferenceSpace: both or neither; without a device to draw
\* with, or without a headset that is awake, there is neither.
CreateSession ==
    {[session |-> Null, space |-> Null]} \cup
        (IF ~lost /\ sessions < MaxSessions
           THEN {[session |-> sessions + 1, space |-> sessions + 1]} ELSE {})

\* CreateActions: an action set that exists is taken for a finished one.  Only one of
\* the living instance can be attached.
CreateActions == IF actionSet # Null THEN {actionSet} ELSE {Null, instance'}

\* Mutant: the actions count as attached whatever the runtime said.
AttachesBlindly ==
    IF attached
      THEN UNCHANGED attached /\ xr' = NoSession
      ELSE \E ok \in {FALSE, actionSet' = instance'} :
             /\ attached' = TRUE
             /\ xr' = [NoSession EXCEPT !.actions = ok]

\* AttachActions: what the session before attached is not looked at again.
AttachActions ==
    IF attached
      THEN UNCHANGED attached /\ xr' = NoSession
      ELSE \E ok \in {FALSE, actionSet' = instance'} :
             /\ attached' = ok
             /\ xr' = [NoSession EXCEPT !.actions = ok]

\* MirvVrXr_SessionStart, which answers whether there is a session.
SessionStart ==
    /\ StartInstance
    /\ IF instance' = Null \/ session # Null
         THEN UNCHANGED <<session, space, actionSet, attached, sessions, xr>>
         ELSE \E made \in CreateSession :
                /\ session' = made.session /\ space' = made.space
                /\ sessions' = IF made.space = Null THEN sessions ELSE made.space
                /\ IF made.session = Null
                     THEN UNCHANGED <<actionSet, attached, xr>>
                     ELSE actionSet' \in CreateActions /\ AttachActions

\* DestroySwapchains.
DestroySwapchains ==
    /\ chains' = {} /\ chainSize' = 0
    /\ live' = live - Cardinality(chains)

\* What the runtime has still to say once the session is gone: that it goes away itself.
WithoutTheSession ==
    IF \E k \in 1 .. Len(events) : events[k] = "LOST" THEN <<"LOST">> ELSE <<>>

\* MirvVrXr_SessionStop.
SessionStop ==
    /\ DestroySwapchains
    /\ session' = Null /\ space' = Null /\ state' = "UNKNOWN" /\ running' = FALSE
    /\ xr' = NoSession /\ refused' = FALSE

-----------------------------------------------------------------------------
(* The engine thread's frame.                                              *)

\* Mutant: the events are read only while the session runs.
ReadsEventsWhileRunning == instance # Null /\ running

ReadsEvents == instance # Null

\* Mutant: what xrBeginSession answers is not looked at.
TakesItAsBegun(e, begun) == (running \/ e = "READY") /\ e \notin {"STOPPING", "LOST"}

RunsAfter(e, begun) == (running \/ begun) /\ e \notin {"STOPPING", "LOST"}

\* PollEvents, one event: a session that is ready is begun, one that is stopping ended.
PollEvent ==
    /\ epc = "poll" /\ ReadsEvents /\ events # <<>>
    /\ events' = Tail(events)
    /\ LET e == Head(events)
           begins == e = "READY" /\ ~running
           ends   == e = "STOPPING" /\ running
       IN  /\ state' = IF e = "LOST" THEN state ELSE e
           /\ \E begun \in {FALSE, begins /\ xr.state = "READY" /\ ~lost} :
                /\ running' = RunsAfter(e, begun)
                /\ xr' = [xr EXCEPT !.begun = (@ \/ begun) /\ ~ends]
                /\ refused' = (refused \/ (begins /\ ~begun))
    /\ UNCHANGED <<epc, handles, swap, auto, lost, game>>

PollDone ==
    /\ epc = "poll" /\ (~ReadsEvents \/ events = <<>> \/ lost)
    /\ epc' = "auto"
    /\ UNCHANGED <<handles, state, running, refused, swap, auto, runtime, game>>

\* AFXVR_AUTOSTART, read once.
ReadArmed == IF armed = "unread" THEN {"on", "off"} ELSE {armed}

AutoStartRests ==
    /\ epc = "auto" /\ epc' = "commands"
    /\ age' = Younger(age)
    /\ armed' \in IF done THEN {armed} ELSE ReadArmed
    /\ done \/ armed' = "off" \/ session # Null
    /\ done' = (done \/ armed' = "on")
    /\ UNCHANGED <<handles, state, running, refused, swap, lastTick, frames, attempts, rearms,
                   runtime, game>>

\* With a demo: a camera, and a tick that has moved.
DemoPlays == plausible /\ lastTick \notin {NoTick, demo}

\* Mutant: only a demo starts the session.
OnlyADemo == FALSE

\* Without one: enough frames.
MenuIsUp == frames' = MenuFrames

\* What is waited for, and what is remembered of it.
Waits ==
    IF demo = NoTick THEN lastTick' = NoTick
    ELSE lastTick' = IF plausible /\ ~DemoPlays THEN demo ELSE lastTick

Signal == IF demo = NoTick THEN MenuIsUp ELSE DemoPlays

\* Mutant: the first refusal is taken for the last.
GivesUpAtOnce == TRUE

GivesUp == attempts' >= MaxAttempts

\* EngineThread_AutoStart, armed and without a session.
AutoStart ==
    /\ epc = "auto" /\ epc' = "commands"
    /\ ~done /\ session = Null
    /\ armed' \in ReadArmed /\ armed' = "on"
    /\ frames' = IF frames = MenuFrames THEN frames ELSE frames + 1
    /\ Waits
    /\ IF Signal /\ age = Never
         THEN /\ age' = 0 /\ attempts' = attempts + 1
              /\ SessionStart
              /\ done' = (session' # Null \/ GivesUp)
         ELSE /\ age' = Younger(age)
              /\ UNCHANGED <<done, attempts, handles, xr>>
    /\ UNCHANGED <<state, running, refused, swap, rearms, lost, events, game>>

\* mirv_vr_xr info and start.
InfoCommand ==
    /\ epc = "commands" /\ StartInstance
    /\ UNCHANGED <<epc, session, space, actionSet, attached, sessions, state, running,
                   refused, swap, auto, runtime, game>>

StartCommand ==
    /\ epc = "commands" /\ SessionStart
    /\ UNCHANGED <<epc, state, running, refused, swap, auto, lost, events, game>>

\* mirv_vr_xr stop and quit.
StopCommand ==
    /\ epc = "commands" /\ SessionStop
    /\ events' = WithoutTheSession
    /\ UNCHANGED <<epc, loader, instance, instances, sessions, actionSet, attached,
                   auto, lost, game>>

QuitCommand ==
    /\ epc = "commands" /\ SessionStop
    /\ instance' = Null /\ events' = <<>> /\ lost' = FALSE
    /\ UNCHANGED <<epc, loader, instances, sessions, actionSet, attached,
                   auto, game>>

\* mirv_vr_autostart: both signals start again, the attempts do not.
AutoStartCommand ==
    /\ epc = "commands" /\ rearms < MaxRearms
    /\ armed' \in {"on", "off"}
    /\ done' = FALSE /\ lastTick' = NoTick /\ frames' = 0
    /\ rearms' = rearms + 1
    /\ UNCHANGED <<epc, handles, state, running, refused, swap, attempts, age, runtime, game>>

CommandsDone ==
    /\ epc = "commands" /\ epc' = "poll"
    /\ UNCHANGED <<handles, state, running, refused, swap, auto, runtime, game>>

-----------------------------------------------------------------------------
(* The render thread.                                                      *)

\* Mutant: a set that was not finished is taken for none.
HasFinishedChains == chainSize # 0

HasChains == 0 \in chains

\* EnsureSwapchains: any other size is built anew, and a failure leaves the ones made so
\* far without a size.
EnsureSwapchains ==
    /\ running
    /\ \E size \in Sizes, made \in 0 .. ChainCount, whole \in BOOLEAN :
         /\ ~(HasChains /\ size = chainSize)
         /\ whole => made = ChainCount
         /\ chains' = 0 .. (made - 1)
         /\ chainSize' = IF whole THEN size ELSE 0
         /\ live' = live - (IF HasChains THEN Cardinality(chains) ELSE 0) + made
    /\ UNCHANGED <<epc, handles, state, running, refused, auto, runtime, game>>

-----------------------------------------------------------------------------
(* The runtime and the game.                                               *)

\* What OpenXR lets a session become, but for what may come at any time.
Becomes(x) ==
    CASE x.state = "UNKNOWN"      -> {"READY"}
      [] x.state = "READY"        -> IF x.begun THEN {"SYNCHRONIZED"} ELSE {}
      [] x.state = "SYNCHRONIZED" -> {"VISIBLE", "STOPPING"}
      [] x.state = "VISIBLE"      -> {"SYNCHRONIZED"}
      [] x.state = "STOPPING"     -> IF x.begun THEN {} ELSE {"UNKNOWN"}
      [] OTHER                    -> {}

RuntimeMoves ==
    /\ session # Null /\ ~lost /\ Len(events) < Backlog
    /\ xr.state # "EXITING"
    /\ \E s \in Becomes(xr) \cup {"EXITING"} :
         xr' = [xr EXCEPT !.state = s] /\ events' = Append(events, s)
    /\ UNCHANGED <<epc, handles, state, running, refused, swap, auto, lost, game>>

RuntimeGoesAway ==
    /\ instance # Null /\ ~lost /\ Len(events) < Backlog
    /\ lost' = TRUE /\ events' = Append(events, "LOST")
    /\ UNCHANGED <<epc, handles, state, running, refused, swap, auto, xr, game>>

\* A demo is loaded, plays or goes away; a view that reads like a camera is counted
\* once and for all.
DemoMoves ==
    /\ demo' \in (Ticks \cup {NoTick}) \ {demo}
    /\ plausible' \in {plausible, TRUE}
    /\ UNCHANGED <<epc, handles, state, running, refused, swap, auto, runtime>>

-----------------------------------------------------------------------------
Init ==
    /\ epc = "poll"
    /\ loader = FALSE /\ instance = Null /\ instances = 0
    /\ session = Null /\ space = Null /\ sessions = 0
    /\ state = "UNKNOWN" /\ running = FALSE /\ refused = FALSE
    /\ actionSet = Null /\ attached = FALSE
    /\ chains = {} /\ chainSize = 0 /\ live = 0
    /\ armed = "unread" /\ done = FALSE /\ lastTick = NoTick
    /\ frames = 0 /\ attempts = 0 /\ age = Never /\ rearms = 0
    /\ xr = NoSession /\ lost = FALSE /\ events = <<>>
    /\ demo = NoTick /\ plausible = FALSE

Frame    == PollEvent \/ PollDone \/ AutoStartRests \/ AutoStart \/ CommandsDone
Commands == InfoCommand \/ StartCommand \/ StopCommand \/ QuitCommand \/ AutoStartCommand
World    == RuntimeMoves \/ RuntimeGoesAway \/ DemoMoves

Next == Frame \/ Commands \/ EnsureSwapchains \/ World

Spec == Init /\ [][Next]_vars

\* The game calls the frame for as long as it runs.
FairSpec == Spec /\ WF_vars(Frame)

-----------------------------------------------------------------------------
TypeOK ==
    /\ epc \in {"poll", "auto", "commands"}
    /\ loader \in BOOLEAN
    /\ instance \in Nat /\ instances \in Nat /\ session \in Nat /\ sessions \in Nat
    /\ space \in Nat /\ actionSet \in Nat
    /\ state \in SessionStates /\ running \in BOOLEAN /\ refused \in BOOLEAN
    /\ attached \in BOOLEAN
    /\ chains \subseteq Eyes /\ chainSize \in Sizes \cup {0} /\ live \in Nat
    /\ armed \in {"unread", "off", "on"} /\ done \in BOOLEAN
    /\ lastTick \in Ticks \cup {NoTick} /\ frames \in 0 .. MenuFrames
    /\ attempts \in Nat /\ age \in 0 .. RetryTime /\ rearms \in 0 .. MaxRearms
    /\ xr \in [state : SessionStates, begun : BOOLEAN, actions : BOOLEAN]
    /\ lost \in BOOLEAN /\ events \in Seq(SessionStates \cup {"LOST"})
    /\ demo \in Ticks \cup {NoTick} /\ plausible \in BOOLEAN

\* What belongs to a session is there with it and gone without it, whatever failed while it
\* was made and however it ended (MirvVrXr_SessionStart, MirvVrXr_SessionStop).
HandlesAreOfTheSession ==
    /\ space = session
    /\ session # Null => instance # Null
    /\ session = Null => ~running /\ state = "UNKNOWN" /\ chains = {}

\* The hook and the runtime agree on whether the session is begun, as long as the runtime is
\* there (PollEvents, MirvVrXr_SessionStop): a frame is never asked of a session that is
\* not running.
BegunOnBothSides == ~lost => (running <=> xr.begun)

\* Swapchains that have a size are all there, and none is forgotten when a set is built anew
\* after one that failed half way (EnsureSwapchains, DestroySwapchains).
SwapchainsAreKnown ==
    /\ chainSize # 0 => chains = Eyes
    /\ live = Cardinality(chains)

\* The autostart rests because there was a session, because it gave up, or because it was
\* told to: never because a failed attempt left something that looks like one (3420).
RestsForAReason ==
    done => sessions > 0 \/ attempts >= MaxAttempts

\* "Slowly and for a bounded time" (3386): a start by hand aside, every arming is good for a
\* bounded number of attempts.
AttemptsAreBounded == attempts <= MaxAttempts + rearms

\* The autostart neither stops for a failure nor tries for ever.
TriesWhileItShould == RestsForAReason /\ AttemptsAreBounded

\* The controllers that count as attached are attached to the session there is, as long
\* as it is the first one.
FirstSessionHasItsControllers ==
    session = 1 /\ attached => xr.actions

\* Armed and without a demo to wait for, the autostart comes to an end: a session, or the
\* word that it gave up, however the loader, the instance, the device and the session fail
\* (3386, 3396).
AutoStartSettles ==
    (armed = "on" /\ ~done) ~> (done \/ session # Null \/ armed = "off" \/ demo # NoTick)

\* A session the runtime is ready for is begun, unless the runtime refuses; the events
\* are read whether or not a session runs (MirvVrXr.h 41).
ReadyIsAnswered ==
    (xr.state = "READY" /\ ~xr.begun) ~> (xr.begun \/ xr.state # "READY" \/ refused \/ lost)

=============================================================================
