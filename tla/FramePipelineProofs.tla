------------------------ MODULE FramePipelineProofs ------------------------
(***************************************************************************)
(* What TLAPS proves of FramePipeline, for every ring, every depth of the  *)
(* game's own queue, and every number of frames and sessions.              *)
(***************************************************************************)
EXTENDS FramePipeline, SequenceTheorems, TLAPS

\* Where the render thread is tells which callback it runs and bounds the count
\* of copied eyes: between a first eye and its second it cannot be two already.
EyeCount ==
    /\ rpc \in EyePcs => job.into \in Eyes
    /\ rpc \in PanelPcs => job.into = Panel
    /\ frameBegun /\ rpc \notin {"eyeLocate", "menuAcquire", "eyeEnd"} => eyesCopied <= 1
    /\ rpc \in {"eyeAcquire", "eyeCopy"} => eyesCopied <= job.into

TypeInv == TypeOK /\ EyeCount

\* The values things start from, and are reset to, are of their types.
LEMMA Defaults ==
    /\ 0 \in Tickets /\ 0 \in Waits /\ FALSE \in BOOLEAN /\ TRUE \in BOOLEAN
    /\ Idle \in Decisions /\ NoRecord \in FrameRecords /\ NoJob \in Jobs
    /\ NoXr \in XrStates /\ [NoXr EXCEPT !.running = TRUE] \in XrStates
<1>1. 0 \in Tickets /\ 0 \in Waits /\ Idle \in Decisions
  BY BoundAssumption DEF Tickets, Waits, Idle, Decisions
<1> QED
  BY <1>1 DEF NoRecord, FrameRecords, NoJob, Jobs, Swaps, Panel, NoXr, XrStates

\* The runtime's state keeps its type through every call.
LEMMA XrTyped ==
  ASSUME TypeOK
  PROVE  /\ waits + 1 \in Waits
         /\ [xr EXCEPT !.waited = waits + 1] \in XrStates
         /\ [xr EXCEPT !.waited = 0, !.open = xr.waited] \in XrStates
         /\ [xr EXCEPT !.open = 0] \in XrStates
         /\ [xr EXCEPT !.refused = TRUE] \in XrStates
<1>1. waits + 1 \in Waits
  BY DEF TypeOK, RuntimeTypes, Waits
<1>2. /\ xr.running \in BOOLEAN /\ xr.waited \in Waits /\ xr.open \in Waits /\ xr.refused \in BOOLEAN
      /\ xr = [running |-> xr.running, waited |-> xr.waited, open |-> xr.open,
               refused |-> xr.refused]
  BY DEF TypeOK, RuntimeTypes, XrStates
<1>3. [xr EXCEPT !.waited = waits + 1] \in XrStates
  BY <1>1, <1>2 DEF XrStates
<1>4. [xr EXCEPT !.waited = 0, !.open = xr.waited] \in XrStates
  BY <1>2, Defaults DEF XrStates
<1>5. [xr EXCEPT !.open = 0] \in XrStates
  BY <1>2, Defaults DEF XrStates
<1>6. [xr EXCEPT !.refused = TRUE] \in XrStates
  BY <1>2 DEF XrStates
<1> QED
  BY <1>1, <1>3, <1>4, <1>5, <1>6

\* Callbacks go in and come out of the queue unchanged.
LEMMA QueueTyped ==
  ASSUME TypeOK
  PROVE  /\ queue # <<>> => Head(queue) \in Jobs /\ Tail(queue) \in Queues
         /\ \A s \in Swaps : Append(queue, [into |-> s, ticket |-> serial]) \in Queues
<1>1. queue \in Seq(Jobs) /\ serial \in Tickets
  BY DEF TypeOK, SharedTypes, EngineTypes, Queues
<1>2. \A s \in Swaps : [into |-> s, ticket |-> serial] \in Jobs
  BY <1>1 DEF Jobs
<1> QED
  BY <1>1, <1>2, HeadTailProperties, AppendProperties DEF Queues

\* A callback carries one of the three swapchains and a ticket.
LEMMA JobTyped == ASSUME NEW j \in Jobs PROVE j.into \in Swaps /\ j.ticket \in Tickets
BY DEF Jobs

\* Copying a picture into one swapchain leaves every swapchain with a ticket.
LEMMA ImageTyped ==
  ASSUME TypeOK, NEW s \in Swaps
  PROVE  /\ [image EXCEPT ![s] = job.ticket] \in Images
         /\ released \cup {s} \in SUBSET Swaps
         /\ image[s] \in Tickets
<1>1. job.ticket \in Tickets
  BY JobTyped DEF TypeOK, RenderTypes
<1> QED
  BY <1>1 DEF TypeOK, RuntimeTypes, Images

\* The poses SubmitEye reports are some ticket's poses, whether or not it has a record.
LEMMA ProjectionTyped ==
  ASSUME TypeOK, NEW rec \in FrameRecords, NEW located \in BOOLEAN
  PROVE  Projection(rec, located) \in Poses
<1>1. renderedBy \in Tickets /\ rec.serial \in Tickets /\ rec.rendered \in BOOLEAN
  BY DEF TypeOK, EngineTypes, FrameRecords
<1> QED
  BY <1>1, Defaults DEF Projection, Poses

\* Every ticket has a slot of the ring.
LEMMA SlotInRing == ASSUME NEW t \in Nat PROVE Slot(t) \in 0 .. FrameRing - 1
BY RingAssumption DEF Slot

\* What ReadFrameRecord returns is a record, also when the slot holds another ticket's.
LEMMA RecordTyped == ASSUME TypeOK, NEW t \in Tickets PROVE ReadFrameRecord(t) \in FrameRecords
<1>1. t \in Nat
  BY BoundAssumption DEF Tickets
<1>2. Slot(t) \in 0 .. FrameRing - 1
  BY <1>1, SlotInRing
<1>3. ring[Slot(t)] \in FrameRecords
  BY <1>2 DEF TypeOK, SharedTypes, Rings
<1>4. NoRecord \in FrameRecords
  BY BoundAssumption DEF NoRecord, FrameRecords, Tickets, Decisions, Idle, Waits
<1> QED
  BY <1>3, <1>4 DEF ReadFrameRecord

\* The records the render thread holds have a ticket and a decision in them.
LEMMA FramesTyped ==
  ASSUME TypeOK
  PROVE  /\ frame.serial \in Tickets /\ frame.time \in Waits
         /\ panelFrame.serial \in Tickets /\ panelFrame.time \in Waits
         /\ frameState \in Waits
BY DEF TypeOK, RenderTypes, SharedTypes, FrameRecords

\* What PublishFrameRecord writes is a record of the next ticket.
LEMMA PublishTyped ==
  ASSUME TypeOK, PublishFrameRecord
  PROVE  serial' \in Tickets /\ mode' \in Decisions /\ ring' \in Rings
<1>1. serial' \in Tickets /\ serial + 1 \in Tickets /\ serial + 1 \in Nat
  BY BoundAssumption DEF PublishFrameRecord, TypeOK, EngineTypes, Tickets
<1>2. mode' \in Decisions
  BY BoundAssumption, Defaults DEF PublishFrameRecord, Decided, Decisions
<1>3. viewsValid \in BOOLEAN /\ lowLatency \in BOOLEAN /\ frameState \in Waits /\ ring \in Rings
  BY DEF TypeOK, SharedTypes
<1>4. [serial |-> serial + 1, mode |-> mode', rendered |-> viewsValid, time |-> frameState,
       timed |-> lowLatency]
         \in FrameRecords
  BY <1>1, <1>2, <1>3 DEF FrameRecords
<1>5. Slot(serial + 1) \in 0 .. FrameRing - 1
  BY <1>1, SlotInRing
<1>6. ring' \in Rings
  BY <1>3, <1>4, <1>5 DEF PublishFrameRecord, Rings
<1> QED
  BY <1>1, <1>2, <1>6

\* The initial state is well typed.
LEMMA InitTyped == Init => TypeInv
<1> SUFFICES ASSUME Init PROVE TypeInv
  OBVIOUS
<1>1. ring \in Rings /\ queue \in Queues
  BY Defaults DEF Init, Rings, Queues
<1>2. proj \in Poses /\ image \in Images
  BY Defaults DEF Init, Poses, Images
<1>3. shown \in Pictures
  BY Defaults DEF Init, HP!NoPicture, HP!Overlays, Pictures
<1>4. EngineTypes
  BY Defaults DEF Init, EngineTypes, EnginePcs
<1>5. SharedTypes
  BY Defaults, FlagAssumption, <1>1 DEF Init, SharedTypes
<1>6. RenderTypes
  <2>1. eyesCopied \in 0 .. 2 /\ rpc \in RenderPcs
    BY DEF Init, RenderPcs
  <2> QED
    BY Defaults, <1>2, <2>1 DEF Init, RenderTypes
<1>7. RuntimeTypes
  BY Defaults, <1>2, <1>3 DEF Init, RuntimeTypes
<1>8. EyeCount
  BY DEF Init, EyeCount, EyePcs, PanelPcs
<1> QED
  BY <1>4, <1>5, <1>6, <1>7, <1>8 DEF TypeInv, TypeOK

\* No step of either thread spoils the engine thread's variables.
LEMMA EngineTypesKept == TypeInv /\ Next => EngineTypes'
<1> SUFFICES ASSUME TypeInv, Next PROVE EngineTypes'
  OBVIOUS
<1> USE DEF TypeInv, TypeOK, EngineTypes, engineVars, sessionVars, panelVars, eyeVars,
            callback, EnginePcs
<1>1. CASE PollReady \/ PollStopping \/ EndSession \/ PollInstanceLoss \/ SessionStart \/
           SessionStop \/ StopWait \/ SetLatency \/ Teardown
  BY <1>1
     DEF PollReady, PollStopping, EndSession, PollInstanceLoss, SessionStart,
         SessionStop, StopWait, SetLatency, Teardown, DestroySwapchains
<1>2. CASE WaitAndLocate \/ XrWaitReturns \/ BeginMainRenderPass \/ BeginNextRenderPass
  BY <1>2 DEF WaitAndLocate, XrWaitReturns, BeginMainRenderPass, BeginNextRenderPass, XrWait
<1>3. CASE Render
  BY <1>3
     DEF Render, LoseCallback, SubmitPanel, PanelAcquire, PanelCopy, MenuWait,
         MenuBegin, MenuAcquire, MenuCopy, MenuEnd, SubmitFirstEye, EyeWait, EyeBegin,
         EyeLocate, SubmitSecondEye, EyeAcquire, EyeCopy, EyeEnd, Take, Return,
         EnsureSwapchains, DestroySwapchains, Goto, TakeWait, TakeEngineWait, WaitHere,
         XrWait, BeginFrame, XrBegin, XrEnd, RecordTime, AfterEye
<1>4. CASE PublishFrameRecord
  <2>1. serial' \in Tickets /\ mode' \in Decisions
    BY <1>4, PublishTyped
  <2>2. renderedBy' \in Tickets /\ epc' \in EnginePcs
    BY <1>4, <2>1 DEF PublishFrameRecord
  <2>3. decided' \in Seq(Decisions)
    BY <1>4, <2>1, AppendProperties DEF PublishFrameRecord
  <2> QED
    BY <2>1, <2>2, <2>3
<1> QED
  BY <1>1, <1>2, <1>3, <1>4 DEF Next, Engine, Render

\* No step of either thread spoils what the two threads share.
LEMMA SharedTypesKept == TypeInv /\ Next => SharedTypes'
<1> SUFFICES ASSUME TypeInv, Next PROVE SharedTypes'
  OBVIOUS
<1> USE DEF TypeInv, TypeOK, SharedTypes, engineVars, sessionVars, panelVars, eyeVars,
            callback, Swaps, Eyes, Panel
<1>1. CASE PollReady
  BY <1>1 DEF PollReady
<1>2. CASE PollStopping \/ EndSession \/ PollInstanceLoss
  BY <1>2 DEF PollStopping, EndSession, PollInstanceLoss
<1>3. CASE SessionStart \/ SessionStop \/ StopWait \/ SetLatency
  BY <1>3, FlagAssumption DEF SessionStart, SessionStop, StopWait, SetLatency
<1>4. CASE XrWaitReturns
  BY <1>4, XrTyped DEF XrWaitReturns, XrWait
<1>5. CASE BeginMainRenderPass
  BY <1>5, QueueTyped DEF BeginMainRenderPass
<1>6. CASE BeginNextRenderPass
  BY <1>6, QueueTyped DEF BeginNextRenderPass
<1>7. CASE LoseCallback \/ SubmitPanel
  BY <1>7, QueueTyped DEF LoseCallback, SubmitPanel, Take, Return
<1>8. CASE SubmitFirstEye \/ SubmitSecondEye
  BY <1>8, QueueTyped DEF SubmitFirstEye, SubmitSecondEye, Take, Return
<1>9. CASE MenuWait \/ EyeWait
  <2>1. frameWaited' \in BOOLEAN
    BY <1>9 DEF MenuWait, EyeWait, TakeWait, TakeEngineWait, WaitHere
  <2>2. CASE lowLatency
    BY <1>9, <2>2 DEF MenuWait, EyeWait, TakeWait, TakeEngineWait
  <2>3. CASE ~lowLatency
    <3>1. frameState' \in {0, waits + 1}
      BY <1>9, <2>3 DEF MenuWait, EyeWait, TakeWait, WaitHere, XrWait
    <3> QED
      BY <1>9, <2>1, <3>1 DEF MenuWait, EyeWait, TypeOK, RuntimeTypes, Waits
  <2> QED
    BY <2>2, <2>3
<1>10. CASE MenuBegin \/ EyeBegin
  BY <1>10 DEF MenuBegin, EyeBegin, BeginFrame, XrBegin, XrRefuse, Goto, Return
<1>11. CASE PanelAcquire \/ PanelCopy \/ MenuAcquire \/ MenuCopy
  BY <1>11
     DEF PanelAcquire, PanelCopy, MenuAcquire, MenuCopy, EnsureSwapchains,
         DestroySwapchains, Goto, Return
<1>12. CASE EyeAcquire \/ EyeCopy \/ EyeLocate
  BY <1>12
     DEF EyeAcquire, EyeCopy, EyeLocate, AfterEye, Goto, Return, EnsureSwapchains,
         DestroySwapchains
<1>13. CASE MenuEnd \/ EyeEnd
  BY <1>13 DEF MenuEnd, EyeEnd, XrEnd, Return
<1>14. CASE Teardown
  BY <1>14 DEF Teardown, DestroySwapchains
<1>15. CASE WaitAndLocate
  BY <1>15 DEF WaitAndLocate, Waits
<1>16. CASE PublishFrameRecord
  <2>1. ring' \in Rings
    BY <1>16, PublishTyped
  <2> QED
    BY <1>16, <2>1 DEF PublishFrameRecord
<1> QED
  BY <1>1, <1>2, <1>3, <1>4, <1>5, <1>6, <1>7, <1>8, <1>9, <1>10, <1>11, <1>12, <1>13, <1>14, <1>15, <1>16
     DEF Next, Engine, Render

\* No step of either thread spoils the render thread's variables.  The counter of
\* copied eyes is the delicate one: EyeCount bounds it at the places that raise it.
LEMMA RenderTypesKept == TypeInv /\ Next => RenderTypes'
<1> SUFFICES ASSUME TypeInv, Next PROVE RenderTypes'
  OBVIOUS
<1> USE DEF TypeInv, TypeOK, RenderTypes, engineVars, sessionVars, panelVars, eyeVars,
            callback, RenderPcs, PanelPcs, EyePcs
<1>1. CASE PollReady \/ PollStopping \/ EndSession \/ PollInstanceLoss \/ SessionStart \/
           SessionStop \/ StopWait \/ SetLatency
  BY <1>1
     DEF PollReady, PollStopping, EndSession, PollInstanceLoss, SessionStart,
         SessionStop, StopWait, SetLatency
<1>2. CASE WaitAndLocate \/ XrWaitReturns \/ PublishFrameRecord \/ BeginMainRenderPass \/
           BeginNextRenderPass
  BY <1>2
     DEF WaitAndLocate, XrWaitReturns, PublishFrameRecord, BeginMainRenderPass,
         BeginNextRenderPass, XrWait
<1>3. CASE LoseCallback
  BY <1>3 DEF LoseCallback
<1>4. CASE SubmitPanel
  BY <1>4, Defaults, QueueTyped, RecordTyped, JobTyped DEF SubmitPanel, Take, Return
<1>5. CASE PanelAcquire \/ PanelCopy
  BY <1>5, Defaults, JobTyped
     DEF PanelAcquire, PanelCopy, EnsureSwapchains, DestroySwapchains, Goto, Return
<1>6. CASE MenuBegin \/ EyeBegin
  BY <1>6, Defaults DEF MenuBegin, EyeBegin, BeginFrame, XrBegin, XrRefuse, Goto, Return
<1>7. CASE MenuCopy \/ MenuEnd
  BY <1>7, Defaults DEF MenuCopy, MenuEnd, Goto, XrEnd, Return
<1>8. CASE SubmitFirstEye
  BY <1>8, Defaults, QueueTyped, RecordTyped, JobTyped DEF SubmitFirstEye, Take, Return
<1>9. CASE EyeAcquire
  BY <1>9, Defaults DEF EyeAcquire, AfterEye, Goto, Return
<1>10. CASE EyeEnd
  BY <1>10, Defaults DEF EyeEnd, XrEnd, Return
<1>11. CASE Teardown
  <2>1. proj' \in Poses
    BY <1>11 DEF Teardown, Poses
  <2> QED
    BY <1>11, <2>1, Defaults DEF Teardown, DestroySwapchains
<1>12. CASE MenuAcquire
  <2>1. eyesCopied' \in 0 .. 2
    BY <1>12 DEF MenuAcquire
  <2>2. panelTicket' \in Tickets /\ panelCopied' \in BOOLEAN /\ chains' \in BOOLEAN
    BY <1>12, Defaults DEF MenuAcquire, EnsureSwapchains, DestroySwapchains
  <2>3. rpc' \in RenderPcs
    BY <1>12 DEF MenuAcquire, Goto
  <2> QED
    BY <1>12, <2>1, <2>2, <2>3 DEF MenuAcquire, Goto
<1>13. CASE EyeLocate
  <2>1. viewsValid' \in BOOLEAN
    BY <1>13, SharedTypesKept DEF Next, Render, SharedTypes
  <2>2. proj' \in Poses
    BY <1>13, <2>1, ProjectionTyped DEF EyeLocate
  <2>3. eyesCopied' \in 0 .. 2
    BY <1>13 DEF EyeLocate
  <2>4. panelTicket' \in Tickets /\ panelCopied' \in BOOLEAN /\ chains' \in BOOLEAN
    BY <1>13, Defaults DEF EyeLocate, EnsureSwapchains, DestroySwapchains
  <2>5. rtTime' \in Waits
    BY <1>13, FramesTyped DEF EyeLocate, RecordTime
  <2> QED
    BY <1>13, <2>2, <2>3, <2>4, <2>5, Defaults DEF EyeLocate, Goto, Return
<1>14. CASE SubmitSecondEye
  <2>1. proj' \in Poses
    BY <1>14 DEF SubmitSecondEye, Poses
  <2>2. job' \in Jobs /\ panelFrame' \in FrameRecords /\ rpc' \in RenderPcs
    BY <1>14, Defaults, QueueTyped DEF SubmitSecondEye, Take, Return
  <2>3. eyesCopied' \in 0 .. 2
    BY <1>14 DEF SubmitSecondEye
  <2> QED
    BY <1>14, <2>1, <2>2, <2>3 DEF SubmitSecondEye
<1>15. CASE EyeCopy
  <2>1. eyesCopied' \in 0 .. 2
    <3>1. eyesCopied <= 1
      BY <1>15, JobTyped DEF EyeCopy, EyeCount, EyePcs, Eyes
    <3> QED
      BY <1>15, <3>1 DEF EyeCopy
  <2>2. job' \in Jobs /\ panelFrame' \in FrameRecords /\ rpc' \in RenderPcs
    BY <1>15, Defaults DEF EyeCopy, AfterEye, Goto, Return
  <2> QED
    BY <1>15, <2>1, <2>2 DEF EyeCopy
<1>16. CASE MenuWait \/ EyeWait
  <2>1. /\ UNCHANGED <<eyeVars, panelVars>>
        /\ rpc' \in RenderPcs /\ job' \in Jobs /\ panelFrame' \in FrameRecords
    BY <1>16, Defaults
       DEF MenuWait, EyeWait, TakeWait, TakeEngineWait, WaitHere, Goto, Return
  <2>2. rtTime' \in Waits
    BY <1>16, XrTyped, FramesTyped
       DEF MenuWait, EyeWait, TakeWait, TakeEngineWait, WaitHere, XrWait, RecordTime
  <2> QED
    BY <2>1, <2>2
<1> QED
  BY <1>1, <1>2, <1>3, <1>4, <1>5, <1>6, <1>7, <1>8, <1>9, <1>10, <1>11, <1>12, <1>13, <1>14, <1>15, <1>16
     DEF Next, Engine, Render

\* No step of either thread spoils the swapchains, the runtime or the picture shown.
LEMMA RuntimeTypesKept == TypeInv /\ Next => RuntimeTypes'
<1> SUFFICES ASSUME TypeInv, Next PROVE RuntimeTypes'
  OBVIOUS
<1> USE DEF TypeInv, TypeOK, RuntimeTypes, engineVars, sessionVars, panelVars, eyeVars,
            callback, Swaps, Eyes, Panel
<1>1. CASE PollStopping \/ PollInstanceLoss \/ SessionStart \/ SessionStop \/ StopWait \/
           SetLatency \/ WaitAndLocate
  BY <1>1
     DEF PollStopping, PollInstanceLoss, SessionStart, SessionStop, StopWait,
         SetLatency, WaitAndLocate
<1>2. CASE PollReady \/ EndSession \/ Teardown
  BY <1>2, Defaults DEF PollReady, EndSession, Teardown, DestroySwapchains
<1>3. CASE XrWaitReturns
  BY <1>3, XrTyped DEF XrWaitReturns, XrWait
<1>4. CASE PublishFrameRecord \/ BeginMainRenderPass \/ BeginNextRenderPass
  BY <1>4 DEF PublishFrameRecord, BeginMainRenderPass, BeginNextRenderPass
<1>5. CASE LoseCallback \/ SubmitPanel \/ SubmitFirstEye \/ SubmitSecondEye \/ EyeAcquire
  BY <1>5
     DEF LoseCallback, SubmitPanel, SubmitFirstEye, SubmitSecondEye, EyeAcquire, Take,
         Return, AfterEye, Goto
<1>6. CASE PanelAcquire \/ MenuAcquire \/ EyeLocate
  BY <1>6
     DEF PanelAcquire, MenuAcquire, EyeLocate, EnsureSwapchains, DestroySwapchains,
         Goto, Return
<1>7. CASE PanelCopy \/ MenuCopy
  BY <1>7, ImageTyped DEF PanelCopy, MenuCopy, Return, Goto
<1>8. CASE MenuWait \/ EyeWait
  BY <1>8, XrTyped
     DEF MenuWait, EyeWait, TakeWait, TakeEngineWait, WaitHere, XrWait, Goto, Return
<1>9. CASE MenuBegin \/ EyeBegin
  BY <1>9, XrTyped DEF MenuBegin, EyeBegin, BeginFrame, XrBegin, XrRefuse, Goto, Return
<1>10. CASE MenuEnd
  <2> DEFINE sheet == rpc = "menuEnd" /\ panelFrame.mode.sheet /\ panelFrame.mode.placed /\
           chains
             overlay == IF sheet THEN "sheet" ELSE "none"
             panel == IF sheet THEN image[Panel] ELSE 0
             picture == [ticket |-> panelFrame.serial, world |-> FALSE, eyes |-> <<0, 0>>,
                         overlay |-> overlay, panel |-> panel, aim |-> 0]
  <2>1. overlay \in HP!Overlays /\ panel \in Tickets
    BY Defaults, ImageTyped DEF HP!Overlays
  <2>2. picture \in Pictures
    <3> HIDE DEF overlay, panel
    <3> QED
      BY <2>1, Defaults, FramesTyped DEF Pictures
  <2>3. shown' \in {shown, picture}
    <3> USE <1>10 DEF MenuEnd, XrEnd
    <3> QED
      OBVIOUS
  <2> QED
    BY <1>10, <2>2, <2>3, XrTyped DEF MenuEnd, XrEnd
<1>11. CASE EyeCopy
  <2>1. job.into \in Swaps
    BY JobTyped DEF RenderTypes
  <2> QED
    BY <1>11, <2>1, ImageTyped DEF EyeCopy
<1>12. CASE EyeEnd
  <2>1. \A w \in BOOLEAN, e \in Tickets \X Tickets, o \in HP!Overlays, p, a \in Tickets :
          [ticket |-> job.ticket, world |-> w, eyes |-> e, overlay |-> o, panel |-> p, aim
           |-> a]
             \in Pictures
    BY JobTyped DEF Pictures, RenderTypes
  <2>2. HaveWorld \in BOOLEAN /\ EyeOverlay \in HP!Overlays
    BY DEF HaveWorld, EyeOverlay, HP!Overlays, RenderTypes, Poses
  <2>3. /\ (IF HaveWorld THEN <<image[0], image[1]>> ELSE <<0, 0>>) \in Tickets \X Tickets
        /\ (IF EyeOverlay = "none" THEN 0 ELSE image[Panel]) \in Tickets
        /\ (IF HaveWorld /\ HaveCrosshair THEN frame.serial ELSE 0) \in Tickets
    BY Defaults, ImageTyped, FramesTyped
  <2>4. shown' \in Pictures
    BY <1>12, <2>1, <2>2, <2>3 DEF EyeEnd, XrEnd
  <2> QED
    BY <1>12, <2>4, XrTyped DEF EyeEnd, XrEnd
<1> QED
  BY <1>1, <1>2, <1>3, <1>4, <1>5, <1>6, <1>7, <1>8, <1>9, <1>10, <1>11, <1>12
     DEF Next, Engine, Render

\* The count of copied eyes is bounded at every place of a callback: none before
\* eye 0 copies, at most one before eye 1 does.
LEMMA EyeCountKept == TypeInv /\ Next => EyeCount'
<1> SUFFICES ASSUME TypeInv, Next PROVE EyeCount'
  OBVIOUS
<1> USE DEF TypeInv, TypeOK, EyeCount, engineVars, sessionVars, panelVars, eyeVars,
            callback, RenderTypes, EyePcs, PanelPcs, Eyes, Swaps, Jobs
<1>1. CASE PollReady \/ PollStopping \/ EndSession \/ PollInstanceLoss \/ SessionStart \/
           SessionStop \/ StopWait \/ SetLatency
  BY <1>1
     DEF PollReady, PollStopping, EndSession, PollInstanceLoss, SessionStart,
         SessionStop, StopWait, SetLatency
<1>2. CASE Teardown
  BY <1>2 DEF Teardown, DestroySwapchains
<1>3. CASE WaitAndLocate
  BY <1>3 DEF WaitAndLocate
<1>4. CASE XrWaitReturns
  BY <1>4 DEF XrWaitReturns, XrWait
<1>5. CASE PublishFrameRecord \/ BeginMainRenderPass \/ BeginNextRenderPass
  BY <1>5 DEF PublishFrameRecord, BeginMainRenderPass, BeginNextRenderPass
<1>6. CASE LoseCallback
  BY <1>6 DEF LoseCallback
<1>7. CASE SubmitPanel
  BY <1>7 DEF SubmitPanel, Take, Return
<1>8. CASE PanelAcquire \/ PanelCopy
  BY <1>8 DEF PanelAcquire, PanelCopy, EnsureSwapchains, DestroySwapchains, Goto, Return
<1>9. CASE MenuWait \/ EyeWait
  BY <1>9 DEF MenuWait, EyeWait, TakeWait, TakeEngineWait, WaitHere, XrWait, Goto, Return
<1>10. CASE MenuBegin \/ EyeBegin
  BY <1>10 DEF MenuBegin, EyeBegin, BeginFrame, XrBegin, XrRefuse, Goto, Return
<1>11. CASE MenuAcquire \/ MenuCopy
  BY <1>11 DEF MenuAcquire, MenuCopy, EnsureSwapchains, DestroySwapchains, Goto
<1>12. CASE MenuEnd \/ EyeEnd
  BY <1>12 DEF MenuEnd, EyeEnd, XrEnd, Return
<1>13. CASE SubmitFirstEye
  BY <1>13 DEF SubmitFirstEye, Take, Return
<1>14. CASE EyeLocate
  BY <1>14 DEF EyeLocate, EnsureSwapchains, DestroySwapchains, Goto, Return
<1>15. CASE SubmitSecondEye
  BY <1>15 DEF SubmitSecondEye, Take, Return
<1>16. CASE EyeAcquire
  BY <1>16 DEF EyeAcquire, AfterEye, Goto, Return
<1>17. CASE EyeCopy
  BY <1>17 DEF EyeCopy, AfterEye, Goto, Return
<1> QED
  BY <1>1, <1>2, <1>3, <1>4, <1>5, <1>6, <1>7, <1>8, <1>9, <1>10, <1>11, <1>12, <1>13, <1>14, <1>15, <1>16, <1>17
     DEF Next, Engine, Render

\* A step that changes no variable changes no type.
LEMMA StutterTyped == TypeInv /\ UNCHANGED vars => TypeInv'
BY DEF TypeInv, TypeOK, EngineTypes, SharedTypes, RenderTypes, RuntimeTypes, EyeCount, vars,
       engineVars, sessionVars, callback, eyeVars, panelVars

\* The typing invariant is inductive.
LEMMA NextTyped == TypeInv /\ [Next]_vars => TypeInv'
<1>1. TypeInv /\ Next => TypeInv'
  BY EngineTypesKept, SharedTypesKept, RenderTypesKept, RuntimeTypesKept, EyeCountKept
     DEF TypeInv, TypeOK
<1> QED
  BY <1>1, StutterTyped

\* The typing invariant holds of every reachable state.
LEMMA TypeInvariant == Spec => []TypeInv
BY InitTyped, NextTyped, PTL DEF Spec

\* Every variable keeps its type; in particular no frame is ever taken to have
\* more than its two eyes, whatever passes are lost and sessions restarted.
THEOREM TypeCorrect == Spec => []TypeOK
<1>1. TypeInv => TypeOK
  BY DEF TypeInv
<1> QED
  BY TypeInvariant, <1>1, PTL
-----------------------------------------------------------------------------
(* The ring.                                                               *)

\* Two tickets less than a ring apart have two slots.
LEMMA SlotsDiffer ==
  ASSUME NEW s \in Nat, NEW t \in Nat, s < t, t - s < FrameRing
  PROVE  Slot(s) # Slot(t)
<1> SUFFICES ASSUME Slot(s) = Slot(t) PROVE FALSE
  OBVIOUS
<1> DEFINE p == s \div FrameRing
           q == t \div FrameRing
           r == s % FrameRing
<1>1. FrameRing \in Nat /\ FrameRing > 0
  BY RingAssumption
<1>2. p \in Int /\ q \in Int /\ r \in Int
  BY <1>1
<1>3. s = (FrameRing * p) + r
  BY <1>1
<1>4. t = (FrameRing * q) + r
  BY <1>1 DEF Slot
<1> HIDE DEF p, q, r
<1>5. t - s = FrameRing * (q - p)
  BY <1>1, <1>2, <1>3, <1>4
<1>6. q - p >= 1
  BY <1>1, <1>2, <1>5
<1>7. FrameRing * (q - p) >= FrameRing
  BY <1>1, <1>2, <1>6
<1> QED
  BY <1>1, <1>5, <1>7

\* Every callback in flight has a ticket that was given out, not too long ago.
InWindow == \A t \in InFlight : t \in 1 .. serial /\ serial - t <= MaxAhead

\* While the passes of a frame are announced, the frame has a ticket.
HasTicket == epc \in {"main", "eye0", "eye1"} => serial \in Nat \ {0}

\* The records of the last FrameRing tickets are there.
RingHolds == \A t \in 1 .. serial : serial - t < FrameRing => ring[Slot(t)].serial = t

RingInv == TypeInv /\ InWindow /\ HasTicket /\ RingHolds

\* Taking a callback from the queue puts nothing in flight.
LEMMA TakenWasQueued ==
  ASSUME TypeOK, queue # <<>>, queue' = Tail(queue)
  PROVE  Head(queue).ticket \in Queued /\ Queued' \subseteq Queued
<1>1. queue \in Seq(Jobs)
  BY DEF TypeOK, SharedTypes, Queues
<1>2. Head(queue) = queue[1] /\ 1 \in DOMAIN queue
  BY <1>1
<1>3. \A i \in DOMAIN queue' : i + 1 \in DOMAIN queue /\ queue'[i] = queue[i + 1]
  BY <1>1
<1> QED
  BY <1>2, <1>3 DEF Queued

\* Queueing one puts its ticket in flight and no other.
LEMMA AppendedIsQueued ==
  ASSUME TypeOK, NEW j \in Jobs, queue' = Append(queue, j)
  PROVE  Queued' \subseteq Queued \cup {j.ticket}
<1>1. queue \in Seq(Jobs)
  BY DEF TypeOK, SharedTypes, Queues
<1>2. \A i \in DOMAIN queue' : \/ i \in DOMAIN queue /\ queue'[i] = queue[i]
                              \/ queue'[i] = j
  BY <1>1
<1> QED
  BY <1>2 DEF Queued

\* The render thread takes a callback and runs it, or returns; or it goes on with the
\* one it has, or returns.
LEMMA RenderTurns ==
  ASSUME Render
  PROVE  /\ \/ /\ rpc = "idle" /\ queue # <<>> /\ queue' = Tail(queue)
               /\ rpc' = "idle" \/ job' = Head(queue)
            \/ queue' = queue /\ rpc # "idle" /\ (rpc' = "idle" \/ job' = job)
         /\ UNCHANGED <<epc, serial, mode, decided, ring, running>>
<1>1. CASE LoseCallback \/ SubmitPanel \/ SubmitFirstEye \/ SubmitSecondEye
  BY <1>1 DEF LoseCallback, SubmitPanel, SubmitFirstEye, SubmitSecondEye, Take, Return, callback,
              engineVars, sessionVars
<1>2. CASE PanelAcquire \/ PanelCopy \/ MenuWait \/ MenuBegin \/ MenuAcquire \/ MenuCopy \/ MenuEnd
  BY <1>2 DEF PanelAcquire, PanelCopy, MenuWait, MenuBegin, MenuAcquire, MenuCopy, MenuEnd, Goto,
              Return, TakeWait, TakeEngineWait, WaitHere, BeginFrame, engineVars, sessionVars
<1>3. CASE EyeWait \/ EyeBegin \/ EyeLocate \/ EyeAcquire \/ EyeCopy \/ EyeEnd
  BY <1>3 DEF EyeWait, EyeBegin, EyeLocate, EyeAcquire, EyeCopy, EyeEnd, Goto, Return, TakeWait,
              TakeEngineWait, WaitHere, BeginFrame, AfterEye, engineVars, sessionVars
<1> QED
  BY <1>1, <1>2, <1>3 DEF Render

\* The render thread puts nothing in flight.
LEMMA RenderTakes ==
  ASSUME TypeInv, Render
  PROVE  InFlight' \subseteq InFlight /\ UNCHANGED <<serial, epc, ring>>
<1>1. UNCHANGED <<serial, epc, ring>>
  BY RenderTurns
<1>2. CASE queue # <<>> /\ queue' = Tail(queue) /\ (rpc' = "idle" \/ job' = Head(queue))
  <2>1. Head(queue).ticket \in Queued /\ Queued' \subseteq Queued
    BY <1>2, TakenWasQueued DEF TypeInv
  <2> QED
    BY <1>1, <1>2, <2>1 DEF InFlight
<1>3. CASE queue' = queue /\ rpc # "idle" /\ (rpc' = "idle" \/ job' = job)
  <2>1. Queued' = Queued
    BY <1>3 DEF Queued
  <2> QED
    BY <1>1, <1>3, <2>1 DEF InFlight
<1> QED
  BY <1>2, <1>3, RenderTurns

\* The engine thread puts the tickets of its passes in flight, and no others.
LEMMA PassesAreQueued ==
  ASSUME TypeInv, BeginMainRenderPass \/ BeginNextRenderPass
  PROVE  InFlight' \subseteq InFlight \cup {serial} /\ UNCHANGED <<serial, ring>>
<1>1. UNCHANGED <<serial, ring, rpc, job>>
  BY DEF BeginMainRenderPass, BeginNextRenderPass, callback
<1>2. \/ queue' = queue
      \/ \E s \in Swaps : queue' = Append(queue, [into |-> s, ticket |-> serial])
  BY DEF BeginMainRenderPass, BeginNextRenderPass, Swaps, Eyes, Panel
<1>3. CASE queue' = queue
  BY <1>1, <1>3 DEF InFlight, Queued
<1>4. CASE \E s \in Swaps : queue' = Append(queue, [into |-> s, ticket |-> serial])
  <2>1. PICK s \in Swaps : queue' = Append(queue, [into |-> s, ticket |-> serial])
    BY <1>4
  <2>2. [into |-> s, ticket |-> serial] \in Jobs
    BY DEF TypeInv, TypeOK, EngineTypes, Jobs
  <2> QED
    BY <1>1, <2>1, <2>2, AppendedIsQueued DEF TypeInv, InFlight
<1> QED
  BY <1>2, <1>3, <1>4

\* The rest of the engine thread touches neither the ring nor what is in flight.
LEMMA OthersLeaveTheRing ==
  ASSUME \/ PollReady \/ PollStopping \/ EndSession \/ PollInstanceLoss
         \/ SessionStart \/ SessionStop \/ StopWait \/ SetLatency \/ Teardown
         \/ WaitAndLocate \/ XrWaitReturns
  PROVE  /\ UNCHANGED <<serial, ring, queue, rpc, job>>
         /\ epc' \in {"main", "eye0", "eye1"} => epc' = epc
BY DEF PollReady, PollStopping, EndSession, PollInstanceLoss, SessionStart, SessionStop,
       StopWait, SetLatency, Teardown, WaitAndLocate, XrWaitReturns, engineVars, callback

\* Publishing under the throttle keeps the window, and overwrites no slot that is
\* still in it.
LEMMA PublishKeepsRing ==
  ASSUME RingInv, PublishFrameRecord
  PROVE  InWindow' /\ HasTicket' /\ RingHolds'
<1>1. serial \in Nat /\ serial' = serial + 1 /\ MaxAhead \in Nat
  BY BoundAssumption, AheadAssumption
     DEF RingInv, TypeInv, TypeOK, EngineTypes, Tickets, PublishFrameRecord
<1>2. InFlight' = InFlight
  BY DEF PublishFrameRecord, InFlight, Queued, callback
<1>3. InWindow'
  BY <1>1, <1>2 DEF RingInv, InWindow, PublishFrameRecord, Throttled
<1>4. HasTicket'
  BY <1>1 DEF HasTicket
<1>5. RingHolds'
  <2> SUFFICES ASSUME NEW t \in 1 .. serial', serial' - t < FrameRing
               PROVE  ring'[Slot(t)].serial = t
    BY DEF RingHolds, Slot
  <2>1. ring \in Rings /\ Slot(serial + 1) \in 0 .. FrameRing - 1 /\ Slot(t) \in 0 .. FrameRing - 1
    BY <1>1, SlotInRing DEF RingInv, TypeInv, TypeOK, SharedTypes
  <2>2. CASE t = serial + 1
    BY <2>1, <2>2 DEF PublishFrameRecord, Rings
  <2>3. CASE t \in 1 .. serial
    <3>1. Slot(t) # Slot(serial + 1)
      BY <1>1, <2>3, SlotsDiffer
    <3>2. ring[Slot(t)].serial = t
      BY <1>1, <2>3, RingAssumption DEF RingInv, RingHolds
    <3> QED
      BY <2>1, <3>1, <3>2 DEF PublishFrameRecord, Rings
  <2> QED
    BY <1>1, <2>2, <2>3
<1> QED
  BY <1>3, <1>4, <1>5

\* The invariant of the ring is inductive: window, tickets and slots keep each other.
LEMMA RingInductive == RingInv /\ [Next]_vars => RingInv'
<1> SUFFICES ASSUME RingInv, [Next]_vars PROVE RingInv'
  OBVIOUS
<1>1. TypeInv'
  BY NextTyped DEF RingInv
<1>2. CASE Render
  BY <1>1, <1>2, RenderTakes DEF RingInv, InWindow, HasTicket, RingHolds, Slot
<1>3. CASE BeginMainRenderPass \/ BeginNextRenderPass
  <2>1. InFlight' \subseteq InFlight \cup {serial} /\ UNCHANGED <<serial, ring>>
    BY <1>3, PassesAreQueued DEF RingInv
  <2>2. serial \in Nat \ {0}
    BY <1>3 DEF RingInv, HasTicket, BeginMainRenderPass, BeginNextRenderPass
  <2>3. InWindow'
    BY <2>1, <2>2, AheadAssumption DEF RingInv, InWindow
  <2> QED
    BY <1>1, <2>1, <2>2, <2>3 DEF RingInv, HasTicket, RingHolds, Slot
<1>4. CASE PublishFrameRecord
  BY <1>1, <1>4, PublishKeepsRing DEF RingInv
<1>5. CASE \/ PollReady \/ PollStopping \/ EndSession \/ PollInstanceLoss
           \/ SessionStart \/ SessionStop \/ StopWait \/ SetLatency \/ Teardown
           \/ WaitAndLocate \/ XrWaitReturns
  <2>1. /\ UNCHANGED <<serial, ring, queue, rpc, job>>
        /\ epc' \in {"main", "eye0", "eye1"} => epc' = epc
    BY <1>5, OthersLeaveTheRing
  <2> QED
    BY <1>1, <2>1 DEF RingInv, InWindow, HasTicket, RingHolds, InFlight, Queued, Slot
<1>6. CASE UNCHANGED vars
  BY <1>1, <1>6
     DEF RingInv, InWindow, HasTicket, RingHolds, InFlight, Queued, Slot, vars, engineVars,
         callback
<1> QED
  BY <1>2, <1>3, <1>4, <1>5, <1>6 DEF Next, Engine

\* While the game's own queue is shorter than the ring, every callback finds the
\* record of its own ticket: the fallback to the globals is never taken.
THEOREM TicketsFound == Spec => []TicketsAreFound
<1>1. Init => RingInv
  <2> SUFFICES ASSUME Init PROVE RingInv
    OBVIOUS
  <2>1. InFlight = {}
    BY DEF Init, InFlight, Queued
  <2>2. HasTicket /\ RingHolds
    BY DEF Init, HasTicket, RingHolds
  <2> QED
    BY <2>1, <2>2, InitTyped DEF RingInv, InWindow
<1>2. RingInv => TicketsAreFound
  <2> SUFFICES ASSUME RingInv, MaxAhead < FrameRing, NEW t \in InFlight
               PROVE  Valid(ReadFrameRecord(t))
    BY DEF TicketsAreFound
  <2>1. serial \in Nat
    BY BoundAssumption DEF RingInv, TypeInv, TypeOK, EngineTypes, Tickets
  <2>2. t \in 1 .. serial /\ serial - t < FrameRing
    BY <2>1, AheadAssumption, RingAssumption DEF RingInv, InWindow
  <2>3. ring[Slot(t)].serial = t /\ t # 0
    BY <2>1, <2>2 DEF RingInv, RingHolds
  <2> QED
    BY <2>3 DEF ReadFrameRecord, Valid
<1> QED
  BY <1>1, <1>2, RingInductive, PTL DEF Spec

-----------------------------------------------------------------------------
(* The runtime.                                                            *)

\* What the flags say of the runtime: a session that is taken to run does run, one
\* that does not has neither a wait nor a frame, the engine thread waits only where it
\* is to wait, and nothing is taken down before the flag is.
RuntimeInv ==
    /\ running => xr.running
    /\ ~xr.running => xr.waited = 0 /\ xr.open = 0
    /\ epc = "xrWait" => lowLatency /\ running
    /\ epc \in {"endSession", "stopWait", "teardown"} => ~running

\* The places at which a wait was made or taken over and the frame is not begun.
Begins == {"menuBegin", "eyeBegin"}

\* Nobody has a time from a wait still to come, and the wait that is outstanding is the
\* last one that was made, or else the frame that is open was begun for it.  An open
\* frame outlived by the next wait keeps its own time until that wait is to be begun.
LatestInv ==
    /\ xr.waited # 0 => xr.waited = waits
    /\ xr.open # 0 => IF xr.waited = 0 THEN xr.open = waits ELSE xr.open <= waits
    /\ frameState <= waits /\ rtTime <= waits
    /\ frame.time <= waits /\ panelFrame.time <= waits
    /\ \A s \in 0 .. FrameRing - 1 : ring[s].time <= waits
    /\ xr.open # 0 /\ ~xr.refused /\ rpc \notin Begins => rtTime <= xr.open
    /\ xr.open # 0 /\ rpc = "eyeLocate" => frame.time <= xr.open

\* Whether the records the render thread may meet are all of the arrangement in force:
\* they are in the first session, and where there is only the one arrangement.
OneArrangement == begins <= 1 \/ TRUE \notin Arrangements

\* A record that opens the eyes was published while the session ran.  So in the first
\* session it has a time only in the arrangement that gives it one.
AtFirstEye == rpc \in {"eyeWait", "eyeBegin", "eyeLocate"}
NeverTimed == ~frame.timed /\ \A s \in 0 .. FrameRing - 1 : ~ring[s].timed
NoWorldYet == \A s \in 0 .. FrameRing - 1 : ~ring[s].mode.worldInEyes
WorldsUntimed == \A s \in 0 .. FrameRing - 1 : ring[s].mode.worldInEyes => ~ring[s].timed

StampInv ==
    /\ TRUE \notin Arrangements => ~lowLatency /\ NeverTimed
    /\ begins = 0 => ~running /\ ~AtFirstEye /\ NoWorldYet
    /\ begins <= 1 /\ running /\ ~lowLatency => WorldsUntimed /\ (AtFirstEye => ~frame.timed)

\* Where the render thread waits, and meets no record of the other arrangement, every
\* wait is followed by its begin, and the time it was given stands until then and until
\* the frame is ended.
TimeInv ==
    running /\ ~lowLatency /\ ~xr.refused /\ OneArrangement =>
        /\ xr.waited # 0 => rpc \in Begins /\ rtTime = xr.waited
        /\ xr.open # 0 => IF rpc \in Begins THEN xr.waited # 0 ELSE rtTime = xr.open

\* What the parts of the runtime's state are after each of its calls.
LEMMA XrParts ==
  ASSUME TypeOK
  PROVE  /\ LET x == [xr EXCEPT !.waited = waits + 1]
            IN  /\ (x.running <=> xr.running) /\ x.waited = waits + 1 /\ x.open = xr.open
                /\ (x.refused <=> xr.refused)
         /\ LET x == [xr EXCEPT !.waited = 0, !.open = xr.waited]
            IN  /\ (x.running <=> xr.running) /\ x.waited = 0 /\ x.open = xr.waited
                /\ (x.refused <=> xr.refused)
         /\ LET x == [xr EXCEPT !.open = 0]
            IN  (x.running <=> xr.running) /\ x.waited = xr.waited /\ x.open = 0
         /\ LET x == [xr EXCEPT !.refused = TRUE]
            IN  /\ (x.running <=> xr.running) /\ x.waited = xr.waited /\ x.open = xr.open
                /\ x.refused
         /\ ~NoXr.running /\ NoXr.waited = 0 /\ NoXr.open = 0
         /\ LET x == [NoXr EXCEPT !.running = TRUE]
            IN  x.running /\ x.waited = 0 /\ x.open = 0
         /\ waits + 1 # 0
<1>1. xr \in [running : BOOLEAN, waited : Waits, open : Waits, refused : BOOLEAN] /\ waits \in Nat
  BY DEF TypeOK, RuntimeTypes, XrStates, Waits
<1> QED
  BY <1>1 DEF NoXr

\* A begin takes the wait that is outstanding and goes on to the frame it has opened;
\* or it fails, for want of a wait or because the runtime refuses it, and returns.
LEMMA BeginsOrReturns ==
  ASSUME TypeOK, MenuBegin \/ EyeBegin
  PROVE  /\ rpc \in Begins
         /\ \/ /\ xr.running /\ xr.waited # 0
               /\ xr' = [xr EXCEPT !.waited = 0, !.open = xr.waited]
               /\ frameBegun' = TRUE
               /\ rpc' = IF rpc = "menuBegin" THEN "menuAcquire" ELSE "eyeLocate"
            \/ /\ xr'.waited = xr.waited /\ xr'.open = xr.open
               /\ xr'.refused \/ (xr' = xr /\ ~(xr.running /\ xr.waited # 0))
               /\ frameBegun' = frameBegun /\ rpc' = "idle"
BY XrParts DEF MenuBegin, EyeBegin, BeginFrame, XrBegin, XrRefuse, CanBegin, Goto, Return, Begins

\* The flags and the runtime go on agreeing.
LEMMA RuntimeKept == TypeInv /\ RuntimeInv /\ [Next]_vars => RuntimeInv'
<1> SUFFICES ASSUME TypeInv, RuntimeInv, [Next]_vars PROVE RuntimeInv'
  OBVIOUS
<1> USE DEF RuntimeInv, engineVars, sessionVars
<1>1. CASE PollReady
  BY <1>1, XrParts DEF PollReady, TypeInv
<1>2. CASE EndSession
  BY <1>2, XrParts DEF EndSession, TypeInv
<1>3. CASE Teardown
  BY <1>3, XrParts DEF Teardown, TypeInv
<1>4. CASE PollStopping \/ PollInstanceLoss \/ SessionStart \/ SessionStop \/ StopWait \/
           SetLatency \/ WaitAndLocate
  BY <1>4 DEF PollStopping, PollInstanceLoss, SessionStart, SessionStop, StopWait, SetLatency,
              WaitAndLocate
<1>5. CASE XrWaitReturns
  BY <1>5, XrParts DEF XrWaitReturns, XrWait, TypeInv
<1>6. CASE PublishFrameRecord \/ BeginMainRenderPass \/ BeginNextRenderPass
  BY <1>6 DEF PublishFrameRecord, BeginMainRenderPass, BeginNextRenderPass
<1>7. CASE MenuWait \/ EyeWait
  <2>1. UNCHANGED <<epc, running, lowLatency>>
    BY <1>7 DEF MenuWait, EyeWait
  <2>2. xr' = xr \/ (xr.running /\ xr' = [xr EXCEPT !.waited = waits + 1])
    BY <1>7 DEF MenuWait, EyeWait, TakeWait, TakeEngineWait, WaitHere, XrWait
  <2> QED
    BY <2>1, <2>2, XrParts DEF TypeInv
<1>8. CASE MenuBegin \/ EyeBegin
  <2>1. UNCHANGED <<epc, running, lowLatency>>
    BY <1>8 DEF MenuBegin, EyeBegin
  <2>2. \/ xr' = xr \/ xr' = [xr EXCEPT !.refused = TRUE]
        \/ xr.running /\ xr' = [xr EXCEPT !.waited = 0, !.open = xr.waited]
    BY <1>8 DEF MenuBegin, EyeBegin, BeginFrame, XrBegin, XrRefuse, CanBegin
  <2> QED
    BY <2>1, <2>2, XrParts DEF TypeInv
<1>9. CASE MenuEnd \/ EyeEnd
  <2>1. UNCHANGED <<epc, running, lowLatency>>
    BY <1>9 DEF MenuEnd, EyeEnd
  <2>2. xr' = xr \/ (xr.running /\ xr' = [xr EXCEPT !.open = 0])
    BY <1>9 DEF MenuEnd, EyeEnd, XrEnd
  <2> QED
    BY <2>1, <2>2, XrParts DEF TypeInv
<1>10. CASE \/ LoseCallback \/ SubmitPanel \/ PanelAcquire \/ PanelCopy \/ MenuAcquire
            \/ MenuCopy \/ SubmitFirstEye \/ EyeLocate \/ SubmitSecondEye \/ EyeAcquire
            \/ EyeCopy
  BY <1>10 DEF LoseCallback, SubmitPanel, PanelAcquire, PanelCopy, MenuAcquire, MenuCopy,
               SubmitFirstEye, EyeLocate, SubmitSecondEye, EyeAcquire, EyeCopy
<1>11. CASE UNCHANGED vars
  BY <1>11 DEF vars
<1> QED
  BY <1>1, <1>2, <1>3, <1>4, <1>5, <1>6, <1>7, <1>8, <1>9, <1>10, <1>11 DEF Next, Engine, Render

\* No record or time is ahead of the runtime, and no open frame behind its own.
LEMMA LatestKept == TypeInv /\ RuntimeInv /\ LatestInv /\ [Next]_vars => LatestInv'
<1> SUFFICES ASSUME TypeInv, RuntimeInv, LatestInv, [Next]_vars PROVE LatestInv'
  OBVIOUS
<1>0. /\ waits \in Nat /\ frameState \in Nat /\ rtTime \in Nat /\ frame.time \in Nat
      /\ panelFrame.time \in Nat /\ xr.open \in Nat /\ xr.waited \in Nat
      /\ \A s \in 0 .. FrameRing - 1 : ring[s].time \in Nat
  <2>1. xr.open \in Nat /\ xr.waited \in Nat
    BY DEF TypeInv, TypeOK, RuntimeTypes, XrStates, Waits
  <2>2. \A s \in 0 .. FrameRing - 1 : ring[s].time \in Nat
    BY DEF TypeInv, TypeOK, SharedTypes, Rings, FrameRecords, Waits
  <2> QED
    BY <2>1, <2>2, FramesTyped DEF TypeInv, TypeOK, RuntimeTypes, RenderTypes, Waits
<1> USE DEF LatestInv, Begins
<1>1. CASE PollReady \/ EndSession \/ Teardown
  BY <1>0, <1>1, XrParts DEF PollReady, EndSession, Teardown, TypeInv, callback, eyeVars
<1>2. CASE PollStopping \/ PollInstanceLoss \/ SessionStart \/ SessionStop \/ StopWait \/
           SetLatency
  BY <1>2 DEF PollStopping, PollInstanceLoss, SessionStart, SessionStop, StopWait, SetLatency,
              callback, eyeVars
<1>3. CASE WaitAndLocate
  BY <1>0, <1>3 DEF WaitAndLocate, callback, eyeVars
<1>4. CASE XrWaitReturns
  <2>1. UNCHANGED <<rpc, panelFrame, frame, rtTime, ring>>
    BY <1>4 DEF XrWaitReturns, callback, eyeVars
  <2>2. \/ UNCHANGED <<xr, waits, frameState>>
        \/ /\ xr.waited = 0 /\ waits' = waits + 1 /\ frameState' = waits + 1
           /\ xr'.waited = waits + 1 /\ xr'.open = xr.open
    BY <1>4, XrParts DEF XrWaitReturns, XrWait, TypeInv
  <2> QED
    BY <1>0, <2>1, <2>2
<1>5. CASE PublishFrameRecord
  <2>1. UNCHANGED <<rpc, panelFrame, frame, rtTime, xr, waits, frameState>>
    BY <1>5 DEF PublishFrameRecord, callback, eyeVars
  <2>2. \A s \in 0 .. FrameRing - 1 : ring'[s].time = ring[s].time \/ ring'[s].time = frameState
    BY <1>5 DEF PublishFrameRecord, TypeInv, TypeOK, SharedTypes, Rings
  <2> QED
    BY <1>0, <2>1, <2>2
<1>6. CASE BeginMainRenderPass \/ BeginNextRenderPass
  BY <1>6 DEF BeginMainRenderPass, BeginNextRenderPass, callback, eyeVars
<1>7. CASE MenuWait \/ EyeWait
  <2>1. /\ UNCHANGED <<frame, ring>> /\ rpc' \in {"idle"} \cup Begins
        /\ panelFrame'.time \in Nat /\ panelFrame'.time <= waits
    <3>1. UNCHANGED <<frame, ring>> /\ rpc' \in {"idle"} \cup Begins /\ panelFrame' \in {panelFrame, NoRecord}
      BY <1>7 DEF MenuWait, EyeWait, TakeWait, TakeEngineWait, WaitHere, Goto, Return, eyeVars
    <3> QED
      BY <1>0, <3>1 DEF NoRecord
  <2>2. \/ UNCHANGED <<xr, waits, rtTime>> /\ frameState' \in {0, frameState}
        \/ UNCHANGED <<xr, waits, frameState>> /\ rtTime' <= waits /\ rpc' \in Begins
        \/ /\ xr.waited = 0 /\ waits' = waits + 1 /\ frameState' = waits + 1 /\ rtTime' = waits + 1
           /\ xr'.waited = waits + 1 /\ xr'.open = xr.open /\ rpc' \in Begins
    BY <1>0, <1>7, XrParts
       DEF MenuWait, EyeWait, TakeWait, TakeEngineWait, WaitHere, XrWait, RecordTime, Goto, Return, TypeInv
  <2>3. rpc \notin Begins
    BY <1>7 DEF MenuWait, EyeWait
  <2> QED
    BY <1>0, <2>1, <2>2, <2>3
<1>8. CASE MenuBegin \/ EyeBegin
  <2>1. UNCHANGED <<waits, frameState, rtTime, frame, ring>> /\ panelFrame'.time <= waits
    BY <1>0, <1>8 DEF MenuBegin, EyeBegin, BeginFrame, Goto, Return, eyeVars, NoRecord
  <2>2. \/ /\ xr.waited # 0 /\ xr'.waited = 0 /\ xr'.open = xr.waited /\ rpc' \notin Begins
        \/ /\ xr'.waited = xr.waited /\ xr'.open = xr.open /\ rpc' = "idle"
           /\ xr'.refused \/ xr.waited = 0 \/ xr.open = 0
    BY <1>8, BeginsOrReturns, XrParts DEF TypeInv, RuntimeInv
  <2> QED
    BY <1>0, <2>1, <2>2
<1>9. CASE MenuEnd \/ EyeEnd
  <2>1. /\ UNCHANGED <<waits, frameState, rtTime, frame, ring>> /\ panelFrame'.time <= waits
        /\ rpc' = "idle" /\ rpc \notin Begins
    BY <1>0, <1>9 DEF MenuEnd, EyeEnd, Return, eyeVars, NoRecord
  <2>2. xr' = xr \/ (xr'.waited = xr.waited /\ xr'.open = 0)
    BY <1>9, XrParts DEF MenuEnd, EyeEnd, XrEnd, TypeInv
  <2> QED
    BY <1>0, <2>1, <2>2
<1>10. CASE LoseCallback \/ SubmitPanel \/ SubmitFirstEye \/ SubmitSecondEye
  <2>1. /\ UNCHANGED <<waits, frameState, rtTime, ring, xr>>
        /\ rpc = "idle" /\ rpc' \notin Begins \cup {"eyeLocate"}
    BY <1>10 DEF LoseCallback, SubmitPanel, SubmitFirstEye, SubmitSecondEye, Take, Return, callback
  <2>2. \A t \in Tickets : ReadFrameRecord(t).time <= waits
    BY <1>0, SlotInRing, BoundAssumption DEF ReadFrameRecord, NoRecord, Tickets
  <2>3. NoRecord.time <= waits
    BY <1>0 DEF NoRecord
  <2>4. queue # <<>> => Head(queue).ticket \in Tickets
    BY QueueTyped, JobTyped DEF TypeInv
  <2>5. frame'.time <= waits /\ panelFrame'.time <= waits
    BY <1>10, <2>2, <2>3, <2>4
       DEF LoseCallback, SubmitPanel, SubmitFirstEye, SubmitSecondEye, Take, Return, callback, eyeVars
  <2> QED
    BY <1>0, <2>1, <2>5
<1>11. CASE EyeLocate
  <2>1. /\ UNCHANGED <<waits, frameState, frame, ring, xr>> /\ panelFrame'.time <= waits
        /\ rpc = "eyeLocate" /\ rpc' \in {"idle", "eyeAcquire"} /\ rtTime' \in {rtTime, frame.time}
    BY <1>0, <1>11 DEF EyeLocate, RecordTime, Goto, Return, NoRecord
  <2> QED
    BY <1>0, <2>1
<1>12. CASE PanelAcquire \/ PanelCopy \/ MenuAcquire \/ MenuCopy \/ EyeAcquire \/ EyeCopy
  <2>1. /\ UNCHANGED <<waits, frameState, rtTime, frame, ring, xr>> /\ panelFrame'.time <= waits
        /\ rpc \notin Begins /\ rpc' \notin Begins \cup {"eyeLocate"}
    BY <1>0, <1>12 DEF PanelAcquire, PanelCopy, MenuAcquire, MenuCopy, EyeAcquire, EyeCopy, AfterEye,
                       Goto, Return, eyeVars, NoRecord
  <2> QED
    BY <1>0, <2>1
<1>13. CASE UNCHANGED vars
  BY <1>13 DEF vars, callback, eyeVars
<1> QED
  BY <1>1, <1>2, <1>3, <1>4, <1>5, <1>6, <1>7, <1>8, <1>9, <1>10, <1>11, <1>12, <1>13
     DEF Next, Engine, Render

\* What the stamps say depends on the records alone.
LEMMA StampsOfRecords ==
  ASSUME UNCHANGED <<frame, ring>>
  PROVE  /\ NeverTimed => NeverTimed'
         /\ NoWorldYet => NoWorldYet'
         /\ WorldsUntimed => WorldsUntimed'
BY DEF NeverTimed, NoWorldYet, WorldsUntimed

\* Before the first world there is none to be stamped wrongly.
LEMMA NoWorldNoStamp == NoWorldYet => WorldsUntimed
BY DEF NoWorldYet, WorldsUntimed

\* The records of the eyes are stamped with the arrangement of the session.
LEMMA StampKept == TypeInv /\ RuntimeInv /\ StampInv /\ [Next]_vars => StampInv'
<1> SUFFICES ASSUME TypeInv, RuntimeInv, StampInv, [Next]_vars PROVE StampInv'
  OBVIOUS
<1>0. begins \in Nat /\ running \in BOOLEAN /\ lowLatency \in BOOLEAN
  BY DEF TypeInv, TypeOK, SharedTypes
<1>1. CASE PollReady
  <2>1. UNCHANGED <<rpc, frame, ring, lowLatency>> /\ begins' = begins + 1
    BY <1>1 DEF PollReady, callback, eyeVars
  <2>2. AtFirstEye' = AtFirstEye
    BY <2>1 DEF AtFirstEye
  <2>3. begins' # 0 /\ (begins' <= 1 => begins = 0)
    BY <1>0, <2>1
  <2> QED
    BY <2>1, <2>2, <2>3, StampsOfRecords, NoWorldNoStamp DEF StampInv
<1>2. CASE SetLatency
  <2>1. UNCHANGED <<rpc, frame, ring, begins, running>> /\ ~running
    BY <1>2 DEF SetLatency, callback, eyeVars
  <2>2. lowLatency' \in Arrangements /\ lowLatency' \in BOOLEAN
    BY <1>2, FlagAssumption DEF SetLatency
  <2>3. lowLatency' => TRUE \in Arrangements
    BY <2>2
  <2>4. AtFirstEye' = AtFirstEye
    BY <2>1 DEF AtFirstEye
  <2> QED
    BY <2>1, <2>3, <2>4, StampsOfRecords DEF StampInv
<1>3. CASE \/ PollStopping \/ PollInstanceLoss \/ SessionStart \/ SessionStop \/ StopWait
           \/ EndSession \/ Teardown \/ WaitAndLocate \/ XrWaitReturns
           \/ BeginMainRenderPass \/ BeginNextRenderPass
  <2>1. UNCHANGED <<rpc, frame, ring, begins, lowLatency>>
    BY <1>3 DEF PollStopping, PollInstanceLoss, SessionStart, SessionStop, StopWait, EndSession,
                Teardown, WaitAndLocate, XrWaitReturns, BeginMainRenderPass, BeginNextRenderPass,
                callback, eyeVars, sessionVars
  <2>2. running' = running \/ running' = FALSE
    BY <1>3 DEF PollStopping, PollInstanceLoss, SessionStart, SessionStop, StopWait, EndSession,
                Teardown, WaitAndLocate, XrWaitReturns, BeginMainRenderPass, BeginNextRenderPass,
                sessionVars
  <2>3. AtFirstEye' = AtFirstEye
    BY <2>1 DEF AtFirstEye
  <2>4. CASE running' = running
    BY <2>1, <2>3, <2>4, StampsOfRecords DEF StampInv
  <2>5. CASE running' = FALSE
    BY <2>1, <2>3, <2>5, StampsOfRecords DEF StampInv
  <2> QED
    BY <2>2, <2>4, <2>5
<1>4. CASE PublishFrameRecord
  <2>1. UNCHANGED <<rpc, frame, begins, running, lowLatency>>
    BY <1>4 DEF PublishFrameRecord, callback, eyeVars, sessionVars
  <2>2. ~running => ~mode'.worldInEyes
    BY <1>4 DEF PublishFrameRecord, Decided, Idle
  <2>3. \A s \in 0 .. FrameRing - 1 :
           ring'[s] = ring[s] \/ (ring'[s].mode = mode' /\ ring'[s].timed = lowLatency)
    BY <1>4 DEF PublishFrameRecord, TypeInv, TypeOK, SharedTypes, Rings
  <2>4. NeverTimed /\ ~lowLatency => NeverTimed'
    BY <2>1, <2>3 DEF NeverTimed
  <2>5. NoWorldYet /\ ~running => NoWorldYet'
    BY <2>2, <2>3 DEF NoWorldYet
  <2>6. WorldsUntimed /\ ~lowLatency => WorldsUntimed'
    BY <2>3 DEF WorldsUntimed
  <2>7. AtFirstEye' = AtFirstEye
    BY <2>1 DEF AtFirstEye
  <2> QED
    BY <2>1, <2>4, <2>5, <2>6, <2>7 DEF StampInv
<1>5. CASE SubmitFirstEye
  <2> DEFINE rec == ReadFrameRecord(Head(queue).ticket)
  <2>1. UNCHANGED <<ring, begins, running, lowLatency>>
    BY <1>5 DEF SubmitFirstEye, sessionVars
  <2>2. \/ rpc' = "idle"
        \/ running /\ frame' = rec /\ (Valid(rec) => rec.mode.worldInEyes)
    BY <1>5 DEF SubmitFirstEye, Take, Return
  <2>3. Head(queue).ticket \in Nat
    BY <1>5, QueueTyped, JobTyped, BoundAssumption DEF SubmitFirstEye, Take, TypeInv, Tickets
  <2>4. (\E s \in 0 .. FrameRing - 1 : rec = ring[s] /\ Valid(rec)) \/ ~rec.timed
    BY <2>3, SlotInRing DEF ReadFrameRecord, NoRecord, Valid
  <2>5. frame' = frame \/ frame' = rec
    BY <1>5 DEF SubmitFirstEye
  <2> HIDE DEF rec
  <2>6. NeverTimed => NeverTimed'
    <3> SUFFICES ASSUME NeverTimed PROVE NeverTimed'
      OBVIOUS
    <3>1. ~rec.timed /\ ~frame.timed
      BY <2>4 DEF NeverTimed
    <3>2. ~frame'.timed
      BY <2>5, <3>1
    <3> QED
      BY <2>1, <3>2 DEF NeverTimed
  <2>7. WorldsUntimed /\ (Valid(rec) => rec.mode.worldInEyes) => ~rec.timed
    BY <2>4 DEF WorldsUntimed
  <2>8. (NoWorldYet => NoWorldYet') /\ (WorldsUntimed => WorldsUntimed')
    BY <2>1 DEF NoWorldYet, WorldsUntimed
  <2>9. rpc' = "idle" => ~AtFirstEye'
    BY DEF AtFirstEye
  <2> QED
    BY <2>1, <2>2, <2>6, <2>7, <2>8, <2>9 DEF StampInv
<1>6. CASE LoseCallback \/ SubmitPanel \/ SubmitSecondEye
  <2>1. UNCHANGED <<frame, ring, begins, running, lowLatency>> /\ ~AtFirstEye'
    BY <1>6 DEF LoseCallback, SubmitPanel, SubmitSecondEye, Take, Return, callback, eyeVars,
                sessionVars, AtFirstEye
  <2> QED
    BY <2>1, StampsOfRecords DEF StampInv
<1>7. CASE EyeWait \/ EyeBegin \/ EyeLocate
  <2>1. UNCHANGED <<frame, ring, begins, running, lowLatency>> /\ AtFirstEye
    BY <1>7 DEF EyeWait, EyeBegin, EyeLocate, eyeVars, sessionVars, AtFirstEye
  <2> QED
    BY <2>1, StampsOfRecords DEF StampInv
<1>8. CASE \/ PanelAcquire \/ PanelCopy \/ MenuWait \/ MenuBegin \/ MenuAcquire \/ MenuCopy \/ MenuEnd
           \/ EyeAcquire \/ EyeCopy \/ EyeEnd
  <2>1. UNCHANGED <<frame, ring, begins, running, lowLatency>> /\ ~AtFirstEye'
    BY <1>8 DEF PanelAcquire, PanelCopy, MenuWait, MenuBegin, MenuAcquire, MenuCopy, MenuEnd,
                EyeAcquire, EyeCopy, EyeEnd, TakeWait, TakeEngineWait, WaitHere, BeginFrame, AfterEye,
                Goto, Return, sessionVars, eyeVars, AtFirstEye
  <2> QED
    BY <2>1, StampsOfRecords DEF StampInv
<1>9. CASE UNCHANGED vars
  <2>1. UNCHANGED <<rpc, frame, ring, begins, running, lowLatency>>
    BY <1>9 DEF vars, callback, eyeVars, sessionVars
  <2>2. AtFirstEye' = AtFirstEye
    BY <2>1 DEF AtFirstEye
  <2> QED
    BY <2>1, <2>2, StampsOfRecords DEF StampInv
<1> QED
  BY <1>1, <1>2, <1>3, <1>4, <1>5, <1>6, <1>7, <1>8, <1>9 DEF Next, Engine, Render

\* No step of either thread comes between a wait of the render thread and its begin, or
\* between a begin and its end.
LEMMA TimeKept == TypeInv /\ RuntimeInv /\ StampInv /\ TimeInv /\ [Next]_vars => TimeInv'
<1> SUFFICES ASSUME TypeInv, RuntimeInv, StampInv, TimeInv, [Next]_vars PROVE TimeInv'
  OBVIOUS
<1>0. begins \in Nat
  BY DEF TypeInv, TypeOK, SharedTypes
<1> USE DEF RuntimeInv, TimeInv, OneArrangement, Begins, engineVars, sessionVars, callback, eyeVars
<1>1. CASE PollReady \/ PollStopping \/ EndSession \/ PollInstanceLoss \/ SessionStart
  BY <1>0, <1>1, XrParts
     DEF PollReady, PollStopping, EndSession, PollInstanceLoss, SessionStart, TypeInv
<1>2. CASE SessionStop \/ StopWait \/ SetLatency \/ Teardown \/ WaitAndLocate
  BY <1>2, XrParts DEF SessionStop, StopWait, SetLatency, Teardown, WaitAndLocate, TypeInv
<1>3. CASE XrWaitReturns
  BY <1>3 DEF XrWaitReturns
<1>4. CASE PublishFrameRecord \/ BeginMainRenderPass \/ BeginNextRenderPass
  BY <1>4 DEF PublishFrameRecord, BeginMainRenderPass, BeginNextRenderPass
<1>5. CASE MenuWait \/ EyeWait
  <2>1. UNCHANGED <<running, lowLatency, begins>>
    BY <1>5 DEF MenuWait, EyeWait
  <2>2. CASE ~lowLatency
    <3>1. \/ UNCHANGED <<xr, rtTime>> /\ rpc' = "idle"
          \/ /\ xr'.waited = waits + 1 /\ xr'.open = xr.open /\ rtTime' = waits + 1
             /\ (xr'.refused <=> xr.refused) /\ rpc' \in Begins /\ waits + 1 # 0
      BY <1>5, <2>2, XrParts
         DEF MenuWait, EyeWait, TakeWait, WaitHere, XrWait, Goto, Return, TypeInv
    <3> QED
      BY <1>5, <2>1, <3>1 DEF MenuWait, EyeWait
  <2> QED
    BY <2>1, <2>2
<1>6. CASE MenuBegin \/ EyeBegin
  <2>1. UNCHANGED <<running, lowLatency, begins, rtTime>>
    BY ONLY <1>6 DEF MenuBegin, EyeBegin, sessionVars
  <2>2. rpc \in Begins /\ rpc' \notin Begins
    BY <1>6, BeginsOrReturns DEF TypeInv
  <2>3. \/ xr'.waited = 0 /\ xr'.open = xr.waited /\ xr.waited # 0 /\ (xr'.refused <=> xr.refused)
        \/ /\ xr'.waited = xr.waited /\ xr'.open = xr.open
           /\ xr'.refused \/ (xr' = xr /\ ~(xr.running /\ xr.waited # 0))
    BY <1>6, BeginsOrReturns, XrParts DEF TypeInv
  <2>4. CASE xr'.waited = 0 /\ xr'.open = xr.waited /\ xr.waited # 0 /\ (xr'.refused <=> xr.refused)
    BY <2>1, <2>2, <2>4
  <2>5. CASE xr'.refused
    BY <2>5
  <2>6. CASE xr' = xr /\ ~(xr.running /\ xr.waited # 0)
    BY <2>1, <2>2, <2>6
  <2> QED
    BY <2>3, <2>4, <2>5, <2>6
<1>7. CASE MenuEnd \/ EyeEnd
  <2>1. /\ UNCHANGED <<running, lowLatency, begins, rtTime>>
        /\ rpc \notin Begins /\ rpc' \notin Begins
    BY <1>7 DEF MenuEnd, EyeEnd, Return
  <2>2. xr' = xr \/ xr' = [xr EXCEPT !.open = 0]
    BY <1>7 DEF MenuEnd, EyeEnd, XrEnd
  <2>3. LET x == [xr EXCEPT !.open = 0]
        IN  x.open = 0 /\ x.waited = xr.waited /\ x.refused = xr.refused
    BY DEF TypeInv, TypeOK, RuntimeTypes, XrStates
  <2> QED
    BY <2>1, <2>2, <2>3
<1>8. CASE LoseCallback \/ SubmitPanel \/ SubmitFirstEye \/ SubmitSecondEye
  BY <1>8 DEF LoseCallback, SubmitPanel, SubmitFirstEye, SubmitSecondEye, Take, Return
<1>9. CASE PanelAcquire \/ PanelCopy \/ MenuAcquire \/ MenuCopy \/ EyeAcquire \/ EyeCopy
  BY <1>9 DEF PanelAcquire, PanelCopy, MenuAcquire, MenuCopy, EyeAcquire, EyeCopy, AfterEye, Goto,
              Return
<1>10. CASE EyeLocate
  <2>1. OneArrangement /\ running /\ ~lowLatency => ~frame.timed
    BY <1>10 DEF EyeLocate, StampInv, NeverTimed, AtFirstEye
  <2>2. /\ UNCHANGED <<xr, running, lowLatency, begins>> /\ rpc = "eyeLocate"
        /\ rpc' \in {"idle", "eyeAcquire"} /\ rtTime' = RecordTime(frame, rtTime)
    BY <1>10 DEF EyeLocate, Goto, Return
  <2> QED
    BY <2>1, <2>2 DEF RecordTime
<1>11. CASE UNCHANGED vars
  BY <1>11 DEF vars
<1> QED
  BY <1>1, <1>2, <1>3, <1>4, <1>5, <1>6, <1>7, <1>8, <1>9, <1>10, <1>11 DEF Next, Engine, Render

\* The runtime's state agrees with the flags from the start.
LEMMA RuntimeInvariant == Spec => []RuntimeInv
<1>1. Init => RuntimeInv
  BY DEF Init, RuntimeInv, NoXr
<1> QED
  BY <1>1, RuntimeKept, TypeInvariant, PTL DEF Spec

\* No time and no stamp is wrong at the start.
LEMMA TimesInit == Init => LatestInv /\ StampInv /\ TimeInv
<1> SUFFICES ASSUME Init PROVE LatestInv /\ StampInv /\ TimeInv
  OBVIOUS
<1>1. LatestInv /\ TimeInv
  BY DEF Init, LatestInv, TimeInv, NoXr, NoRecord
<1>2. NeverTimed /\ NoWorldYet /\ ~AtFirstEye
  BY DEF Init, NeverTimed, NoWorldYet, AtFirstEye, NoRecord, Idle
<1>3. lowLatency \in Arrangements /\ lowLatency \in BOOLEAN /\ ~running
  BY FlagAssumption DEF Init
<1>4. TRUE \notin Arrangements => ~lowLatency
  BY <1>3
<1> QED
  BY <1>1, <1>2, <1>3, <1>4 DEF StampInv

\* A frame is never ended against the time of a later wait than the one it was begun for,
\* nor, where the render thread waits and meets no record of the other arrangement, against
\* that of an earlier one: whatever passes are lost and however often sessions are begun.
THEOREM TimesKept == Spec => []EndsAtItsOwnTime
<1>1. TypeInv /\ LatestInv /\ TimeInv => EndsAtItsOwnTime
  <2> SUFFICES ASSUME TypeInv, LatestInv, TimeInv PROVE EndsAtItsOwnTime
    OBVIOUS
  <2>1. begins = 1 => begins <= 1
    OBVIOUS
  <2> QED
    BY <2>1 DEF OneArrangement, LatestInv, TimeInv, EndsAtItsOwnTime, Begins
<1> QED
  BY <1>1, TimesInit, LatestKept, StampKept, TimeKept, RuntimeInvariant, TypeInvariant, PTL DEF Spec

-----------------------------------------------------------------------------
(* The picture.                                                            *)

\* What the engine thread leaves to the render thread.
LEMMA EngineLeaves ==
  ASSUME Engine
  PROVE  UNCHANGED <<rpc, job, panelFrame, frame, submittedTicket, eyesCopied, image, shown>>
<1>1. CASE PollReady \/ PollStopping \/ EndSession \/ PollInstanceLoss \/ SessionStart \/
           SessionStop \/ StopWait \/ SetLatency \/ Teardown
  BY <1>1 DEF PollReady, PollStopping, EndSession, PollInstanceLoss, SessionStart, SessionStop,
              StopWait, SetLatency, Teardown, callback, eyeVars
<1>2. CASE WaitAndLocate \/ XrWaitReturns \/ PublishFrameRecord \/ BeginMainRenderPass \/
           BeginNextRenderPass
  BY <1>2 DEF WaitAndLocate, XrWaitReturns, PublishFrameRecord, BeginMainRenderPass,
              BeginNextRenderPass, callback, eyeVars
<1> QED
  BY <1>1, <1>2 DEF Engine

\* Publishing alone gives out tickets and writes records.
LEMMA OthersDecideNothing ==
  ASSUME Engine, ~PublishFrameRecord PROVE UNCHANGED <<serial, decided, ring>>
<1>1. CASE \/ PollReady \/ PollStopping \/ EndSession \/ PollInstanceLoss
           \/ SessionStart \/ SessionStop \/ StopWait \/ SetLatency \/ Teardown
           \/ WaitAndLocate \/ XrWaitReturns
  BY <1>1 DEF PollReady, PollStopping, EndSession, PollInstanceLoss, SessionStart, SessionStop,
              StopWait, SetLatency, Teardown, WaitAndLocate, XrWaitReturns, engineVars
<1>2. CASE BeginMainRenderPass \/ BeginNextRenderPass
  BY <1>2 DEF BeginMainRenderPass, BeginNextRenderPass
<1> QED
  BY <1>1, <1>2 DEF Engine

\* The engine thread queues a pass of the frame it is at, or nothing.
LEMMA EngineQueues ==
  ASSUME TypeOK, Engine
  PROVE  \/ /\ queue' = queue
            /\ epc \notin {"eye0", "eye1"}
            /\ epc' \in {"eye0", "eye1"} => epc = "main"
         \/ /\ epc = "main" /\ queue' = Append(queue, [into |-> Panel, ticket |-> serial])
            /\ epc' \in {"eye0", "top"} /\ serial' = serial
         \/ /\ epc = "eye0" /\ queue' = Append(queue, [into |-> 0, ticket |-> serial])
            /\ epc' = "eye1" /\ serial' = serial
         \/ /\ epc = "eye1" /\ queue' = Append(queue, [into |-> 1, ticket |-> serial])
            /\ epc' = "top" /\ serial' = serial
<1>1. CASE PollReady \/ PollStopping \/ EndSession \/ PollInstanceLoss \/ SessionStart \/
           SessionStop \/ StopWait \/ SetLatency \/ Teardown
  BY <1>1 DEF PollReady, PollStopping, EndSession, PollInstanceLoss, SessionStart, SessionStop,
              StopWait, SetLatency, Teardown, engineVars
<1>2. CASE WaitAndLocate \/ XrWaitReturns \/ PublishFrameRecord
  BY <1>2 DEF WaitAndLocate, XrWaitReturns, PublishFrameRecord
<1>3. CASE BeginMainRenderPass
  BY <1>3 DEF BeginMainRenderPass
<1>4. CASE BeginNextRenderPass
  BY <1>4 DEF BeginNextRenderPass
<1> QED
  BY <1>1, <1>2, <1>3, <1>4 DEF Engine

\* What is left when the first callback is taken from the queue.
LEMMA TailOfQueue ==
  ASSUME TypeOK, queue # <<>>, queue' = Tail(queue)
  PROVE  /\ queue' \in Seq(Jobs) /\ Len(queue') = Len(queue) - 1 /\ Len(queue) \in Nat \ {0}
         /\ Head(queue) = queue[1] /\ 1 \in DOMAIN queue
         /\ \A i \in DOMAIN queue' : i + 1 \in DOMAIN queue /\ queue'[i] = queue[i + 1]
         /\ queue' # <<>> => 2 \in DOMAIN queue /\ Head(queue') = queue[2] /\ Len(queue) # 1
         /\ queue' = <<>> => Len(queue) = 1
<1>1. queue \in Seq(Jobs)
  BY DEF TypeOK, SharedTypes, Queues
<1>2. /\ queue' \in Seq(Jobs) /\ Len(queue') = Len(queue) - 1 /\ Len(queue) \in Nat \ {0}
      /\ Head(queue) = queue[1] /\ 1 \in DOMAIN queue
      /\ \A i \in DOMAIN queue' : i + 1 \in DOMAIN queue /\ queue'[i] = queue[i + 1]
  BY <1>1, HeadTailProperties
<1>3. CASE queue' = <<>>
  BY <1>2, <1>3
<1>4. CASE queue' # <<>>
  <2>1. 1 \in DOMAIN queue' /\ Head(queue') = queue'[1]
    BY <1>2, <1>4
  <2> QED
    BY <1>2, <1>4, <2>1
<1> QED
  BY <1>2, <1>3, <1>4

\* What the queue is when another callback is pushed on it.
LEMMA PushedOnQueue ==
  ASSUME TypeOK, NEW j, queue' = Append(queue, j)
  PROVE  /\ Len(queue') = Len(queue) + 1 /\ Len(queue) \in Nat
         /\ queue' # <<>> /\ DOMAIN queue' = 1 .. Len(queue) + 1 /\ DOMAIN queue = 1 .. Len(queue)
         /\ \A i \in DOMAIN queue : queue'[i] = queue[i]
         /\ queue'[Len(queue) + 1] = j
         /\ Head(queue') = IF queue = <<>> THEN j ELSE Head(queue)
<1>1. queue \in Seq(Jobs)
  BY DEF TypeOK, SharedTypes, Queues
<1> QED
  BY <1>1

-----------------------------------------------------------------------------
\* The callback of a frame's second eye.
Second(ticket) == [into |-> 1, ticket |-> ticket]

\* The first eye of this ticket has been taken, and its second is the next callback.
OwesSecond(ticket) ==
    IF queue = <<>> THEN epc = "eye1" /\ serial = ticket ELSE Head(queue) = Second(ticket)

\* In the queue every first eye is followed by its second.
PassesPaired ==
    \A i \in DOMAIN queue :
        queue[i].into = 0 =>
            IF i = Len(queue) THEN epc = "eye1" /\ serial = queue[i].ticket
            ELSE queue[i + 1] = Second(queue[i].ticket)

\* Neither pushing a pass nor taking one comes between the two eyes of a frame.
LEMMA PairedKept == TypeInv /\ PassesPaired /\ [Next]_vars => PassesPaired'
<1> SUFFICES ASSUME TypeInv, PassesPaired, [Next]_vars PROVE PassesPaired'
  OBVIOUS
<1>0. queue \in Seq(Jobs)
  BY DEF TypeInv, TypeOK, SharedTypes, Queues
<1>1. CASE Render
  <2>1. CASE queue' = queue
    BY <1>1, <2>1, RenderTurns DEF PassesPaired
  <2>2. CASE queue # <<>> /\ queue' = Tail(queue)
    <3> SUFFICES ASSUME NEW i \in DOMAIN queue', queue'[i].into = 0
                 PROVE  IF i = Len(queue') THEN epc' = "eye1" /\ serial' = queue'[i].ticket
                        ELSE queue'[i + 1] = Second(queue'[i].ticket)
      BY DEF PassesPaired, Second
    <3>1. /\ i + 1 \in DOMAIN queue /\ queue'[i] = queue[i + 1]
          /\ i \in 1 .. Len(queue') /\ Len(queue') = Len(queue) - 1 /\ Len(queue) \in Nat
      BY <2>2, TailOfQueue DEF TypeInv
    <3>2. i # Len(queue') => queue'[i + 1] = queue[i + 2] /\ i + 1 # Len(queue)
      <4> SUFFICES ASSUME i # Len(queue') PROVE queue'[i + 1] = queue[i + 2] /\ i + 1 # Len(queue)
        OBVIOUS
      <4>1. i + 1 \in DOMAIN queue' /\ (i + 1) + 1 = i + 2
        BY <3>1, <2>2, TailOfQueue DEF TypeInv
      <4> QED
        BY <3>1, <4>1, <2>2, TailOfQueue DEF TypeInv
    <3> QED
      BY <1>1, <3>1, <3>2, RenderTurns DEF PassesPaired
  <2> QED
    BY <1>1, <2>1, <2>2, RenderTurns
<1>2. CASE Engine
  <2>1. CASE queue' = queue /\ epc # "eye1"
    BY <2>1 DEF PassesPaired
  <2>2. ASSUME NEW s \in Swaps, queue' = Append(queue, [into |-> s, ticket |-> serial]),
               epc # "eye1" \/ s = 1, s = 0 => epc' = "eye1", serial' = serial
        PROVE  PassesPaired'
    <3> SUFFICES ASSUME NEW i \in DOMAIN queue', queue'[i].into = 0
                 PROVE  IF i = Len(queue') THEN epc' = "eye1" /\ serial' = queue'[i].ticket
                        ELSE queue'[i + 1] = Second(queue'[i].ticket)
      BY DEF PassesPaired, Second
    <3>1. /\ i \in 1 .. Len(queue) + 1 /\ Len(queue') = Len(queue) + 1 /\ Len(queue) \in Nat
          /\ queue'[Len(queue) + 1] = [into |-> s, ticket |-> serial]
          /\ \A k \in 1 .. Len(queue) : queue'[k] = queue[k]
      BY <2>2, PushedOnQueue DEF TypeInv
    <3>2. CASE i = Len(queue) + 1
      BY <2>2, <3>1, <3>2
    <3>3. CASE i = Len(queue)
      <4>1. queue[i].into = 0 /\ i \in DOMAIN queue /\ queue'[i] = queue[i]
        BY <3>1, <3>3, <1>0
      <4>2. epc = "eye1" /\ serial = queue[i].ticket
        BY <3>3, <4>1 DEF PassesPaired
      <4> QED
        BY <2>2, <3>1, <3>3, <4>1, <4>2 DEF Second
    <3>4. CASE i < Len(queue)
      <4>1. /\ queue[i].into = 0 /\ i \in DOMAIN queue /\ i # Len(queue) /\ i # Len(queue')
            /\ queue'[i] = queue[i] /\ queue'[i + 1] = queue[i + 1]
        BY <3>1, <3>4, <1>0
      <4> QED
        BY <4>1 DEF PassesPaired
    <3> QED
      BY <3>1, <3>2, <3>3, <3>4
  <2>3. 0 \in Swaps /\ 1 \in Swaps /\ Panel \in Swaps /\ Panel # 0
    BY DEF Swaps, Eyes, Panel
  <2>4. CASE epc = "main" /\ queue' = Append(queue, [into |-> Panel, ticket |-> serial]) /\ serial' = serial
    BY <2>2, <2>3, <2>4
  <2>5. CASE /\ epc = "eye0" /\ queue' = Append(queue, [into |-> 0, ticket |-> serial])
             /\ epc' = "eye1" /\ serial' = serial
    BY <2>2, <2>3, <2>5
  <2>6. CASE epc = "eye1" /\ queue' = Append(queue, [into |-> 1, ticket |-> serial]) /\ serial' = serial
    BY <2>2, <2>3, <2>6
  <2> QED
    BY <1>2, <2>1, <2>4, <2>5, <2>6, EngineQueues DEF TypeInv
<1>3. CASE UNCHANGED vars
  BY <1>3 DEF vars, engineVars, PassesPaired
<1> QED
  BY <1>1, <1>2, <1>3 DEF Next

-----------------------------------------------------------------------------
\* The places of a callback at which its frame may be open.
Opened == {"menuAcquire", "menuCopy", "menuEnd", "menuEndEmpty",
           "eyeLocate", "eyeAcquire", "eyeCopy", "eyeEnd"}

\* A frame that is open at the runtime is known to be, and is in somebody's hands.
OpenInv == xr.open # 0 => frameBegun /\ rpc \in Opened \cup {"idle"}

\* Between the two eyes of an open frame nothing comes but the second of them.
SecondOwed ==
    /\ rpc \in EyePcs /\ job.into = 0 => job.ticket = submittedTicket /\ OwesSecond(job.ticket)
    /\ rpc = "idle" /\ xr.open # 0 /\ running => OwesSecond(submittedTicket)

\* What an open frame counts as copied, it has from the passes of the ticket it was
\* opened for, and the poses it will report are of the same ticket.
EyesInv ==
    xr.open # 0 /\ rpc \in {"idle", "eyeAcquire", "eyeCopy", "eyeEnd"} =>
        /\ rpc # "eyeEnd" /\ eyesCopied = 1 => 0 \in released /\ image[0] = submittedTicket
        /\ eyesCopied = 2 => /\ Eyes \subseteq released
                             /\ image[0] = submittedTicket /\ image[1] = submittedTicket
        /\ Valid(frame) => proj.of = frame.serial
        /\ rpc = "idle" => eyesCopied <= 1
        /\ rpc = "eyeCopy" \/ (rpc = "eyeEnd" /\ eyesCopied = 2) => job.ticket = submittedTicket

\* A panel that counts as copied is there, and is of the ticket it is said to be of.
PanelInv ==
    /\ panelCopied => Panel \in released /\ image[Panel] = panelTicket
    /\ rpc \in PanelPcs => ~panelCopied
    /\ rpc = "menuEnd" => image[Panel] = job.ticket /\ (xr.open # 0 => Panel \in released)

\* Everything an open frame is ended with is there.
LEMMA LayersThere ==
  ASSUME PanelInv, EyesInv, rpc = "eyeEnd", xr.open # 0, TypeInv
  PROVE  EyeLayers \subseteq released
BY DEF PanelInv, EyesInv, EyeLayers, HaveWorld, EyeOverlay, HaveSheet, HavePanel, HavePanelImage

\* An open frame is closed by its end.
LEMMA EndCloses ==
  ASSUME TypeInv, RuntimeInv, PanelInv, EyesInv, EyeEnd \/ MenuEnd
  PROVE  xr'.open = 0 /\ rpc' = "idle" /\ frameBegun' = FALSE
<1>1. xr.open # 0 => xr.running
  BY DEF RuntimeInv
<1>2. CASE EyeEnd
  BY <1>1, <1>2, LayersThere, XrParts DEF EyeEnd, XrEnd, Return, TypeInv
<1>3. CASE MenuEnd
  <2>1. rpc = "menuEnd" /\ xr.open # 0 => Panel \in released
    BY DEF PanelInv
  <2> QED
    BY <1>1, <1>3, <2>1, XrParts DEF MenuEnd, XrEnd, Return, TypeInv
<1> QED
  BY <1>2, <1>3

\* Copies and their flags come and go together.
LEMMA PanelKept == TypeInv /\ PanelInv /\ [Next]_vars => PanelInv'
<1> SUFFICES ASSUME TypeInv, PanelInv, [Next]_vars PROVE PanelInv'
  OBVIOUS
<1>0. image \in [Swaps -> Tickets] /\ Panel \in Swaps
  BY DEF TypeInv, TypeOK, RuntimeTypes, Images, Swaps
<1> USE DEF PanelInv, PanelPcs, callback, panelVars, eyeVars
<1>1. CASE PollReady \/ EndSession
  <2>1. xr'.open = 0
    BY <1>1, XrParts DEF PollReady, EndSession, TypeInv
  <2> QED
    BY <1>1, <2>1 DEF PollReady, EndSession
<1>2. CASE Teardown
  <2>1. xr'.open = 0
    BY <1>2, XrParts DEF Teardown, TypeInv
  <2> QED
    BY <1>2, <2>1 DEF Teardown, DestroySwapchains
<1>3. CASE PollStopping \/ PollInstanceLoss \/ SessionStart \/ SessionStop \/ StopWait \/
           SetLatency \/ WaitAndLocate
  BY <1>3 DEF PollStopping, PollInstanceLoss, SessionStart, SessionStop, StopWait, SetLatency,
              WaitAndLocate
<1>4. CASE XrWaitReturns
  BY <1>4, XrParts DEF XrWaitReturns, XrWait, TypeInv
<1>5. CASE PublishFrameRecord \/ BeginMainRenderPass \/ BeginNextRenderPass
  BY <1>5 DEF PublishFrameRecord, BeginMainRenderPass, BeginNextRenderPass
<1>6. CASE LoseCallback \/ SubmitPanel \/ SubmitFirstEye \/ SubmitSecondEye
  BY <1>6 DEF LoseCallback, SubmitPanel, SubmitFirstEye, SubmitSecondEye, Take, Return
<1>7. CASE PanelAcquire \/ MenuAcquire
  BY <1>7 DEF PanelAcquire, MenuAcquire, EnsureSwapchains, DestroySwapchains, Goto, Return
<1>8. CASE PanelCopy \/ MenuCopy
  BY <1>0, <1>8 DEF PanelCopy, MenuCopy, Goto, Return
<1>9. CASE MenuWait \/ EyeWait
  BY <1>9 DEF MenuWait, EyeWait, TakeWait, TakeEngineWait, WaitHere, Goto, Return
<1>10. CASE MenuBegin \/ EyeBegin
  BY <1>10 DEF MenuBegin, EyeBegin, BeginFrame, Goto, Return
<1>11. CASE MenuEnd \/ EyeEnd
  BY <1>11 DEF MenuEnd, EyeEnd, Return
<1>12. CASE EyeLocate \/ EyeAcquire
  BY <1>12 DEF EyeLocate, EyeAcquire, AfterEye, EnsureSwapchains, DestroySwapchains, Goto, Return
<1>13. CASE EyeCopy
  <2>1. job.into # Panel
    BY <1>13 DEF EyeCopy, TypeInv, EyeCount, EyePcs, Eyes, Panel
  <2> QED
    BY <1>0, <1>13, <2>1 DEF EyeCopy, AfterEye, Goto, Return
<1>14. CASE UNCHANGED vars
  BY <1>14 DEF vars
<1> QED
  BY <1>1, <1>2, <1>3, <1>4, <1>5, <1>6, <1>7, <1>8, <1>9, <1>10, <1>11, <1>12, <1>13, <1>14
     DEF Next, Engine, Render

\* The engine thread does not come between a first eye and its second.
LEMMA EngineOwes ==
  ASSUME TypeInv, Engine, NEW t, OwesSecond(t)
  PROVE  IF queue' = <<>> THEN epc' = "eye1" /\ serial' = t ELSE Head(queue') = Second(t)
<1>1. CASE queue' = queue /\ epc # "eye1"
  BY <1>1 DEF OwesSecond
<1>2. ASSUME NEW s \in Swaps, queue' = Append(queue, [into |-> s, ticket |-> serial]),
             epc # "eye1" \/ s = 1
      PROVE  queue' # <<>> /\ Head(queue') = Second(t)
  <2>1. queue' # <<>> /\ Head(queue') = IF queue = <<>> THEN [into |-> s, ticket |-> serial]
                                        ELSE Head(queue)
    BY <1>2, PushedOnQueue DEF TypeInv
  <2> QED
    BY <1>2, <2>1 DEF OwesSecond, Second
<1>3. 0 \in Swaps /\ 1 \in Swaps /\ Panel \in Swaps
  BY DEF Swaps, Eyes
<1>4. CASE epc = "main" /\ queue' = Append(queue, [into |-> Panel, ticket |-> serial])
  BY <1>2, <1>3, <1>4
<1>5. CASE epc = "eye0" /\ queue' = Append(queue, [into |-> 0, ticket |-> serial])
  BY <1>2, <1>3, <1>5
<1>6. CASE epc = "eye1" /\ queue' = Append(queue, [into |-> 1, ticket |-> serial])
  BY <1>2, <1>3, <1>6
<1> QED
  BY <1>1, <1>4, <1>5, <1>6, EngineQueues DEF TypeInv

\* A first eye that is taken leaves its second at the head of the queue.
LEMMA TakenOwes ==
  ASSUME TypeInv, PassesPaired, Take(0), epc' = epc, serial' = serial
  PROVE  LET t == Head(queue).ticket
         IN  IF queue' = <<>> THEN epc' = "eye1" /\ serial' = t ELSE Head(queue') = Second(t)
<1>1. queue # <<>> /\ queue' = Tail(queue) /\ Head(queue).into = 0
  BY DEF Take
<1>2. Head(queue) = queue[1] /\ 1 \in DOMAIN queue
  BY <1>1, TailOfQueue DEF TypeInv
<1>3. CASE queue' = <<>>
  <2>1. Len(queue) = 1
    BY <1>1, <1>3, TailOfQueue DEF TypeInv
  <2> QED
    BY <1>1, <1>2, <1>3, <2>1 DEF PassesPaired
<1>4. CASE queue' # <<>>
  <2>1. 2 \in DOMAIN queue /\ Head(queue') = queue[2] /\ Len(queue) # 1
    BY <1>1, <1>4, TailOfQueue DEF TypeInv
  <2> QED
    BY <1>1, <1>2, <1>4, <2>1 DEF PassesPaired
<1> QED
  BY <1>3, <1>4

\* While a second eye is owed, the render thread takes no other pass.
LEMMA OwedIsTaken ==
  ASSUME NEW t, OwesSecond(t), NEW s, Take(s)
  PROVE  s = 1 /\ Head(queue).ticket = t
BY DEF OwesSecond, Second, Take

\* A frame is opened by whoever waited for it, is in the hands of a callback, and is
\* closed by its end or with its session.
LEMMA OpenKept ==
  ASSUME TypeInv, RuntimeInv, PanelInv, EyesInv, OpenInv, SecondOwed, [Next]_vars,
         ~PassesMayBeLost
  PROVE  OpenInv'
<1> USE DEF OpenInv, Opened
<1>1. CASE PollReady \/ EndSession \/ Teardown
  BY <1>1, XrParts DEF PollReady, EndSession, Teardown, TypeInv
<1>2. CASE PollStopping \/ PollInstanceLoss \/ SessionStart \/ SessionStop \/ StopWait \/
           SetLatency \/ WaitAndLocate
  BY <1>2 DEF PollStopping, PollInstanceLoss, SessionStart, SessionStop, StopWait, SetLatency,
              WaitAndLocate, callback
<1>3. CASE XrWaitReturns
  BY <1>3, XrParts DEF XrWaitReturns, XrWait, TypeInv, callback
<1>4. CASE PublishFrameRecord \/ BeginMainRenderPass \/ BeginNextRenderPass
  BY <1>4 DEF PublishFrameRecord, BeginMainRenderPass, BeginNextRenderPass, callback
<1>5. CASE LoseCallback
  BY <1>5 DEF LoseCallback
<1>6. CASE SubmitPanel \/ SubmitFirstEye
  <2>1. rpc = "idle" /\ UNCHANGED <<xr, frameBegun>> /\ (~running => rpc' = "idle")
    BY <1>6 DEF SubmitPanel, SubmitFirstEye, Take, Return
  <2>2. running => xr.open = 0
    BY <1>6, <2>1, OwedIsTaken DEF SecondOwed, SubmitPanel, SubmitFirstEye, Panel
  <2> QED
    BY <2>1, <2>2
<1>7. CASE SubmitSecondEye
  BY <1>7 DEF SubmitSecondEye, Take, Return
<1>8. CASE PanelAcquire \/ PanelCopy
  BY <1>8 DEF PanelAcquire, PanelCopy
<1>9. CASE MenuWait \/ EyeWait
  <2>1. xr.open = 0
    BY <1>9 DEF MenuWait, EyeWait
  <2>2. xr'.open = 0
    BY <1>9, <2>1, XrParts DEF MenuWait, EyeWait, TakeWait, TakeEngineWait, WaitHere, XrWait, TypeInv
  <2> QED
    BY <2>2
<1>10. CASE MenuBegin \/ EyeBegin
  BY <1>10, BeginsOrReturns DEF Begins, TypeInv
<1>11. CASE MenuAcquire \/ MenuCopy
  BY <1>11 DEF MenuAcquire, MenuCopy, Goto
<1>12. CASE EyeLocate \/ EyeAcquire \/ EyeCopy
  BY <1>12 DEF EyeLocate, EyeAcquire, EyeCopy, AfterEye, Goto, Return
<1>13. CASE MenuEnd \/ EyeEnd
  BY <1>13, EndCloses
<1>14. CASE UNCHANGED vars
  BY <1>14 DEF vars, callback
<1> QED
  BY <1>1, <1>2, <1>3, <1>4, <1>5, <1>6, <1>7, <1>8, <1>9, <1>10, <1>11, <1>12, <1>13, <1>14
     DEF Next, Engine, Render

\* After a first eye comes its second, and nothing else.
LEMMA OwedKept ==
  ASSUME TypeInv, RuntimeInv, PanelInv, EyesInv, OpenInv, PassesPaired, SecondOwed, [Next]_vars,
         ~PassesMayBeLost
  PROVE  SecondOwed'
<1>1. CASE Engine
  <2>1. UNCHANGED <<rpc, job, submittedTicket>>
    BY <1>1, EngineLeaves
  <2>2. \A t : OwesSecond(t) => IF queue' = <<>> THEN epc' = "eye1" /\ serial' = t
                                ELSE Head(queue') = Second(t)
    BY <1>1, EngineOwes
  <2>3. xr'.open # 0 /\ running' => xr.open # 0 /\ running
    <3>1. CASE PollReady \/ EndSession \/ Teardown
      BY <3>1, XrParts DEF PollReady, EndSession, Teardown, TypeInv
    <3>2. CASE XrWaitReturns
      BY <3>2, XrParts DEF XrWaitReturns, XrWait, TypeInv, sessionVars
    <3>3. CASE PollStopping \/ PollInstanceLoss \/ SessionStart \/ SessionStop \/ StopWait \/
               SetLatency \/ WaitAndLocate
      BY <3>3 DEF PollStopping, PollInstanceLoss, SessionStart, SessionStop, StopWait,
                  SetLatency, WaitAndLocate, sessionVars
    <3>4. CASE PublishFrameRecord \/ BeginMainRenderPass \/ BeginNextRenderPass
      BY <3>4 DEF PublishFrameRecord, BeginMainRenderPass, BeginNextRenderPass, sessionVars
    <3> QED
      BY <1>1, <3>1, <3>2, <3>3, <3>4 DEF Engine
  <2> QED
    BY <2>1, <2>2, <2>3 DEF SecondOwed, OwesSecond, Second
<1>2. CASE SubmitFirstEye
  <2>1. Take(0) /\ UNCHANGED <<epc, serial, xr, running>>
    BY <1>2 DEF SubmitFirstEye, engineVars, sessionVars
  <2>2. LET t == Head(queue).ticket
        IN  IF queue' = <<>> THEN epc' = "eye1" /\ serial' = t ELSE Head(queue') = Second(t)
    BY <2>1, TakenOwes
  <2>3. running => xr.open = 0
    BY <2>1, OwedIsTaken DEF SecondOwed, Take
  <2>4. \/ rpc' = "idle"
        \/ job' = Head(queue) /\ submittedTicket' = Head(queue).ticket
    BY <1>2 DEF SubmitFirstEye, Return
  <2> QED
    BY <2>1, <2>2, <2>3, <2>4 DEF SecondOwed, OwesSecond, Second, EyePcs
<1>3. CASE SubmitPanel
  <2>1. Take(Panel) /\ UNCHANGED <<xr, running>> /\ rpc' \in {"idle"} \cup PanelPcs
    BY <1>3 DEF SubmitPanel, sessionVars, Return, PanelPcs
  <2>2. running => xr.open = 0
    BY <2>1, OwedIsTaken DEF SecondOwed, Take, Panel
  <2> QED
    BY <2>1, <2>2 DEF SecondOwed, EyePcs, PanelPcs
<1>4. CASE SubmitSecondEye
  <2>1. /\ UNCHANGED <<xr, running>> /\ Head(queue).into = 1
        /\ \/ rpc' = "idle" /\ ~(running /\ frameBegun)
           \/ rpc' = "eyeAcquire" /\ job' = Head(queue)
    BY <1>4 DEF SubmitSecondEye, sessionVars, Take, Return
  <2> QED
    BY <2>1 DEF SecondOwed, EyePcs, OpenInv
<1>5. CASE EyeWait \/ EyeBegin \/ EyeLocate \/ EyeAcquire \/ EyeCopy
  <2>1. /\ rpc \in EyePcs /\ UNCHANGED <<queue, epc, serial, submittedTicket, running>>
        /\ (rpc' \in EyePcs /\ job' = job) \/ rpc' = "idle"
    BY <1>5 DEF EyeWait, EyeBegin, EyeLocate, EyeAcquire, EyeCopy, TakeWait, TakeEngineWait,
                WaitHere, BeginFrame, AfterEye, Goto, Return, EyePcs, engineVars, sessionVars, eyeVars
  <2>2. rpc' = "idle" /\ xr'.open # 0 => job.into = 0
    <3>1. CASE EyeWait
      BY <3>1, XrParts
         DEF EyeWait, TakeWait, TakeEngineWait, WaitHere, XrWait, TypeInv, OpenInv, Opened, Goto
    <3>2. CASE EyeBegin
      BY <3>2, BeginsOrReturns DEF EyeBegin, OpenInv, Opened, TypeInv
    <3>3. CASE EyeLocate
      BY <3>3 DEF EyeLocate, OpenInv, Goto
    <3>4. CASE EyeAcquire \/ EyeCopy
      BY <3>4 DEF EyeAcquire, EyeCopy, AfterEye, Goto, Return
    <3> QED
      BY <1>5, <3>1, <3>2, <3>3, <3>4
  <2> QED
    BY <2>1, <2>2 DEF SecondOwed, OwesSecond, EyePcs
<1>6. CASE EyeEnd \/ MenuEnd
  BY <1>6, EndCloses DEF SecondOwed, EyePcs
<1>7. CASE PanelAcquire \/ PanelCopy \/ MenuWait \/ MenuBegin \/ MenuAcquire \/ MenuCopy
  <2>1. rpc' \in {"idle"} \cup PanelPcs
    BY <1>7 DEF PanelAcquire, PanelCopy, MenuWait, MenuBegin, MenuAcquire, MenuCopy, TakeWait,
                TakeEngineWait, WaitHere, BeginFrame, Goto, Return, PanelPcs
  <2>2. rpc' = "idle" => xr'.open = 0
    <3>1. CASE PanelAcquire \/ PanelCopy
      BY <3>1 DEF PanelAcquire, PanelCopy, OpenInv, Opened
    <3>2. CASE MenuWait
      BY <3>2, XrParts
         DEF MenuWait, TakeWait, TakeEngineWait, WaitHere, XrWait, TypeInv, OpenInv, Opened, Goto
    <3>3. CASE MenuBegin
      BY <3>3, BeginsOrReturns DEF MenuBegin, OpenInv, Opened, TypeInv
    <3>4. CASE MenuAcquire \/ MenuCopy
      BY <3>4 DEF MenuAcquire, MenuCopy, Goto
    <3> QED
      BY <1>7, <3>1, <3>2, <3>3, <3>4
  <2> QED
    BY <2>1, <2>2 DEF SecondOwed, PanelPcs, EyePcs
<1>8. CASE LoseCallback
  BY <1>8 DEF LoseCallback
<1>9. CASE UNCHANGED vars
  BY <1>9 DEF vars, callback, engineVars, eyeVars, sessionVars, SecondOwed, OwesSecond
<1> QED
  BY <1>1, <1>2, <1>3, <1>4, <1>5, <1>6, <1>7, <1>8, <1>9 DEF Next, Render

\* What is copied between the begin of a frame and its end is of one ticket.
LEMMA EyesKept ==
  ASSUME TypeInv, RuntimeInv, PanelInv, EyesInv, OpenInv, SecondOwed, [Next]_vars,
         ~PassesMayBeLost, Valid(frame) => frame.serial = submittedTicket
  PROVE  EyesInv'
<1>0. image \in [Swaps -> Tickets] /\ 0 \in Swaps /\ 1 \in Swaps /\ Panel \in Swaps
  BY DEF TypeInv, TypeOK, RuntimeTypes, Images, Swaps, Eyes
<1> USE DEF EyesInv
<1>1. CASE PollReady \/ EndSession \/ Teardown
  <2>1. xr'.open = 0
    BY <1>1, XrParts DEF PollReady, EndSession, Teardown, TypeInv
  <2> QED
    BY <2>1
<1>2. CASE PollStopping \/ PollInstanceLoss \/ SessionStart \/ SessionStop \/ StopWait \/
           SetLatency \/ WaitAndLocate
  BY <1>2 DEF PollStopping, PollInstanceLoss, SessionStart, SessionStop, StopWait, SetLatency,
              WaitAndLocate, callback, eyeVars, panelVars, Valid
<1>3. CASE XrWaitReturns
  <2>1. xr'.open = xr.open
    BY <1>3, XrParts DEF XrWaitReturns, XrWait, TypeInv
  <2> QED
    BY <1>3, <2>1 DEF XrWaitReturns, callback, eyeVars, panelVars, Valid
<1>4. CASE PublishFrameRecord \/ BeginMainRenderPass \/ BeginNextRenderPass
  BY <1>4 DEF PublishFrameRecord, BeginMainRenderPass, BeginNextRenderPass, callback, eyeVars,
              panelVars, Valid
<1>5. CASE SubmitPanel \/ SubmitFirstEye
  <2>1. xr.open # 0 => ~running
    BY <1>5, OwedIsTaken DEF SecondOwed, SubmitPanel, SubmitFirstEye, Panel, Take
  <2>2. CASE xr.open = 0
    BY <1>5, <2>2 DEF SubmitPanel, SubmitFirstEye
  <2>3. CASE ~running
    <3>1. /\ rpc = "idle" /\ rpc' = "idle"
          /\ UNCHANGED <<xr, frame, submittedTicket, image, released, eyesCopied, proj>>
      BY <1>5, <2>3 DEF SubmitPanel, SubmitFirstEye, Take, Return, eyeVars, panelVars
    <3> QED
      BY <3>1 DEF Valid
  <2> QED
    BY <2>1, <2>2, <2>3
<1>6. CASE SubmitSecondEye
  <2>1. proj' = proj \/ (proj' = [proj EXCEPT !.valid = FALSE] /\ proj'.of = proj.of)
    BY <1>6 DEF SubmitSecondEye, TypeInv, TypeOK, RenderTypes, Poses
  <2>2. eyesCopied' = eyesCopied \/ eyesCopied' = 0
    BY <1>6 DEF SubmitSecondEye
  <2>3. /\ rpc = "idle" /\ rpc' \in {"idle", "eyeAcquire"}
        /\ UNCHANGED <<xr, frame, submittedTicket, image, released>>
    BY <1>6 DEF SubmitSecondEye, Take, Return, panelVars
  <2> QED
    BY <2>1, <2>2, <2>3 DEF Valid
<1>7. CASE PanelAcquire \/ PanelCopy \/ MenuWait \/ EyeWait
  <2>1. xr.open = 0
    BY <1>7 DEF PanelAcquire, PanelCopy, MenuWait, EyeWait, OpenInv, Opened
  <2>2. xr'.open = 0
    BY <1>7, <2>1, XrParts
       DEF PanelAcquire, PanelCopy, MenuWait, EyeWait, TakeWait, TakeEngineWait, WaitHere, XrWait,
           TypeInv
  <2> QED
    BY <2>2
<1>8. CASE MenuBegin \/ EyeBegin
  <2>1. rpc' \in {"menuAcquire", "eyeLocate"} \/ xr'.open = 0
    BY <1>8, BeginsOrReturns DEF MenuBegin, EyeBegin, OpenInv, Opened, TypeInv
  <2> QED
    BY <2>1
<1>9. CASE MenuAcquire \/ MenuCopy
  BY <1>9 DEF MenuAcquire, MenuCopy, Goto
<1>10. CASE EyeLocate
  <2>1. Valid(frame) => proj'.of = frame.serial
    BY <1>10 DEF EyeLocate, Projection
  <2>2. eyesCopied' = 0 /\ UNCHANGED <<xr, frame>> /\ (rpc' = "eyeAcquire" \/ ~frameBegun)
    BY <1>10 DEF EyeLocate, Goto
  <2> QED
    BY <2>1, <2>2 DEF OpenInv, Valid
<1>11. CASE EyeAcquire
  <2>1. /\ rpc = "eyeAcquire" /\ rpc' \in {"idle", "eyeEnd", "eyeCopy"}
        /\ rpc' = "idle" => job.into = 0
        /\ rpc' = "eyeCopy" => job.ticket = submittedTicket /\ job' = job
        /\ UNCHANGED <<xr, frame, submittedTicket, image, released, eyesCopied, proj>>
    BY <1>11 DEF EyeAcquire, AfterEye, Goto, Return, eyeVars, panelVars
  <2>2. eyesCopied \in 0 .. 2 /\ eyesCopied <= job.into /\ job.into \in Eyes
    BY <2>1 DEF TypeInv, TypeOK, RenderTypes, EyeCount, EyePcs
  <2> QED
    BY <2>1, <2>2 DEF Valid, Eyes
<1>12. CASE EyeCopy
  <2>1. /\ rpc = "eyeCopy" /\ eyesCopied' = eyesCopied + 1
        /\ image' = [image EXCEPT ![job.into] = job.ticket] /\ released' = released \cup {job.into}
        /\ IF job.into = 0 THEN rpc' = "idle" ELSE rpc' = "eyeEnd" /\ job' = job
        /\ UNCHANGED <<xr, frame, submittedTicket, proj>>
    BY <1>12 DEF EyeCopy, AfterEye, Goto, Return
  <2>2. eyesCopied \in 0 .. 2 /\ eyesCopied <= job.into /\ job.into \in {0, 1}
    BY <2>1 DEF TypeInv, TypeOK, RenderTypes, EyeCount, EyePcs, Eyes
  <2> SUFFICES ASSUME xr.open # 0 PROVE EyesInv'
    BY <2>1
  <2>3. /\ job.ticket = submittedTicket /\ (Valid(frame) => proj.of = frame.serial)
        /\ eyesCopied = 1 => 0 \in released /\ image[0] = submittedTicket
    BY <2>1
  <2>4. CASE job.into = 0
    <3>1. eyesCopied' = 1 /\ image'[0] = submittedTicket /\ 0 \in released'
      BY <1>0, <2>1, <2>2, <2>3, <2>4
    <3> QED
      BY <2>1, <2>3, <2>4, <3>1 DEF Valid
  <2>5. CASE job.into = 1
    <3>1. image'[1] = submittedTicket /\ 1 \in released' /\ image'[0] = image[0]
      BY <1>0, <2>1, <2>3, <2>5
    <3>2. eyesCopied' \in {1, 2} /\ (eyesCopied' = 2 => eyesCopied = 1)
      BY <2>1, <2>2, <2>5
    <3> QED
      BY <2>1, <2>3, <2>5, <3>1, <3>2 DEF Valid, Eyes
  <2> QED
    BY <2>2, <2>4, <2>5
<1>13. CASE MenuEnd \/ EyeEnd
  BY <1>13, EndCloses
<1>14. CASE LoseCallback
  BY <1>14 DEF LoseCallback
<1>15. CASE UNCHANGED vars
  BY <1>15 DEF vars, callback, eyeVars, panelVars, Valid
<1> QED
  BY <1>1, <1>2, <1>3, <1>4, <1>5, <1>6, <1>7, <1>8, <1>9, <1>10, <1>11, <1>12, <1>13, <1>14, <1>15
     DEF Next, Engine, Render

-----------------------------------------------------------------------------
\* A record says what was decided under its ticket.
Recorded(rec) == Valid(rec) => rec.serial \in 1 .. serial /\ rec.mode = decided[rec.serial]

\* The records, in the ring and in the render thread's hands, are what was decided, and
\* are the ones of the callbacks that use them.
RecordInv ==
    /\ Len(decided) = serial
    /\ \A s \in 0 .. FrameRing - 1 : Recorded(ring[s])
    /\ Recorded(frame) /\ Recorded(panelFrame)
    /\ Valid(frame) => frame.serial = submittedTicket
    /\ rpc \in PanelPcs => panelFrame.serial = job.ticket
    /\ rpc \in PanelPcs \ {"panelAcquire", "panelCopy"} => MenuMode(panelFrame.mode)

\* Eyes are drawn for a world alone.
WorldInv ==
    /\ epc \in {"main", "eye0", "eye1"} => mode = decided[serial]
    /\ epc = "main" /\ running => mode.worldInEyes \/ mode.sheet
    /\ epc \in {"eye0", "eye1"} => mode.worldInEyes
    /\ \A i \in DOMAIN queue : queue[i].into \in Eyes => decided[queue[i].ticket].worldInEyes
    /\ rpc \in EyePcs => decided[job.ticket].worldInEyes

\* Whatever ReadFrameRecord returns was recorded, and for the ticket it was asked for.
LEMMA ReadsRecorded ==
  ASSUME TypeInv, RecordInv, NEW t \in Tickets
  PROVE  LET rec == ReadFrameRecord(t) IN Recorded(rec) /\ (Valid(rec) => rec.serial = t)
<1>1. t \in Nat
  BY BoundAssumption DEF Tickets
<1>2. Recorded(ring[Slot(t)])
  BY <1>1, SlotInRing DEF RecordInv
<1>3. ~Valid(NoRecord)
  BY DEF Valid, NoRecord
<1> QED
  BY <1>2, <1>3 DEF ReadFrameRecord, Recorded, Valid

\* The next decision is written down under the next ticket, and changes none before it.
LEMMA DecisionAppended ==
  ASSUME TypeInv, RecordInv, PublishFrameRecord
  PROVE  /\ serial \in Nat /\ serial' = serial + 1 /\ Len(decided') = serial'
         /\ decided'[serial'] = mode' /\ mode' \in Decisions
         /\ \A t \in 1 .. serial : decided'[t] = decided[t]
<1>1. decided \in Seq(Decisions) /\ serial \in Nat /\ Len(decided) = serial
  BY BoundAssumption DEF TypeInv, TypeOK, EngineTypes, Tickets, RecordInv
<1>2. serial' = serial + 1 /\ decided' = Append(decided, mode')
  BY DEF PublishFrameRecord
<1>3. mode' \in Decisions
  BY PublishTyped DEF TypeInv
<1> QED
  BY <1>1, <1>2, <1>3, AppendProperties

\* Records stay what was decided.
LEMMA RecordsKept == TypeInv /\ RecordInv /\ [Next]_vars => RecordInv'
<1> SUFFICES ASSUME TypeInv, RecordInv, [Next]_vars PROVE RecordInv'
  OBVIOUS
<1>1. CASE PublishFrameRecord
  <2>1. UNCHANGED <<rpc, job, panelFrame, frame, submittedTicket>>
    BY <1>1, EngineLeaves DEF Engine
  <2>2. ring' = [ring EXCEPT ![Slot(serial + 1)] =
                    [serial |-> serial + 1, mode |-> mode', rendered |-> viewsValid,
                     time |-> frameState, timed |-> lowLatency]]
    BY <1>1 DEF PublishFrameRecord
  <2>3. ring \in [0 .. FrameRing - 1 -> FrameRecords]
    BY DEF TypeInv, TypeOK, SharedTypes, Rings
  <2>4. \A rec : Recorded(rec) =>
            (Valid(rec) => rec.serial \in 1 .. serial' /\ rec.mode = decided'[rec.serial])
    BY <1>1, DecisionAppended DEF Recorded
  <2>5. \A s \in 0 .. FrameRing - 1 :
            Valid(ring'[s]) => /\ ring'[s].serial \in 1 .. serial'
                               /\ ring'[s].mode = decided'[ring'[s].serial]
    <3> SUFFICES ASSUME NEW s \in 0 .. FrameRing - 1
                 PROVE  Valid(ring'[s]) => /\ ring'[s].serial \in 1 .. serial'
                                           /\ ring'[s].mode = decided'[ring'[s].serial]
      OBVIOUS
    <3>1. CASE s = Slot(serial + 1)
      <4>1. ring'[s].serial = serial' /\ ring'[s].mode = mode'
        BY <1>1, <2>2, <2>3, <3>1, DecisionAppended
      <4> QED
        BY <1>1, <4>1, DecisionAppended
    <3>2. CASE s # Slot(serial + 1)
      BY <2>2, <2>3, <2>4, <3>2 DEF RecordInv
    <3> QED
      BY <3>1, <3>2
  <2> QED
    BY <1>1, <2>1, <2>4, <2>5, DecisionAppended DEF RecordInv, Recorded, Valid
<1>2. CASE Engine /\ ~PublishFrameRecord
  <2>1. UNCHANGED <<rpc, job, panelFrame, frame, submittedTicket>>
    BY <1>2, EngineLeaves
  <2>2. UNCHANGED <<serial, decided, ring>>
    BY <1>2, OthersDecideNothing
  <2> QED
    BY <2>1, <2>2 DEF RecordInv, Recorded, Valid
<1>3. CASE SubmitPanel
  <2> DEFINE rec == ReadFrameRecord(Head(queue).ticket)
  <2>1. Head(queue).ticket \in Tickets
    BY <1>3, QueueTyped, JobTyped DEF SubmitPanel, Take, TypeInv
  <2>2. Recorded(rec) /\ (Valid(rec) => rec.serial = Head(queue).ticket)
    BY <2>1, ReadsRecorded
  <2>3. UNCHANGED <<serial, decided, ring, frame, submittedTicket>>
    BY <1>3 DEF SubmitPanel, engineVars
  <2>4. \/ /\ Valid(rec) /\ job' = Head(queue) /\ panelFrame' = rec /\ rpc' # "idle"
           /\ rpc' \in {"panelAcquire", "panelCopy"} \/ MenuMode(rec.mode)
        \/ rpc' = "idle" /\ panelFrame' = NoRecord
    BY <1>3 DEF SubmitPanel, Return
  <2>5. Recorded(panelFrame')
    BY <2>2, <2>4 DEF NoRecord, Recorded, Valid
  <2> HIDE DEF rec
  <2> QED
    BY <2>2, <2>3, <2>4, <2>5 DEF RecordInv, Recorded, Valid, PanelPcs
<1>4. CASE SubmitFirstEye
  <2> DEFINE rec == ReadFrameRecord(Head(queue).ticket)
  <2>1. Head(queue).ticket \in Tickets
    BY <1>4, QueueTyped, JobTyped DEF SubmitFirstEye, Take, TypeInv
  <2>2. Recorded(rec) /\ (Valid(rec) => rec.serial = Head(queue).ticket)
    BY <2>1, ReadsRecorded
  <2>3. UNCHANGED <<serial, decided, ring>>
    BY <1>4 DEF SubmitFirstEye, engineVars
  <2>4. /\ \/ frame' = rec /\ submittedTicket' = Head(queue).ticket
           \/ UNCHANGED <<frame, submittedTicket>>
        /\ rpc' \in {"idle", "eyeWait"} /\ panelFrame' \in {panelFrame, NoRecord}
    BY <1>4 DEF SubmitFirstEye, Return
  <2> HIDE DEF rec
  <2> QED
    BY <2>2, <2>3, <2>4 DEF RecordInv, Recorded, Valid, PanelPcs, NoRecord
<1>5. CASE LoseCallback \/ SubmitSecondEye
  <2>1. /\ UNCHANGED <<serial, decided, ring, frame, submittedTicket>>
        /\ rpc' \in {"idle", "eyeAcquire"} /\ panelFrame' \in {panelFrame, NoRecord}
    BY <1>5 DEF LoseCallback, SubmitSecondEye, Take, Return, engineVars, eyeVars, callback
  <2> QED
    BY <2>1 DEF RecordInv, Recorded, Valid, PanelPcs, NoRecord
<1>6. CASE \/ PanelAcquire \/ PanelCopy
           \/ MenuWait \/ MenuBegin \/ MenuAcquire \/ MenuCopy \/ MenuEnd
           \/ EyeWait \/ EyeBegin \/ EyeLocate \/ EyeAcquire \/ EyeCopy \/ EyeEnd
  <2>1. UNCHANGED <<serial, decided, ring, frame, submittedTicket>>
    BY <1>6 DEF PanelAcquire, PanelCopy, MenuWait, MenuBegin, MenuAcquire, MenuCopy, MenuEnd,
                EyeWait, EyeBegin, EyeLocate, EyeAcquire, EyeCopy, EyeEnd, engineVars, eyeVars
  <2>2. \/ rpc' = "idle" /\ panelFrame' = NoRecord
        \/ /\ UNCHANGED <<job, panelFrame>>
           /\ \/ rpc' \in {"panelAcquire", "panelCopy"} /\ rpc \in PanelPcs
              \/ rpc' \in EyePcs
              \/ rpc \in PanelPcs \ {"panelAcquire", "panelCopy"}
    <3>1. CASE PanelAcquire \/ PanelCopy
      BY <3>1 DEF PanelAcquire, PanelCopy, Goto, Return, PanelPcs
    <3>2. CASE MenuWait \/ MenuBegin \/ MenuAcquire \/ MenuCopy \/ MenuEnd
      BY <3>2 DEF MenuWait, MenuBegin, MenuAcquire, MenuCopy, MenuEnd, TakeWait, TakeEngineWait,
                  WaitHere, BeginFrame, Goto, Return, PanelPcs
    <3>3. CASE EyeWait \/ EyeBegin \/ EyeLocate \/ EyeAcquire \/ EyeCopy \/ EyeEnd
      BY <3>3 DEF EyeWait, EyeBegin, EyeLocate, EyeAcquire, EyeCopy, EyeEnd, TakeWait,
                  TakeEngineWait, WaitHere, BeginFrame, AfterEye, Goto, Return, EyePcs
    <3> QED
      BY <1>6, <3>1, <3>2, <3>3
  <2> QED
    BY <2>1, <2>2 DEF RecordInv, Recorded, Valid, PanelPcs, EyePcs, NoRecord
<1>7. CASE UNCHANGED vars
  BY <1>7 DEF vars, engineVars, callback, eyeVars, RecordInv, Recorded, Valid
<1> QED
  BY <1>1, <1>2, <1>3, <1>4, <1>5, <1>6, <1>7 DEF Next, Render

\* An eye is announced for a world only, and its callback keeps the ticket.
LEMMA WorldKept ==
  ASSUME RingInv, RecordInv, WorldInv, [Next]_vars
  PROVE  WorldInv'
<1>0. queue \in Seq(Jobs) /\ serial \in Nat /\ TypeInv
  BY BoundAssumption DEF RingInv, TypeInv, TypeOK, SharedTypes, EngineTypes, Queues, Tickets
<1>1. CASE PublishFrameRecord
  <2>1. \A t \in InFlight : decided'[t] = decided[t]
    BY <1>0, <1>1, DecisionAppended DEF RingInv, InWindow
  <2>2. /\ epc' = "main" /\ mode' = decided'[serial'] /\ running' = running
        /\ running => mode'.worldInEyes \/ mode'.sheet
    <3>1. epc' = "main" /\ mode' \in Decided /\ running' = running
      BY <1>1 DEF PublishFrameRecord, sessionVars
    <3>2. running => mode'.worldInEyes \/ mode'.sheet
      BY <3>1 DEF Decided
    <3> QED
      BY <1>0, <1>1, <3>1, <3>2, DecisionAppended
  <2>3. UNCHANGED <<queue, rpc, job>>
    BY <1>1, EngineLeaves DEF Engine, PublishFrameRecord
  <2> QED
    BY <2>1, <2>2, <2>3 DEF WorldInv, InFlight, Queued, EyePcs
<1>2. CASE BeginMainRenderPass \/ BeginNextRenderPass
  <2>1. UNCHANGED <<rpc, job, decided, serial, mode, running>>
    BY <1>2 DEF BeginMainRenderPass, BeginNextRenderPass, callback, sessionVars
  <2>2. /\ epc' \in {"eye0", "eye1", "top"} /\ epc \in {"main", "eye0", "eye1"}
        /\ epc' # "top" => mode.worldInEyes
    BY <1>2 DEF BeginMainRenderPass, BeginNextRenderPass, WantsPasses, MenuMode, WorldInv
  <2>3. \A i \in DOMAIN queue' :
           queue'[i].into \in Eyes => decided[queue'[i].ticket].worldInEyes
    <3>1. CASE queue' = queue
      BY <3>1 DEF WorldInv
    <3>2. ASSUME NEW s, queue' = Append(queue, [into |-> s, ticket |-> serial]),
                 s \in Eyes => epc \in {"eye0", "eye1"}
          PROVE  \A i \in DOMAIN queue' :
                    queue'[i].into \in Eyes => decided[queue'[i].ticket].worldInEyes
      <4> SUFFICES ASSUME NEW i \in DOMAIN queue', queue'[i].into \in Eyes
                   PROVE  decided[queue'[i].ticket].worldInEyes
        OBVIOUS
      <4>1. (i \in DOMAIN queue /\ queue'[i] = queue[i]) \/ queue'[i] = [into |-> s, ticket |-> serial]
        BY <1>0, <3>2, PushedOnQueue DEF TypeInv
      <4> QED
        BY <3>2, <4>1 DEF WorldInv
    <3>3. Panel \notin Eyes
      BY DEF Panel, Eyes
    <3>4. CASE epc = "main" /\ queue' = Append(queue, [into |-> Panel, ticket |-> serial])
      BY <3>2, <3>3, <3>4
    <3>5. CASE epc = "eye0" /\ queue' = Append(queue, [into |-> 0, ticket |-> serial])
      BY <3>2, <3>5
    <3>6. CASE epc = "eye1" /\ queue' = Append(queue, [into |-> 1, ticket |-> serial])
      BY <3>2, <3>6
    <3> QED
      BY <1>0, <1>2, <3>1, <3>4, <3>5, <3>6, EngineQueues DEF TypeInv, Engine
  <2> QED
    BY <2>1, <2>2, <2>3 DEF WorldInv
<1>3. CASE \/ PollReady \/ PollStopping \/ EndSession \/ PollInstanceLoss
           \/ SessionStart \/ SessionStop \/ StopWait \/ SetLatency \/ Teardown
           \/ WaitAndLocate \/ XrWaitReturns
  <2>1. UNCHANGED <<queue, rpc, job, decided, serial, mode>>
    BY <1>3 DEF PollReady, PollStopping, EndSession, PollInstanceLoss, SessionStart, SessionStop,
                StopWait, SetLatency, Teardown, WaitAndLocate, XrWaitReturns, engineVars, callback
  <2>2. epc' \notin {"main", "eye0", "eye1"}
    BY <1>3 DEF PollReady, PollStopping, EndSession, PollInstanceLoss, SessionStart, SessionStop,
                StopWait, SetLatency, Teardown, WaitAndLocate, XrWaitReturns, engineVars
  <2> QED
    BY <2>1, <2>2 DEF WorldInv
<1>4. CASE Render
  <2>1. UNCHANGED <<epc, serial, mode, decided, running>>
    BY <1>4, RenderTurns
  <2>2. \A i \in DOMAIN queue' :
           queue'[i].into \in Eyes => decided[queue'[i].ticket].worldInEyes
    <3>1. CASE queue' = queue
      BY <3>1 DEF WorldInv
    <3>2. CASE queue # <<>> /\ queue' = Tail(queue)
      BY <1>0, <3>2, TailOfQueue DEF WorldInv, TypeInv
    <3> QED
      BY <1>4, <3>1, <3>2, RenderTurns
  <2>3. rpc' \in EyePcs => decided[job'.ticket].worldInEyes
    <3>1. CASE rpc # "idle"
      <4>1. rpc' = "idle" \/ (job' = job /\ (rpc' \in EyePcs => rpc \in EyePcs))
        <5>1. CASE PanelAcquire \/ PanelCopy \/ MenuWait \/ MenuBegin \/ MenuAcquire \/ MenuCopy \/ MenuEnd
          BY <5>1 DEF PanelAcquire, PanelCopy, MenuWait, MenuBegin, MenuAcquire, MenuCopy, MenuEnd,
                      TakeWait, TakeEngineWait, WaitHere, BeginFrame, Goto, Return, EyePcs
        <5>2. CASE EyeWait \/ EyeBegin \/ EyeLocate \/ EyeAcquire \/ EyeCopy \/ EyeEnd
          BY <1>4, <3>1, <5>2, RenderTurns DEF EyeWait, EyeBegin, EyeLocate, EyeAcquire, EyeCopy, EyeEnd, EyePcs
        <5>3. CASE LoseCallback \/ SubmitPanel \/ SubmitFirstEye \/ SubmitSecondEye
          BY <3>1, <5>3 DEF LoseCallback, SubmitPanel, SubmitFirstEye, SubmitSecondEye, Take
        <5> QED
          BY <1>4, <5>1, <5>2, <5>3 DEF Render
      <4> QED
        BY <4>1 DEF WorldInv, EyePcs
    <3>2. CASE rpc = "idle"
      <4>1. /\ queue # <<>> /\ queue' = Tail(queue)
            /\ rpc' = "idle" \/ job' = Head(queue)
        BY <1>4, <3>2, RenderTurns
      <4>2. rpc' \in EyePcs => Head(queue).into \in Eyes
        <5>1. CASE LoseCallback \/ SubmitPanel \/ SubmitFirstEye \/ SubmitSecondEye
          BY <3>2, <5>1 DEF LoseCallback, SubmitPanel, SubmitFirstEye, SubmitSecondEye, Take, Return,
                      EyePcs, Eyes, callback
        <5>2. CASE \/ PanelAcquire \/ PanelCopy
                   \/ MenuWait \/ MenuBegin \/ MenuAcquire \/ MenuCopy \/ MenuEnd
                   \/ EyeWait \/ EyeBegin \/ EyeLocate \/ EyeAcquire \/ EyeCopy \/ EyeEnd
          BY <3>2, <5>2 DEF PanelAcquire, PanelCopy, MenuWait, MenuBegin, MenuAcquire, MenuCopy,
                      MenuEnd, EyeWait, EyeBegin, EyeLocate, EyeAcquire, EyeCopy, EyeEnd
        <5> QED
          BY <1>4, <5>1, <5>2 DEF Render
      <4>3. Head(queue) = queue[1] /\ 1 \in DOMAIN queue
        BY <1>0, <4>1, TailOfQueue DEF TypeInv
      <4> QED
        BY <4>1, <4>2, <4>3 DEF WorldInv, EyePcs
    <3> QED
      BY <3>1, <3>2
  <2> QED
    BY <2>1, <2>2, <2>3 DEF WorldInv
<1>5. CASE UNCHANGED vars
  BY <1>5 DEF vars, engineVars, callback, sessionVars, WorldInv
<1> QED
  BY <1>1, <1>2, <1>3, <1>4, <1>5 DEF Next, Engine

-----------------------------------------------------------------------------
\* Callbacks are queued, run and shown in the order of their tickets.
OrderInv ==
    /\ shown.ticket <= serial
    /\ \A i \in DOMAIN queue : shown.ticket <= queue[i].ticket
    /\ \A i, j \in DOMAIN queue : i < j => queue[i].ticket <= queue[j].ticket
    /\ rpc # "idle" => /\ shown.ticket <= job.ticket
                       /\ \A i \in DOMAIN queue : job.ticket <= queue[i].ticket

\* A picture carries the ticket of the callback that ends it, and only an end shows one.
LEMMA ShownTicket ==
  ASSUME RecordInv, Render
  PROVE  shown' = shown \/ (shown'.ticket = job.ticket /\ rpc # "idle" /\ rpc' = "idle" /\ queue' = queue)
<1>1. CASE EyeEnd
  BY <1>1 DEF EyeEnd, XrEnd, Return
<1>2. CASE MenuEnd
  <2>1. panelFrame.serial = job.ticket
    BY <1>2 DEF MenuEnd, RecordInv, PanelPcs
  <2> QED
    BY <1>2, <2>1 DEF MenuEnd, XrEnd, Return
<1>3. CASE \/ LoseCallback \/ SubmitPanel \/ PanelAcquire \/ PanelCopy
           \/ MenuWait \/ MenuBegin \/ MenuAcquire \/ MenuCopy
           \/ SubmitFirstEye \/ EyeWait \/ EyeBegin \/ EyeLocate
           \/ SubmitSecondEye \/ EyeAcquire \/ EyeCopy
  BY <1>3 DEF LoseCallback, SubmitPanel, PanelAcquire, PanelCopy, MenuWait, MenuBegin, MenuAcquire,
              MenuCopy, SubmitFirstEye, EyeWait, EyeBegin, EyeLocate, SubmitSecondEye, EyeAcquire,
              EyeCopy
<1> QED
  BY <1>1, <1>2, <1>3 DEF Render

\* Tickets come out in the order in which they were given out.
LEMMA OrderKept ==
  ASSUME RingInv, RecordInv, OrderInv, [Next]_vars
  PROVE  OrderInv'
<1>0. /\ queue \in Seq(Jobs) /\ serial \in Nat /\ TypeInv
      /\ \A i \in DOMAIN queue : queue[i].ticket \in Nat /\ queue[i].ticket <= serial
      /\ rpc # "idle" => job.ticket \in Nat /\ job.ticket <= serial
      /\ shown.ticket \in Nat
  <2>1. TypeInv /\ queue \in Seq(Jobs) /\ serial \in Nat
    BY BoundAssumption DEF RingInv, TypeInv, TypeOK, SharedTypes, EngineTypes, Queues, Tickets
  <2>2. \A t \in InFlight : t \in Nat /\ t <= serial
    BY <2>1 DEF RingInv, InWindow
  <2>3. shown.ticket \in Nat
    BY <2>1, BoundAssumption DEF TypeInv, TypeOK, RuntimeTypes, Pictures, Tickets
  <2> QED
    BY <2>1, <2>2, <2>3 DEF InFlight, Queued
<1>1. CASE Engine
  <2>1. UNCHANGED <<rpc, job, shown>>
    BY <1>1, EngineLeaves
  <2>2. CASE queue' = queue
    <3>1. serial' = serial \/ serial' = serial + 1
      BY <1>1 DEF Engine, PollReady, PollStopping, EndSession, PollInstanceLoss, SessionStart,
                  SessionStop, StopWait, SetLatency, Teardown, WaitAndLocate, XrWaitReturns,
                  PublishFrameRecord, BeginMainRenderPass, BeginNextRenderPass, engineVars
    <3> QED
      BY <1>0, <2>1, <2>2, <3>1 DEF OrderInv
  <2>3. ASSUME NEW s, queue' = Append(queue, [into |-> s, ticket |-> serial]), serial' = serial
        PROVE  OrderInv'
    <3>1. /\ \A i \in DOMAIN queue : queue'[i] = queue[i]
          /\ queue'[Len(queue) + 1].ticket = serial
          /\ DOMAIN queue' = 1 .. Len(queue) + 1 /\ DOMAIN queue = 1 .. Len(queue)
          /\ Len(queue) \in Nat
      BY <1>0, <2>3, PushedOnQueue DEF TypeInv
    <3>2. \A i \in DOMAIN queue' : \/ i \in DOMAIN queue /\ queue'[i].ticket = queue[i].ticket
                                   \/ i = Len(queue) + 1 /\ queue'[i].ticket = serial
      BY <3>1
    <3>3. \A i \in DOMAIN queue' : shown.ticket <= queue'[i].ticket
      BY <3>2 DEF OrderInv
    <3>4. \A i, j \in DOMAIN queue' : i < j => queue'[i].ticket <= queue'[j].ticket
      <4> SUFFICES ASSUME NEW i \in DOMAIN queue', NEW j \in DOMAIN queue', i < j
                   PROVE  queue'[i].ticket <= queue'[j].ticket
        OBVIOUS
      <4>1. i \in DOMAIN queue /\ queue'[i].ticket = queue[i].ticket
        BY <3>1, <3>2
      <4>2. CASE j \in DOMAIN queue /\ queue'[j].ticket = queue[j].ticket
        BY <4>1, <4>2 DEF OrderInv
      <4>3. CASE queue'[j].ticket = serial
        BY <1>0, <4>1, <4>3
      <4> QED
        BY <3>2, <4>2, <4>3
    <3>5. rpc # "idle" => \A i \in DOMAIN queue' : job.ticket <= queue'[i].ticket
      BY <1>0, <3>2 DEF OrderInv
    <3> QED
      BY <2>1, <2>3, <3>3, <3>4, <3>5 DEF OrderInv
  <2> QED
    BY <1>0, <1>1, <2>2, <2>3, EngineQueues DEF TypeInv
<1>2. CASE Render
  <2>1. serial' = serial
    BY <1>2, RenderTurns
  <2>2. CASE queue # <<>> /\ queue' = Tail(queue)
    <3>1. rpc = "idle" /\ shown' = shown /\ (rpc' = "idle" \/ job' = Head(queue))
      <4>1. Len(queue') = Len(queue) - 1 /\ Len(queue) \in Nat
        BY <1>0, <2>2, TailOfQueue DEF TypeInv
      <4>2. queue' # queue
        BY <4>1
      <4> QED
        BY <1>2, <4>2, RenderTurns, ShownTicket
    <3>2. /\ Head(queue) = queue[1] /\ 1 \in DOMAIN queue
          /\ \A i \in DOMAIN queue' : i + 1 \in DOMAIN queue /\ queue'[i] = queue[i + 1]
          /\ DOMAIN queue \subseteq Nat \ {0} /\ DOMAIN queue' \subseteq Nat \ {0}
      <4>1. queue' \in Seq(Jobs)
        BY <1>0, <2>2, TailOfQueue DEF TypeInv
      <4> QED
        BY <1>0, <2>2, <4>1, TailOfQueue DEF TypeInv
    <3>3. \A i, j \in DOMAIN queue' : i < j => queue'[i].ticket <= queue'[j].ticket
      BY <3>2 DEF OrderInv
    <3>4. \A i \in DOMAIN queue' : /\ shown.ticket <= queue'[i].ticket
                                   /\ Head(queue).ticket <= queue'[i].ticket
      BY <3>2 DEF OrderInv
    <3> QED
      BY <2>1, <3>1, <3>2, <3>3, <3>4 DEF OrderInv
  <2>3. CASE queue' = queue /\ rpc # "idle"
    <3>1. rpc' = "idle" \/ (job' = job /\ shown' = shown)
      BY <1>2, <2>3, RenderTurns, ShownTicket
    <3>2. shown' = shown \/ shown'.ticket = job.ticket
      BY <1>2, ShownTicket
    <3> QED
      BY <1>0, <2>1, <2>3, <3>1, <3>2 DEF OrderInv
  <2> QED
    BY <1>2, <2>2, <2>3, RenderTurns
<1>3. CASE UNCHANGED vars
  BY <1>3 DEF vars, engineVars, callback, OrderInv
<1> QED
  BY <1>1, <1>2, <1>3 DEF Next

\* The inductive invariant of the picture.
PictureInv ==
    /\ RingInv /\ RuntimeInv /\ PassesPaired /\ SecondOwed /\ OpenInv
    /\ PanelInv /\ EyesInv /\ RecordInv /\ WorldInv /\ OrderInv

\* It holds of the initial state, in which nothing is queued, open or shown.
LEMMA PictureInit == Init => PictureInv
<1> SUFFICES ASSUME Init PROVE PictureInv
  OBVIOUS
<1>1. TypeInv /\ RingInv
  <2>1. InFlight = {}
    BY DEF Init, InFlight, Queued
  <2>2. HasTicket /\ RingHolds
    BY DEF Init, HasTicket, RingHolds
  <2> QED
    BY <2>1, <2>2, InitTyped DEF RingInv, InWindow
<1>2. RuntimeInv /\ OpenInv /\ SecondOwed /\ EyesInv
  BY DEF Init, NoXr, RuntimeInv, OpenInv, SecondOwed, EyesInv, EyePcs
<1>3. PassesPaired /\ PanelInv
  BY DEF Init, PassesPaired, PanelInv, PanelPcs
<1>4. RecordInv
  <2>1. \A s \in 0 .. FrameRing - 1 : ring[s] = NoRecord
    BY DEF Init
  <2> QED
    BY <2>1 DEF Init, RecordInv, Recorded, Valid, NoRecord, PanelPcs
<1>5. WorldInv /\ OrderInv
  BY DEF Init, WorldInv, OrderInv, EyePcs, HP!NoPicture
<1> QED
  BY <1>1, <1>2, <1>3, <1>4, <1>5 DEF PictureInv

\* When no pass is lost the invariant is inductive.
LEMMA PictureKept == PictureInv /\ ~PassesMayBeLost /\ [Next]_vars => PictureInv'
BY RingInductive, RuntimeKept, PairedKept, OwedKept, OpenKept, PanelKept, EyesKept, RecordsKept,
   WorldKept, OrderKept
   DEF PictureInv, RingInv, RecordInv

\* The picture that eye 1 ends its frame with is composed from one decision.
LEMMA EyeComposed ==
  ASSUME PictureInv, EyeEnd, xr.open # 0
  PROVE  shown' = shown \/ HP!Show
<1>1. CASE UNCHANGED shown
  BY <1>1
<1>2. CASE shown' # shown
  <2> DEFINE t == job.ticket
             p == [ticket |-> t, world |-> HaveWorld,
                   eyes    |-> IF HaveWorld THEN <<image[0], image[1]>> ELSE <<0, 0>>,
                   overlay |-> EyeOverlay,
                   panel   |-> IF EyeOverlay = "none" THEN 0 ELSE image[Panel],
                   aim     |-> IF HaveWorld /\ HaveCrosshair THEN frame.serial ELSE 0]
  <2>1. shown' = p /\ UNCHANGED decided /\ rpc = "eyeEnd"
    BY <1>2 DEF EyeEnd, XrEnd, engineVars
  <2>2. t \in 1 .. serial /\ DOMAIN decided = 1 .. serial /\ shown.ticket <= t
    <3>1. t \in InFlight
      BY <2>1 DEF InFlight
    <3>2. decided \in Seq(Decisions) /\ Len(decided) = serial
      BY DEF PictureInv, RingInv, TypeInv, TypeOK, EngineTypes, RecordInv
    <3> QED
      BY <2>1, <3>1, <3>2 DEF PictureInv, RingInv, InWindow, OrderInv
  <2>3. HaveWorld => image[0] = t /\ image[1] = t /\ t = submittedTicket
    BY <2>1 DEF PictureInv, EyesInv, HaveWorld
  <2>4. decided[t].worldInEyes
    BY <2>1 DEF PictureInv, WorldInv, EyePcs
  <2>5. HaveWorld /\ Valid(frame) => frame.serial = t /\ frame.mode = decided[t]
    BY <2>3 DEF PictureInv, RecordInv, Recorded
  <2>6. HavePanelImage => image[Panel] = frame.serial
    BY DEF PictureInv, PanelInv, HavePanelImage
  <2>7. EyeOverlay # "none" => HaveWorld /\ HavePanelImage
    BY DEF EyeOverlay, HaveSheet, HavePanel
  <2>8. EyeOverlay = "sheet" => decided[t].sheet /\ decided[t].placed /\ image[Panel] = t
    BY <2>5, <2>6, <2>7 DEF EyeOverlay, HaveSheet, HavePanelImage
  <2>9. EyeOverlay = "hud" => ~decided[t].sheet /\ image[Panel] = t
    BY <2>5, <2>6, <2>7 DEF EyeOverlay, HavePanel, HavePanelImage
  <2>10. HaveWorld /\ HaveCrosshair => ~decided[t].sheet /\ frame.serial = t
    BY <2>5 DEF HaveCrosshair
  <2>11. /\ p.ticket = t /\ p.world = HaveWorld /\ p.overlay = EyeOverlay
         /\ HaveWorld => p.eyes = <<image[0], image[1]>>
         /\ EyeOverlay # "none" => p.panel = image[Panel]
         /\ p.aim # 0 => HaveWorld /\ HaveCrosshair /\ p.aim = frame.serial
    OBVIOUS
  <2> HIDE DEF p, t
  <2>12. HP!Composed(p, t, decided[t])
    BY <2>3, <2>4, <2>7, <2>8, <2>9, <2>10, <2>11 DEF HP!Composed
  <2> QED
    BY <2>1, <2>2, <2>11, <2>12 DEF HP!Show
<1> QED
  BY <1>1, <1>2

\* So is the one the menu ends its frame with: there the game's window is all there is.
LEMMA MenuComposed ==
  ASSUME PictureInv, MenuEnd
  PROVE  shown' = shown \/ HP!Show
<1>1. CASE UNCHANGED shown
  BY <1>1
<1>2. CASE shown' # shown
  <2> DEFINE t == panelFrame.serial
             sheet == rpc = "menuEnd" /\ panelFrame.mode.sheet /\ panelFrame.mode.placed /\ chains
             p == [ticket |-> t, world |-> FALSE, eyes |-> <<0, 0>>,
                   overlay |-> IF sheet THEN "sheet" ELSE "none",
                   panel   |-> IF sheet THEN image[Panel] ELSE 0, aim |-> 0]
  <2>1. shown' = p /\ UNCHANGED decided /\ rpc \in {"menuEnd", "menuEndEmpty"}
    BY <1>2 DEF MenuEnd, XrEnd, engineVars
  <2>2. t = job.ticket /\ MenuMode(panelFrame.mode)
    BY <2>1 DEF PictureInv, RecordInv, PanelPcs
  <2>3. t \in 1 .. serial /\ DOMAIN decided = 1 .. serial /\ shown.ticket <= t
    <3>1. t \in InFlight
      BY <2>1, <2>2 DEF InFlight
    <3>2. decided \in Seq(Decisions) /\ Len(decided) = serial
      BY DEF PictureInv, RingInv, TypeInv, TypeOK, EngineTypes, RecordInv
    <3> QED
      BY <2>1, <2>2, <3>1, <3>2 DEF PictureInv, RingInv, InWindow, OrderInv
  <2>4. panelFrame.mode = decided[t]
    BY <2>3 DEF PictureInv, RecordInv, Recorded, Valid
  <2>5. sheet => decided[t].sheet /\ decided[t].placed /\ image[Panel] = t
    BY <2>2, <2>4 DEF PictureInv, PanelInv
  <2>6. decided[t].worldInEyes = FALSE
    <3>1. decided \in Seq(Decisions) /\ t \in DOMAIN decided
      BY <2>3 DEF PictureInv, RingInv, TypeInv, TypeOK, EngineTypes
    <3>2. decided[t] \in Decisions
      BY <3>1
    <3> QED
      BY <2>2, <2>4, <3>2 DEF MenuMode, Decisions
  <2>7. /\ p.ticket = t /\ p.world = FALSE /\ p.overlay # "hud" /\ p.aim = 0
        /\ p.overlay = "sheet" => sheet /\ p.panel = image[Panel]
    OBVIOUS
  <2> HIDE DEF p, t, sheet
  <2>8. HP!Composed(p, t, decided[t])
    BY <2>5, <2>6, <2>7 DEF HP!Composed
  <2> QED
    BY <2>1, <2>3, <2>7, <2>8 DEF HP!Show
<1> QED
  BY <1>1, <1>2

\* Only an end shows anything, and only publishing decides.
LEMMA StepImplements == PictureInv /\ [Next]_vars => [HP!Next]_(HP!vars)
<1> SUFFICES ASSUME PictureInv, [Next]_vars PROVE HP!Next \/ UNCHANGED <<decided, shown>>
  BY DEF HP!vars
<1>1. CASE PublishFrameRecord
  <2>1. mode' \in HP!Decision /\ decided' = Append(decided, mode') /\ shown' = shown
    BY <1>1, PublishTyped DEF PublishFrameRecord, PictureInv, RingInv, TypeInv, HP!Decision, Decisions
  <2> QED
    BY <2>1 DEF HP!Next, HP!Decide
<1>2. CASE EyeEnd
  <2>1. CASE xr.open # 0
    BY <1>2, <2>1, EyeComposed DEF HP!Next, EyeEnd, engineVars
  <2>2. CASE xr.open = 0
    BY <1>2, <2>2 DEF EyeEnd, XrEnd, engineVars
  <2> QED
    BY <2>1, <2>2
<1>3. CASE MenuEnd
  BY <1>3, MenuComposed DEF HP!Next, MenuEnd, engineVars
<1>4. CASE \/ LoseCallback \/ SubmitPanel \/ PanelAcquire \/ PanelCopy
           \/ MenuWait \/ MenuBegin \/ MenuAcquire \/ MenuCopy
           \/ SubmitFirstEye \/ EyeWait \/ EyeBegin \/ EyeLocate
           \/ SubmitSecondEye \/ EyeAcquire \/ EyeCopy
  BY <1>4 DEF LoseCallback, SubmitPanel, PanelAcquire, PanelCopy, MenuWait, MenuBegin, MenuAcquire,
              MenuCopy, SubmitFirstEye, EyeWait, EyeBegin, EyeLocate, SubmitSecondEye, EyeAcquire,
              EyeCopy, engineVars
<1>5. CASE Engine /\ ~PublishFrameRecord
  <2>1. shown' = shown
    BY <1>5, EngineLeaves
  <2>2. decided' = decided
    BY <1>5, OthersDecideNothing
  <2> QED
    BY <2>1, <2>2
<1>6. CASE UNCHANGED vars
  BY <1>6 DEF vars, engineVars
<1> QED
  BY <1>1, <1>2, <1>3, <1>4, <1>5, <1>6 DEF Next, Render

\* FramePipeline implements HeadsetPicture, as long as the game discards no pass: every
\* picture is composed from one decision, and none is shown out of order, whatever the
\* ring has lost and however often sessions end between two eyes.
THEOREM PictureImplemented == ASSUME ~PassesMayBeLost PROVE Spec => ShowsOneDecision
<1>1. Init => HP!Init
  BY DEF Init, HP!Init
<1>2. PictureInv /\ [Next]_vars => PictureInv'
  BY PictureKept
<1> QED
  BY <1>1, <1>2, PictureInit, StepImplements, PTL DEF Spec, ShowsOneDecision, HP!Spec

-----------------------------------------------------------------------------
(* One session.                                                            *)

\* Until the session is begun the render thread does nothing.  While it runs, a wait
\* that is not taken is outstanding and nobody is about to begin; whoever is about to
\* has one; and a frame that counts as begun is open.
SessionInv ==
    /\ begins = 0 => ~running /\ ~frameBegun /\ ~frameWaited /\ rpc = "idle"
    /\ running /\ frameWaited => xr.waited # 0 /\ rpc \notin Begins
    /\ running /\ rpc \in Begins => xr.waited # 0
    /\ running /\ (frameBegun \/ rpc \in Opened) => frameBegun /\ xr.open # 0

\* The invariant is kept, as long as the session is begun once.
LEMMA SessionKept ==
  ASSUME TypeInv, RuntimeInv, SessionInv, [Next]_vars, MaxBegins <= 1
  PROVE  SessionInv'
<1>0. begins \in Nat /\ MaxBegins \in Nat
  BY BoundAssumption DEF TypeInv, TypeOK, SharedTypes
<1> USE DEF SessionInv, Begins, Opened
<1>1. CASE PollReady
  <2>1. begins = 0
    BY <1>0, <1>1 DEF PollReady
  <2> QED
    BY <1>1, <2>1 DEF PollReady, callback
<1>2. CASE PollStopping \/ PollInstanceLoss \/ SessionStart \/ SessionStop \/ StopWait \/
           SetLatency \/ WaitAndLocate
  BY <1>2 DEF PollStopping, PollInstanceLoss, SessionStart, SessionStop, StopWait, SetLatency,
              WaitAndLocate, callback, sessionVars
<1>3. CASE EndSession \/ Teardown
  BY <1>3 DEF EndSession, Teardown, RuntimeInv, callback, sessionVars
<1>4. CASE XrWaitReturns
  <2>1. UNCHANGED <<running, begins, frameBegun, rpc>> /\ running
    BY <1>4 DEF XrWaitReturns, callback, sessionVars, RuntimeInv
  <2>2. \/ UNCHANGED <<xr, frameWaited>>
        \/ xr.waited = 0 /\ xr' = [xr EXCEPT !.waited = waits + 1]
    BY <1>4 DEF XrWaitReturns, XrWait
  <2>3. xr' = [xr EXCEPT !.waited = waits + 1] => xr'.waited # 0 /\ xr'.open = xr.open
    BY XrParts DEF TypeInv
  <2>4. begins # 0
    BY <2>1
  <2> QED
    BY <2>1, <2>2, <2>3, <2>4
<1>5. CASE PublishFrameRecord \/ BeginMainRenderPass \/ BeginNextRenderPass
  BY <1>5 DEF PublishFrameRecord, BeginMainRenderPass, BeginNextRenderPass, callback, sessionVars
<1>6. CASE LoseCallback \/ SubmitPanel \/ SubmitFirstEye \/ SubmitSecondEye
  BY <1>6 DEF LoseCallback, SubmitPanel, SubmitFirstEye, SubmitSecondEye, Take, Return, callback,
              sessionVars
<1>7. CASE PanelAcquire \/ PanelCopy \/ MenuAcquire \/ MenuCopy
  BY <1>7 DEF PanelAcquire, PanelCopy, MenuAcquire, MenuCopy, Goto, Return, sessionVars
<1>8. CASE MenuWait \/ EyeWait
  <2>1. UNCHANGED <<running, begins, frameBegun>> /\ rpc \notin {"idle"} \cup Opened
    BY <1>8 DEF MenuWait, EyeWait, sessionVars
  <2>2. \/ UNCHANGED <<xr, frameWaited>> /\ rpc' = "idle"
        \/ frameWaited /\ ~frameWaited' /\ xr' = xr /\ rpc' \in Begins
        \/ /\ xr.waited = 0 /\ xr' = [xr EXCEPT !.waited = waits + 1]
           /\ frameWaited' = frameWaited /\ rpc' \in Begins
    BY <1>8 DEF MenuWait, EyeWait, TakeWait, TakeEngineWait, WaitHere, XrWait, Goto, Return
  <2>3. xr' = [xr EXCEPT !.waited = waits + 1] => xr'.waited # 0 /\ xr'.open = xr.open
    BY XrParts DEF TypeInv
  <2> QED
    BY <2>1, <2>2, <2>3
<1>9. CASE MenuBegin \/ EyeBegin
  <2>1. UNCHANGED <<running, begins, frameWaited>> /\ rpc \in Begins
    BY <1>9 DEF MenuBegin, EyeBegin, sessionVars
  <2>2. \/ /\ xr.waited # 0 /\ xr' = [xr EXCEPT !.waited = 0, !.open = xr.waited]
           /\ frameBegun' = TRUE /\ rpc' \in Opened
        \/ xr'.waited = xr.waited /\ xr'.open = xr.open /\ frameBegun' = frameBegun /\ rpc' = "idle"
    BY <1>9, BeginsOrReturns DEF Begins, TypeInv
  <2>3. xr' = [xr EXCEPT !.waited = 0, !.open = xr.waited] => xr'.open = xr.waited
    BY XrParts DEF TypeInv
  <2> QED
    BY <2>1, <2>2, <2>3
<1>10. CASE MenuEnd \/ EyeEnd
  <2>1. /\ UNCHANGED <<running, begins, frameWaited>> /\ rpc \in Opened /\ rpc' = "idle"
        /\ frameBegun' = FALSE
    BY <1>10 DEF MenuEnd, EyeEnd, Return, sessionVars
  <2>2. xr'.waited = xr.waited
    BY <1>10, XrParts DEF MenuEnd, EyeEnd, XrEnd, TypeInv
  <2> QED
    BY <2>1, <2>2
<1>11. CASE EyeLocate \/ EyeAcquire \/ EyeCopy
  BY <1>11 DEF EyeLocate, EyeAcquire, EyeCopy, AfterEye, Goto, Return, sessionVars
<1>12. CASE UNCHANGED vars
  BY <1>12 DEF vars, callback, sessionVars
<1> QED
  BY <1>1, <1>2, <1>3, <1>4, <1>5, <1>6, <1>7, <1>8, <1>9, <1>10, <1>11, <1>12
     DEF Next, Engine, Render

\* It holds before the first session.
LEMMA SessionInit == Init => SessionInv
BY DEF Init, SessionInv, Begins, Opened

\* "One wait per begin, always": whoever is about to begin a frame has a wait outstanding
\* that nobody else will begin, in either arrangement and whatever passes are lost, as long
\* as the session is begun once.
THEOREM BeginsMatched == ASSUME MaxBegins <= 1 PROVE Spec => []BeginHasItsWait
<1>1. SessionInv => BeginHasItsWait
  BY DEF SessionInv, BeginHasItsWait, Begins
<1>2. TypeInv /\ RuntimeInv /\ SessionInv /\ [Next]_vars => SessionInv'
  BY SessionKept
<1> QED
  BY <1>1, <1>2, SessionInit, RuntimeInvariant, TypeInvariant, PTL DEF Spec

\* In a session that is begun once and loses no pass, both invariants hold together.
LEMMA SessionPictures ==
  ASSUME MaxBegins <= 1, ~PassesMayBeLost
  PROVE  Spec => [](PictureInv /\ SessionInv)
<1>1. PictureInv /\ [Next]_vars => PictureInv'
  BY PictureKept
<1>2. TypeInv /\ RuntimeInv /\ SessionInv /\ [Next]_vars => SessionInv'
  BY SessionKept
<1> QED
  BY <1>1, <1>2, PictureInit, SessionInit, RuntimeInvariant, TypeInvariant, PTL DEF Spec

\* While a session that was begun once runs, no frame is ended with a layer the runtime
\* must refuse: swapchains are made anew only where nothing of them is counted as copied.
THEOREM LayersReleased ==
  ASSUME MaxBegins <= 1, ~PassesMayBeLost PROVE Spec => []LayersAreReleased
<1>1. PictureInv /\ SessionInv => LayersAreReleased
  BY LayersThere DEF PictureInv, RingInv, SessionInv, LayersAreReleased, Opened
<1> QED
  BY <1>1, SessionPictures, PTL

\* There the poses that are reported with a world are those its two images were drawn
\* from, unless the record was lost, and then there is no crosshair.
THEOREM PosesBelong ==
  ASSUME MaxBegins <= 1, ~PassesMayBeLost PROVE Spec => []PosesBelongToTheImages
<1>1. PictureInv /\ SessionInv => PosesBelongToTheImages
  <2> SUFFICES ASSUME PictureInv, SessionInv, rpc = "eyeEnd", HaveWorld, running
               PROVE  /\ Valid(frame) => /\ proj.of = job.ticket
                                         /\ image[0] = proj.of /\ image[1] = proj.of
                      /\ HaveCrosshair => Valid(frame)
    BY DEF PosesBelongToTheImages
  <2>1. xr.open # 0 /\ eyesCopied = 2
    BY DEF SessionInv, Opened, HaveWorld
  <2>2. /\ image[0] = submittedTicket /\ image[1] = submittedTicket /\ job.ticket = submittedTicket
        /\ Valid(frame) => proj.of = frame.serial
    BY <2>1 DEF PictureInv, EyesInv
  <2>3. Valid(frame) => frame.serial = submittedTicket
    BY DEF PictureInv, RecordInv
  <2> QED
    BY <2>2, <2>3 DEF HaveCrosshair
<1> QED
  BY <1>1, SessionPictures, PTL
=============================================================================
