------------------------ MODULE SessionLifecycleProofs ------------------------
(***************************************************************************)
(* What TLAPS proves of SessionLifecycle: for every number of attempts,    *)
(* frames, swapchains and sessions, and every depth of the runtime's       *)
(* events.                                                                 *)
(*                                                                         *)
(* None of the properties is inductive.  That a session which is gone has  *)
(* nothing left rests on what the runtime may still say of it; that the    *)
(* autostart rests for a reason, on how handles are numbered; and that no  *)
(* swapchain is forgotten, on the first one standing for all of them.      *)
(***************************************************************************)
EXTENDS SessionLifecycle, FiniteSetTheorems, SequenceTheorems, TLAPS

Types ==
    /\ instance \in Nat /\ instances \in Nat /\ session \in Nat /\ sessions \in Nat
    /\ attached \in BOOLEAN /\ running \in BOOLEAN /\ done \in BOOLEAN /\ lost \in BOOLEAN
    /\ attempts \in Nat /\ rearms \in Nat
    /\ xr \in [state : SessionStates, begun : BOOLEAN, actions : BOOLEAN]
    /\ events \in Seq(SessionStates \cup {"LOST"})

\* A session that is gone has no events, and the runtime says once that it goes away.
EventsInv ==
    /\ session = Null => xr = NoSession /\ \A k \in 1 .. Len(events) : events[k] = "LOST"
    /\ \A k \in 1 .. Len(events) : events[k] = "LOST" => lost

\* Handles are counted up, and the first session is the first to attach anything.
CountInv ==
    /\ session <= sessions
    /\ attached => sessions > 0

\* The first swapchain stands for all that were made.
ChainInv ==
    /\ \E n \in 0 .. ChainCount : chains = 0 .. (n - 1)
    /\ SwapchainsAreKnown

\* An autostart that has not come to rest has an attempt left.
TryInv ==
    /\ ~done => attempts < MaxAttempts + rearms
    /\ TriesWhileItShould

SessionInv ==
    /\ Types /\ EventsInv /\ CountInv /\ ChainInv /\ TryInv
    /\ HandlesAreOfTheSession /\ BegunOnBothSides /\ FirstSessionHasItsControllers

-----------------------------------------------------------------------------
\* An instance is made with a number that is not the null handle, and one that is there stays.
LEMMA InstanceStarted ==
  ASSUME Types, StartInstance
  PROVE  instance' \in Nat /\ instances' \in Nat /\ (instance # Null => instance' = instance)
<1>1. instance' \in Instances(loader')
      /\ instances' = (IF instance' > instances THEN instance' ELSE instances)
  BY DEF StartInstance
<1>2. instance \in Nat /\ instances \in Nat /\ instances + 1 \in Nat /\ Null \in Nat
  BY DEF Types, Null
<1>3. CASE instance # Null
  BY <1>1, <1>2, <1>3 DEF Instances
<1>4. CASE instance = Null
  <2>1. instance' = Null \/ instance' = instances + 1
    BY <1>1, <1>4 DEF Instances
  <2> QED
    BY <1>1, <1>2, <1>4, <2>1
<1> QED
  BY <1>3, <1>4

\* A session is made with a number that is not the null handle.
LEMMA Started ==
  ASSUME Types, CountInv, HandlesAreOfTheSession, SessionStart
  PROVE  /\ instance' \in Nat /\ instances' \in Nat /\ (instance # Null => instance' = instance)
         /\ \/ UNCHANGED <<session, space, attached, sessions, xr>>
            \/ /\ session = Null /\ instance' # Null
               /\ session' = sessions + 1 /\ space' = session' /\ sessions' = session'
               /\ \/ UNCHANGED attached /\ attached /\ xr' = NoSession
                  \/ \E ok \in BOOLEAN : /\ ~attached /\ attached' = ok
                                         /\ xr' = [NoSession EXCEPT !.actions = ok]
<1>2. instance' \in Nat /\ instances' \in Nat /\ (instance # Null => instance' = instance)
  BY InstanceStarted DEF SessionStart
<1>3. CASE UNCHANGED <<session, space, attached, sessions, xr>>
  BY <1>2, <1>3
<1>4. CASE ~(UNCHANGED <<session, space, attached, sessions, xr>>)
  <2>1. instance' # Null /\ session = Null
    BY <1>4 DEF SessionStart
  <2>2. PICK made \in CreateSession :
          /\ session' = made.session /\ space' = made.space
          /\ sessions' = IF made.space = Null THEN sessions ELSE made.space
          /\ IF made.session = Null
               THEN UNCHANGED <<actionSet, attached, xr>>
               ELSE actionSet' \in CreateActions /\ AttachActions
    BY <2>1 DEF SessionStart
  <2>3. CASE made = [session |-> Null, space |-> Null]
    <3>1. session' = Null /\ space' = Null /\ sessions' = sessions /\ UNCHANGED <<attached, xr>>
      BY <2>2, <2>3
    <3> QED
      BY <1>4, <2>1, <3>1 DEF HandlesAreOfTheSession
  <2>4. CASE made = [session |-> sessions + 1, space |-> sessions + 1]
    <3>1. session' = sessions + 1 /\ space' = session' /\ sessions' = session' /\ AttachActions
      BY <2>2, <2>4 DEF Types, Null
    <3>2. \/ UNCHANGED attached /\ attached /\ xr' = NoSession
          \/ \E ok \in BOOLEAN : ~attached /\ attached' = ok /\ xr' = [NoSession EXCEPT !.actions = ok]
      BY <3>1, Zenon DEF AttachActions
    <3> QED
      BY <1>2, <2>1, <3>1, <3>2
  <2> QED
    BY <2>2, <2>3, <2>4 DEF CreateSession
<1> QED
  BY <1>3, <1>4

\* A start leaves the invariant's part on the session as it was.
LEMMA StartKeeps ==
  ASSUME Types, CountInv, EventsInv, HandlesAreOfTheSession, BegunOnBothSides,
         FirstSessionHasItsControllers,
         SessionStart, UNCHANGED <<state, running, swap, lost, events>>
  PROVE  /\ instance' \in Nat /\ instances' \in Nat /\ session' \in Nat /\ sessions' \in Nat
         /\ attached' \in BOOLEAN
         /\ xr' \in [state : SessionStates, begun : BOOLEAN, actions : BOOLEAN]
         /\ (session' # Null => sessions' > 0) /\ sessions <= sessions'
         /\ CountInv' /\ EventsInv' /\ HandlesAreOfTheSession' /\ BegunOnBothSides'
         /\ FirstSessionHasItsControllers'
<1>1. CASE UNCHANGED <<session, space, attached, sessions, xr>>
  <2>1. /\ session' = session /\ space' = space /\ sessions' = sessions /\ xr' = xr
        /\ attached' = attached /\ running' = running /\ state' = state /\ lost' = lost
        /\ events' = events /\ chains' = chains
    BY <1>1 DEF swap
  <2>2. instance' \in Nat /\ instances' \in Nat /\ (instance # Null => instance' = instance)
    BY Started
  <2>3. HandlesAreOfTheSession'
    BY <2>1, <2>2 DEF HandlesAreOfTheSession
  <2>4. CountInv' /\ EventsInv' /\ BegunOnBothSides' /\ FirstSessionHasItsControllers'
    BY <2>1 DEF CountInv, EventsInv, BegunOnBothSides, FirstSessionHasItsControllers
  <2>5. session # Null => sessions > 0
    BY DEF Types, CountInv, Null
  <2> QED
    BY <2>1, <2>2, <2>3, <2>4, <2>5 DEF Types
<1>2. CASE /\ session = Null /\ instance' # Null
           /\ session' = sessions + 1 /\ space' = session' /\ sessions' = session'
           /\ \/ UNCHANGED attached /\ attached /\ xr' = NoSession
              \/ \E ok \in BOOLEAN : /\ ~attached /\ attached' = ok
                                     /\ xr' = [NoSession EXCEPT !.actions = ok]
  <2>1. PICK ok \in BOOLEAN : xr' = [state |-> "UNKNOWN", begun |-> FALSE, actions |-> ok]
    BY <1>2 DEF NoSession
  <2>2. xr' \in [state : SessionStates, begun : BOOLEAN, actions : BOOLEAN] /\ xr'.begun = FALSE
    BY <2>1 DEF SessionStates
  <2>3. attached' \in BOOLEAN /\ (attached' /\ ~attached => xr'.actions)
    BY <1>2 DEF NoSession, Types
  <2>4. instance' \in Nat /\ instances' \in Nat
    BY Started
  <2>5. /\ session' \in Nat /\ sessions' \in Nat /\ session' > 0 /\ sessions <= sessions'
        /\ session' = 1 => sessions = 0
    BY <1>2 DEF Types
  <2>6. CountInv' /\ EventsInv'
    <3>1. CountInv'
      BY <1>2, <2>5 DEF CountInv
    <3>2. EventsInv'
      BY <1>2, <2>5 DEF EventsInv, Null
    <3> QED
      BY <3>1, <3>2
  <2>7. HandlesAreOfTheSession' /\ BegunOnBothSides'
    BY <1>2, <2>2, <2>5 DEF HandlesAreOfTheSession, BegunOnBothSides, Null
  <2>8. FirstSessionHasItsControllers'
    <3>1. CASE attached
      <4>1. sessions > 0
        BY <3>1 DEF CountInv
      <4>2. session' # 1
        BY <2>5, <4>1
      <4> QED
        BY <4>2 DEF FirstSessionHasItsControllers
    <3>2. CASE ~attached
      BY <2>3, <3>2 DEF FirstSessionHasItsControllers
    <3> QED
      BY <3>1, <3>2
  <2> QED
    BY <1>2, <2>2, <2>3, <2>4, <2>5, <2>6, <2>7, <2>8
<1> QED
  BY <1>1, <1>2, Started

\* What a stop leaves is no session.
LEMMA StopLeavesNothing ==
  ASSUME SessionInv, SessionStop
  PROVE  /\ session' = Null /\ space' = Null /\ state' = "UNKNOWN" /\ running' = FALSE /\ xr' = NoSession
         /\ ChainInv' /\ chains' = {}
         /\ xr' \in [state : SessionStates, begun : BOOLEAN, actions : BOOLEAN]
<1>1. /\ session' = Null /\ space' = Null /\ state' = "UNKNOWN" /\ running' = FALSE
      /\ xr' = NoSession /\ chains' = {} /\ chainSize' = 0 /\ live' = live - Cardinality(chains)
  BY DEF SessionStop, DestroySwapchains
<1>2. live' = 0
  <2>1. PICK n \in 0 .. ChainCount : chains = 0 .. (n - 1)
    BY DEF SessionInv, ChainInv
  <2>2. Cardinality(chains) \in Nat
    BY <2>1, FS_Interval, FS_CardinalityType, SizeAssumption
  <2> QED
    BY <1>1, <2>2 DEF SessionInv, ChainInv, SwapchainsAreKnown
<1>3. 0 \in 0 .. ChainCount /\ 0 .. (0 - 1) = {}
  BY SizeAssumption
<1>4. ChainInv'
  BY <1>1, <1>2, <1>3, FS_EmptySet DEF ChainInv, SwapchainsAreKnown
<1>5. NoSession \in [state : SessionStates, begun : BOOLEAN, actions : BOOLEAN]
  BY DEF NoSession, SessionStates
<1> QED
  BY <1>1, <1>4, <1>5

LEMMA AfterStop ==
  ASSUME SessionInv, session' = Null, space' = Null, state' = "UNKNOWN", running' = FALSE,
         xr' = NoSession, ChainInv', chains' = {},
         xr' \in [state : SessionStates, begun : BOOLEAN, actions : BOOLEAN],
         events' \in Seq(SessionStates \cup {"LOST"}), EventsInv',
         instance' \in Nat, lost' \in BOOLEAN,
         UNCHANGED <<instances, sessions, attached, done, attempts, rearms>>
  PROVE  SessionInv'
<1>1. Types /\ CountInv /\ TryInv
  BY DEF SessionInv
<1>2. Types'
  BY <1>1 DEF Types, Null
<1>3. CountInv' /\ TryInv'
  BY <1>1 DEF CountInv, TryInv, TriesWhileItShould, RestsForAReason, AttemptsAreBounded, Types, Null
<1>4. HandlesAreOfTheSession'
  BY DEF HandlesAreOfTheSession
<1>5. BegunOnBothSides' /\ FirstSessionHasItsControllers'
  BY DEF BegunOnBothSides, FirstSessionHasItsControllers, NoSession, Null
<1> QED
  BY <1>2, <1>3, <1>4, <1>5 DEF SessionInv

-----------------------------------------------------------------------------
\* The runtime's events, one of them read.
LEMMA PollKeeps ==
  ASSUME SessionInv, PollEvent
  PROVE  SessionInv'
<1> DEFINE e == Head(events)
<1>1. /\ Types /\ EventsInv /\ CountInv /\ ChainInv /\ TryInv
      /\ HandlesAreOfTheSession /\ BegunOnBothSides /\ FirstSessionHasItsControllers
  BY DEF SessionInv
<1>2. /\ events # <<>> /\ events' = Tail(events)
      /\ UNCHANGED <<handles, swap, auto, lost>>
      /\ state' = IF e = "LOST" THEN state ELSE e
  BY DEF PollEvent
<1>3. PICK begun \in {FALSE, e = "READY" /\ ~running /\ xr.state = "READY" /\ ~lost} :
         /\ running' = RunsAfter(e, begun)
         /\ xr' = [xr EXCEPT !.begun = (@ \/ begun) /\ ~(e = "STOPPING" /\ running)]
  BY Zenon DEF PollEvent
<1>4. /\ e = events[1] /\ e \in SessionStates \cup {"LOST"} /\ Len(events) \in Nat \ {0}
      /\ events' \in Seq(SessionStates \cup {"LOST"}) /\ Len(events') = Len(events) - 1
      /\ \A k \in 1 .. Len(events') : events'[k] = events[k + 1]
  BY <1>1, <1>2, HeadTailProperties DEF Types
<1>5. e = "LOST" => lost
  BY <1>1, <1>4 DEF EventsInv
<1>6. session = Null => e = "LOST" /\ ~running
  BY <1>1, <1>4 DEF EventsInv, HandlesAreOfTheSession
<1>7. /\ xr' \in [state : SessionStates, begun : BOOLEAN, actions : BOOLEAN]
      /\ xr'.actions = xr.actions
      /\ xr'.begun = ((xr.begun \/ begun) /\ ~(e = "STOPPING" /\ running))
      /\ xr'.state = xr.state
  BY <1>1, <1>3 DEF Types
<1> HIDE DEF e
<1>8. running' \in BOOLEAN /\ begun \in BOOLEAN
  BY <1>1, <1>3 DEF RunsAfter, Types
<1>9. Types'
  BY <1>1, <1>2, <1>4, <1>7, <1>8 DEF Types, handles, auto
<1>10. session = Null => xr' = xr /\ ~running'
  <2> SUFFICES ASSUME session = Null PROVE xr' = xr /\ ~running'
    OBVIOUS
  <2>1. e = "LOST" /\ ~running /\ begun = FALSE
    BY <1>3, <1>6
  <2>2. ~running'
    BY <1>3, <2>1 DEF RunsAfter
  <2>3. xr' = xr
    <3>1. xr = NoSession /\ xr.begun = FALSE
      BY <1>1 DEF EventsInv, NoSession
    <3>2. xr'.begun = FALSE
      BY <1>7, <2>1, <3>1
    <3>3. xr' = [state |-> xr'.state, begun |-> xr'.begun, actions |-> xr'.actions]
      BY <1>7
    <3> QED
      BY <1>7, <3>1, <3>2, <3>3 DEF NoSession
  <2> QED
    BY <2>2, <2>3
<1>11. EventsInv'
  <2>1. \A k \in 1 .. Len(events') : k + 1 \in 1 .. Len(events) /\ events'[k] = events[k + 1]
    BY <1>4
  <2> QED
    BY <1>1, <1>2, <1>10, <2>1 DEF EventsInv, handles
<1>12. HandlesAreOfTheSession'
  <2>1. session = Null => state' = state
    BY <1>2, <1>6
  <2> QED
    BY <1>1, <1>2, <1>10, <2>1 DEF HandlesAreOfTheSession, handles, swap
<1>13. BegunOnBothSides'
  <2> SUFFICES ASSUME ~lost PROVE running' <=> xr'.begun
    BY <1>2 DEF BegunOnBothSides
  <2>1. e # "LOST" /\ (running <=> xr.begun)
    BY <1>1, <1>5 DEF BegunOnBothSides
  <2>2. CASE e = "STOPPING"
    <3>1. begun = FALSE
      BY <1>3, <2>2
    <3> QED
      BY <1>3, <1>7, <2>1, <2>2, <3>1 DEF RunsAfter
  <2>3. CASE e # "STOPPING"
    BY <1>3, <1>7, <2>1, <2>3 DEF RunsAfter
  <2> QED
    BY <2>2, <2>3
<1>14. FirstSessionHasItsControllers' /\ CountInv'
  BY <1>1, <1>2, <1>7 DEF FirstSessionHasItsControllers, CountInv, handles
<1>15. ChainInv' /\ TryInv'
  BY <1>1, <1>2 DEF ChainInv, SwapchainsAreKnown, TryInv, TriesWhileItShould, RestsForAReason,
                    AttemptsAreBounded, handles, swap, auto
<1> QED
  BY <1>9, <1>11, <1>12, <1>13, <1>14, <1>15 DEF SessionInv

\* The render thread's swapchains.
LEMMA EnsureKeeps ==
  ASSUME SessionInv, EnsureSwapchains
  PROVE  SessionInv'
<1>1. /\ Types /\ EventsInv /\ CountInv /\ ChainInv /\ TryInv
      /\ HandlesAreOfTheSession /\ BegunOnBothSides /\ FirstSessionHasItsControllers
  BY DEF SessionInv
<1>2. running /\ UNCHANGED <<epc, handles, state, running, refused, auto, runtime, game>>
  BY DEF EnsureSwapchains
<1>3. PICK size \in Sizes, made \in 0 .. ChainCount, whole \in BOOLEAN :
         /\ whole => made = ChainCount
         /\ chains' = 0 .. (made - 1)
         /\ chainSize' = IF whole THEN size ELSE 0
         /\ live' = live - (IF HasChains THEN Cardinality(chains) ELSE 0) + made
  BY DEF EnsureSwapchains
<1>4. PICK n \in 0 .. ChainCount : chains = 0 .. (n - 1)
  BY <1>1 DEF ChainInv
<1>5. n \in Nat /\ made \in Nat /\ Cardinality(chains) = n /\ Cardinality(0 .. (made - 1)) = made
  <2>1. n \in Nat /\ made \in Nat
    BY SizeAssumption
  <2>2. \A m \in Nat : Cardinality(0 .. (m - 1)) = m
    <3> TAKE m \in Nat
    <3>1. m - 1 \in Int /\ 0 \in Int
      OBVIOUS
    <3>2. Cardinality(0 .. (m - 1)) = IF 0 > m - 1 THEN 0 ELSE (m - 1) - 0 + 1
      BY <3>1, FS_Interval
    <3> QED
      BY <3>2
  <2> QED
    BY <1>4, <2>1, <2>2
<1>6. live' = made
  <2>1. live = n
    BY <1>1, <1>5 DEF ChainInv, SwapchainsAreKnown
  <2>2. CASE HasChains
    BY <1>3, <1>5, <2>1, <2>2
  <2>3. CASE ~HasChains
    <3>1. n = 0
      BY <1>4, <1>5, <2>3 DEF HasChains
    <3> QED
      BY <1>3, <1>5, <2>1, <2>3, <3>1
  <2> QED
    BY <2>2, <2>3
<1>7. ChainInv'
  BY <1>3, <1>5, <1>6 DEF ChainInv, SwapchainsAreKnown, Eyes
<1>8. session # Null
  BY <1>1, <1>2 DEF HandlesAreOfTheSession
<1>9. HandlesAreOfTheSession'
  BY <1>1, <1>2, <1>8 DEF HandlesAreOfTheSession, handles
<1>10. /\ Types' /\ EventsInv' /\ CountInv' /\ TryInv' /\ BegunOnBothSides'
       /\ FirstSessionHasItsControllers'
  BY <1>1, <1>2 DEF Types, EventsInv, CountInv, TryInv, TriesWhileItShould, RestsForAReason,
                    AttemptsAreBounded, BegunOnBothSides, FirstSessionHasItsControllers,
                    handles, auto, runtime
<1> QED
  BY <1>7, <1>9, <1>10 DEF SessionInv

\* The autostart.
LEMMA AutoStartKeeps ==
  ASSUME SessionInv, AutoStart
  PROVE  SessionInv'
<1>1. /\ Types /\ EventsInv /\ CountInv /\ ChainInv /\ TryInv
      /\ HandlesAreOfTheSession /\ BegunOnBothSides /\ FirstSessionHasItsControllers
  BY DEF SessionInv
<1>2. /\ ~done /\ session = Null /\ UNCHANGED <<state, running, swap, rearms, lost, events>>
  BY DEF AutoStart
<1>3. ChainInv'
  BY <1>1, <1>2 DEF ChainInv, SwapchainsAreKnown, swap
<1>4. CASE SessionStart /\ attempts' = attempts + 1 /\ done' = (session' # Null \/ GivesUp)
  <2>1. /\ instance' \in Nat /\ instances' \in Nat /\ session' \in Nat /\ sessions' \in Nat
        /\ attached' \in BOOLEAN
        /\ xr' \in [state : SessionStates, begun : BOOLEAN, actions : BOOLEAN]
        /\ (session' # Null => sessions' > 0)
        /\ CountInv' /\ EventsInv' /\ HandlesAreOfTheSession' /\ BegunOnBothSides'
        /\ FirstSessionHasItsControllers'
    BY <1>1, <1>2, <1>4, StartKeeps
  <2>2. Types'
    BY <1>1, <1>2, <1>4, <2>1 DEF Types
  <2>3. attempts' < MaxAttempts \/ attempts' >= MaxAttempts
    BY <1>1, <1>4, CountAssumption DEF Types
  <2>4. /\ ~done' => attempts' < MaxAttempts + rearms'
        /\ attempts' <= MaxAttempts + rearms'
    <3>1. ~done' => attempts' < MaxAttempts
      BY <1>4, <2>3 DEF GivesUp
    <3>2. attempts < MaxAttempts + rearms
      BY <1>1, <1>2 DEF TryInv
    <3> QED
      BY <1>1, <1>2, <1>4, <3>1, <3>2, CountAssumption DEF Types
  <2>5. RestsForAReason'
    BY <1>4, <2>1 DEF RestsForAReason, GivesUp
  <2> QED
    BY <1>3, <2>1, <2>2, <2>4, <2>5
       DEF SessionInv, TryInv, TriesWhileItShould, AttemptsAreBounded
<1>5. CASE UNCHANGED <<done, attempts, handles, xr>>
  BY <1>1, <1>2, <1>3, <1>5
     DEF SessionInv, Types, EventsInv, CountInv, TryInv, TriesWhileItShould, RestsForAReason,
         AttemptsAreBounded, HandlesAreOfTheSession, BegunOnBothSides,
         FirstSessionHasItsControllers, handles, swap
<1> QED
  BY <1>4, <1>5 DEF AutoStart

-----------------------------------------------------------------------------
LEMMA NextKeeps ==
  ASSUME SessionInv, [Next]_vars
  PROVE  SessionInv'
<1>1. /\ Types /\ EventsInv /\ CountInv /\ ChainInv /\ TryInv
      /\ HandlesAreOfTheSession /\ BegunOnBothSides /\ FirstSessionHasItsControllers
  BY DEF SessionInv
\* What leaves the session and what it made alone.
<1>2. ASSUME UNCHANGED <<session, sessions, space, attached, state, running, swap>>,
             instance' \in Nat, instances' \in Nat, instance # Null => instance' = instance,
             UNCHANGED <<attempts, rearms, xr, lost, events>>, done' \in BOOLEAN,
             done' => done \/ session # Null, ~done' => ~done
      PROVE  SessionInv'
  <2>1. Types' /\ EventsInv' /\ CountInv'
    BY <1>1, <1>2 DEF Types, EventsInv, CountInv
  <2>2. ChainInv'
    BY <1>1, <1>2 DEF ChainInv, SwapchainsAreKnown, swap
  <2>3. session # Null => sessions > 0
    BY <1>1 DEF Types, CountInv, Null
  <2>4. TryInv'
    BY <1>1, <1>2, <2>3 DEF TryInv, TriesWhileItShould, RestsForAReason, AttemptsAreBounded
  <2>5. HandlesAreOfTheSession' /\ BegunOnBothSides' /\ FirstSessionHasItsControllers'
    BY <1>1, <1>2 DEF HandlesAreOfTheSession, BegunOnBothSides, FirstSessionHasItsControllers, swap
  <2> QED
    BY <2>1, <2>2, <2>4, <2>5 DEF SessionInv
<1>3. CASE PollDone \/ CommandsDone \/ DemoMoves \/ UNCHANGED vars
  <2>1. /\ UNCHANGED <<handles, state, running, swap, runtime>>
        /\ UNCHANGED auto
    BY <1>3 DEF PollDone, CommandsDone, DemoMoves, vars
  <2>2. instance' \in Nat /\ instances' \in Nat /\ done' \in BOOLEAN /\ done' = done
    BY <1>1, <2>1 DEF handles, auto, Types
  <2> QED
    BY <1>2, <2>1, <2>2 DEF handles, auto, runtime
<1>4. CASE AutoStartRests
  <2>1. done \in BOOLEAN /\ armed' \in ReadArmed \cup {armed}
    BY <1>1, <1>4 DEF AutoStartRests, Types
  <2>2. /\ UNCHANGED <<handles, state, running, refused, swap, attempts, rearms, runtime>>
        /\ done' = (done \/ armed' = "on")
        /\ done \/ armed' = "off" \/ session # Null
    BY <1>4 DEF AutoStartRests
  <2>3. done' \in BOOLEAN /\ (done' => done \/ session # Null) /\ (~done' => ~done)
    BY <2>1, <2>2
  <2> QED
    BY <1>1, <1>2, <2>2, <2>3 DEF handles, runtime, Types
<1>5. CASE InfoCommand
  <2>1. instance' \in Nat /\ instances' \in Nat /\ (instance # Null => instance' = instance)
    BY <1>1, <1>5, InstanceStarted DEF InfoCommand
  <2> QED
    BY <1>1, <1>2, <1>5, <2>1 DEF InfoCommand, auto, runtime, Types
<1>6. CASE StartCommand
  <2>1. SessionStart /\ UNCHANGED <<state, running, swap, auto, lost, events>>
    BY <1>6 DEF StartCommand
  <2>2. /\ instance' \in Nat /\ instances' \in Nat /\ session' \in Nat /\ sessions' \in Nat
        /\ attached' \in BOOLEAN
        /\ xr' \in [state : SessionStates, begun : BOOLEAN, actions : BOOLEAN]
        /\ sessions <= sessions'
        /\ CountInv' /\ EventsInv' /\ HandlesAreOfTheSession' /\ BegunOnBothSides'
        /\ FirstSessionHasItsControllers'
    BY <1>1, <2>1, StartKeeps
  <2>3. Types' /\ ChainInv'
    BY <1>1, <2>1, <2>2 DEF Types, ChainInv, SwapchainsAreKnown, swap, auto
  <2>4. sessions > 0 => sessions' > 0
    BY <1>1, <2>2 DEF Types
  <2>5. TryInv'
    BY <1>1, <2>1, <2>4 DEF TryInv, TriesWhileItShould, RestsForAReason, AttemptsAreBounded, auto
  <2> QED
    BY <2>2, <2>3, <2>5 DEF SessionInv
<1>7. CASE StopCommand
  <2>1. /\ SessionStop /\ events' = WithoutTheSession
        /\ UNCHANGED <<instance, instances, sessions, attached, auto, lost>>
    BY <1>7 DEF StopCommand
  <2>2. /\ session' = Null /\ space' = Null /\ state' = "UNKNOWN" /\ running' = FALSE /\ xr' = NoSession
        /\ ChainInv' /\ chains' = {}
        /\ xr' \in [state : SessionStates, begun : BOOLEAN, actions : BOOLEAN]
    BY <2>1, StopLeavesNothing
  <2>3. events' \in Seq(SessionStates \cup {"LOST"}) /\ EventsInv'
    <3>1. CASE \E k \in 1 .. Len(events) : events[k] = "LOST"
      <4>1. events' = <<"LOST">> /\ lost
        BY <1>1, <2>1, <3>1 DEF WithoutTheSession, EventsInv
      <4> QED
        BY <2>1, <2>2, <4>1 DEF EventsInv
    <3>2. CASE ~(\E k \in 1 .. Len(events) : events[k] = "LOST")
      <4>1. events' = <<>>
        BY <2>1, <3>2 DEF WithoutTheSession
      <4> QED
        BY <2>1, <2>2, <4>1 DEF EventsInv
    <3> QED
      BY <3>1, <3>2
  <2>4. instance' \in Nat /\ lost' \in BOOLEAN
    BY <1>1, <2>1 DEF Types
  <2> QED
    BY <2>1, <2>2, <2>3, <2>4, AfterStop DEF auto
<1>8. CASE QuitCommand
  <2>1. /\ SessionStop /\ instance' = Null /\ events' = <<>> /\ lost' = FALSE
        /\ UNCHANGED <<instances, sessions, attached, auto>>
    BY <1>8 DEF QuitCommand
  <2>2. /\ session' = Null /\ space' = Null /\ state' = "UNKNOWN" /\ running' = FALSE /\ xr' = NoSession
        /\ ChainInv' /\ chains' = {}
        /\ xr' \in [state : SessionStates, begun : BOOLEAN, actions : BOOLEAN]
    BY <2>1, StopLeavesNothing
  <2>3. events' \in Seq(SessionStates \cup {"LOST"}) /\ EventsInv'
    BY <2>1, <2>2 DEF EventsInv
  <2>4. instance' \in Nat /\ lost' \in BOOLEAN
    BY <2>1 DEF Null
  <2> QED
    BY <2>1, <2>2, <2>3, <2>4, AfterStop DEF auto
<1>9. CASE AutoStartCommand
  <2>1. /\ UNCHANGED <<handles, state, running, swap, attempts, runtime>>
        /\ done' = FALSE /\ rearms' = rearms + 1
    BY <1>9 DEF AutoStartCommand
  <2>2. Types' /\ EventsInv' /\ CountInv'
    <3>1. rearms' \in Nat /\ done' \in BOOLEAN
      <4>1. rearms \in Nat /\ rearms' = rearms + 1
        BY <1>1, <2>1 DEF Types
      <4>2. rearms' \in Nat
        BY <4>1
      <4>3. done' = FALSE
        BY <2>1
      <4> QED
        BY <4>2, <4>3
    <3>2. UNCHANGED <<instance, instances, session, sessions, attached, running, attempts, xr,
                      lost, events>>
      BY <2>1 DEF handles, runtime
    <3>3. Types'
      BY <1>1, <3>1, <3>2 DEF Types
    <3> QED
      BY <1>1, <3>2, <3>3 DEF EventsInv, CountInv
  <2>3. ChainInv'
    BY <1>1, <2>1 DEF ChainInv, SwapchainsAreKnown, swap
  <2>4. attempts < MaxAttempts + rearms' /\ attempts <= MaxAttempts + rearms'
    BY <1>1, <2>1, CountAssumption DEF TryInv, TriesWhileItShould, AttemptsAreBounded, Types
  <2>5. TryInv'
    BY <2>1, <2>4 DEF TryInv, TriesWhileItShould, RestsForAReason, AttemptsAreBounded
  <2>6. HandlesAreOfTheSession' /\ BegunOnBothSides' /\ FirstSessionHasItsControllers'
    BY <1>1, <2>1 DEF HandlesAreOfTheSession, BegunOnBothSides, FirstSessionHasItsControllers,
                      handles, runtime, swap
  <2> QED
    BY <2>2, <2>3, <2>5, <2>6 DEF SessionInv
<1>10. CASE RuntimeMoves \/ RuntimeGoesAway
  <2>1. UNCHANGED <<handles, state, running, swap, auto>>
    BY <1>10 DEF RuntimeMoves, RuntimeGoesAway
  <2>2. ChainInv' /\ TryInv' /\ CountInv' /\ HandlesAreOfTheSession'
    BY <1>1, <2>1 DEF ChainInv, SwapchainsAreKnown, TryInv, TriesWhileItShould, RestsForAReason,
                      AttemptsAreBounded, CountInv, HandlesAreOfTheSession, handles, swap, auto
  <2>3. \E e \in SessionStates \cup {"LOST"} :
          /\ events' = Append(events, e)
          /\ e = "LOST" => lost'
          /\ session = Null => e = "LOST" /\ xr' = xr
          /\ xr' \in [state : SessionStates, begun : BOOLEAN, actions : BOOLEAN]
          /\ xr'.begun = xr.begun /\ xr'.actions = xr.actions
          /\ lost' \in BOOLEAN /\ (lost => lost')
    <3>1. CASE RuntimeMoves
      <4>1. PICK e \in Becomes(xr) \cup {"EXITING"} :
              xr' = [xr EXCEPT !.state = e] /\ events' = Append(events, e)
        BY <3>1 DEF RuntimeMoves
      <4>2. e \in SessionStates /\ e # "LOST"
        BY <4>1 DEF Becomes, SessionStates
      <4>3. session # Null /\ lost' = lost
        BY <3>1 DEF RuntimeMoves
      <4>4. /\ xr' \in [state : SessionStates, begun : BOOLEAN, actions : BOOLEAN]
            /\ xr'.begun = xr.begun /\ xr'.actions = xr.actions
        BY <1>1, <4>1, <4>2 DEF Types
      <4> QED
        BY <1>1, <4>1, <4>2, <4>3, <4>4 DEF Types
    <3>2. CASE RuntimeGoesAway
      BY <1>1, <3>2 DEF RuntimeGoesAway, Types
    <3> QED
      BY <1>10, <3>1, <3>2
  <2>4. PICK e \in SessionStates \cup {"LOST"} :
          /\ events' = Append(events, e)
          /\ e = "LOST" => lost'
          /\ session = Null => e = "LOST" /\ xr' = xr
          /\ xr' \in [state : SessionStates, begun : BOOLEAN, actions : BOOLEAN]
          /\ xr'.begun = xr.begun /\ xr'.actions = xr.actions
          /\ lost' \in BOOLEAN /\ (lost => lost')
    BY <2>3
  <2>5. /\ events' \in Seq(SessionStates \cup {"LOST"})
        /\ \A k \in 1 .. Len(events') : \/ k \in 1 .. Len(events) /\ events'[k] = events[k]
                                        \/ events'[k] = e
    <3>1. /\ events \in Seq(SessionStates \cup {"LOST"}) /\ Len(events) \in Nat
          /\ Len(events') = Len(events) + 1 /\ events'[Len(events) + 1] = e
          /\ \A k \in 1 .. Len(events) : events'[k] = events[k]
          /\ events' \in Seq(SessionStates \cup {"LOST"})
      BY <1>1, <2>4, AppendProperties DEF Types
    <3> QED
      BY <3>1
  <2>6. Types'
    BY <1>1, <2>1, <2>4, <2>5 DEF Types, handles, auto
  <2>7. EventsInv'
    BY <1>1, <2>1, <2>4, <2>5 DEF EventsInv, handles
  <2>8. BegunOnBothSides' /\ FirstSessionHasItsControllers'
    BY <1>1, <2>1, <2>4 DEF BegunOnBothSides, FirstSessionHasItsControllers, handles
  <2> QED
    BY <2>2, <2>6, <2>7, <2>8 DEF SessionInv
<1>11. CASE PollEvent \/ EnsureSwapchains \/ AutoStart
  BY <1>11, PollKeeps, EnsureKeeps, AutoStartKeeps
<1> QED
  BY <1>3, <1>4, <1>5, <1>6, <1>7, <1>8, <1>9, <1>10, <1>11 DEF Next, Frame, Commands, World

LEMMA SessionInvariant == Spec => []SessionInv
<1>1. Init => SessionInv
  <2> SUFFICES ASSUME Init PROVE SessionInv
    OBVIOUS
  <2>1. Types
    BY EmptySeq DEF Init, Types, NoSession, SessionStates, Null
  <2>2. ChainInv
    <3>1. 0 \in 0 .. ChainCount /\ 0 .. (0 - 1) = {}
      BY SizeAssumption
    <3> QED
      BY <3>1, FS_EmptySet DEF Init, ChainInv, SwapchainsAreKnown
  <2>3. TryInv
    BY CountAssumption DEF Init, TryInv, TriesWhileItShould, RestsForAReason, AttemptsAreBounded
  <2>4. EventsInv /\ CountInv
    BY DEF Init, EventsInv, CountInv, Null
  <2>5. HandlesAreOfTheSession /\ BegunOnBothSides /\ FirstSessionHasItsControllers
    BY DEF Init, HandlesAreOfTheSession, BegunOnBothSides, FirstSessionHasItsControllers, Null,
           NoSession
  <2> QED
    BY <2>1, <2>2, <2>3, <2>4, <2>5 DEF SessionInv
<1>2. SessionInv /\ [Next]_vars => SessionInv'
  BY NextKeeps
<1> QED
  BY <1>1, <1>2, PTL DEF Spec

-----------------------------------------------------------------------------
\* What belongs to a session is there with it and gone without it (MirvVrXr_SessionStart,
\* MirvVrXr_SessionStop).
THEOREM HandlesBelong == Spec => []HandlesAreOfTheSession
BY SessionInvariant, PTL DEF SessionInv

\* Hook and runtime agree on whether the session is begun (PollEvents).
THEOREM BegunAgrees == Spec => []BegunOnBothSides
BY SessionInvariant, PTL DEF SessionInv

\* No swapchain is forgotten, and none that has a size is missing (EnsureSwapchains).
THEOREM SwapchainsKnown == Spec => []SwapchainsAreKnown
<1>1. SessionInv => SwapchainsAreKnown
  BY DEF SessionInv, ChainInv
<1> QED
  BY <1>1, SessionInvariant, PTL

\* The autostart rests for a reason and tries for a bounded time (EngineThread_AutoStart).
THEOREM AutoStartTries == Spec => []TriesWhileItShould
<1>1. SessionInv => TriesWhileItShould
  BY DEF SessionInv, TryInv
<1> QED
  BY <1>1, SessionInvariant, PTL

\* The first session has its controllers (AttachActions).
THEOREM ControllersAttached == Spec => []FirstSessionHasItsControllers
BY SessionInvariant, PTL DEF SessionInv

=============================================================================
