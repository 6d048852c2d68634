---------------------------- MODULE LauncherProofs ----------------------------
(***************************************************************************)
(* What TLAPS proves of Launcher and of the RemoteControl it extends: for  *)
(* every set of clients, lines and commands, every length of the queue and *)
(* any number of lines.                                                    *)
(***************************************************************************)
EXTENDS Launcher, TLAPS

-----------------------------------------------------------------------------
(* The launch.                                                             *)

\* Where wmain is says what there is of the game.
GameAtPc ==
    /\ lpc \in {"parse", "look", "prepare", "create"} => game = "none"
    /\ lpc \in {"dll directory", "load", "give up", "resume"} => game = "suspended"
    /\ lpc \in {"follow", "remote"} => game \in {"running", "gone"}

HookBeforeGame == lpc = "resume" \/ game = "running" => hooked

LaunchInv == GameAtPc /\ HookBeforeGame /\ NothingIsLeftSuspended

\* Whatever is not the launcher's touches the game by its exit alone.
LEMMA TheRestKeepsLaunch ==
  ASSUME LaunchInv, Prompt \/ Send \/ TheRest
  PROVE  LaunchInv'
<1>1. ASSUME UNCHANGED lVars, game' = game \/ (game = "running" /\ game' = "gone")
      PROVE  LaunchInv'
  BY <1>1 DEF LaunchInv, GameAtPc, HookBeforeGame, NothingIsLeftSuspended, lVars
<1>2. CASE Prompt
  BY <1>1, <1>2 DEF Prompt, Ask, Asks
<1>3. CASE Send
  BY <1>1, <1>3 DEF Send, Open, GiveUp, Write, Close, Asks
<1>4. CASE TheRest
  <2>1. CASE PipeThread
    BY <1>1, <1>4, <2>1 DEF TheRest, PipeThread, CreatePipe, StopsBetween, Connect, Accept,
                            StopsListening, Read, Hangup, Serves
  <2>2. CASE Engine
    BY <1>1, <1>4, <2>2 DEF TheRest, Engine, EngineFrame, RunCommand, EngineFrameEnds, PipeIsShut
  <2>3. CASE Others
    BY <1>1, <1>4, <2>3 DEF TheRest, Others, Client, Ask, Open, GiveUp, Write, Close, TryAgain,
                            ScriptIsThrough, Asks
  <2>4. CASE GameExits
    BY <1>1, <1>4, <2>4 DEF TheRest, GameExits
  <2> QED
    BY <1>4, <2>1, <2>2, <2>3, <2>4 DEF TheRest
<1> QED
  BY <1>2, <1>3, <1>4

LEMMA LaunchKeeps ==
  ASSUME LaunchInv, Launch
  PROVE  LaunchInv'
<1> USE DEF LaunchInv, GameAtPc, HookBeforeGame, NothingIsLeftSuspended, Outside, Returns, GoesTo
<1>1. CASE Parse
  BY <1>1 DEF Parse
<1>2. CASE SelfTest
  BY <1>2 DEF SelfTest
<1>3. CASE Look
  <2>1. PICK m \in Machines :
          CASE Blocked(m)                          -> Returns(1)
            [] ~Blocked(m) /\ command = "check"    -> Returns(0)
            [] ~Blocked(m) /\ command # "check"    -> GoesTo("prepare")
    BY <1>3, Zenon DEF Look
  <2>2. Returns(1) \/ (command = "check" /\ Returns(0)) \/ GoesTo("prepare")
    <3>1. CASE Blocked(m)
      BY <2>1, <3>1
    <3>2. CASE ~Blocked(m) /\ command = "check"
      BY <2>1, <3>2
    <3>3. CASE ~Blocked(m) /\ command # "check"
      BY <2>1, <3>3
    <3> QED
      BY <3>1, <3>2, <3>3
  <2>3. lpc = "look" /\ Outside /\ UNCHANGED <<game, hooked>>
    BY <1>3, Zenon DEF Look
  <2>4. GameAtPc'
    BY <2>2, <2>3
  <2>5. HookBeforeGame'
    BY <2>2, <2>3
  <2>6. NothingIsLeftSuspended'
    BY <2>2, <2>3
  <2> QED
    BY <2>4, <2>5, <2>6
<1>4. CASE Prepare
  <2>1. GoesTo("create") \/ Returns(1)
    BY <1>4, Zenon DEF Prepare
  <2>2. lpc = "prepare" /\ Outside /\ UNCHANGED <<game, hooked>>
    BY <1>4, Zenon DEF Prepare
  <2>3. GameAtPc' /\ HookBeforeGame'
    BY <2>1, <2>2
  <2>4. NothingIsLeftSuspended'
    BY <2>1, <2>2
  <2> QED
    BY <2>3, <2>4
<1>5. CASE CreateGame
  <2>1. GameAtPc' /\ HookBeforeGame'
    BY <1>5 DEF CreateGame
  <2>2. NothingIsLeftSuspended'
    BY <1>5 DEF CreateGame
  <2> QED
    BY <2>1, <2>2
<1>6. CASE SetDllDirectory
  BY <1>6 DEF SetDllDirectory
<1>7. CASE LoadHook
  BY <1>7 DEF LoadHook, WentIn
<1>8. CASE GiveUpTheGame
  BY <1>8 DEF GiveUpTheGame, EndsTheProcess
<1>9. CASE ResumeGame
  BY <1>9 DEF ResumeGame
<1>10. CASE FollowLog
  BY <1>10 DEF FollowLog
<1>11. CASE Leave
  BY <1>11 DEF Leave
<1> QED
  BY <1>1, <1>2, <1>3, <1>4, <1>5, <1>6, <1>7, <1>8, <1>9, <1>10, <1>11 DEF Launch

LEMMA LaunchInvariant == Spec => []LaunchInv
<1>1. Init => LaunchInv
  BY DEF Init, RCInit, LaunchInv, GameAtPc, HookBeforeGame, NothingIsLeftSuspended
<1>2. LaunchInv /\ [Next]_vars => LaunchInv'
  <2>1. ASSUME LaunchInv, UNCHANGED vars PROVE LaunchInv'
    BY <2>1 DEF vars, lVars, rcVars, LaunchInv, GameAtPc, HookBeforeGame,
                NothingIsLeftSuspended
  <2> QED
    BY <2>1, LaunchKeeps, TheRestKeepsLaunch DEF Next
<1> QED
  BY <1>1, <1>2, PTL DEF Spec

\* However a launch ends, the game it made runs with the hook in it or is gone (LaunchIsWhole).
THEOREM LaunchWhole == Spec => []LaunchIsWhole
<1>1. LaunchInv => LaunchIsWhole
  BY DEF LaunchInv, HookBeforeGame, LaunchIsWhole, RunsWithTheHook
<1> QED
  BY <1>1, LaunchInvariant, PTL

=============================================================================
