------------------------------- MODULE Launcher -------------------------------
(***************************************************************************)
(* cs2vr.exe: it looks at the machine, starts the game suspended, puts the *)
(* hook into it, lets it run, follows its log, and stays as the remote     *)
(* control of the game it started.  Composed with RemoteControl, whose     *)
(* client it then is and whose game it starts.  What stands in the log     *)
(* ends the following of it and decides nothing else: it may say anything  *)
(* here, an earlier game's news included, since whether the old log could  *)
(* be deleted is not asked.                                                *)
(***************************************************************************)
EXTENDS RemoteControl

CONSTANTS
    Me,             \* the launcher, among the clients
    Commands        \* what the command line may ask for

ASSUME LauncherAssumption ==
    /\ Me \in Clients \ {Server, Script}
    /\ Commands \subseteq {"menu", "watch", "play", "check", "selftest", "help", "nonsense"}

VARIABLES
    lpc,            \* where wmain is
    code,           \* what it returns
    command,        \* args.command
    hooked          \* the hook is in the game's process

lVars == <<lpc, code, command, hooked>>
vars  == <<lVars, rcVars>>

-----------------------------------------------------------------------------
Outside == UNCHANGED <<command, ran, hook, line, clients>>

Returns(c) == lpc' = "returned" /\ code' = c

GoesTo(pc) == lpc' = pc /\ UNCHANGED code

\* ParseArguments: an argument that is not understood, or --help.
Parse ==
    /\ lpc = "parse" /\ Outside
    /\ CASE command = "nonsense" -> Returns(2)
         [] command = "help"     -> Returns(0)
         [] OTHER                -> GoesTo("look")
    /\ UNCHANGED <<game, hooked>>

\* TryLoadInFreshProcess: not tried, or tried and refused or loaded; the process it makes
\* is ended whatever came of it.
Outcomes == {"not tried", "refused", "loaded"}

\* SelfTest: can anything be loaded, and are a library's own dependencies found?
SelfTest ==
    /\ lpc = "look" /\ command = "selftest" /\ Outside
    /\ \E any, bare, arranged \in Outcomes, probe \in BOOLEAN :
         Returns(IF any = "loaded" /\ (probe => bare # "not tried" /\ arranged = "loaded")
                   THEN 0 ELSE 1)
    /\ UNCHANGED <<game, hooked>>

\* What there is to be found; a list of processes that cannot be had is an empty one.
Machines == [cs2Given : BOOLEAN, givenIsThere : BOOLEAN, steamFound : BOOLEAN,
             inALibrary : BOOLEAN, hookPresent : BOOLEAN, keepSteamVr : BOOLEAN,
             processes : SUBSET {"cs2.exe", "vrserver.exe"}]

AnyProcessNamed(m, name) == name \in m.processes

\* FindCs2: where --cs2 says, and then nowhere else, or in one of Steam's libraries.
FindCs2(m) == IF m.cs2Given THEN m.givenIsThere ELSE m.steamFound /\ m.inALibrary

\* Preflight: what blocks.  That no runtime is running is said and passed.
Blocked(m) == \/ ~m.hookPresent \/ ~FindCs2(m)
              \/ AnyProcessNamed(m, "cs2.exe")
              \/ AnyProcessNamed(m, "vrserver.exe") /\ ~m.keepSteamVr

Look ==
    /\ lpc = "look" /\ command # "selftest" /\ Outside
    /\ \E m \in Machines :
         CASE Blocked(m)                          -> Returns(1)
           [] ~Blocked(m) /\ command = "check"    -> Returns(0)
           [] ~Blocked(m) /\ command # "check"    -> GoesTo("prepare")
    /\ UNCHANGED <<game, hooked>>

\* DeployConfigs: one config that was copied is enough to go on.
DeployConfigs == {"no directory", "none", "some", "all"}

\* StageDemo: a demo elsewhere is linked or else copied to where the game looks.
StageDemo(demo, linked, copied) ==
    demo = "in the game's folder" \/ (demo = "elsewhere" /\ (linked \/ copied))

\* The configs and the demo; whether the old log could be deleted is not asked.
Prepare ==
    /\ lpc = "prepare" /\ Outside
    /\ \E configs \in DeployConfigs, demo \in {"in the game's folder", "elsewhere", "missing"},
          linked, copied \in BOOLEAN :
         IF /\ configs \in {"some", "all"}
            /\ command = "watch" => StageDemo(demo, linked, copied)
           THEN GoesTo("create")
           ELSE Returns(1)
    /\ UNCHANGED <<game, hooked>>

\* CreateProcessW, suspended.
CreateGame ==
    /\ lpc = "create" /\ Outside
    /\ \/ game' = "suspended" /\ GoesTo("dll directory")
       \/ Returns(1) /\ UNCHANGED game
    /\ UNCHANGED hooked

\* RemoteCall: it fails on the way, or the call does not come back in a minute, or it comes
\* back with what the function returned.
Answers == {"failed", "null", "handle"}

\* The first call's answer is not looked at.
SetDllDirectory ==
    /\ lpc = "dll directory" /\ Outside
    /\ \E a \in Answers : GoesTo(IF a = "failed" THEN "give up" ELSE "load")
    /\ UNCHANGED <<game, hooked>>

WentIn(a) == a = "handle"

\* A call that is given up after a minute may yet load the library.
LoadHook ==
    /\ lpc = "load" /\ Outside
    /\ \E a \in Answers :
         /\ hooked' \in {a = "handle"} \cup (IF a = "failed" THEN {TRUE} ELSE {})
         /\ GoesTo(IF WentIn(a) THEN "resume" ELSE "give up")
    /\ UNCHANGED game

\* Mutant: the handles are closed and the process is left.
LeavesTheProcess == UNCHANGED game

EndsTheProcess == game' = "gone"

\* TerminateProcess.
GiveUpTheGame ==
    /\ lpc = "give up" /\ Outside
    /\ EndsTheProcess /\ Returns(1)
    /\ UNCHANGED hooked

\* ResumeThread.
ResumeGame ==
    /\ lpc = "resume" /\ Outside
    /\ game' = "running"
    /\ \E follow \in BOOLEAN : GoesTo(IF follow THEN "follow" ELSE "remote")
    /\ UNCHANGED hooked

\* FollowLog, one look: the game is gone, the log has news of a picture, or it has taken
\* too long.
FollowLog ==
    /\ lpc = "follow" /\ Outside
    /\ \E news, late \in BOOLEAN :
         GoesTo(IF game = "gone" \/ news \/ late THEN "remote" ELSE "follow")
    /\ UNCHANGED <<game, hooked>>

\* Without somebody at a keyboard, when the game is gone, or when q is typed.
Leave ==
    /\ lpc = "remote" /\ cpc[Me] = "idle" /\ Outside
    /\ Returns(0)
    /\ UNCHANGED <<game, hooked>>

\* Whatever else is typed is sent; the game was looked for before the prompt was shown.
Prompt ==
    /\ lpc = "remote" /\ Ask(Me) /\ UNCHANGED lVars

\* SendToSession.
Send ==
    /\ Open(Me) \/ GiveUp(Me) \/ Write(Me) \/ Close(Me)
    /\ UNCHANGED lVars

Launch == Parse \/ SelfTest \/ Look \/ Prepare \/ CreateGame \/ SetDllDirectory \/ LoadHook
              \/ GiveUpTheGame \/ ResumeGame \/ FollowLog \/ Leave

-----------------------------------------------------------------------------
Others == Client(Server) \/ TryAgain \/ Client(Script) \/ ScriptIsThrough

TheRest == (PipeThread \/ Engine \/ Others \/ GameExits) /\ UNCHANGED lVars

Init ==
    /\ RCInit
    /\ lpc = "parse" /\ code = -1 /\ command \in Commands
    /\ hooked = FALSE

Next == Launch \/ Prompt \/ Send \/ TheRest

Spec == Init /\ [][Next]_vars

FairSpec ==
    /\ Spec
    /\ WF_vars(PipeThread /\ UNCHANGED lVars) /\ WF_vars(Engine /\ UNCHANGED lVars)
    /\ WF_vars(ServerSteps /\ UNCHANGED lVars)

-----------------------------------------------------------------------------
TypeOK ==
    /\ RCTypeOK
    /\ lpc \in {"parse", "look", "prepare", "create", "dll directory", "load", "give up",
                "resume", "follow", "remote", "returned"}
    /\ code \in {-1, 0, 1, 2} /\ command \in Commands
    /\ hooked \in BOOLEAN

\* However the launch ends, no process is left that was never let run, and a launcher that
\* returns zero for a game has let it run (wmain 591).
NothingIsLeftSuspended ==
    lpc = "returned" =>
        /\ game # "suspended"
        /\ code = 0 /\ command \in {"menu", "watch", "play"} => game \in {"running", "gone"}

\* A game runs with the hook in it or not at all: "the hook has to be in the game from its
\* first instruction" (LauncherLogic.h 313).
RunsWithTheHook == game = "running" => hooked

\* A launch is whole or leaves nothing.
LaunchIsWhole == NothingIsLeftSuspended /\ RunsWithTheHook

=============================================================================
