------------------------------ MODULE MCLauncher ------------------------------
(***************************************************************************)
(* The launcher, the server and one script over one pipe: lines that open  *)
(* and close the pipe, one that says nothing, and one that is too long for *)
(* it.  To open a pipe that is open is to be run and to do nothing, as any *)
(* other command does here.                                                *)
(***************************************************************************)
EXTENDS Launcher

ThreeClients == {"launcher", "server", "script"}
SomeTexts    == {"mirv_vr_pipe 1", "mirv_vr_pipe 0", "", "overlong"}

\* "menu" and "play" go the way of "watch" without a demo to stage.
SomeCommands  == {"watch", "check", "selftest", "help", "nonsense"}

=============================================================================
