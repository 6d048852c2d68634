---------------------------- MODULE RemoteControl ----------------------------
(***************************************************************************)
(* The console of a game that has none: the named pipe of the hook, the    *)
(* thread that serves it, the queue between that thread and the engine     *)
(* thread, and those who write to it: the control server, which tries a    *)
(* few times, a script, and the launcher, whose own steps are Launcher's.  *)
(*                                                                         *)
(* There is one instance of the pipe at a time.  A client's handle is for  *)
(* the instance it opened: when the hook closes that one, a write fails    *)
(* even though there may be another by then.  A line reaches the hook in   *)
(* pieces, since it reads 256 bytes at a time, and one that has become     *)
(* longer than the hook keeps of a line loses what has come of it so far:  *)
(* what comes after that up to its end is taken for the line.              *)
(***************************************************************************)
EXTENDS Integers, Sequences, SequencesExt

CONSTANTS
    Clients,        \* who may open the pipe
    Server,         \* cs2vr-server
    Nobody,         \* no client
    Script,         \* scripts/send-command.ps1, or whatever else opens a pipe
    Texts,          \* the lines that are written
    Opens,          \* "mirv_vr_pipe 1"
    Closes,         \* "mirv_vr_pipe 0"
    Blank,          \* a line that is empty, or longer than kPipeMaxLine
    Overlong,       \* a line that is longer than eight times that
    QueueLimit,     \* how many commands g_PendingCommands holds
    Tries,          \* how often the server tries to open the pipe
    MaxLines        \* bound: lines that are written

ASSUME ClientAssumption == {Server, Script} \subseteq Clients /\ Server # Script
                           /\ Nobody \notin Clients
ASSUME TextAssumption   == {Opens, Closes, Blank, Overlong} \subseteq Texts
                           /\ Overlong \notin {Opens, Closes, Blank}
ASSUME LimitAssumption  == QueueLimit \in Nat \ {0} /\ Tries \in Nat \ {0} /\ MaxLines \in Nat

VARIABLES
    game,           \* the game's process: "none", "suspended", "running" or "gone"
    \* The hook.
    wanted,         \* g_PipeWanted: "unread", "off" or "on"
    thread,         \* g_PipeThread is not null
    stop,           \* g_PipeStop is signalled
    ppc,            \* the pipe's thread
    pending,        \* what it has read of a line, as the places in written
    cut,            \* the lines that have lost their beginning, as places in written
    queue,          \* g_PendingCommands, as places in written
    epc,            \* the engine thread: "frame", "run", or "closing" inside PipeShutdown
    due,            \* what it has taken from the queue
    ran,            \* what it has run
    \* The pipe and who writes to it.
    pipe,           \* the instance: "none", "free", "held" by a client, or "left" by it
    holder,         \* the client that has it open
    bytes,          \* the pieces nobody has read yet
    written,        \* every line that was ever written
    cpc,            \* each client: "idle", "open", "write" or "close"
    tries           \* how often the server has tried

hook    == <<wanted, thread, stop, ppc, pending, cut, queue, epc, due>>
clients == <<written, cpc, tries>>
line    == <<pipe, holder, bytes>>
rcVars  == <<game, hook, ran, line, clients>>

-----------------------------------------------------------------------------
Mixed  == 0             \* no place in written: a line nobody wrote

\* Where a piece came from, and whether the line ends with it.
Piece(i, last) == [of |-> i, last |-> last]

Gone == /\ pipe' = "none" /\ holder' = Nobody /\ bytes' = <<>>

-----------------------------------------------------------------------------
(* The pipe's thread.                                                      *)

Serves == game = "running" /\ UNCHANGED <<game, wanted, thread, stop, epc, due, ran, clients>>

\* CreateNamedPipeW, which may find that somebody else has the name.
CreatePipe ==
    /\ ppc = "create" /\ ~stop /\ Serves
    /\ \/ pipe' = "free" /\ ppc' = "connect"
       \/ pipe' = "none" /\ ppc' = "failed"
    /\ UNCHANGED <<holder, bytes, pending, cut, queue>>

\* The stop event, looked at before an instance is made and in both waits.
StopsBetween ==
    /\ ppc = "create" /\ stop /\ Serves
    /\ ppc' = "ended"
    /\ UNCHANGED <<line, pending, cut, queue>>

\* ConnectNamedPipe: a client may be there already, and one that has left again is none.
Connect ==
    /\ ppc = "connect" /\ Serves
    /\ \/ pipe = "free" /\ ppc' = "listen" /\ UNCHANGED line
       \/ pipe = "held" /\ ppc' = "read" /\ UNCHANGED line
       \/ pipe = "left" /\ ppc' = "create" /\ Gone
    /\ UNCHANGED <<pending, cut, queue>>

Accept ==
    /\ ppc = "listen" /\ ~stop /\ pipe # "free" /\ Serves
    /\ ppc' = "read" /\ UNCHANGED <<line, pending, cut, queue>>

StopsListening ==
    /\ ppc = "listen" /\ stop /\ Serves
    /\ ppc' = "ended" /\ Gone /\ UNCHANGED <<pending, cut, queue>>

\* What PipeLine makes of the pieces of a line.
Assembled(pieces) ==
    IF \A k \in 1 .. Len(pieces) : pieces[k] = Last(pieces) THEN Last(pieces) ELSE Mixed

\* PipeLine: what is empty or too long is no line, and of one that has lost its beginning
\* the end may be anything.
IsALine(i)  == IF i \in {Mixed} \cup cut THEN TRUE ELSE written[i] \notin {Blank, Overlong}
IsNoLine(i) == i # Mixed /\ (i \in cut \/ written[i] \in {Blank, Overlong})

\* QueueCommand: what does not fit is dropped.
QueueCommand(i) == IF Len(queue) < QueueLimit THEN Append(queue, i) ELSE queue

\* ReadFile and PipeLine: the end of a line, or more of it that is kept, or dropped with
\* what was pending.
Read ==
    /\ ppc = "read" /\ bytes # <<>> /\ Serves
    /\ bytes' = Tail(bytes)
    /\ LET p == Head(bytes)
           l == Assembled(Append(pending, p.of))
       IN  \/ /\ p.last
              /\ \/ IsALine(l) /\ queue' = QueueCommand(l)
                 \/ IsNoLine(l) /\ UNCHANGED queue
              /\ pending' = <<>> /\ UNCHANGED cut
           \/ /\ ~p.last
              /\ pending' = Append(pending, p.of) /\ UNCHANGED <<queue, cut>>
           \/ /\ ~p.last /\ written[p.of] = Overlong
              /\ pending' = <<>> /\ cut' = cut \cup {p.of} /\ UNCHANGED queue
    /\ UNCHANGED <<ppc, pipe, holder>>

\* Mutant: only the client's going ends the wait for more.
WaitsForTheClient == pipe = "left"

HearsTheEnd == pipe = "left" \/ stop

\* Mutant: what was left of a line stays for the next client.
KeepsHalfALine == UNCHANGED pending

ForgetsHalfALine == pending' = <<>>

\* Mutant: one client is served and no more.
ServesOne == IF stop THEN "create" ELSE "ended"

ServesTheNext == "create"

\* The client has gone, or the pipe is being shut: DisconnectNamedPipe and CloseHandle.
Hangup ==
    /\ ppc = "read" /\ bytes = <<>> /\ HearsTheEnd /\ Serves
    /\ ppc' = ServesTheNext /\ Gone
    /\ ForgetsHalfALine /\ UNCHANGED <<cut, queue>>

PipeThread == CreatePipe \/ StopsBetween \/ Connect \/ Accept \/ StopsListening \/ Read \/ Hangup

-----------------------------------------------------------------------------
(* The engine thread.                                                      *)

\* PipeStart.
PipeStart == IF thread THEN UNCHANGED <<thread, stop, ppc>>
                       ELSE thread' = TRUE /\ stop' = FALSE /\ ppc' = "create"

\* Mutant: a frame runs one command.
TakesOne == due' = (IF queue = <<>> THEN <<>> ELSE <<Head(queue)>>) /\ queue' = <<>>

TakesAll == due' = queue /\ queue' = <<>>

\* EngineThread_Pipe, which reads AFXVR_PIPE once, and the drain's section under the lock.
EngineFrame ==
    /\ game = "running" /\ epc = "frame"
    /\ wanted' \in IF wanted = "unread" THEN {"on", "off"} ELSE {wanted}
    /\ IF wanted = "unread" /\ wanted' = "on" THEN PipeStart ELSE UNCHANGED <<thread, stop, ppc>>
    /\ TakesAll /\ epc' = "run"
    /\ UNCHANGED <<game, pending, cut, ran, line, clients>>

\* Mutant: the shutdown does not wait for the thread.
ShutsAtOnce == /\ thread' = FALSE /\ stop' = TRUE /\ epc' = "run"

BeginsToShut == /\ stop' = TRUE /\ epc' = "closing" /\ UNCHANGED thread

\* What a command says: nobody knows how a line ends that nobody wrote, or that was cut.
Says(i) == IF i = Mixed \/ i \in cut THEN Texts ELSE {written[i]}

\* One command of the frame, run outside the lock; mirv_vr_pipe is the one that matters here.
RunCommand ==
    /\ game = "running" /\ epc = "run" /\ due # <<>>
    /\ ran' = Append(ran, Head(due))
    /\ due' = Tail(due)
    /\ \E text \in Says(Head(due)) :
        /\ wanted' = CASE text = Opens  -> "on"
                       [] text = Closes -> "off"
                       [] OTHER         -> wanted
        /\ CASE text = Opens             -> PipeStart /\ UNCHANGED epc
             [] text = Closes /\ thread  -> BeginsToShut /\ UNCHANGED ppc
             [] OTHER                    -> UNCHANGED <<thread, stop, ppc, epc>>
    /\ UNCHANGED <<game, pending, cut, queue, line, clients>>

EngineFrameEnds ==
    /\ game = "running" /\ epc = "run" /\ due = <<>>
    /\ epc' = "frame"
    /\ UNCHANGED <<game, wanted, thread, stop, ppc, pending, cut, queue, due, ran, line, clients>>

Ended == ppc \in {"ended", "failed"}

\* The rest of PipeShutdown: the thread is gone, or has not gone in two seconds.
PipeIsShut ==
    /\ game = "running" /\ epc = "closing"
    /\ \/ Ended /\ thread' = FALSE /\ stop' = FALSE /\ ppc' = "none"
       \/ ~Ended /\ UNCHANGED <<thread, stop, ppc>>
    /\ epc' = "run"
    /\ UNCHANGED <<game, wanted, pending, cut, queue, due, ran, line, clients>>

Engine == EngineFrame \/ RunCommand \/ EngineFrameEnds \/ PipeIsShut

-----------------------------------------------------------------------------
(* The clients.                                                            *)

Asks == UNCHANGED <<game, hook, ran>>

\* The bound leaves room for the line of every client that has asked.
HasRoom == Len(written) + Cardinality({c \in Clients : cpc[c] \in {"open", "write"}}) < MaxLines

\* A client has something to say.
Ask(c) ==
    /\ cpc[c] = "idle" /\ HasRoom /\ Asks
    /\ cpc' = [cpc EXCEPT ![c] = "open"]
    /\ UNCHANGED <<line, written, tries>>

\* CreateFile finds an instance that nobody has.
Open(c) ==
    /\ cpc[c] = "open" /\ pipe = "free" /\ Asks
    /\ pipe' = "held" /\ holder' = c
    /\ cpc' = [cpc EXCEPT ![c] = "write"]
    /\ tries' = IF c = Server THEN 0 ELSE tries
    /\ UNCHANGED <<bytes, written>>

CountsTheTry == tries + 1

\* pipe.rs: the pipe is not there or is busy.
TryAgain ==
    /\ cpc[Server] = "open" /\ pipe # "free" /\ Asks
    /\ \/ CountsTheTry < Tries /\ tries' = CountsTheTry /\ UNCHANGED cpc
       \/ CountsTheTry >= Tries /\ tries' = 0 /\ cpc' = [cpc EXCEPT ![Server] = "idle"]
    /\ UNCHANGED <<line, written>>

\* The others give up at once.
GiveUp(c) ==
    /\ c # Server /\ cpc[c] = "open" /\ pipe # "free" /\ Asks
    /\ cpc' = [cpc EXCEPT ![c] = "idle"]
    /\ UNCHANGED <<line, written, tries>>

\* A line in one piece or in two; only a script leaves its last one without an end.
Pieces(c, i, text) ==
    {<<Piece(i, FALSE), Piece(i, TRUE)>>}
        \cup (IF text # Overlong THEN {<<Piece(i, TRUE)>>} ELSE {})
        \cup (IF c = Script THEN {<<Piece(i, FALSE)>>} ELSE {})

\* WriteFile, on a handle that may have lost its instance.
Write(c) ==
    /\ cpc[c] = "write" /\ Asks
    /\ IF holder = c
         THEN \E t \in Texts, n \in {Len(written) + 1} :
                /\ written' = Append(written, t)
                /\ \E ps \in Pieces(c, n, t) : bytes' = bytes \o ps
         ELSE UNCHANGED <<written, bytes>>
    /\ cpc' = [cpc EXCEPT ![c] =
                 IF c = Script /\ holder = c /\ Last(bytes').last /\ HasRoom
                   THEN "write" ELSE "close"]
    /\ UNCHANGED <<pipe, holder, tries>>

\* A script writes as many lines as it was given.
ScriptIsThrough ==
    /\ cpc[Script] = "write" /\ Asks
    /\ cpc' = [cpc EXCEPT ![Script] = "close"]
    /\ UNCHANGED <<line, written, tries>>

Close(c) ==
    /\ cpc[c] = "close" /\ Asks
    /\ cpc' = [cpc EXCEPT ![c] = "idle"]
    /\ IF holder = c THEN pipe' = "left" /\ holder' = Nobody ELSE UNCHANGED <<pipe, holder>>
    /\ UNCHANGED <<bytes, written, tries>>

Client(c) == Ask(c) \/ Open(c) \/ GiveUp(c) \/ Write(c) \/ Close(c)

\* What the server does by itself.
ServerSteps == Open(Server) \/ TryAgain \/ Write(Server) \/ Close(Server)

-----------------------------------------------------------------------------
(* The game's process.                                                     *)

\* With the process goes all that the hook held.
GameExits ==
    /\ game = "running" /\ game' = "gone"
    /\ thread' = FALSE /\ stop' = FALSE /\ ppc' = "none" /\ pending' = <<>>
    /\ queue' = <<>> /\ due' = <<>> /\ epc' = "frame" /\ wanted' = "unread" /\ Gone
    /\ UNCHANGED <<cut, ran, clients>>

RCInit ==
    /\ game = "none" /\ wanted = "unread" /\ thread = FALSE /\ stop = FALSE
    /\ ppc = "none" /\ pending = <<>> /\ cut = {} /\ queue = <<>> /\ epc = "frame" /\ due = <<>>
    /\ ran = <<>> /\ pipe = "none" /\ holder = Nobody /\ bytes = <<>> /\ written = <<>>
    /\ cpc = [c \in Clients |-> "idle"] /\ tries = 0

-----------------------------------------------------------------------------
RCTypeOK ==
    /\ game \in {"none", "suspended", "running", "gone"}
    /\ wanted \in {"unread", "off", "on"} /\ thread \in BOOLEAN /\ stop \in BOOLEAN
    /\ ppc \in {"none", "create", "connect", "listen", "read", "failed", "ended"}
    /\ pending \in Seq(1 .. MaxLines) /\ cut \subseteq 1 .. MaxLines
    /\ queue \in Seq(0 .. MaxLines) /\ Len(queue) <= QueueLimit
    /\ epc \in {"frame", "run", "closing"} /\ due \in Seq(0 .. MaxLines)
    /\ ran \in Seq(0 .. MaxLines)
    /\ pipe \in {"none", "free", "held", "left"} /\ holder \in Clients \cup {Nobody}
    /\ bytes \in Seq([of : 1 .. MaxLines, last : BOOLEAN])
    /\ written \in Seq(Texts)
    /\ cpc \in [Clients -> {"idle", "open", "write", "close"}] /\ tries \in 0 .. Tries

\* What the pipe promises, and the hook keeps: no line is run twice, out of order, or put
\* together from what two clients wrote, and none but an overlong one without its beginning
\* (PipeThread, QueueCommand, the drain).
Channel == INSTANCE CommandChannel WITH Lines <- Texts, sent <- written, run <- ran
KeepsTheOrder == Channel!Spec

\* A pipe that counts as closed is closed: its thread is gone and nobody can open it
\* (PipeShutdown, PipeIsOpen).
ClosedIsClosed == ~thread => ppc = "none" /\ pipe = "none"

\* "It comes out of a blocking connect or read by itself" (MirvVrXrPipe.cpp 201): once it is
\* told to stop, the thread ends, also under a client that never goes.
StoppedThreadEnds == stop ~> (Ended \/ ~thread)

\* A pipe that one client has left is there for the next one, unless it is being shut or its
\* name was taken meanwhile.
PipeListensAgain ==
    (pipe = "left") ~> (pipe \in {"free", "held"} \/ stop \/ ppc = "failed" \/ game = "gone")

\* What was queued stays in hand until it is run, unless the game goes first: neither a lock
\* given up between two commands nor a shutdown among a frame's commands costs one of them.
InHand == ToSet(queue) \cup ToSet(due) \cup ToSet(ran)

NothingQueuedIsLost == [][InHand \subseteq InHand' \/ game' = "gone"]_rcVars

\* The server answers every request, however long somebody else holds the pipe.
RequestsAreAnswered == (cpc[Server] = "open") ~> (cpc[Server] = "idle")

\* Neither the one who comes next nor the one who waits is left without an answer.
ClientsAreServed == PipeListensAgain /\ RequestsAreAnswered

=============================================================================
