------------------------------ MODULE AimControl ------------------------------
(***************************************************************************)
(* Aiming in a game: the servo that brings the aim onto a direction with   *)
(* mouse counts, the tracker that keeps it on the hand, the stick that     *)
(* aims inside a cone, and what PlayingInput makes of them frame by frame. *)
(*                                                                         *)
(* A count sent in one frame turns the view some frames later, and nobody  *)
(* says how many: what was sent and has not been seen must be known        *)
(* without being told, or it is sent again.  The game is the environment   *)
(* here: it answers after a delay, its counts are worth what its own       *)
(* settings make them worth, and it may not be listening at all.           *)
(*                                                                         *)
(* Angles are whole numbers, a count being believed to be worth two, and   *)
(* do not wrap: NormalizeDegrees is left out, and so is the learning of    *)
(* what a count is worth, whose result is only believed here.              *)
(***************************************************************************)
EXTENDS Integers, Sequences

CONSTANTS
    Methods,        \* g_AimMethod: "hand" or "stick"
    Delays,         \* after how many frames the game may answer
    Worths,         \* what a count may be worth in the game
    Directions,     \* for each axis, where the hand and the gaze may point
    Throws,         \* what the stick may ask of one frame, in halves of a count
    Reach,          \* bound: how far the stick turns the aim
    MaxCalls,       \* maxCalls
    MaxWait,        \* maxWaitFrames
    MaxCounts,      \* maxCountsPerFrame
    Tolerance,      \* toleranceDegrees
    Deadband,       \* deadbandDegrees
    Deadzone,       \* g_AimDeadzoneDegrees
    Snap,           \* g_AimSnapDegrees
    Beat,           \* the half second between two attempts, in frames
    MaxDisturbances \* bound: how often the viewer or the game changes what it does

ASSUME DelayAssumption == Delays \subseteq 1 .. 4 /\ Worths \subseteq Nat \ {0}
ASSUME ServoAssumption == /\ {MaxCalls, MaxWait, MaxCounts} \subseteq Nat \ {0}
                          /\ {Tolerance, Deadband, Beat, Reach, MaxDisturbances} \subseteq Nat
\* A snap is not wider than the cone.
ASSUME ConeAssumption  == Deadzone \in Nat /\ Snap \in Nat /\ Snap <= 2 * Deadzone

VARIABLES
    method,
    \* The hook.
    servo,          \* g_ServoYaw and g_ServoPitch
    track,          \* g_TrackYaw and g_TrackPitch
    ready,          \* g_HandAimReady
    beat,           \* frames until g_HandAimRetryAt
    target,         \* g_GazeTargetYaw and g_GazeTargetPitch
    carry,          \* g_AimCarryX and g_AimCarryY
    clicked,        \* g_PrevAimCentre
    body,           \* where the body faces, in yaw
    clean,          \* the servos' run: nothing was under way when it began, and the game listened
    \* The game and the viewer.
    delay, worth,   \* how it answers
    aim,            \* its own angles
    flying,         \* what was sent in the last delay - 1 frames, the newest last
    deaf,           \* whether what arrives is lost
    hand,           \* where the hand points, inside the window about the gaze
    valid,          \* whether its pose is known
    stick,          \* what g_TurnAction and g_RecenterAction say
    disturbed       \* how often one of these four has changed

learned == <<servo, track, ready, beat, target, carry, clicked, body, clean>>
world   == <<delay, worth, aim, flying, deaf, hand, valid, stick, disturbed>>
vars    == <<method, learned, world>>

-----------------------------------------------------------------------------
Axes     == {"yaw", "pitch"}
Believed == 2           \* what a count is believed to be worth
Outcomes == {"idle", "running", "reached", "gave up"}

ASSUME InputAssumption == Throws \subseteq Int /\ \A a \in Axes : Directions[a] \subseteq Int

Size(x)  == IF x < 0 THEN -x ELSE x
Sign(x)  == IF x < 0 THEN -1 ELSE 1
Sum3(s, n) == (IF n >= 1 THEN s[1] ELSE 0) + (IF n >= 2 THEN s[2] ELSE 0) + (IF n >= 3 THEN s[3] ELSE 0)

\* No more than so much either way.
Within(x, most) == IF x > most THEN most ELSE IF x < -most THEN -most ELSE x

\* TakeWholeUnits: whole counts toward zero, of an amount in parts of a count.
TakeWholeUnits(total, unit) ==
    LET whole == Sign(total) * (Size(total) \div unit)
    IN  [whole |-> whole, carry |-> total - whole * unit]

\* Mutant: no step is taken before a whole one is due.
StepsTooLate(over) == Size(over) \div Snap

StepsOver(over) == 1 + (Size(over) \div Snap)

\* BodyTurnStep: nothing inside the cone; beyond it, whole snaps or what is too much.
BodyTurnStep(rel) ==
    LET over == rel - Sign(rel) * Deadzone
    IN  IF Size(rel) <= Deadzone THEN 0
        ELSE IF Snap = 0 THEN over
        ELSE Sign(over) * Snap * StepsOver(over)

-----------------------------------------------------------------------------
(* AimServo.                                                               *)

Idle == [outcome |-> "idle", calls |-> 0, lag |-> 0, firstSend |-> -1, firstError |-> 0,
         firstWorth |-> 0, recent |-> <<0, 0, 0>>, carry |-> 0]

Start == [Idle EXCEPT !.outcome = "running"]

\* What a run leaves behind is its outcome and the delay; Start clears the rest.
Ends(s, outcome) == [Idle EXCEPT !.outcome = outcome, !.lag = s.lag]

Cancel(s) == IF s.outcome = "running" THEN Ends(s, "idle") ELSE s

\* Mutant: the frame in which it was sent counts as well.
LagAndOne(s) == s.calls - s.firstSend + 1

LagOf(s) == s.calls - s.firstSend

\* The delay, once the first correction has arrived: a quarter of it is enough to tell.
Lag(s, error) ==
    LET progress == s.firstError - error
        arrived  == /\ progress # 0 /\ (progress > 0) = (s.firstWorth > 0)
                    /\ 4 * Size(progress) >= Size(s.firstWorth)
    IN  IF s.lag = 0 /\ s.firstSend >= 0 /\ arrived
          THEN IF LagOf(s) > 4 THEN 4 ELSE IF LagOf(s) < 1 THEN 1 ELSE LagOf(s)
          ELSE s.lag

\* What was sent and has not been seen.
UnderWay(s) == Sum3(s.recent, s.lag - 1)

\* Mutant: it goes on sending while it waits for the first answer.
NeverWaits(s) == FALSE

Waiting(s) == s.lag = 0 /\ s.firstSend >= 0

IsDeaf(s) == Waiting(s) /\ s.calls - s.firstSend >= MaxWait

\* What a step begins with: the first error is remembered, and the delay is looked for.
Seen(servo0, error) ==
    LET s == IF servo0.calls = 0 THEN [servo0 EXCEPT !.firstError = error] ELSE servo0
    IN  [s EXCEPT !.lag = Lag(s, error)]

IsThere(s, error) == ~Waiting(s) /\ Size(error) <= Tolerance /\ Size(UnderWay(s)) <= Tolerance

IsLate(s) == s.calls >= MaxCalls \/ IsDeaf(s)

\* Six tenths of what is left, in whole counts and no more than are allowed.
Correction(s, error) ==
    IF Waiting(s) THEN [whole |-> 0, carry |-> s.carry]
    ELSE TakeWholeUnits(Within(3 * (error - UnderWay(s)), 5 * Believed * MaxCounts) + s.carry,
                        5 * Believed)

Corrects(s, taken) ==
    LET first == s.firstSend < 0 /\ taken.whole # 0
    IN  [s EXCEPT !.calls = @ + 1, !.carry = taken.carry,
                  !.firstSend  = IF first THEN s.calls ELSE @,
                  !.firstWorth = IF first THEN taken.whole * Believed ELSE @,
                  !.recent = <<taken.whole * Believed, @[1], @[2]>>]

\* AimServo.Step: the servo after it, and what it sends.
ServoStep(servo0, error) ==
    LET s     == Seen(servo0, error)
        taken == Correction(s, error)
    IN  IF servo0.outcome # "running" THEN [servo |-> servo0, sent |-> 0]
        ELSE IF IsThere(s, error) THEN [servo |-> Ends(s, "reached"), sent |-> 0]
        ELSE IF IsLate(s) THEN [servo |-> Ends(s, "gave up"), sent |-> 0]
        ELSE [servo |-> Corrects(s, taken), sent |-> taken.whole]

-----------------------------------------------------------------------------
(* AimTracker.                                                             *)

Untracked == [have |-> FALSE, smoothed |-> 0, recent |-> <<0, 0, 0>>, carry |-> 0]

\* A third of the way to a target that hardly moves, and at least some of it.
Smoothed(t, to) ==
    IF ~t.have THEN to
    ELSE t.smoothed + Sign(to - t.smoothed) * ((7 * Size(to - t.smoothed) + 19) \div 20)

TrackerUnderWay(t, lag) == Sum3(t.recent, lag - 1)

TrackerStep(t, lag, to, current) ==
    LET smoothed  == Smoothed(t, to)
        remaining == smoothed - current - TrackerUnderWay(t, lag)
        taken     == IF Size(remaining) > Deadband
                       THEN TakeWholeUnits(Within(remaining, 2 * Believed * MaxCounts)
                                            + t.carry, 2 * Believed)
                       ELSE [whole |-> 0, carry |-> 0]
    IN  [track |-> [have |-> TRUE, smoothed |-> smoothed, carry |-> taken.carry,
                    recent |-> <<taken.whole * Believed, t.recent[1], t.recent[2]>>],
         sent |-> taken.whole]

-----------------------------------------------------------------------------
(* The game's side of a frame.                                             *)

\* What was sent flies for delay - 1 frames, and then arrives.
Arrives(f, sent) == Head(Append(f, sent))

Receives(sent) ==
    /\ flying' = [a \in Axes |-> Tail(Append(flying[a], sent[a]))]
    /\ aim' = [a \in Axes |-> IF deaf THEN aim[a]
                                      ELSE aim[a] + worth * Arrives(flying[a], sent[a])]
    /\ UNCHANGED <<method, delay, worth, deaf, hand, valid, stick, disturbed>>

Silence == [a \in Axes |-> 0]
IsQuiet == ~deaf /\ \A a \in Axes : \A i \in 1 .. Len(flying[a]) : flying[a][i] = 0

Steps(s, to) == [a \in Axes |-> ServoStep(s[a], to[a] - aim[a])]

\* Both servos, with what they send.
RunServos(s, to) ==
    LET step == Steps(s, to)
    IN  /\ servo' = [a \in Axes |-> step[a].servo]
        /\ Receives([a \in Axes |-> step[a].sent])

Runs     == \E a \in Axes : servo[a].outcome = "running"
Passes   == beat' = IF beat = 0 THEN 0 ELSE beat - 1
Fresh    == [a \in Axes |-> Start]
Unaimed  == [a \in Axes |-> Untracked]

-----------------------------------------------------------------------------
(* PlayingInput with the hand.                                             *)

Hand == method = "hand" /\ UNCHANGED <<carry, clicked, body>>

\* StopHandAim: no pose, or the controllers are somebody else's.
StopHandAim ==
    /\ Hand /\ ~valid
    /\ ready' = FALSE /\ servo' = [a \in Axes |-> Cancel(servo[a])] /\ track' = Unaimed
    /\ Receives(Silence) /\ Passes
    /\ UNCHANGED <<target, clean>>

Reached == \A a \in Axes : servo[a].outcome = "reached"

\* The servos have arrived: the tracker takes over, with the delay they measured.
TakeOver ==
    /\ Hand /\ valid /\ ~ready /\ ~Runs /\ Reached
    /\ ready' = TRUE /\ track' = Unaimed
    /\ Receives(Silence) /\ Passes
    /\ UNCHANGED <<servo, target, clean>>

\* Mutant: the servos are cancelled and no more.
CancelAlone == servo' = [a \in Axes |-> Cancel(servo[a])]

BackToIdle == servo' = [a \in Axes |-> Ends(servo[a], "idle")]

\* They gave up: once more, on a slower beat.
Retry ==
    /\ Hand /\ valid /\ ~ready /\ ~Runs /\ servo["yaw"].outcome = "gave up"
    /\ BackToIdle /\ beat' = Beat
    /\ Receives(Silence)
    /\ UNCHANGED <<track, ready, target, clean>>

Begin ==
    /\ Hand /\ valid /\ ~ready /\ ~Runs /\ ~Reached /\ servo["yaw"].outcome # "gave up"
    /\ beat = 0
    /\ target' = hand /\ clean' = IsQuiet
    /\ RunServos(Fresh, hand)
    /\ UNCHANGED <<track, ready, beat>>

Rest ==
    /\ Hand /\ valid /\ ~ready /\ ~Runs /\ ~Reached /\ servo["yaw"].outcome # "gave up"
    /\ beat # 0
    /\ Receives(Silence) /\ Passes
    /\ UNCHANGED <<servo, track, ready, target, clean>>

Chase ==
    /\ Hand /\ valid /\ ~ready /\ Runs
    /\ RunServos(servo, target) /\ Passes
    /\ UNCHANGED <<track, ready, target, clean>>

\* The delay of yaw is taken for both; two frames, when yaw had nothing to send.
TrackLag == IF servo["yaw"].lag > 0 THEN servo["yaw"].lag ELSE 2

Track ==
    /\ Hand /\ valid /\ ready
    /\ LET to == [a \in Axes |-> TrackerStep(track[a], TrackLag, hand[a], aim[a])]
       IN  /\ track' = [a \in Axes |-> to[a].track]
           /\ Receives([a \in Axes |-> to[a].sent])
    /\ Passes
    /\ UNCHANGED <<servo, ready, target, clean>>

-----------------------------------------------------------------------------
(* PlayingInput with the stick.                                            *)

\* What the stick asks for; nobody holds it over for ever.
Thrown == IF Size(aim["yaw"]) < Reach THEN stick.throw ELSE 0

\* The aim that was read when the frame began is what the body follows.
Follows == body' = body + BodyTurnStep(aim["yaw"] - body)

\* A click brings the aim to the gaze; the stick moves an axis whose servo does not run (yaw
\* here: pitch has no cone).
StickFrame ==
    /\ method = "stick" /\ valid
    /\ LET starts == stick.pressed /\ ~clicked
           to     == IF starts THEN hand ELSE target
           step   == Steps(IF starts THEN Fresh ELSE servo, to)
           turns  == step["yaw"].servo.outcome # "running"
           turn   == TakeWholeUnits(Thrown + carry, 2)
       IN  /\ clicked' = stick.pressed /\ target' = to
           /\ clean' = IF starts THEN IsQuiet ELSE clean
           /\ servo' = [a \in Axes |-> step[a].servo]
           /\ carry' = IF turns THEN turn.carry ELSE carry
           /\ Receives([a \in Axes |-> IF a = "yaw" /\ turns THEN turn.whole ELSE step[a].sent])
    /\ Follows
    /\ UNCHANGED <<track, ready, beat>>

\* ReleaseGameButtons, when the controllers are somebody else's.
ReleaseGameButtons ==
    /\ ~valid
    /\ servo' = [a \in Axes |-> Cancel(servo[a])] /\ carry' = 0
    /\ Receives(Silence) /\ Passes
    /\ UNCHANGED <<track, ready, target, clicked, body, clean>>

Frame == StopHandAim \/ TakeOver \/ Retry \/ Begin \/ Rest \/ Chase \/ Track
             \/ StickFrame \/ ReleaseGameButtons

-----------------------------------------------------------------------------
(* The game and the viewer.                                                *)

Disturbs == disturbed < MaxDisturbances /\ disturbed' = disturbed + 1

\* Paused, or the window has lost the mouse.
StopsListening ==
    /\ Disturbs /\ ~deaf /\ deaf' = TRUE /\ clean' = FALSE
    /\ UNCHANGED <<method, servo, track, ready, beat, target, carry, clicked, body, delay, worth,
                   aim, flying, hand, valid, stick>>

Listens ==
    /\ deaf /\ deaf' = FALSE
    /\ UNCHANGED <<method, learned, delay, worth, aim, flying, hand, valid, stick, disturbed>>

HandMoves ==
    /\ Disturbs
    /\ \E a \in Axes : \E d \in Directions[a] \ {hand[a]} : hand' = [hand EXCEPT ![a] = d]
    /\ UNCHANGED <<method, learned, delay, worth, aim, flying, deaf, valid, stick>>

PoseGoes ==
    /\ Disturbs /\ valid /\ valid' = FALSE
    /\ UNCHANGED <<method, learned, delay, worth, aim, flying, deaf, hand, stick>>

StickMoves ==
    /\ method = "stick" /\ Disturbs
    /\ \E s \in [throw : Throws, pressed : BOOLEAN] \ {stick} : stick' = s
    /\ UNCHANGED <<method, learned, delay, worth, aim, flying, deaf, hand, valid>>

PoseComes ==
    /\ ~valid /\ valid' = TRUE
    /\ UNCHANGED <<method, learned, delay, worth, aim, flying, deaf, hand, stick, disturbed>>

-----------------------------------------------------------------------------
Init ==
    /\ method \in Methods /\ delay \in Delays /\ worth \in Worths
    /\ servo = [a \in Axes |-> Idle] /\ track = Unaimed /\ ready = FALSE /\ beat = 0
    /\ target = Silence /\ carry = 0 /\ clicked = FALSE /\ body = 0 /\ clean = FALSE
    /\ aim = Silence /\ flying = [a \in Axes |-> [i \in 1 .. delay - 1 |-> 0]]
    /\ deaf = FALSE /\ disturbed = 0
    /\ hand \in [Axes -> UNION {Directions[a] : a \in Axes}]
    /\ \A a \in Axes : hand[a] \in Directions[a]
    /\ valid = TRUE /\ stick = [throw |-> 0, pressed |-> FALSE]

Next == Frame \/ StopsListening \/ Listens \/ HandMoves \/ PoseGoes \/ PoseComes \/ StickMoves

Spec == Init /\ [][Next]_vars

\* The frame loop runs for as long as the game does.
FairSpec == Spec /\ WF_vars(Frame)

-----------------------------------------------------------------------------
Running(a) == servo[a].outcome = "running"

OnItsWay(a) == Believed * Sum3(flying[a], Len(flying[a]))

TypeOK ==
    /\ method \in Methods /\ delay \in Delays /\ worth \in Worths
    /\ \A a \in Axes : /\ servo[a].outcome \in Outcomes
                       /\ servo[a].calls \in 0 .. MaxCalls /\ servo[a].lag \in 0 .. 4
                       /\ Size(servo[a].carry) < 10 /\ Size(track[a].carry) < 4
                       /\ Len(flying[a]) = delay - 1
    /\ ready \in BOOLEAN /\ beat \in 0 .. Beat /\ Size(carry) < 2

\* Once the servo knows the delay, what it takes to be on its way is what is on its way
\* (AimServo.Step): no count is sent for a second time.
NothingIsCountedTwice ==
    clean => \A a \in Axes :
        Running(a) /\ servo[a].lag > 0 => UnderWay(servo[a]) = OnItsWay(a)

\* "One correction's worth of counts, not a fortune of them" (MirvVrMath.h 1004): until the
\* game has answered it has been sent the first correction and nothing else, which is on its
\* way or has turned the aim.
OneCorrectionUntilItAnswers ==
    clean => \A a \in Axes :
        LET turned == servo[a].firstError - (target[a] - aim[a])
        IN  Running(a) /\ servo[a].lag = 0 /\ servo[a].calls > 0 =>
                Believed * turned = worth * (servo[a].firstWorth - OnItsWay(a))

\* What was sent and has not been seen is known, before the delay is and after.
KnowsWhatIsUnderWay == NothingIsCountedTwice /\ OneCorrectionUntilItAnswers

\* With counts worth what they are believed to be worth, the aim never swings past its target.
NeverSwingsPast ==
    clean /\ worth <= Believed => \A a \in Axes :
        Running(a) /\ servo[a].calls > 0 =>
            LET error == target[a] - aim[a]
            IN  error = 0 \/ Sign(error) = Sign(servo[a].firstError)

\* A wrong gain changes how fast the error shrinks (MirvVrMath.h 1005); it never grows.
NeverWorse ==
    clean => \A a \in Axes :
        Running(a) /\ servo[a].calls > 0 => Size(target[a] - aim[a]) <= Size(servo[a].firstError)

\* A servo brings the aim closer or leaves it.
NeverWorseNorPast == NeverWorse /\ NeverSwingsPast

\* The body follows at once and by enough, however far the aim was pushed (MirvVrMath.h 768).
BackInTheCone ==
    [][StickFrame => Size(aim["yaw"] - body') <= Deadzone]_vars

\* Whatever was given up before, a hand whose pose is known and a game that listens come to
\* be tracked for good ("for ever, with the log showing ready 0", 2545), and a tracker whose
\* gain is right and whose delay is a frame too short at most "rings and dies in a few
\* frames" (MirvVrMath.h 1128): over a hand that keeps still, which it does in the end, the
\* aim comes to rest on it.
OnTheHand     == \A a \in Axes : Size(hand[a] - aim[a]) <= Deadband + 2 * Believed
BelievesRight == worth <= Believed /\ delay <= TrackLag + 1

AimComesToTheHand ==
    method = "hand" /\ <>[](valid /\ ~deaf) => <>[](ready /\ (BelievesRight => OnTheHand))

=============================================================================
