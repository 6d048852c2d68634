--------------------------- MODULE AimControlProofs ---------------------------
(***************************************************************************)
(* What TLAPS proves of AimControl: for every delay and worth of a count,  *)
(* every limit of the servo and every cone.                                *)
(***************************************************************************)
EXTENDS AimControl, SequenceTheorems, TLAPS

Triple    == Int \X Int \X Int
ServoType == [outcome : Outcomes, calls : Nat, lag : 0 .. 4, firstSend : Int, firstError : Int,
              firstWorth : Int, recent : Triple, carry : Int]
TrackType == [have : BOOLEAN, smoothed : Int, recent : Triple, carry : Int]

-----------------------------------------------------------------------------
(* Whole counts, and what is left of them.                                 *)

LEMMA Division ==
  ASSUME NEW d \in Nat, NEW s \in Nat \ {0}
  PROVE  d \div s \in Nat /\ s * (d \div s) <= d /\ d < s * (d \div s) + s
OBVIOUS

LEMMA Product ==
  ASSUME NEW s \in Int, NEW q \in Int
  PROVE  s * q \in Int /\ s * (1 + q) = s * q + s /\ s * 0 = 0 /\ 0 * q = 0
OBVIOUS

\* TakeWholeUnits loses nothing: what is not sent is kept, and is less than a count.
LEMMA NothingIsRoundedAway ==
  ASSUME NEW total \in Int, NEW unit \in {2, 4, 10}
  PROVE  /\ TakeWholeUnits(total, unit).whole \in Int
         /\ TakeWholeUnits(total, unit).carry \in Int
         /\ TakeWholeUnits(total, unit).whole * unit + TakeWholeUnits(total, unit).carry = total
         /\ Size(TakeWholeUnits(total, unit).carry) < unit
<1> DEFINE q == Size(total) \div unit
           w == Sign(total) * q
<1>1. Size(total) \in Nat /\ Size(total) = Sign(total) * total /\ Sign(total) \in {-1, 1}
  BY DEF Size, Sign
<1>2. q \in Nat /\ unit * q <= Size(total) /\ Size(total) < unit * q + unit
  BY <1>1, Division
<1>3. TakeWholeUnits(total, unit) = [whole |-> w, carry |-> total - w * unit]
  BY DEF TakeWholeUnits
<1> HIDE DEF q
<1>4. w \in Int /\ w * unit \in Int /\ w * unit + (total - w * unit) = total
  BY <1>1, <1>2
<1>5. Size(total - w * unit) < unit
  <2>1. CASE Sign(total) = 1
    BY <1>1, <1>2, <2>1 DEF Size
  <2>2. CASE Sign(total) = -1
    BY <1>1, <1>2, <2>2 DEF Size
  <2> QED
    BY <1>1, <2>1, <2>2
<1> QED
  BY <1>3, <1>4, <1>5

LEMMA WithinIsWhole ==
  ASSUME NEW x \in Int, NEW most \in Int
  PROVE  Within(x, most) \in Int
BY DEF Within

-----------------------------------------------------------------------------
(* The body and the cone.                                                  *)

LEMMA StepBringsBack ==
  ASSUME NEW rel \in Int
  PROVE  BodyTurnStep(rel) \in Int /\ Size(rel - BodyTurnStep(rel)) <= Deadzone
<1> DEFINE over == rel - Sign(rel) * Deadzone
<1>1. Deadzone \in Nat /\ Snap \in Nat /\ Snap <= 2 * Deadzone
  BY ConeAssumption
<1>2. CASE Size(rel) <= Deadzone
  BY <1>2 DEF BodyTurnStep
<1>3. CASE Size(rel) > Deadzone
  <2>1. over \in Int /\ Size(over) \in Nat /\ Size(over) > 0
    BY <1>1, <1>3 DEF Size, Sign
  <2>2. /\ rel > 0 => over = rel - Deadzone /\ Size(over) = over /\ Sign(over) = 1
        /\ ~(rel > 0) => over = rel + Deadzone /\ Size(over) = -over /\ Sign(over) = -1
    BY <1>1, <1>3 DEF Size, Sign
  <2>3. BodyTurnStep(rel) = IF Snap = 0 THEN over ELSE Sign(over) * Snap * StepsOver(over)
    BY <1>1, <1>3, <2>1 DEF BodyTurnStep, Size
  <2> HIDE DEF over
  <2>4. CASE Snap = 0
    BY <1>1, <1>3, <2>1, <2>2, <2>3, <2>4 DEF Size
  <2>5. CASE Snap # 0
    <3> DEFINE q == Size(over) \div Snap
    <3>1. q \in Nat /\ Snap * q <= Size(over) /\ Size(over) < Snap * q + Snap
      BY <1>1, <2>1, <2>5, Division
    <3>2. StepsOver(over) = 1 + q
      BY DEF StepsOver
    <3> HIDE DEF q
    <3> DEFINE p == Snap * (1 + q)
    <3>3. p \in Int /\ Size(over) < p /\ p <= Size(over) + Snap
      BY <1>1, <2>1, <3>1, Product
    <3>4. CASE rel > 0
      <4>1. BodyTurnStep(rel) = p
        BY <1>1, <2>2, <2>3, <2>5, <3>1, <3>2, <3>4
      <4> HIDE DEF p
      <4> QED
        BY <1>1, <2>1, <2>2, <3>3, <3>4, <4>1 DEF Size
    <3>5. CASE ~(rel > 0)
      <4>1. BodyTurnStep(rel) = -p
        BY <1>1, <2>2, <2>3, <2>5, <3>1, <3>2, <3>5
      <4> HIDE DEF p
      <4> QED
        BY <1>1, <2>1, <2>2, <3>3, <3>5, <4>1 DEF Size
    <3> QED
      BY <3>4, <3>5
  <2> QED
    BY <2>4, <2>5
<1> QED
  BY <1>1, <1>2, <1>3 DEF Size

-----------------------------------------------------------------------------
(* One step of a servo.                                                    *)

\* A servo that runs on.
Onward(s, r) ==
    /\ r.servo.outcome = "running"
    /\ r.servo.calls = s.calls + 1 /\ r.servo.lag = s.lag /\ r.servo.firstError = s.firstError
    /\ r.servo.firstSend = IF s.firstSend < 0 /\ r.sent # 0 THEN s.calls ELSE s.firstSend
    /\ r.servo.firstWorth = IF s.firstSend < 0 /\ r.sent # 0 THEN r.sent * Believed
                                                             ELSE s.firstWorth
    /\ r.servo.recent = <<r.sent * Believed, s.recent[1], s.recent[2]>>
    /\ Waiting(s) => r.sent = 0

\* A servo that is where it was sent, or was given up, has nothing left but its delay.
LEMMA EndIsAServo ==
  ASSUME NEW s \in ServoType, NEW o \in Outcomes
  PROVE  Ends(s, o) \in ServoType /\ Ends(s, o).outcome = o
<1>1. s.lag \in 0 .. 4
  BY DEF ServoType
<1>2. Idle \in ServoType
  <2>1. <<0, 0, 0>> \in Triple
    BY DEF Triple
  <2>2. "idle" \in Outcomes
    BY DEF Outcomes
  <2>3. -1 \in Int /\ 0 \in 0 .. 4 /\ 0 \in Nat
    OBVIOUS
  <2> QED
    BY <2>1, <2>2, <2>3 DEF Idle, ServoType
<1> QED
  BY <1>1, <1>2 DEF Ends, ServoType

LEMMA EndIsTheEnd ==
  ASSUME NEW s \in ServoType, NEW o \in Outcomes, o # "running", NEW r,
         r = [servo |-> Ends(s, o), sent |-> 0]
  PROVE  r.servo \in ServoType /\ r.servo.outcome # "running" /\ r.sent \in Int
<1>1. r.servo = Ends(s, o) /\ r.sent \in Int
  OBVIOUS
<1> QED
  BY <1>1, EndIsAServo

LEMMA SeenIsAServo ==
  ASSUME NEW s0 \in ServoType, NEW error \in Int
  PROVE  /\ Seen(s0, error) \in ServoType /\ Seen(s0, error).outcome = s0.outcome
         /\ Seen(s0, error).firstError = IF s0.calls = 0 THEN error ELSE s0.firstError
         /\ Seen(s0, error).lag = Lag([s0 EXCEPT !.firstError = IF s0.calls = 0 THEN error ELSE @], error)
         /\ \A f \in {"calls", "firstSend", "firstWorth", "recent", "carry"} : Seen(s0, error)[f] = s0[f]
<1> DEFINE s == [s0 EXCEPT !.firstError = IF s0.calls = 0 THEN error ELSE @]
<1>1. s \in ServoType
  BY DEF ServoType
<1>2. s = IF s0.calls = 0 THEN [s0 EXCEPT !.firstError = error] ELSE s0
  BY DEF ServoType
<1>3. Lag(s, error) \in 0 .. 4
  BY <1>1 DEF Lag, LagOf, ServoType
<1>4. Seen(s0, error) = [s EXCEPT !.lag = Lag(s, error)]
  BY <1>2 DEF Seen
<1> QED
  BY <1>1, <1>3, <1>4 DEF ServoType

LEMMA CorrectionIsWhole ==
  ASSUME NEW s \in ServoType, NEW error \in Int
  PROVE  /\ Correction(s, error).whole \in Int /\ Correction(s, error).carry \in Int
         /\ Waiting(s) => Correction(s, error).whole = 0
<1>1. s.carry \in Int
  BY DEF ServoType
<1>2. CASE Waiting(s)
  BY <1>1, <1>2 DEF Correction
<1>3. CASE ~Waiting(s)
  <2>1. UnderWay(s) \in Int
    BY DEF UnderWay, Sum3, ServoType, Triple
  <2>2. Within(3 * (error - UnderWay(s)), 5 * Believed * MaxCounts) + s.carry \in Int
    <3>1. MaxCounts \in Int
      BY ServoAssumption
    <3>2. 5 * Believed * MaxCounts \in Int /\ 3 * (error - UnderWay(s)) \in Int
      BY <2>1, <3>1 DEF Believed
    <3>3. Within(3 * (error - UnderWay(s)), 5 * Believed * MaxCounts) \in Int
      BY <3>2, WithinIsWhole
    <3> QED
      BY <1>1, <3>3
  <2>3. 5 * Believed = 10
    BY DEF Believed
  <2> QED
    BY <1>3, <2>2, <2>3, NothingIsRoundedAway DEF Correction
<1> QED
  BY <1>2, <1>3

LEMMA StepIsAServo ==
  ASSUME NEW s0 \in ServoType, NEW error \in Int
  PROVE  /\ ServoStep(s0, error).sent \in Int
         /\ ServoStep(s0, error).servo \in ServoType
         /\ s0.outcome # "running" => ServoStep(s0, error).servo = s0
         /\ \/ ServoStep(s0, error).servo.outcome # "running"
            \/ s0.outcome = "running" /\ Onward(Seen(s0, error), ServoStep(s0, error))
<1> DEFINE s     == Seen(s0, error)
           taken == Correction(s, error)
           r     == ServoStep(s0, error)
<1>1. r = IF s0.outcome # "running" THEN [servo |-> s0, sent |-> 0]
          ELSE IF IsThere(s, error) THEN [servo |-> Ends(s, "reached"), sent |-> 0]
          ELSE IF IsLate(s) THEN [servo |-> Ends(s, "gave up"), sent |-> 0]
          ELSE [servo |-> Corrects(s, taken), sent |-> taken.whole]
  BY DEF ServoStep
<1>2. s \in ServoType /\ s.outcome = s0.outcome
  BY SeenIsAServo
<1>3. taken.whole \in Int /\ taken.carry \in Int /\ (Waiting(s) => taken.whole = 0)
  BY <1>2, CorrectionIsWhole
<1> HIDE DEF taken
<1>5. CASE s0.outcome # "running"
  BY <1>1, <1>5
<1>6. CASE s0.outcome = "running" /\ (IsThere(s, error) \/ IsLate(s))
  <2>1. CASE IsThere(s, error)
    <3>1. r = [servo |-> Ends(s, "reached"), sent |-> 0]
      BY <1>1, <1>6, <2>1
    <3> QED
      BY <1>2, <1>6, <3>1, EndIsTheEnd DEF Outcomes
  <2>2. CASE ~IsThere(s, error)
    <3>1. r = [servo |-> Ends(s, "gave up"), sent |-> 0]
      BY <1>1, <1>6, <2>2
    <3> QED
      BY <1>2, <1>6, <3>1, EndIsTheEnd DEF Outcomes
  <2> QED
    BY <2>1, <2>2
<1>7. CASE s0.outcome = "running" /\ ~IsThere(s, error) /\ ~IsLate(s)
  <2> DEFINE on == Corrects(s, taken)
  <2>1. r.servo = on /\ r.sent = taken.whole
    BY <1>1, <1>7
  <2> DEFINE first == s.firstSend < 0 /\ taken.whole # 0
             calls  == s.calls + 1
             sentAt == IF first THEN s.calls ELSE s.firstSend
             worthIt == IF first THEN taken.whole * Believed ELSE s.firstWorth
             recent == <<taken.whole * Believed, s.recent[1], s.recent[2]>>
  <2>2. on = [s EXCEPT !.calls = calls, !.carry = taken.carry, !.firstSend = sentAt,
                       !.firstWorth = worthIt, !.recent = recent]
    BY DEF Corrects
  <2>3. /\ calls \in Nat /\ sentAt \in Int /\ worthIt \in Int /\ recent \in Triple
    BY <1>2, <1>3 DEF ServoType, Triple, Believed
  <2> HIDE DEF calls, sentAt, worthIt, recent, first, on
  <2>4. /\ on \in ServoType
        /\ on.outcome = s.outcome /\ on.lag = s.lag /\ on.firstError = s.firstError
        /\ on.calls = calls /\ on.firstSend = sentAt /\ on.firstWorth = worthIt
        /\ on.recent = recent
    BY <1>2, <1>3, <2>2, <2>3 DEF ServoType
  <2> HIDE DEF on
  <2>5. Onward(s, r)
    BY <1>2, <1>3, <1>7, <2>1, <2>4 DEF Onward, calls, sentAt, worthIt, recent, first
  <2> QED
    BY <1>3, <1>7, <2>1, <2>4, <2>5
<1> QED
  BY <1>5, <1>6, <1>7

-----------------------------------------------------------------------------
(* What a servo knows of what it has sent.                                 *)

\* What is remembered of the last three frames is what flies, the newest first.
Remembers(s, f) ==
    /\ delay > 1 => s.recent[1] = Believed * f[delay - 1]
    /\ delay > 2 => s.recent[2] = Believed * f[delay - 2]
    /\ delay > 3 => s.recent[3] = Believed * f[delay - 3]

\* The first correction was sent k frames ago, and nothing else was since.
FirstFlies(s, f, turned, k) ==
    \E c \in Int \ {0} :
        /\ s.firstWorth = Believed * c
        /\ \A i \in 1 .. delay - 1 : f[i] = IF i = delay - k THEN c ELSE 0
        /\ turned = IF k = delay THEN worth * c ELSE 0

Sound(s, f, turned) ==
    /\ s.lag \in {0, delay}
    /\ Remembers(s, f)
    /\ s.firstSend < 0 =>
         s.lag = 0 /\ s.firstWorth = 0 /\ turned = 0 /\ \A i \in 1 .. delay - 1 : f[i] = 0
    /\ s.firstSend >= 0 /\ s.lag = 0 =>
         /\ s.calls - s.firstSend \in 1 .. delay
         /\ FirstFlies(s, f, turned, s.calls - s.firstSend)

World == delay \in 1 .. 4 /\ worth \in Nat \ {0}

LEMMA Shift ==
  ASSUME World, NEW f \in Seq(Int), Len(f) = delay - 1, NEW n \in Int
  PROVE  /\ Tail(Append(f, n)) \in Seq(Int) /\ Len(Tail(Append(f, n))) = delay - 1
         /\ Arrives(f, n) \in Int /\ Arrives(f, n) = IF delay = 1 THEN n ELSE f[1]
         /\ \A i \in 1 .. delay - 1 : Tail(Append(f, n))[i] = IF i = delay - 1 THEN n ELSE f[i + 1]
         /\ \A i \in 1 .. delay - 1 : f[i] \in Int
<1> DEFINE a == Append(f, n)
<1>1. /\ a \in Seq(Int) /\ Len(a) = delay /\ a # <<>>
      /\ \A i \in 1 .. delay - 1 : a[i] = f[i] /\ f[i] \in Int
      /\ a[delay] = n
  <2>1. /\ a \in Seq(Int)
        /\ a # <<>>
        /\ Len(a) = Len(f) + 1
        /\ \A i \in 1 .. Len(f) : a[i] = f[i]
        /\ a[Len(f) + 1] = n
    BY AppendProperties, Zenon
  <2>2. Len(f) + 1 = delay /\ 1 .. Len(f) = 1 .. delay - 1
    BY DEF World
  <2>3. \A i \in 1 .. Len(f) : f[i] \in Int
    BY ElementOfSeq
  <2> HIDE DEF a
  <2>4. \A i \in 1 .. delay - 1 : a[i] = f[i] /\ f[i] \in Int
    BY <2>1, <2>2, <2>3
  <2>5. a[delay] = n /\ Len(a) = delay
    BY <2>1, <2>2
  <2> QED
    BY <2>1, <2>4, <2>5
<1> HIDE DEF a
<1>2. /\ Tail(a) \in Seq(Int) /\ Len(Tail(a)) = delay - 1 /\ Head(a) = a[1] /\ Head(a) \in Int
      /\ \A i \in 1 .. delay - 1 : Tail(a)[i] = a[i + 1]
  BY <1>1, HeadTailProperties DEF World
<1>3. Head(a) = IF delay = 1 THEN n ELSE f[1]
  BY <1>1, <1>2 DEF World
<1>4. \A i \in 1 .. delay - 1 : Tail(a)[i] = IF i = delay - 1 THEN n ELSE f[i + 1]
  <2> TAKE i \in 1 .. delay - 1
  <2>1. CASE i = delay - 1
    <3>1. i + 1 = delay
      BY <2>1 DEF World
    <3> QED
      BY <1>1, <1>2, <2>1, <3>1
  <2>2. CASE i # delay - 1
    <3>1. i + 1 \in 1 .. delay - 1
      BY <2>2 DEF World
    <3> QED
      BY <1>1, <1>2, <2>2, <3>1
  <2> QED
    BY <2>1, <2>2
<1> QED
  BY <1>1, <1>2, <1>3, <1>4 DEF a, Arrives

\* The first correction is seen to have arrived, whatever a count is worth.
LEMMA FirstIsSeen ==
  ASSUME NEW w \in Nat \ {0}, NEW c \in Int \ {0}
  PROVE  /\ w * c \in Int /\ w * c # 0 /\ (w * c > 0 <=> Believed * c > 0)
         /\ 4 * Size(w * c) >= Size(Believed * c)
<1>1. CASE c > 0
  <2>1. w * c >= c /\ w * c \in Int
    BY <1>1
  <2> QED
    BY <1>1, <2>1 DEF Size, Believed
<1>2. CASE c < 0
  <2>1. w * c <= c /\ w * c \in Int
    BY <1>2
  <2> QED
    BY <1>2, <2>1 DEF Size, Believed
<1> QED
  BY <1>1, <1>2

LEMMA LagIsTheDelay ==
  ASSUME World, NEW s \in ServoType, NEW error \in Int, NEW f,
         Sound(s, f, s.firstError - error)
  PROVE  /\ Lag(s, error) \in {0, delay}
         /\ Lag(s, error) = 0 => s.lag = 0
         /\ s.firstSend < 0 => Lag(s, error) = 0
         /\ s.firstSend >= 0 /\ Lag(s, error) = 0 => s.calls - s.firstSend \in 1 .. delay - 1
<1>1. s.lag \in 0 .. 4 /\ s.firstSend \in Int /\ s.firstError \in Int /\ s.calls \in Nat
  BY DEF ServoType
<1>2. CASE s.lag # 0
  BY <1>1, <1>2 DEF Lag, Sound, World
<1>3. CASE s.lag = 0 /\ s.firstSend < 0
  BY <1>1, <1>3 DEF Lag, Sound, World
<1>4. CASE s.lag = 0 /\ s.firstSend >= 0
  <2>1. PICK c \in Int \ {0} :
          /\ s.firstWorth = Believed * c
          /\ s.firstError - error = IF s.calls - s.firstSend = delay THEN worth * c ELSE 0
    BY <1>4 DEF Sound, FirstFlies
  <2>2. s.calls - s.firstSend \in 1 .. delay
    BY <1>4 DEF Sound
  <2>3. CASE s.calls - s.firstSend = delay
    <3>1. /\ worth * c \in Int /\ worth * c # 0 /\ (worth * c > 0 <=> Believed * c > 0)
          /\ 4 * Size(worth * c) >= Size(Believed * c)
      BY FirstIsSeen DEF World
    <3>2. s.firstError - error = worth * c
      BY <2>1, <2>3
    <3>3. Lag(s, error) = delay
      <4> DEFINE p == worth * c
                 b == Believed * c
      <4>1. p # 0 /\ (p > 0 <=> b > 0) /\ 4 * Size(p) >= Size(b)
        BY <3>1
      <4>2. s.firstError - error = p /\ s.firstWorth = b
        BY <2>1, <3>2
      <4>3. LagOf(s) = delay /\ ~(delay > 4) /\ ~(delay < 1)
        BY <2>3 DEF LagOf, World
      <4> HIDE DEF p, b
      <4>4. (p > 0) = (b > 0)
        BY <4>1
      <4> QED
        BY <1>4, <4>1, <4>2, <4>3, <4>4 DEF Lag
    <3> QED
      BY <1>1, <1>4, <3>3 DEF World
  <2>4. CASE s.calls - s.firstSend # delay
    <3>1. s.firstError - error = 0
      BY <2>1, <2>4
    <3>2. Lag(s, error) = 0
      BY <1>4, <3>1 DEF Lag
    <3> QED
      BY <1>1, <1>4, <2>2, <2>4, <3>2 DEF World
  <2> QED
    BY <2>3, <2>4
<1> QED
  BY <1>1, <1>2, <1>3, <1>4

\* A servo that has just been started, over a game that is owed nothing.
Unsent(s, f) ==
    /\ s.calls = 0 /\ s.lag = 0 /\ s.firstSend < 0 /\ s.firstWorth = 0 /\ s.recent = <<0, 0, 0>>
    /\ \A i \in 1 .. delay - 1 : f[i] = 0

LEMMA SeenIsSound ==
  ASSUME World, NEW s0 \in ServoType, NEW error \in Int, NEW f,
         IF s0.calls = 0 THEN Unsent(s0, f) ELSE Sound(s0, f, s0.firstError - error)
  PROVE  LET q == Seen(s0, error)
         IN  /\ q \in ServoType /\ Sound(q, f, q.firstError - error)
             /\ q.firstSend >= 0 /\ q.lag = 0 => q.calls - q.firstSend \in 1 .. delay - 1
<1> DEFINE q == Seen(s0, error)
           b == [s0 EXCEPT !.firstError = IF s0.calls = 0 THEN error ELSE @]
<1>1. /\ q \in ServoType
      /\ q.firstError = IF s0.calls = 0 THEN error ELSE s0.firstError
      /\ q.lag = Lag(b, error) /\ q.calls = s0.calls /\ q.firstSend = s0.firstSend
      /\ q.firstWorth = s0.firstWorth /\ q.recent = s0.recent
  BY SeenIsAServo
<1>2. /\ b \in ServoType
      /\ b.firstError = IF s0.calls = 0 THEN error ELSE s0.firstError
      /\ b.lag = s0.lag /\ b.calls = s0.calls /\ b.firstSend = s0.firstSend
      /\ b.firstWorth = s0.firstWorth /\ b.recent = s0.recent
  BY DEF ServoType
<1> HIDE DEF q, b
<1>3. Sound(b, f, b.firstError - error)
  <2>1. CASE s0.calls = 0
    <3>1. b.firstError - error = 0
      BY <1>2, <2>1
    <3>2. Remembers(b, f)
      BY <1>2, <2>1 DEF Unsent, Remembers, Believed, World
    <3>3. b.firstSend \in Int
      BY <1>2 DEF ServoType
    <3> QED
      BY <1>2, <2>1, <3>1, <3>2, <3>3 DEF Unsent, Sound
  <2>2. CASE s0.calls # 0
    BY <1>2, <2>2 DEF Sound, Remembers, FirstFlies
  <2> QED
    BY <2>1, <2>2
<1>4. /\ q.lag \in {0, delay} /\ (q.lag = 0 => b.lag = 0) /\ (b.firstSend < 0 => q.lag = 0)
      /\ b.firstSend >= 0 /\ q.lag = 0 => b.calls - b.firstSend \in 1 .. delay - 1
  BY <1>1, <1>2, <1>3, LagIsTheDelay
<1>5. q.firstError = b.firstError
  BY <1>1, <1>2
<1>6. Sound(q, f, q.firstError - error)
  BY <1>1, <1>2, <1>3, <1>4, <1>5 DEF Sound, Remembers, FirstFlies
<1> QED
  BY <1>1, <1>2, <1>4, <1>6 DEF q

\* The three ways to be sound.
LEMMA OnlyKnown ==
  ASSUME World, NEW s, NEW f, NEW turned, s.firstSend \in Int, ~(s.firstSend < 0),
         s.lag = delay, Remembers(s, f)
  PROVE  Sound(s, f, turned)
<1>1. s.lag \in {0, delay}
  OBVIOUS
<1>2. ~(s.lag = 0)
  BY DEF World
<1> QED
  BY <1>1, <1>2 DEF Sound

LEMMA OnlyUnsent ==
  ASSUME World, NEW s, NEW f, NEW turned, s.firstSend \in Int, ~(s.firstSend >= 0),
         s.lag = 0, s.firstWorth = 0, turned = 0, Remembers(s, f),
         \A i \in 1 .. delay - 1 : f[i] = 0
  PROVE  Sound(s, f, turned)
BY DEF Sound

LEMMA OnlyFlying ==
  ASSUME World, NEW s, NEW f, NEW turned, NEW k \in 1 .. delay, s.firstSend \in Int,
         ~(s.firstSend < 0), s.lag = 0, s.calls - s.firstSend = k, Remembers(s, f),
         FirstFlies(s, f, turned, k)
  PROVE  Sound(s, f, turned)
BY DEF Sound

\* A step that goes on leaves a sound servo, whatever it sends.
LEMMA StepIsSound ==
  ASSUME World, NEW s0 \in ServoType, NEW error \in Int, NEW f \in Seq(Int), Len(f) = delay - 1,
         IF s0.calls = 0 THEN Unsent(s0, f) ELSE Sound(s0, f, s0.firstError - error),
         ServoStep(s0, error).servo.outcome = "running"
  PROVE  LET r == ServoStep(s0, error)
         IN  /\ r.servo.calls > 0
             /\ Sound(r.servo, Tail(Append(f, r.sent)),
                      r.servo.firstError - (error - worth * Arrives(f, r.sent)))
<1> DEFINE q == Seen(s0, error)
           r == ServoStep(s0, error)
           n == r.sent
           t == r.servo
           g == Tail(Append(f, n))
           x == Arrives(f, n)
           turned == t.firstError - (error - worth * x)
<1>1. q \in ServoType /\ Sound(q, f, q.firstError - error)
      /\ (q.firstSend >= 0 /\ q.lag = 0 => q.calls - q.firstSend \in 1 .. delay - 1)
  BY SeenIsSound
<1>2. n \in Int /\ t \in ServoType /\ Onward(q, r)
  BY StepIsAServo
<1>3. /\ g \in Seq(Int) /\ Len(g) = delay - 1
      /\ x \in Int /\ x = IF delay = 1 THEN n ELSE f[1]
      /\ \A i \in 1 .. delay - 1 : g[i] = IF i = delay - 1 THEN n ELSE f[i + 1]
      /\ \A i \in 1 .. delay - 1 : f[i] \in Int
  BY <1>2, Shift
<1>4. /\ t.calls = q.calls + 1 /\ t.lag = q.lag /\ t.firstError = q.firstError
      /\ t.firstSend = (IF q.firstSend < 0 /\ n # 0 THEN q.calls ELSE q.firstSend)
      /\ t.firstWorth = (IF q.firstSend < 0 /\ n # 0 THEN n * Believed ELSE q.firstWorth)
      /\ t.recent = <<n * Believed, q.recent[1], q.recent[2]>>
      /\ q.lag = 0 /\ q.firstSend >= 0 => n = 0
  BY <1>2 DEF Onward, Waiting
<1>5. /\ q.calls \in Nat /\ q.firstSend \in Int /\ q.firstError \in Int /\ q.lag \in 0 .. 4
      /\ q.firstWorth \in Int /\ q.recent \in Triple
  BY <1>1 DEF ServoType
<1>6. worth * x \in Int /\ turned = (q.firstError - error) + worth * x
  <2> DEFINE p == worth * x
  <2>1. p \in Int
    BY <1>3, Product DEF World
  <2>2. turned = q.firstError - (error - p)
    BY <1>4
  <2> HIDE DEF p, turned
  <2>3. turned = (q.firstError - error) + p
    BY <1>5, <2>1, <2>2
  <2> QED
    BY <2>1, <2>3 DEF p
<1> HIDE DEF q, r, n, t, g, x, turned
<1>7. Remembers(t, g)
  <2>1. /\ t.recent[1] = n * Believed /\ t.recent[2] = q.recent[1] /\ t.recent[3] = q.recent[2]
    BY <1>4
  <2>2. delay > 1 => g[delay - 1] = n
    BY <1>3 DEF World
  <2>3. delay > 2 => g[delay - 2] = f[delay - 1]
    BY <1>3 DEF World
  <2>4. delay > 3 => g[delay - 3] = f[delay - 2]
    BY <1>3 DEF World
  <2>5. n * Believed = Believed * n
    BY <1>2 DEF Believed
  <2>6. Remembers(q, f)
    BY <1>1 DEF Sound
  <2> QED
    BY <2>1, <2>2, <2>3, <2>4, <2>5, <2>6 DEF Remembers, World
<1>12. t.firstSend \in Int /\ (t.firstSend < 0 <=> ~(t.firstSend >= 0))
  BY <1>4, <1>5
<1>8. ASSUME q.lag # 0 PROVE Sound(t, g, turned)
  <2>1. q.lag = delay /\ ~(q.firstSend < 0)
    BY <1>1, <1>8 DEF Sound
  <2>2. t.firstSend = q.firstSend /\ t.lag = delay
    BY <1>4, <2>1
  <2> QED
    BY <1>7, <1>12, <2>1, <2>2, OnlyKnown
\* Nothing has been sent yet.
<1>9. ASSUME q.lag = 0 /\ q.firstSend < 0 PROVE Sound(t, g, turned)
  <2>1. /\ q.firstWorth = 0 /\ q.firstError - error = 0 /\ \A i \in 1 .. delay - 1 : f[i] = 0
    BY <1>1, <1>9 DEF Sound
  <2>2. turned = worth * x
    BY <1>6, <2>1
  <2>3. CASE n = 0
    <3>1. x = 0 /\ \A i \in 1 .. delay - 1 : g[i] = 0
      BY <1>3, <2>1, <2>3 DEF World
    <3>2. turned = 0
      BY <2>2, <3>1, Product DEF World
    <3> QED
      <4>1. t.firstSend = q.firstSend /\ t.firstWorth = 0 /\ t.lag = 0 /\ ~(t.firstSend >= 0)
        BY <1>4, <1>5, <1>9, <2>1, <2>3
      <4> QED
        BY <1>7, <1>12, <3>1, <3>2, <4>1, OnlyUnsent
  <2>4. CASE n # 0
    <3>1. t.firstSend = q.calls /\ t.firstWorth = Believed * n /\ t.calls - t.firstSend = 1
          /\ t.firstSend >= 0
      BY <1>2, <1>4, <1>5, <1>9, <2>4 DEF Believed
    <3>2. \A i \in 1 .. delay - 1 : g[i] = IF i = delay - 1 THEN n ELSE 0
      BY <1>3, <2>1, SMTT(20) DEF World
    <3>3. turned = IF 1 = delay THEN worth * n ELSE 0
      <4>1. CASE delay = 1
        BY <1>3, <2>2, <4>1
      <4>2. CASE delay # 1
        <5>1. x = 0
          BY <1>3, <2>1, <4>2 DEF World
        <5> QED
          BY <2>2, <4>2, <5>1, Product DEF World
      <4> QED
        BY <4>1, <4>2
    <3>4. FirstFlies(t, g, turned, 1)
      BY <1>2, <2>4, <3>1, <3>2, <3>3 DEF FirstFlies
    <3> QED
      <4>1. t.lag = 0 /\ ~(t.firstSend < 0) /\ 1 \in 1 .. delay
        BY <1>4, <1>9, <1>12, <3>1 DEF World
      <4> QED
        BY <1>7, <1>12, <3>1, <3>4, <4>1, OnlyFlying
  <2> QED
    BY <2>3, <2>4
\* The first correction is still on its way.
<1>10. ASSUME q.lag = 0 /\ q.firstSend >= 0 PROVE Sound(t, g, turned)
  <2> DEFINE k == q.calls - q.firstSend
  <2>1. k \in 1 .. delay - 1 /\ n = 0 /\ delay # 1 /\ k # delay /\ k + 1 \in 1 .. delay
    <3>1. k \in 1 .. delay - 1 /\ n = 0
      BY <1>1, <1>4, <1>10
    <3> HIDE DEF k
    <3> QED
      BY <3>1 DEF World
  <2>2. t.firstSend = q.firstSend /\ t.firstWorth = q.firstWorth /\ t.calls - t.firstSend = k + 1
    BY <1>4, <1>5, <1>10
  <2>3. PICK c \in Int \ {0} :
          /\ q.firstWorth = Believed * c
          /\ \A i \in 1 .. delay - 1 : f[i] = IF i = delay - k THEN c ELSE 0
          /\ q.firstError - error = IF k = delay THEN worth * c ELSE 0
    BY <1>1, <1>10 DEF Sound, FirstFlies
  <2> HIDE DEF k
  <2>4. x = IF k + 1 = delay THEN c ELSE 0
    <3>1. x = f[1] /\ 1 \in 1 .. delay - 1
      BY <1>3, <2>1 DEF World
    <3>2. 1 = delay - k <=> k + 1 = delay
      BY <2>1 DEF World
    <3> QED
      BY <2>3, <3>1, <3>2
  <2>5. turned = IF k + 1 = delay THEN worth * c ELSE 0
    BY <1>6, <2>1, <2>3, <2>4, Product DEF World
  <2>6. \A i \in 1 .. delay - 1 : g[i] = IF i = delay - (k + 1) THEN c ELSE 0
    <3> TAKE i \in 1 .. delay - 1
    <3>1. CASE i = delay - 1
      BY <1>3, <2>1, <3>1 DEF World
    <3>2. CASE i # delay - 1
      <4>1. i + 1 \in 1 .. delay - 1 /\ (i + 1 = delay - k <=> i = delay - (k + 1))
        <5>1. i \in Int /\ k \in Int /\ delay \in Int /\ i <= delay - 1 /\ 1 <= i
          BY <2>1 DEF World
        <5>2. i + 1 \in 1 .. delay - 1
          BY <3>2, <5>1
        <5>3. i + 1 = delay - k <=> i = delay - (k + 1)
          BY <5>1
        <5> QED
          BY <5>2, <5>3
      <4> QED
        BY <1>3, <2>3, <3>2, <4>1
    <3> QED
      BY <3>1, <3>2
  <2>7. FirstFlies(t, g, turned, k + 1)
    BY <2>2, <2>3, <2>5, <2>6 DEF FirstFlies
  <2> QED
    <3>1. t.lag = 0 /\ ~(t.firstSend < 0)
      BY <1>4, <1>10, <1>12, <2>2
    <3> QED
      BY <1>7, <1>12, <2>1, <2>2, <2>7, <3>1, OnlyFlying
<1>11. t.calls > 0
  BY <1>4, <1>5
<1>13. Sound(t, g, turned)
  BY <1>5, <1>8, <1>9, <1>10
<1> QED
  BY <1>11, <1>13 DEF r, n, t, g, x, turned

-----------------------------------------------------------------------------
(* How a servo closes in, with counts worth no more than it believes.      *)

\* The whole counts of a correction overshot by half of one, z frames ago, and nothing was
\* sent since; what is kept of them still forbids a count back.
Overshot(d, r1, r2, r3, left) ==
    \/ d > 1 /\ r1 = Believed /\ left >= 0
    \/ d > 2 /\ r1 = 0 /\ r2 = Believed /\ left >= -3
    \/ d > 3 /\ r1 = 0 /\ r2 = 0 /\ r3 = Believed /\ left >= -6

\* Everything on its way brings the aim nearer, and all of it will not take it past.
Heading(e, d, r1, r2, r3, left) ==
    LET due == e - Sum3(<<r1, r2, r3>>, d - 1)
    IN  /\ (d > 1 => r1 >= 0) /\ (d > 2 => r2 >= 0) /\ (d > 3 => r3 >= 0)
        /\ due >= -1
        /\ due = -1 => Overshot(d, r1, r2, r3, left)

\* The error e has shrunk from first, by one correction of six tenths at most before the
\* delay d was known.
Straight(first, e, d, firstWorth, r1, r2, r3, left) ==
    /\ 0 <= e /\ e <= first /\ first >= 3 /\ left \in -9 .. 9
    /\ d = 0 => left >= 0 /\ firstWorth >= 0 /\ 5 * firstWorth <= 3 * first + 9
    /\ d > 0 => Heading(e, d, r1, r2, r3, left)

\* The same from the other side.
FromBelow(first, e, d, firstWorth, r1, r2, r3, left) ==
    Straight(-first, -e, d, -firstWorth, -r1, -r2, -r3, -left)

Closes(s, e) ==
    \/ Straight(s.firstError, e, s.lag, s.firstWorth,
                s.recent[1], s.recent[2], s.recent[3], s.carry)
    \/ FromBelow(s.firstError, e, s.lag, s.firstWorth,
                 s.recent[1], s.recent[2], s.recent[3], s.carry)

\* A tolerance of at least one count, and counts that do not do more than is believed.
NoMoreThanBelieved == Tolerance >= Believed /\ worth <= Believed

\* What a correction sends and keeps, of what is due.
Due(due, left) == TakeWholeUnits(Within(3 * due, 5 * Believed * MaxCounts) + left, 5 * Believed)


LEMMA WholeCounts ==
  ASSUME NEW t \in Int, t > -10
  PROVE  LET q == TakeWholeUnits(t, 10)
         IN  /\ q.whole \in Nat /\ q.carry \in -9 .. 9 /\ q.carry = t - 10 * q.whole
             /\ t < 10 => q.whole = 0
             /\ t >= 0 => q.carry >= 0
<1>1. CASE t >= 0
  <2> DEFINE k == t \div 10
  <2>1. k \in Nat /\ 10 * k <= t /\ t < 10 * k + 10
    BY <1>1
  <2>2. TakeWholeUnits(t, 10) = [whole |-> k, carry |-> t - k * 10]
    <3>1. Size(t) = t /\ Sign(t) = 1 /\ 1 * k = k
      BY <1>1, <2>1 DEF Size, Sign
    <3> QED
      BY <3>1 DEF TakeWholeUnits
  <2> HIDE DEF k
  <2>3. k * 10 = 10 * k /\ (t < 10 => k = 0) /\ t - 10 * k \in 0 .. 9
    BY <1>1, <2>1
  <2> QED
    BY <2>1, <2>2, <2>3
<1>2. CASE ~(t >= 0)
  <2>1. (-t) \div 10 = 0
    BY <1>2
  <2>2. TakeWholeUnits(t, 10) = [whole |-> 0, carry |-> t]
    <3>1. Size(t) = -t /\ Sign(t) = -1 /\ (-1) * 0 = 0 /\ t - 0 * 10 = t
      BY <1>2 DEF Size, Sign
    <3> QED
      BY <2>1, <3>1 DEF TakeWholeUnits
  <2> QED
    BY <1>2, <2>2
<1> QED
  BY <1>1, <1>2

\* A correction from below is the one from above, the other way round.
LEMMA WholeCountsMirrored ==
  ASSUME NEW t \in Int
  PROVE  /\ TakeWholeUnits(-t, 10).whole = -TakeWholeUnits(t, 10).whole
         /\ TakeWholeUnits(-t, 10).carry = -TakeWholeUnits(t, 10).carry
<1> DEFINE k == Size(t) \div 10
<1>1. k \in Nat /\ (t = 0 => k = 0)
  BY DEF Size
<1>2. Size(-t) = Size(t)
  BY DEF Size
<1>3. TakeWholeUnits(t, 10) = [whole |-> Sign(t) * k, carry |-> t - Sign(t) * k * 10]
  BY DEF TakeWholeUnits
<1>4. TakeWholeUnits(-t, 10) = [whole |-> Sign(-t) * k, carry |-> (-t) - Sign(-t) * k * 10]
  BY <1>2 DEF TakeWholeUnits
<1> HIDE DEF k
<1>5. CASE t > 0
  <2>1. Sign(t) = 1 /\ Sign(-t) = -1
    BY <1>5 DEF Sign
  <2> QED
    BY <1>1, <1>3, <1>4, <2>1
<1>6. CASE t < 0
  <2>1. Sign(t) = -1 /\ Sign(-t) = 1
    BY <1>6 DEF Sign
  <2> QED
    BY <1>1, <1>3, <1>4, <2>1
<1>7. CASE t = 0
  <2>1. Sign(t) = 1 /\ Sign(-t) = 1
    BY <1>7 DEF Sign
  <2> QED
    BY <1>1, <1>3, <1>4, <1>7, <2>1
<1> QED
  BY <1>5, <1>6, <1>7

LEMMA DueMirrored ==
  ASSUME NEW b \in Int, NEW left \in Int
  PROVE  /\ Due(-b, -left).whole = -Due(b, left).whole
         /\ Due(-b, -left).carry = -Due(b, left).carry
<1> DEFINE most == 5 * Believed * MaxCounts
           t    == Within(3 * b, most) + left
<1>1. most \in Nat
  BY ServoAssumption DEF Believed
<1> HIDE DEF most
<1>2. Within(3 * (-b), most) = -Within(3 * b, most) /\ Within(3 * b, most) \in Int
  BY <1>1 DEF Within
<1>3. t \in Int /\ Within(3 * (-b), most) + (-left) = -t
  BY <1>2
<1>4. Due(b, left) = TakeWholeUnits(t, 10) /\ Due(-b, -left) = TakeWholeUnits(-t, 10)
  BY <1>3 DEF Due, Believed, most
<1> HIDE DEF t
<1> QED
  BY <1>3, <1>4, WholeCountsMirrored

\* From above, six tenths of what is due and what was kept: never a count back.
LEMMA DueFromAbove ==
  ASSUME NEW b \in Int, b >= -1, NEW left \in -9 .. 9, b = -1 => left >= -6
  PROVE  LET q == Due(b, left)
         IN  /\ q.whole \in Nat /\ q.carry \in -9 .. 9
             /\ q.whole > 0 => 10 * q.whole <= 3 * b + 9 /\ q.carry >= 0
             /\ b >= 0 /\ left >= 0 => q.carry >= 0
             /\ b = -1 => q.whole = 0 /\ q.carry = left - 3
             /\ b = 0 => q.whole = 0
<1> DEFINE most == 5 * Believed * MaxCounts
           in   == Within(3 * b, most)
           t    == in + left
           q    == Due(b, left)
<1>1. most \in Nat /\ most >= 10
  BY ServoAssumption DEF Believed
<1> HIDE DEF most
<1>2. in \in Int /\ (b >= 0 => 0 <= in /\ in <= 3 * b) /\ (b = -1 => in = -3)
  BY <1>1 DEF Within
<1> HIDE DEF in
<1>3. t \in Int /\ t > -10 /\ (b >= 0 => t <= 3 * b + 9) /\ (b = -1 => t = left - 3)
      /\ (b >= 0 /\ left >= 0 => t >= 0)
  BY <1>2
<1>4. q = TakeWholeUnits(t, 10)
  BY DEF Due, Believed, most, in
<1> HIDE DEF t, q
<1>5. /\ q.whole \in Nat /\ q.carry \in -9 .. 9 /\ q.carry = t - 10 * q.whole
      /\ t < 10 => q.whole = 0
      /\ t >= 0 => q.carry >= 0
  BY <1>3, <1>4, WholeCounts
<1>6. q.whole > 0 => t >= 10
  BY <1>3, <1>5
<1>7. \A n, c \in Int : c = t - 10 * n /\ c >= 0 => 10 * n <= t
  BY <1>3
<1>8. b = -1 => t < 10 /\ t = left - 3
  BY <1>3
<1>9. b # -1 => b >= 0
  OBVIOUS
<1>10. q.whole > 0 => b # -1 /\ q.carry >= 0 /\ 10 * q.whole <= t
  BY <1>3, <1>5, <1>6, <1>7, <1>8
<1>11. b = -1 => q.whole = 0 /\ q.carry = left - 3
  BY <1>3, <1>5, <1>8
<1>12. b = 0 => q.whole = 0
  BY <1>3, <1>5
<1>13. b >= 0 /\ left >= 0 => q.carry >= 0
  BY <1>3, <1>5
<1>14. q.whole > 0 => 10 * q.whole <= 3 * b + 9
  BY <1>3, <1>5, <1>9, <1>10
<1> QED
  BY <1>5, <1>10, <1>11, <1>12, <1>13, <1>14 DEF q


\* What arrives does no more than is believed.
LEMMA ArrivesAsBelieved ==
  ASSUME World, worth <= Believed, NEW x \in Nat
  PROVE  worth * x \in Nat /\ worth * x <= Believed * x
<1>1. worth = 1 \/ worth = 2
  BY DEF World, Believed
<1> QED
  BY <1>1 DEF Believed

\* The arithmetic of one frame: b was due of which n counts are sent, g counts' worth
\* arrived without turning the aim.
LEMMA DueAfter ==
  ASSUME NEW b \in Int, b >= 0, NEW n \in Nat, NEW g \in Nat, n > 0 => 10 * n <= 3 * b + 9
  PROVE  b - 2 * n + g >= -1 /\ (b - 2 * n + g = -1 => b = 1 /\ n = 1 /\ g = 0)
<1>1. CASE n = 0
  BY <1>1
<1>2. CASE n > 0
  BY <1>2
<1> QED
  BY <1>1, <1>2

\* A step of a servo that heads for its target, once it knows the delay.
Nearer(e, e2, d, n, r1, r2, kept) ==
    /\ n \in Nat /\ kept \in -9 .. 9 /\ 0 <= e2 /\ e2 <= e
    /\ Heading(e2, d, Believed * n, r1, r2, kept)

LEMMA HeadsOn ==
  ASSUME World, NoMoreThanBelieved,
         NEW e \in Int, NEW r1 \in Int, NEW r2 \in Int, NEW r3 \in Int, NEW left \in -9 .. 9,
         NEW x \in Int, NEW flies \in Int, e >= 0, Heading(e, delay, r1, r2, r3, left),
         flies = Sum3(<<r1, r2, r3>>, delay - 1),
         ~(e <= Tolerance /\ flies <= Tolerance),
         NEW n, n = Due(e - flies, left).whole, NEW kept, kept = Due(e - flies, left).carry,
         delay = 1 => x = n, delay = 2 => Believed * x = r1, delay = 3 => Believed * x = r2,
         delay = 4 => Believed * x = r3
  PROVE  Nearer(e, e - worth * x, delay, n, r1, r2, kept)
<1> DEFINE b == e - flies
           a == worth * x
           e2 == e - a
           flies2 == Sum3(<<Believed * n, r1, r2>>, delay - 1)
           g == Believed * x - a
<1>0. /\ b \in Int /\ b >= -1 /\ (b = -1 => Overshot(delay, r1, r2, r3, left))
      /\ (delay > 1 => r1 >= 0) /\ (delay > 2 => r2 >= 0) /\ (delay > 3 => r3 >= 0)
  BY DEF Heading
<1>1. b = -1 => left >= -6
  BY <1>0 DEF Overshot
<1> HIDE DEF b
<1>2. /\ n \in Nat /\ kept \in -9 .. 9
      /\ n > 0 => 10 * n <= 3 * b + 9 /\ kept >= 0
      /\ b = -1 => n = 0 /\ kept = left - 3
  BY <1>0, <1>1, DueFromAbove DEF b
<1>3. delay \in {1, 2, 3, 4} /\ Tolerance \in Int /\ Tolerance >= 2
  BY ServoAssumption DEF World, NoMoreThanBelieved, Believed
<1>4. x \in Nat
  BY <1>0, <1>2, <1>3 DEF Believed
<1>5. a \in Nat /\ g \in Nat /\ a <= 2 * x
  <2>1. worth <= Believed
    BY DEF NoMoreThanBelieved
  <2>2. a \in Nat /\ a <= Believed * x
    BY <1>4, <2>1, ArrivesAsBelieved
  <2> HIDE DEF a
  <2> QED
    BY <1>4, <2>2 DEF Believed
<1>6. g = 2 * x - a
  BY DEF Believed
<1> HIDE DEF a, g
<1>7. /\ delay = 1 => flies = 0 /\ flies2 = 0
      /\ delay = 2 => flies = r1 /\ flies2 = 2 * n
      /\ delay = 3 => flies = r1 + r2 /\ flies2 = 2 * n + r1
      /\ delay = 4 => flies = r1 + r2 + r3 /\ flies2 = 2 * n + r1 + r2
  BY <1>2, <1>3 DEF Sum3, Believed
<1> HIDE DEF flies2
<1>8. flies \in Int /\ flies2 \in Nat /\ b = e - flies
  BY <1>0, <1>2, <1>3, <1>7 DEF b
<1>9. e2 - flies2 = b - 2 * n + g
  <2>1. CASE delay = 1
    BY <1>2, <1>4, <1>5, <1>6, <1>7, <1>8, <2>1
  <2>2. CASE delay = 2
    BY <1>2, <1>4, <1>5, <1>6, <1>7, <1>8, <2>2 DEF Believed
  <2>3. CASE delay = 3
    BY <1>2, <1>4, <1>5, <1>6, <1>7, <1>8, <2>3 DEF Believed
  <2>4. CASE delay = 4
    BY <1>2, <1>4, <1>5, <1>6, <1>7, <1>8, <2>4 DEF Believed
  <2> QED
    BY <1>3, <2>1, <2>2, <2>3, <2>4
<1>10. /\ e2 - flies2 >= -1
       /\ e2 - flies2 = -1 => \/ b = 1 /\ n = 1 /\ g = 0 /\ kept >= 0
                              \/ b = -1 /\ n = 0 /\ kept = left - 3
  <2>1. CASE b = -1
    BY <1>2, <1>5, <1>9, <2>1
  <2>2. CASE b # -1
    <3>1. b \in Int /\ b >= 0
      BY <1>0, <2>2
    <3>2. b - 2 * n + g >= -1 /\ (b - 2 * n + g = -1 => b = 1 /\ n = 1 /\ g = 0)
      BY <1>2, <1>5, <3>1, DueAfter
    <3> QED
      BY <1>2, <1>9, <3>2
  <2> QED
    BY <2>1, <2>2
\* A last count too many is on its way: it is there before the aim is past.
<1>11. e2 - flies2 = -1 => Overshot(delay, Believed * n, r1, r2, kept)
  <2> SUFFICES ASSUME e2 - flies2 = -1 PROVE Overshot(delay, Believed * n, r1, r2, kept)
    OBVIOUS
  <2>1. ~(e <= 2 /\ flies <= 2)
    BY <1>3, <1>8
  <2>2. CASE b = 1 /\ n = 1 /\ kept >= 0
    <3>1. delay # 1
      BY <1>7, <1>8, <2>1, <2>2
    <3> QED
      BY <1>3, <2>2, <3>1 DEF Overshot, Believed
  <2>3. CASE b = -1 /\ n = 0 /\ kept = left - 3
    <3>1. CASE delay > 1 /\ r1 = 2 /\ left >= 0
      <4>1. delay # 2
        BY <1>7, <1>8, <2>1, <2>3, <3>1
      <4> QED
        BY <1>3, <2>3, <3>1, <4>1 DEF Overshot, Believed
    <3>2. CASE delay > 2 /\ r1 = 0 /\ r2 = 2 /\ left >= -3
      <4>1. delay # 3
        BY <1>7, <1>8, <2>1, <2>3, <3>2
      <4> QED
        BY <1>3, <2>3, <3>2, <4>1 DEF Overshot, Believed
    <3>3. CASE delay > 3 /\ r1 = 0 /\ r2 = 0 /\ r3 = 2
      BY <1>3, <1>7, <1>8, <2>1, <2>3, <3>3
    <3> QED
      BY <1>0, <2>3, <3>1, <3>2, <3>3 DEF Overshot, Believed
  <2> QED
    BY <1>10, <2>2, <2>3
<1>12. e2 - flies2 = -1 => flies2 >= 1
  BY <1>0, <1>2, <1>3, <1>7, <1>11 DEF Overshot, Believed
<1>13. e2 \in Int /\ 0 <= e2 /\ e2 <= e
  BY <1>5, <1>8, <1>10, <1>12
<1>14. Heading(e2, delay, Believed * n, r1, r2, kept)
  <2>1. /\ (delay > 1 => Believed * n >= 0) /\ (delay > 2 => r1 >= 0) /\ (delay > 3 => r2 >= 0)
    BY <1>0, <1>2, <1>3 DEF Believed
  <2>2. e2 - flies2 >= -1 /\ (e2 - flies2 = -1 => Overshot(delay, Believed * n, r1, r2, kept))
    BY <1>10, <1>11
  <2> HIDE DEF e2
  <2> QED
    BY <2>1, <2>2, Zenon DEF Heading, flies2
<1> QED
  BY <1>2, <1>13, <1>14 DEF a, Nearer


\* One frame of a servo in numbers: with what was under way, it sends n counts and keeps a
\* rest, x arrive, the error becomes e2.
Numbers(waits, lag, first, e, firstWorth, r1, r2, r3, left, x, e2, firstWorth2, n, kept) ==
    LET flies == Sum3(<<r1, r2, r3>>, lag - 1)
    IN  /\ waits => lag = 0 /\ n = 0 /\ kept = left
        /\ ~waits => /\ ~(Size(e) <= Tolerance /\ Size(flies) <= Tolerance)
                     /\ n = Due(e - flies, left).whole /\ kept = Due(e - flies, left).carry
        /\ ~waits /\ lag = 0 => e = first
        /\ lag = delay => /\ e2 = e - worth * x
                          /\ delay = 1 => x = n
                          /\ delay = 2 => Believed * x = r1
                          /\ delay = 3 => Believed * x = r2
                          /\ delay = 4 => Believed * x = r3
        /\ firstWorth2 = IF lag = 0 /\ ~waits /\ n # 0 THEN Believed * n ELSE firstWorth
        /\ lag = 0 => \E c \in Int : firstWorth2 = Believed * c /\ e2 \in {first, first - worth * c}

LEMMA StraightOn ==
  ASSUME World, NoMoreThanBelieved, NEW waits \in BOOLEAN, NEW lag \in {0, delay},
         NEW first \in Int, NEW e \in Int, NEW firstWorth \in Int,
         NEW r1 \in Int, NEW r2 \in Int, NEW r3 \in Int, NEW left \in Int,
         NEW x \in Int, NEW e2 \in Int, NEW firstWorth2 \in Int, NEW n \in Int, NEW kept \in Int,
         Numbers(waits, lag, first, e, firstWorth, r1, r2, r3, left, x, e2, firstWorth2, n, kept),
         Straight(first, e, lag, firstWorth, r1, r2, r3, left)
  PROVE  Straight(first, e2, lag, firstWorth2, Believed * n, r1, r2, kept)
<1> DEFINE flies == Sum3(<<r1, r2, r3>>, lag - 1)
<1>0. /\ waits => lag = 0 /\ n = 0 /\ kept = left
      /\ ~waits => /\ ~(Size(e) <= Tolerance /\ Size(flies) <= Tolerance)
                   /\ n = Due(e - flies, left).whole /\ kept = Due(e - flies, left).carry
      /\ ~waits /\ lag = 0 => e = first
      /\ lag = delay => /\ e2 = e - worth * x
                        /\ delay = 1 => x = n
                        /\ delay = 2 => Believed * x = r1
                        /\ delay = 3 => Believed * x = r2
                        /\ delay = 4 => Believed * x = r3
      /\ firstWorth2 = IF lag = 0 /\ ~waits /\ n # 0 THEN Believed * n ELSE firstWorth
      /\ lag = 0 => \E c \in Int : firstWorth2 = Believed * c /\ e2 \in {first, first - worth * c}
  BY DEF Numbers
<1>00. flies = Sum3(<<r1, r2, r3>>, lag - 1)
  OBVIOUS
<1> HIDE DEF flies
<1>1. /\ 0 <= e /\ e <= first /\ first >= 3 /\ left \in -9 .. 9
      /\ lag = 0 => left >= 0 /\ firstWorth >= 0 /\ 5 * firstWorth <= 3 * first + 9
      /\ lag > 0 => Heading(e, lag, r1, r2, r3, left)
  BY DEF Straight
<1>2. CASE lag = 0
  <2>1. flies = 0
    BY <1>00, <1>2 DEF Sum3
  <2>2. /\ kept \in 0 .. 9 /\ firstWorth2 >= 0 /\ 5 * firstWorth2 <= 3 * first + 9
    <3>1. CASE waits
      BY <1>0, <1>1, <1>2, <3>1
    <3>2. CASE ~waits
      <4>1. n = Due(first, left).whole /\ kept = Due(first, left).carry
        <5>1. e - flies = first
          BY <1>0, <1>2, <2>1, <3>2
        <5> QED
          BY <1>0, <3>2, <5>1
      <4>2. /\ n \in Nat /\ kept \in -9 .. 9 /\ kept >= 0
            /\ n > 0 => 10 * n <= 3 * first + 9
        <5>1. first >= -1 /\ first >= 0 /\ left >= 0 /\ ~(first = -1)
          BY <1>1, <1>2
        <5> QED
          BY <1>1, <4>1, <5>1, DueFromAbove
      <4> QED
        BY <1>0, <1>1, <1>2, <3>2, <4>2 DEF Believed
    <3> QED
      BY <3>1, <3>2
  <2>3. PICK c \in Int : firstWorth2 = Believed * c /\ e2 \in {first, first - worth * c}
    BY <1>0, <1>2
  <2>4. c \in Nat
    BY <2>2, <2>3 DEF Believed
  <2>5. worth * c \in Nat /\ worth * c <= 2 * c
    BY <2>4, ArrivesAsBelieved DEF NoMoreThanBelieved, Believed
  <2>6. 0 <= e2 /\ e2 <= first
    <3> DEFINE a == worth * c
    <3>1. a \in Nat /\ a <= 2 * c /\ 10 * c <= 3 * first + 9
      BY <2>2, <2>3, <2>5 DEF Believed
    <3>2. e2 = first \/ e2 = first - a
      BY <2>3
    <3> HIDE DEF a
    <3> QED
      BY <1>1, <2>4, <3>1, <3>2
  <2> QED
    BY <1>1, <1>2, <2>2, <2>6 DEF Straight
<1>3. CASE lag = delay
  <2>1. lag > 0 /\ ~waits /\ lag # 0
    BY <1>0, <1>3 DEF World
  <2>2. Heading(e, delay, r1, r2, r3, left) /\ flies = Sum3(<<r1, r2, r3>>, delay - 1)
    BY <1>00, <1>1, <1>3, <2>1
  <2>3. flies \in Nat
    <3>1. (delay > 1 => r1 >= 0) /\ (delay > 2 => r2 >= 0) /\ (delay > 3 => r3 >= 0)
      BY <2>2 DEF Heading
    <3>2. delay \in {1, 2, 3, 4}
      BY DEF World
    <3>3. flies = IF delay = 1 THEN 0 ELSE IF delay = 2 THEN r1
                  ELSE IF delay = 3 THEN r1 + r2 ELSE r1 + r2 + r3
      BY <2>2, <3>2 DEF Sum3
    <3> QED
      BY <3>1, <3>2, <3>3
  <2>4. ~(e <= Tolerance /\ flies <= Tolerance)
    BY <1>0, <1>1, <2>1, <2>3 DEF Size
  <2>5. Nearer(e, e - worth * x, delay, n, r1, r2, kept)
    <3>1. n = Due(e - flies, left).whole /\ kept = Due(e - flies, left).carry
      BY <1>0, <2>1
    <3>2. /\ delay = 1 => x = n
          /\ delay = 2 => Believed * x = r1
          /\ delay = 3 => Believed * x = r2
          /\ delay = 4 => Believed * x = r3
      BY <1>0, <1>3
    <3>3. e >= 0 /\ left \in -9 .. 9 /\ flies \in Int
      BY <1>1, <2>3
    <3> QED
      BY <2>2, <2>4, <3>1, <3>2, <3>3, HeadsOn, ZenonT(30)
  <2>6. 0 <= e2 /\ e2 <= first
    <3>1. 0 <= e2 /\ e2 <= e
      BY <1>0, <1>3, <2>5 DEF Nearer
    <3> QED
      BY <1>1, <3>1
  <2> QED
    BY <1>0, <1>1, <1>3, <2>1, <2>5, <2>6 DEF Straight, Nearer
<1> QED
  BY <1>2, <1>3

\* Seen from below it is the same frame.
LEMMA NumbersMirrored ==
  ASSUME World, NEW waits \in BOOLEAN, NEW lag \in {0, delay},
         NEW first \in Int, NEW e \in Int, NEW firstWorth \in Int,
         NEW r1 \in Int, NEW r2 \in Int, NEW r3 \in Int, NEW left \in Int,
         NEW x \in Int, NEW e2 \in Int, NEW firstWorth2 \in Int, NEW n \in Int, NEW kept \in Int,
         Numbers(waits, lag, first, e, firstWorth, r1, r2, r3, left, x, e2, firstWorth2, n, kept)
  PROVE  Numbers(waits, lag, -first, -e, -firstWorth, -r1, -r2, -r3, -left, -x, -e2,
                 -firstWorth2, -n, -kept)
<1> DEFINE flies == Sum3(<<r1, r2, r3>>, lag - 1)
           back  == Sum3(<<-r1, -r2, -r3>>, lag - 1)
<1>1. /\ waits => lag = 0 /\ n = 0 /\ kept = left
      /\ ~waits => /\ ~(Size(e) <= Tolerance /\ Size(flies) <= Tolerance)
                   /\ n = Due(e - flies, left).whole /\ kept = Due(e - flies, left).carry
      /\ ~waits /\ lag = 0 => e = first
      /\ lag = delay => /\ e2 = e - worth * x
                        /\ delay = 1 => x = n
                        /\ delay = 2 => Believed * x = r1
                        /\ delay = 3 => Believed * x = r2
                        /\ delay = 4 => Believed * x = r3
      /\ firstWorth2 = IF lag = 0 /\ ~waits /\ n # 0 THEN Believed * n ELSE firstWorth
      /\ lag = 0 => \E c \in Int : firstWorth2 = Believed * c /\ e2 \in {first, first - worth * c}
  BY DEF Numbers
<1>2. lag \in Int /\ lag - 1 \in Int
  BY DEF World
<1>3. flies \in Int /\ back = -flies
  BY <1>2 DEF Sum3
<1> HIDE DEF flies, back
<1>4. Size(-e) = Size(e) /\ Size(back) = Size(flies)
  BY <1>3 DEF Size
<1>5. /\ Due((-e) - back, -left).whole = -Due(e - flies, left).whole
      /\ Due((-e) - back, -left).carry = -Due(e - flies, left).carry
  <2> DEFINE b == e - flies
  <2>1. (-e) - back = -b /\ b \in Int
    BY <1>3
  <2> HIDE DEF b
  <2>2. Due(-b, -left).whole = -Due(b, left).whole /\ Due(-b, -left).carry = -Due(b, left).carry
    BY <2>1, DueMirrored
  <2> QED
    BY <2>1, <2>2 DEF b
<1>6. \A y \in Int : worth * (-y) = -(worth * y) /\ worth * y \in Int
  BY DEF World
<1> DEFINE m == -n
<1>13. m \in Int /\ (n = 0 <=> m = 0)
  <2>1. m \in Int /\ (m <= 0 /\ m >= 0 <=> n <= 0 /\ n >= 0)
    OBVIOUS
  <2> HIDE DEF m
  <2> QED
    BY <2>1
<1> HIDE DEF m
<1>7. waits => lag = 0 /\ -n = 0 /\ -kept = -left
  <2> SUFFICES ASSUME waits PROVE lag = 0 /\ -n = 0 /\ -kept = -left
    OBVIOUS
  <2>1. lag = 0 /\ n = 0 /\ kept = left
    BY <1>1
  <2>2. m = 0
    BY <1>13, <2>1
  <2>3. -kept = -left
    BY <2>1
  <2> QED
    BY <2>1, <2>2, <2>3, Zenon DEF m
<1>8. ~waits => /\ ~(Size(-e) <= Tolerance /\ Size(back) <= Tolerance)
                /\ -n = Due((-e) - back, -left).whole /\ -kept = Due((-e) - back, -left).carry
  BY <1>1, <1>4, <1>5
<1>9. ~waits /\ lag = 0 => -e = -first
  BY <1>1
<1>10. lag = delay => /\ -e2 = (-e) - worth * (-x)
                      /\ delay = 1 => -x = -n
                      /\ delay = 2 => Believed * (-x) = -r1
                      /\ delay = 3 => Believed * (-x) = -r2
                      /\ delay = 4 => Believed * (-x) = -r3
  <2> SUFFICES ASSUME lag = delay
               PROVE  /\ -e2 = (-e) - worth * (-x)
                      /\ delay = 1 => -x = -n
                      /\ delay = 2 => Believed * (-x) = -r1
                      /\ delay = 3 => Believed * (-x) = -r2
                      /\ delay = 4 => Believed * (-x) = -r3
    OBVIOUS
  <2> DEFINE a == worth * x
  <2>1. a \in Int /\ worth * (-x) = -a /\ e2 = e - a
    BY <1>1, <1>6
  <2> HIDE DEF a
  <2>2. -e2 = (-e) - (-a)
    BY <2>1
  <2> QED
    BY <1>1, <2>1, <2>2 DEF Believed
<1>11. -firstWorth2 = IF lag = 0 /\ ~waits /\ -n # 0 THEN Believed * (-n) ELSE -firstWorth
  <2>1. n # 0 <=> -n # 0
    BY <1>13, Zenon DEF m
  <2>2. Believed * (-n) = -(Believed * n)
    BY DEF Believed
  <2> QED
    BY <1>1, <2>1, <2>2
<1>12. lag = 0 => \E c \in Int : -firstWorth2 = Believed * c /\ -e2 \in {-first, (-first) - worth * c}
  <2> SUFFICES ASSUME lag = 0
               PROVE  \E c \in Int : -firstWorth2 = Believed * c /\ -e2 \in {-first, (-first) - worth * c}
    OBVIOUS
  <2>1. PICK c \in Int : firstWorth2 = Believed * c /\ e2 \in {first, first - worth * c}
    BY <1>1
  <2>2. -firstWorth2 = Believed * (-c) /\ -c \in Int
    BY <2>1 DEF Believed
  <2>3. -e2 \in {-first, (-first) - worth * (-c)}
    <3> DEFINE a == worth * c
    <3>1. a \in Int /\ worth * (-c) = -a /\ (e2 = first \/ e2 = first - a)
      BY <1>6, <2>1
    <3> HIDE DEF a
    <3>2. -e2 = -first \/ -e2 = (-first) - (-a)
      BY <3>1
    <3> QED
      BY <3>1, <3>2
  <2> QED
    BY <2>2, <2>3
<1> QED
  BY <1>7, <1>8, <1>9, <1>10, <1>11, <1>12, Zenon DEF Numbers, back


\* What a servo that runs on has sent and kept, and that it was not there yet.
LEMMA StepSends ==
  ASSUME NEW s0 \in ServoType, NEW error \in Int, ServoStep(s0, error).servo.outcome = "running"
  PROVE  LET q == Seen(s0, error)
             r == ServoStep(s0, error)
         IN  /\ ~IsThere(q, error)
             /\ r.sent = Correction(q, error).whole
             /\ r.servo.carry = Correction(q, error).carry
<1> DEFINE q == Seen(s0, error)
           r == ServoStep(s0, error)
           taken == Correction(q, error)
<1>1. r = IF s0.outcome # "running" THEN [servo |-> s0, sent |-> 0]
          ELSE IF IsThere(q, error) THEN [servo |-> Ends(q, "reached"), sent |-> 0]
          ELSE IF IsLate(q) THEN [servo |-> Ends(q, "gave up"), sent |-> 0]
          ELSE [servo |-> Corrects(q, taken), sent |-> taken.whole]
  BY DEF ServoStep
<1>2. q \in ServoType
  BY SeenIsAServo
<1>3. Ends(q, "reached").outcome # "running" /\ Ends(q, "gave up").outcome # "running"
  BY <1>2, EndIsAServo DEF Outcomes
<1>4. Corrects(q, taken).carry = taken.carry
  BY <1>2 DEF Corrects, ServoType
<1>0. r.servo.outcome = "running"
  OBVIOUS
<1> HIDE DEF q, taken, r
<1>5. s0.outcome = "running" /\ ~IsThere(q, error) /\ ~IsLate(q)
  <2>1. CASE s0.outcome # "running"
    BY <1>0, <1>1, <2>1
  <2>2. CASE s0.outcome = "running" /\ IsThere(q, error)
    BY <1>0, <1>1, <1>3, <2>2
  <2>3. CASE s0.outcome = "running" /\ ~IsThere(q, error) /\ IsLate(q)
    BY <1>0, <1>1, <1>3, <2>3
  <2> QED
    BY <2>1, <2>2, <2>3
<1>6. r = [servo |-> Corrects(q, taken), sent |-> taken.whole]
  BY <1>1, <1>5
<1> QED
  BY <1>4, <1>5, <1>6 DEF q, taken, r

\* What flew when the first correction was seen to arrive: nothing.
LEMMA NothingFliesThen ==
  ASSUME World, NEW s \in ServoType, NEW error \in Int, NEW f, s.lag = 0,
         Sound(s, f, s.firstError - error), Lag(s, error) # 0
  PROVE  \A i \in 1 .. delay - 1 : s.recent[i] = 0
<1>1. s.firstSend \in Int /\ s.calls \in Nat /\ s.firstError \in Int
  BY DEF ServoType
<1>2. s.firstSend >= 0 /\ s.firstError - error # 0
  BY DEF Lag
<1>3. PICK c \in Int \ {0} :
        /\ \A i \in 1 .. delay - 1 : f[i] = IF i = delay - (s.calls - s.firstSend) THEN c ELSE 0
        /\ s.firstError - error = IF s.calls - s.firstSend = delay THEN worth * c ELSE 0
  BY <1>2 DEF Sound, FirstFlies
<1>4. s.calls - s.firstSend = delay
  BY <1>2, <1>3
<1>5. \A i \in 1 .. delay - 1 : f[i] = 0
  BY <1>3, <1>4 DEF World
<1>6. delay \in {1, 2, 3, 4}
  BY DEF World
<1>7. Remembers(s, f)
  BY DEF Sound
<1>8. CASE delay = 1
  BY <1>8
<1>9. CASE delay = 2
  BY <1>5, <1>7, <1>9 DEF Remembers, Believed
<1>10. CASE delay = 3
  <2>1. f[1] = 0 /\ f[2] = 0
    BY <1>5, <1>10
  <2> QED
    BY <1>7, <1>10, <2>1 DEF Remembers, Believed
<1>11. CASE delay = 4
  <2>1. f[1] = 0 /\ f[2] = 0 /\ f[3] = 0
    BY <1>5, <1>11
  <2> QED
    BY <1>7, <1>11, <2>1 DEF Remembers, Believed
<1> QED
  BY <1>6, <1>8, <1>9, <1>10, <1>11

\* The numbers of a servo that closes in once the delay is known.
LEMMA StraightWhenKnown ==
  ASSUME World, NEW first \in Int, NEW e \in Int, NEW firstWorth, NEW r1, NEW r2, NEW r3, NEW left,
         Straight(first, e, 0, firstWorth, r1, r2, r3, left),
         delay > 1 => r1 = 0, delay > 2 => r2 = 0, delay > 3 => r3 = 0
  PROVE  Straight(first, e, delay, firstWorth, r1, r2, r3, left)
<1>1. delay \in {1, 2, 3, 4}
  BY DEF World
<1>2. Sum3(<<r1, r2, r3>>, delay - 1) = 0
  BY <1>1 DEF Sum3
<1>3. e - Sum3(<<r1, r2, r3>>, delay - 1) = e /\ e >= -1 /\ e # -1
  BY <1>2 DEF Straight
<1>4. Heading(e, delay, r1, r2, r3, left)
  <2>1. (delay > 1 => r1 >= 0) /\ (delay > 2 => r2 >= 0) /\ (delay > 3 => r3 >= 0)
    OBVIOUS
  <2> QED
    BY <1>3, <2>1, Zenon DEF Heading
<1> QED
  BY <1>4 DEF Straight, World

\* A servo closes in when it has looked for the delay, if it did before or has just begun.
LEMMA SeenCloses ==
  ASSUME World, NoMoreThanBelieved, NEW s0 \in ServoType, NEW error \in Int, NEW f,
         IF s0.calls = 0 THEN Unsent(s0, f) /\ s0.carry = 0
         ELSE Sound(s0, f, s0.firstError - error) /\ Closes(s0, error),
         ~IsThere(Seen(s0, error), error)
  PROVE  Closes(Seen(s0, error), error)
<1> DEFINE q == Seen(s0, error)
           b == [s0 EXCEPT !.firstError = IF s0.calls = 0 THEN error ELSE @]
<1>1. /\ q \in ServoType
      /\ q.firstError = IF s0.calls = 0 THEN error ELSE s0.firstError
      /\ q.lag = Lag(b, error) /\ q.calls = s0.calls /\ q.firstSend = s0.firstSend
      /\ q.firstWorth = s0.firstWorth /\ q.recent = s0.recent /\ q.carry = s0.carry
  BY SeenIsAServo
<1>2. /\ q.lag \in {0, delay} /\ (q.lag = 0 => s0.lag = 0 \/ s0.calls = 0)
      /\ q.firstSend < 0 => q.lag = 0
  <2>1. Sound(q, f, q.firstError - error)
    BY SeenIsSound
  <2> HIDE DEF q
  <2>2. s0.calls # 0 /\ q.lag = 0 => s0.lag = 0
    <3>1. b = s0 \/ s0.calls = 0
      BY DEF ServoType
    <3> HIDE DEF b
    <3>2. s0.calls # 0 => (Lag(b, error) = 0 => s0.lag = 0)
      BY <3>1, LagIsTheDelay
    <3> QED
      BY <1>1, <3>2
  <2> QED
    BY <2>1, <2>2 DEF Sound
<1>3. CASE s0.calls = 0
  <2>1. q.firstSend < 0 /\ q.lag = 0 /\ q.firstWorth = 0 /\ q.recent = <<0, 0, 0>> /\ q.carry = 0
        /\ q.firstError = error /\ q.firstSend \in Int
    <3>1. s0.firstSend \in Int
      BY DEF ServoType
    <3> HIDE DEF q
    <3> QED
      BY <1>1, <1>2, <1>3, <3>1 DEF Unsent
  <2> HIDE DEF q, b
  <2>2. ~Waiting(q) /\ UnderWay(q) = 0
    BY <2>1 DEF Waiting, UnderWay, Sum3
  <2>3. Tolerance \in Nat /\ Tolerance >= 2
    BY ServoAssumption DEF NoMoreThanBelieved, Believed
  <2>4. ~(Size(error) <= Tolerance)
    BY <2>2, <2>3 DEF IsThere, Size, q
  <2>5. error >= 3 \/ -error >= 3
    BY <2>3, <2>4 DEF Size
  <2> DEFINE r1 == q.recent[1]
             r2 == q.recent[2]
             r3 == q.recent[3]
  <2>8. r1 = 0 /\ r2 = 0 /\ r3 = 0
    BY <2>1
  <2> HIDE DEF r1, r2, r3
  <2>6. CASE error >= 3
    <3>1. Straight(q.firstError, error, q.lag, q.firstWorth, r1, r2, r3, q.carry)
      BY <2>1, <2>6 DEF Straight
    <3> QED
      BY <3>1 DEF Closes, q, r1, r2, r3
  <2>7. CASE -error >= 3
    <3>1. \A z \in Int : z <= 0 /\ z >= 0 => -z \in -9 .. 9 /\ -z >= 0 /\ -z <= 0
      OBVIOUS
    <3>2. /\ -q.carry \in -9 .. 9 /\ -q.carry >= 0
          /\ -q.firstWorth >= 0 /\ 5 * (-q.firstWorth) <= 3 * (-error) + 9
      <4>1. -q.firstWorth <= 0 /\ -q.firstWorth >= 0 /\ -q.carry \in -9 .. 9 /\ -q.carry >= 0
        <5>1. /\ q.firstWorth \in Int /\ q.firstWorth <= 0 /\ q.firstWorth >= 0
              /\ q.carry \in Int /\ q.carry <= 0 /\ q.carry >= 0
          BY <2>1
        <5> QED
          BY ONLY <3>1, <5>1
      <4>2. -q.firstWorth \in Int /\ -error \in Int
        BY <2>1
      <4> QED
        BY <2>7, <4>1, <4>2
    <3>3. -q.firstError = -error /\ ~(q.lag > 0)
      BY <2>1
    <3>4. Straight(-q.firstError, -error, q.lag, -q.firstWorth, -r1, -r2, -r3, -q.carry)
      BY <2>7, <3>2, <3>3 DEF Straight
    <3> QED
      BY <3>4 DEF Closes, FromBelow, q, r1, r2, r3
  <2> QED
    BY <2>5, <2>6, <2>7 DEF q
<1>4. CASE s0.calls # 0
  <2>1. b = s0
    BY <1>4 DEF ServoType
  <2>2. Sound(s0, f, s0.firstError - error) /\ Closes(s0, error)
    BY <1>4
  <2> HIDE DEF q, b
  <2>3. s0.lag \in {0, delay}
    BY <2>2 DEF Sound
  <2>4. CASE q.lag = s0.lag
    BY <1>1, <1>4, <2>2, <2>4 DEF Closes, q
  <2>5. CASE q.lag # s0.lag
    <3>1. q.lag = delay /\ s0.lag = 0 /\ delay # 0
      BY <1>2, <1>4, <2>3, <2>5 DEF World
    <3>2. \A i \in 1 .. delay - 1 : s0.recent[i] = 0
      BY <1>1, <2>1, <2>2, <3>1, NothingFliesThen
    <3> DEFINE r1 == s0.recent[1]
               r2 == s0.recent[2]
               r3 == s0.recent[3]
    <3>3. (delay > 1 => r1 = 0) /\ (delay > 2 => r2 = 0) /\ (delay > 3 => r3 = 0)
      BY <3>2 DEF World
    <3>4. r1 \in Int /\ r2 \in Int /\ r3 \in Int /\ s0.firstError \in Int
      BY DEF ServoType, Triple
    <3> HIDE DEF r1, r2, r3
    <3>5. CASE Straight(s0.firstError, error, 0, s0.firstWorth, r1, r2, r3, s0.carry)
      <4>1. Straight(s0.firstError, error, delay, s0.firstWorth, r1, r2, r3, s0.carry)
        BY <3>3, <3>4, <3>5, StraightWhenKnown
      <4> QED
        BY <1>1, <1>4, <3>1, <4>1 DEF Closes, q, r1, r2, r3
    <3>6. CASE FromBelow(s0.firstError, error, 0, s0.firstWorth, r1, r2, r3, s0.carry)
      <4>1. (delay > 1 => -r1 = 0) /\ (delay > 2 => -r2 = 0) /\ (delay > 3 => -r3 = 0)
        BY <3>3
      <4>2. Straight(-s0.firstError, -error, delay, -s0.firstWorth, -r1, -r2, -r3, -s0.carry)
        BY <3>4, <3>6, <4>1, StraightWhenKnown DEF FromBelow
      <4> QED
        BY <1>1, <1>4, <3>1, <4>2 DEF Closes, FromBelow, q, r1, r2, r3
    <3> QED
      BY <2>2, <3>1, <3>5, <3>6 DEF Closes, r1, r2, r3
  <2> QED
    BY <2>4, <2>5
<1> QED
  BY <1>3, <1>4


LEMMA StraightOnBelow ==
  ASSUME World, NoMoreThanBelieved, NEW waits \in BOOLEAN, NEW lag \in {0, delay},
         NEW first \in Int, NEW e \in Int, NEW firstWorth \in Int,
         NEW r1 \in Int, NEW r2 \in Int, NEW r3 \in Int, NEW left \in Int,
         NEW x \in Int, NEW e2 \in Int, NEW firstWorth2 \in Int, NEW n \in Int, NEW kept \in Int,
         Numbers(waits, lag, first, e, firstWorth, r1, r2, r3, left, x, e2, firstWorth2, n, kept),
         FromBelow(first, e, lag, firstWorth, r1, r2, r3, left)
  PROVE  FromBelow(first, e2, lag, firstWorth2, Believed * n, r1, r2, kept)
<1>1. Numbers(waits, lag, -first, -e, -firstWorth, -r1, -r2, -r3, -left, -x, -e2,
              -firstWorth2, -n, -kept)
  BY NumbersMirrored
<1>2. /\ -first \in Int /\ -e \in Int /\ -firstWorth \in Int /\ -r1 \in Int /\ -r2 \in Int
      /\ -r3 \in Int /\ -left \in Int /\ -x \in Int /\ -e2 \in Int /\ -firstWorth2 \in Int
      /\ -n \in Int /\ -kept \in Int
  OBVIOUS
<1>3. Straight(-first, -e2, lag, -firstWorth2, Believed * (-n), -r1, -r2, -kept)
  BY <1>1, <1>2, StraightOn DEF FromBelow
<1>4. Believed * (-n) = -(Believed * n)
  BY DEF Believed
<1> QED
  BY <1>3, <1>4 DEF FromBelow

\* The same in whole numbers.
InNumbers(waits, lag, first, e, firstWorth, r1, r2, r3, left, x, e2, firstWorth2, n, kept) ==
    /\ waits \in BOOLEAN /\ lag \in {0, delay}
    /\ first \in Int /\ e \in Int /\ firstWorth \in Int
    /\ r1 \in Int /\ r2 \in Int /\ r3 \in Int /\ left \in Int
    /\ x \in Int /\ e2 \in Int /\ firstWorth2 \in Int /\ n \in Int /\ kept \in Int
    /\ Numbers(waits, lag, first, e, firstWorth, r1, r2, r3, left, x, e2, firstWorth2, n, kept)

LEMMA ClosesOn ==
  ASSUME World, NoMoreThanBelieved, NEW waits, NEW lag,
         NEW first, NEW e, NEW firstWorth, NEW r1, NEW r2, NEW r3, NEW left,
         NEW x, NEW e2, NEW firstWorth2, NEW n, NEW kept,
         InNumbers(waits, lag, first, e, firstWorth, r1, r2, r3, left, x, e2, firstWorth2, n, kept)
  PROVE  /\ Straight(first, e, lag, firstWorth, r1, r2, r3, left)
              => Straight(first, e2, lag, firstWorth2, Believed * n, r1, r2, kept)
         /\ FromBelow(first, e, lag, firstWorth, r1, r2, r3, left)
              => FromBelow(first, e2, lag, firstWorth2, Believed * n, r1, r2, kept)
<1> USE DEF InNumbers
<1>1. ASSUME Straight(first, e, lag, firstWorth, r1, r2, r3, left)
      PROVE  Straight(first, e2, lag, firstWorth2, Believed * n, r1, r2, kept)
  BY <1>1, StraightOn
<1>2. ASSUME FromBelow(first, e, lag, firstWorth, r1, r2, r3, left)
      PROVE  FromBelow(first, e2, lag, firstWorth2, Believed * n, r1, r2, kept)
  BY <1>2, StraightOnBelow
<1> QED
  BY <1>1, <1>2

\* A servo that closes in, and goes on, closes in.
LEMMA StepCloses ==
  ASSUME World, NoMoreThanBelieved, NEW s0 \in ServoType, NEW error \in Int,
         NEW f \in Seq(Int), Len(f) = delay - 1,
         IF s0.calls = 0 THEN Unsent(s0, f) /\ s0.carry = 0
         ELSE Sound(s0, f, s0.firstError - error) /\ Closes(s0, error),
         ServoStep(s0, error).servo.outcome = "running"
  PROVE  LET r == ServoStep(s0, error)
         IN  Closes(r.servo, error - worth * Arrives(f, r.sent))
<1> DEFINE q == Seen(s0, error)
           r == ServoStep(s0, error)
           n == r.sent
           t == r.servo
           x == Arrives(f, n)
           e2 == error - worth * x
           r1 == q.recent[1]
           r2 == q.recent[2]
           r3 == q.recent[3]
<1>1. IF s0.calls = 0 THEN Unsent(s0, f) ELSE Sound(s0, f, s0.firstError - error)
  OBVIOUS
<1>2. q \in ServoType /\ Sound(q, f, q.firstError - error)
  BY <1>1, SeenIsSound
<1>3. n \in Int /\ t \in ServoType /\ Onward(q, r)
  BY StepIsAServo
<1>4. ~IsThere(q, error) /\ n = Correction(q, error).whole /\ t.carry = Correction(q, error).carry
  BY StepSends
<1>5. Closes(q, error)
  BY <1>4, SeenCloses
<1>6. Sound(t, Tail(Append(f, n)), t.firstError - e2)
  BY <1>1, StepIsSound
<1>7. x \in Int /\ x = (IF delay = 1 THEN n ELSE f[1])
  BY <1>3, Shift
<1>8. /\ q.firstError \in Int /\ q.firstSend \in Int /\ q.firstWorth \in Int /\ q.carry \in Int
      /\ r1 \in Int /\ r2 \in Int /\ r3 \in Int /\ q.calls \in Nat
  BY <1>2 DEF ServoType, Triple
<1>9. /\ t.firstWorth \in Int /\ t.carry \in Int /\ t.firstError = q.firstError /\ t.lag = q.lag
      /\ t.firstWorth = (IF q.firstSend < 0 /\ n # 0 THEN n * Believed ELSE q.firstWorth)
      /\ t.recent[1] = n * Believed /\ t.recent[2] = r1 /\ t.recent[3] = r2
      /\ Waiting(q) => n = 0
  <2>1. t.firstWorth \in Int /\ t.carry \in Int
    BY <1>3 DEF ServoType
  <2>2. t.recent[1] = n * Believed /\ t.recent[2] = r1 /\ t.recent[3] = r2
    BY <1>3 DEF Onward
  <2> QED
    BY <1>3, <2>1, <2>2 DEF Onward
<1>10. q.lag \in {0, delay} /\ delay # 0 /\ delay \in {1, 2, 3, 4}
  BY <1>2 DEF Sound, World
<1>11. Waiting(q) <=> q.lag = 0 /\ q.firstSend >= 0
  BY DEF Waiting
<1>12. q.firstSend < 0 => q.lag = 0 /\ q.firstError - error = 0
  BY <1>2 DEF Sound
<1>13. e2 \in Int
  <2>1. worth * x \in Int
    BY <1>7, Product DEF World
  <2> QED
    BY <2>1
<1>14. UnderWay(q) = Sum3(<<r1, r2, r3>>, q.lag - 1)
  BY DEF UnderWay, Sum3
<1> DEFINE flies == Sum3(<<r1, r2, r3>>, q.lag - 1)
<1> HIDE DEF q, r, n, t, x, e2, r1, r2, r3
<1>15. Waiting(q) => n = 0 /\ t.carry = q.carry /\ q.lag = 0
  BY <1>4, <1>9, <1>11 DEF Correction
<1>16. ~Waiting(q) => /\ ~(Size(error) <= Tolerance /\ Size(flies) <= Tolerance)
                      /\ n = Due(error - flies, q.carry).whole
                      /\ t.carry = Due(error - flies, q.carry).carry
  BY <1>4, <1>14 DEF IsThere, Correction, Due
<1>17. ~Waiting(q) /\ q.lag = 0 => error = q.firstError /\ q.firstSend < 0
  BY <1>8, <1>11, <1>12
<1>18. q.lag = delay => /\ e2 = error - worth * x
                        /\ delay = 1 => x = n
                        /\ delay = 2 => Believed * x = r1
                        /\ delay = 3 => Believed * x = r2
                        /\ delay = 4 => Believed * x = r3
  <2>1. Remembers(q, f)
    BY <1>2 DEF Sound
  <2>2. (delay = 2 => r1 = Believed * f[1]) /\ (delay = 3 => r2 = Believed * f[1])
        /\ (delay = 4 => r3 = Believed * f[1])
    BY <2>1 DEF Remembers, r1, r2, r3
  <2> QED
    BY <1>7, <2>2 DEF e2
<1>19. t.firstWorth = IF q.lag = 0 /\ ~Waiting(q) /\ n # 0 THEN Believed * n ELSE q.firstWorth
  <2>1. q.firstSend < 0 <=> q.lag = 0 /\ ~Waiting(q)
    BY <1>8, <1>11, <1>12
  <2>2. n * Believed = Believed * n
    BY <1>3 DEF Believed
  <2> QED
    BY <1>9, <2>1, <2>2
<1>20. q.lag = 0 => \E c \in Int : /\ t.firstWorth = Believed * c
                                   /\ e2 \in {q.firstError, q.firstError - worth * c}
  <2> SUFFICES ASSUME q.lag = 0
               PROVE  \E c \in Int : /\ t.firstWorth = Believed * c
                                     /\ e2 \in {q.firstError, q.firstError - worth * c}
    OBVIOUS
  <2>1. t.lag = 0 /\ t.firstSend \in Int
    BY <1>3, <1>9 DEF ServoType
  <2>2. CASE t.firstSend < 0
    <3>1. t.firstWorth = 0 /\ t.firstError - e2 = 0
      BY <1>6, <2>2 DEF Sound
    <3>2. e2 = q.firstError /\ t.firstWorth = Believed * 0 /\ 0 \in Int
      BY <1>8, <1>9, <1>13, <3>1 DEF Believed
    <3> QED
      BY <3>2
  <2>3. CASE t.firstSend >= 0
    <3>1. PICK c \in Int \ {0}, k \in Int :
            /\ t.firstWorth = Believed * c
            /\ t.firstError - e2 = IF k = delay THEN worth * c ELSE 0
      <4>1. FirstFlies(t, Tail(Append(f, n)), t.firstError - e2, t.calls - t.firstSend)
        BY <1>6, <2>1, <2>3 DEF Sound
      <4>2. t.calls - t.firstSend \in Int
        BY <1>3 DEF ServoType
      <4> QED
        BY <4>1, <4>2 DEF FirstFlies
    <3> DEFINE a == worth * c
    <3>2. a \in Int
      BY Product DEF World
    <3>3. q.firstError - e2 = a \/ q.firstError - e2 = 0
      BY <1>9, <3>1
    <3> HIDE DEF a
    <3>4. e2 = q.firstError - a \/ e2 = q.firstError
      BY <1>8, <1>13, <3>2, <3>3
    <3> QED
      BY <3>1, <3>4 DEF a
  <2> QED
    BY <2>1, <2>2, <2>3
<1>21. PICK waits \in BOOLEAN : waits <=> Waiting(q)
  BY DEF Waiting
<1>22. Numbers(waits, q.lag, q.firstError, error, q.firstWorth, r1, r2, r3, q.carry, x, e2,
               t.firstWorth, n, t.carry)
  BY <1>15, <1>16, <1>17, <1>18, <1>19, <1>20, <1>21, Zenon DEF Numbers
<1> HIDE DEF flies
<1>23. InNumbers(waits, q.lag, q.firstError, error, q.firstWorth, r1, r2, r3, q.carry, x, e2,
                 t.firstWorth, n, t.carry)
  BY <1>3, <1>7, <1>8, <1>9, <1>10, <1>13, <1>22 DEF InNumbers
<1>24. CASE Straight(q.firstError, error, q.lag, q.firstWorth, r1, r2, r3, q.carry)
  <2>1. Straight(q.firstError, e2, q.lag, t.firstWorth, Believed * n, r1, r2, t.carry)
    BY <1>23, <1>24, ClosesOn
  <2>2. Believed * n = t.recent[1]
    BY <1>3, <1>9 DEF Believed
  <2> QED
    BY <1>9, <2>1, <2>2 DEF Closes, e2, n, r, t, x
<1>25. CASE FromBelow(q.firstError, error, q.lag, q.firstWorth, r1, r2, r3, q.carry)
  <2>1. FromBelow(q.firstError, e2, q.lag, t.firstWorth, Believed * n, r1, r2, t.carry)
    BY <1>23, <1>25, ClosesOn
  <2>2. Believed * n = t.recent[1]
    BY <1>3, <1>9 DEF Believed
  <2> QED
    BY <1>9, <2>1, <2>2 DEF Closes, e2, n, r, t, x
<1> QED
  BY <1>5, <1>24, <1>25 DEF Closes, r1, r2, r3

-----------------------------------------------------------------------------
(* The tracker.                                                            *)

LEMMA SumIsWhole ==
  ASSUME NEW r \in Triple, NEW n \in Int
  PROVE  Sum3(r, n) \in Int
BY DEF Sum3, Triple

LEMMA SmoothedIsWhole ==
  ASSUME NEW t \in TrackType, NEW to \in Int
  PROVE  Smoothed(t, to) \in Int
<1> DEFINE far == Size(to - t.smoothed)
           way == (7 * far + 19) \div 20
<1>1. t.smoothed \in Int
  BY DEF TrackType
<1>2. far \in Nat
  BY <1>1 DEF Size
<1> HIDE DEF far
<1>3. way \in Int
  BY <1>2
<1> HIDE DEF way
<1>4. Sign(to - t.smoothed) * way \in Int
  BY <1>1, <1>3 DEF Sign
<1> QED
  BY <1>1, <1>4 DEF Smoothed, way, far

LEMMA TrackerIsATracker ==
  ASSUME NEW t \in TrackType, NEW lag \in Int, NEW to \in Int, NEW current \in Int
  PROVE  /\ TrackerStep(t, lag, to, current).sent \in Int
         /\ TrackerStep(t, lag, to, current).track \in TrackType
<1> DEFINE smoothed  == Smoothed(t, to)
           remaining == smoothed - current - TrackerUnderWay(t, lag)
           taken     == IF Size(remaining) > Deadband
                          THEN TakeWholeUnits(Within(remaining, 2 * Believed * MaxCounts)
                                               + t.carry, 2 * Believed)
                          ELSE [whole |-> 0, carry |-> 0]
<1>1. t.carry \in Int /\ t.recent \in Triple
  BY DEF TrackType
<1>2. smoothed \in Int
  BY SmoothedIsWhole
<1>3. TrackerUnderWay(t, lag) \in Int
  BY <1>1, SumIsWhole DEF TrackerUnderWay
<1> HIDE DEF smoothed
<1>4. remaining \in Int
  BY <1>2, <1>3
<1> HIDE DEF remaining
<1>5. taken.whole \in Int /\ taken.carry \in Int
  <2>1. MaxCounts \in Int /\ 2 * Believed = 4
    BY ServoAssumption DEF Believed
  <2>2. 2 * Believed * MaxCounts \in Int
    BY <2>1 DEF Believed
  <2>3. Within(remaining, 2 * Believed * MaxCounts) \in Int
    BY <1>4, <2>2, WithinIsWhole, Zenon
  <2>4. Within(remaining, 2 * Believed * MaxCounts) + t.carry \in Int
    BY <1>1, <2>3
  <2> QED
    BY <2>1, <2>4, NothingIsRoundedAway
<1>6. TrackerStep(t, lag, to, current)
        = [track |-> [have |-> TRUE, smoothed |-> smoothed, carry |-> taken.carry,
                      recent |-> <<taken.whole * Believed, t.recent[1], t.recent[2]>>],
           sent |-> taken.whole]
  BY DEF TrackerStep, smoothed, remaining
<1> HIDE DEF taken
<1>7. <<taken.whole * Believed, t.recent[1], t.recent[2]>> \in Triple
  BY <1>1, <1>5 DEF Triple, Believed
<1> QED
  BY <1>2, <1>5, <1>6, <1>7 DEF TrackType

-----------------------------------------------------------------------------
(* The invariant.                                                          *)

AimTypes ==
    /\ World
    /\ servo \in [Axes -> ServoType] /\ track \in [Axes -> TrackType]
    /\ aim \in [Axes -> Int] /\ target \in [Axes -> Int] /\ hand \in [Axes -> Int]
    /\ flying \in [Axes -> Seq(Int)] /\ \A a \in Axes : Len(flying[a]) = delay - 1
    /\ carry \in Int /\ body \in Int /\ stick.throw \in Int

\* The tracker and the servos never send in the same frame.
OneAtATime == ready => method = "hand" /\ \A a \in Axes : ~Running(a)

\* The error by which a servo has come closer is what the game has been seen to turn.
Turned(a) == servo[a].firstError - (target[a] - aim[a])

ServosKnow ==
    clean => /\ ~deaf
             /\ \A a \in Axes : Running(a) => /\ servo[a].calls > 0
                                              /\ Sound(servo[a], flying[a], Turned(a))
                                              /\ NoMoreThanBelieved =>
                                                   Closes(servo[a], target[a] - aim[a])

AimInv == AimTypes /\ OneAtATime /\ ServosKnow

LEMMA Nothing == Silence \in [Axes -> Int] /\ 0 \in Int
BY DEF Silence

LEMMA UntrackedIsATracker == Unaimed \in [Axes -> TrackType]
<1>1. <<0, 0, 0>> \in Triple
  BY DEF Triple
<1>2. Untracked \in TrackType
  BY <1>1 DEF Untracked, TrackType
<1> QED
  BY <1>2 DEF Unaimed

LEMMA IdleIsAServo == Idle \in ServoType /\ Idle.outcome # "running"
<1>1. <<0, 0, 0>> \in Triple /\ "idle" \in Outcomes
  BY DEF Triple, Outcomes
<1> QED
  BY <1>1 DEF Idle, ServoType

LEMMA StartIsUnsent ==
  /\ Fresh \in [Axes -> ServoType]
  /\ \A a \in Axes : Fresh[a].calls = 0
  /\ IsQuiet /\ AimTypes => \A a \in Axes : Unsent(Fresh[a], flying[a]) /\ Fresh[a].carry = 0
<1>1. /\ Start \in ServoType /\ Start.calls = 0 /\ Start.lag = 0 /\ Start.firstSend < 0
      /\ Start.firstWorth = 0 /\ Start.recent = <<0, 0, 0>> /\ Start.carry = 0
  <2>1. <<0, 0, 0>> \in Triple /\ "running" \in Outcomes
    BY DEF Triple, Outcomes
  <2> QED
    BY <2>1 DEF Idle, Start, ServoType
<1>2. IsQuiet /\ AimTypes => \A a \in Axes : \A i \in 1 .. delay - 1 : flying[a][i] = 0
  BY DEF IsQuiet, AimTypes
<1> QED
  BY <1>1, <1>2 DEF Fresh, Unsent

LEMMA CancelledIsAServo ==
  ASSUME NEW s \in ServoType
  PROVE  Cancel(s) \in ServoType /\ Cancel(s).outcome # "running"
<1>1. "idle" \in Outcomes
  BY DEF Outcomes
<1> QED
  BY <1>1, EndIsAServo DEF Cancel

-----------------------------------------------------------------------------
(* A frame of the game.                                                    *)

LEMMA Received ==
  ASSUME AimTypes, NEW sent \in [Axes -> Int], Receives(sent)
  PROVE  /\ aim' \in [Axes -> Int] /\ flying' \in [Axes -> Seq(Int)]
         /\ \A a \in Axes : Len(flying'[a]) = delay' - 1
         /\ \A a \in Axes : flying'[a] = Tail(Append(flying[a], sent[a]))
         /\ ~deaf => \A a \in Axes : aim'[a] = aim[a] + worth * Arrives(flying[a], sent[a])
         /\ UNCHANGED <<method, delay, worth, deaf, hand, valid, stick, disturbed>>
<1>1. UNCHANGED <<method, delay, worth, deaf, hand, valid, stick, disturbed>>
  BY DEF Receives
<1>2. ASSUME NEW a \in Axes
      PROVE  /\ Tail(Append(flying[a], sent[a])) \in Seq(Int)
             /\ Len(Tail(Append(flying[a], sent[a]))) = delay - 1
             /\ worth * Arrives(flying[a], sent[a]) \in Int
  <2>1. World /\ flying[a] \in Seq(Int) /\ Len(flying[a]) = delay - 1 /\ sent[a] \in Int
    BY <1>2 DEF AimTypes
  <2>2. /\ Tail(Append(flying[a], sent[a])) \in Seq(Int)
        /\ Len(Tail(Append(flying[a], sent[a]))) = delay - 1
        /\ Arrives(flying[a], sent[a]) \in Int
    BY <2>1, Shift
  <2>3. worth \in Int
    BY <2>1 DEF World
  <2> QED
    BY <2>2, <2>3, Product
<1>3. /\ flying' = [a \in Axes |-> Tail(Append(flying[a], sent[a]))]
      /\ aim' = [a \in Axes |-> IF deaf THEN aim[a]
                                        ELSE aim[a] + worth * Arrives(flying[a], sent[a])]
  BY DEF Receives
<1>4. aim \in [Axes -> Int]
  BY DEF AimTypes
<1>5. flying' \in [Axes -> Seq(Int)] /\ \A a \in Axes : flying'[a] = Tail(Append(flying[a], sent[a]))
  BY <1>2, <1>3
<1>6. \A a \in Axes : Len(flying'[a]) = delay' - 1
  BY <1>1, <1>2, <1>5
<1>7. aim' \in [Axes -> Int]
  BY <1>2, <1>3, <1>4
<1>8. ~deaf => \A a \in Axes : aim'[a] = aim[a] + worth * Arrives(flying[a], sent[a])
  BY <1>3
<1> QED
  BY <1>1, <1>5, <1>6, <1>7, <1>8

\* Both servos step: each stays a servo, and one that ends says so.
LEMMA ServosStep ==
  ASSUME AimTypes, NEW s \in [Axes -> ServoType], NEW to \in [Axes -> Int]
  PROVE  /\ [a \in Axes |-> Steps(s, to)[a].servo] \in [Axes -> ServoType]
         /\ [a \in Axes |-> Steps(s, to)[a].sent] \in [Axes -> Int]
         /\ \A a \in Axes : /\ Steps(s, to)[a] = ServoStep(s[a], to[a] - aim[a])
                            /\ Steps(s, to)[a].servo.outcome = "running"
                                 => s[a].outcome = "running"
<1>1. ASSUME NEW a \in Axes
      PROVE  /\ Steps(s, to)[a] = ServoStep(s[a], to[a] - aim[a])
             /\ Steps(s, to)[a].servo \in ServoType /\ Steps(s, to)[a].sent \in Int
             /\ Steps(s, to)[a].servo.outcome = "running" => s[a].outcome = "running"
  <2>1. s[a] \in ServoType /\ to[a] - aim[a] \in Int
    BY <1>1 DEF AimTypes
  <2>2. Steps(s, to)[a] = ServoStep(s[a], to[a] - aim[a])
    BY <1>1 DEF Steps
  <2> QED
    BY <2>1, <2>2, StepIsAServo
<1> QED
  BY <1>1

\* What holds of the servos that a frame begins with.
KnowsBefore(s, to) ==
    \A a \in Axes : s[a].outcome = "running" =>
        IF s[a].calls = 0
        THEN Unsent(s[a], flying[a]) /\ s[a].carry = 0
        ELSE /\ Sound(s[a], flying[a], s[a].firstError - (to[a] - aim[a]))
             /\ NoMoreThanBelieved => Closes(s[a], to[a] - aim[a])

LEMMA StepKnows ==
  ASSUME AimTypes, ~deaf, NEW s \in [Axes -> ServoType], NEW to \in [Axes -> Int],
         NEW sent \in [Axes -> Int], Receives(sent), target' = to,
         servo' = [a \in Axes |-> Steps(s, to)[a].servo],
         \A a \in Axes : Running(a)' => sent[a] = Steps(s, to)[a].sent,
         KnowsBefore(s, to)
  PROVE  \A a \in Axes : Running(a)' => /\ servo'[a].calls > 0
                                        /\ Sound(servo[a], flying[a], Turned(a))'
                                        /\ NoMoreThanBelieved' =>
                                             Closes(servo'[a], target'[a] - aim'[a])
<1> SUFFICES ASSUME NEW a \in Axes, Running(a)'
             PROVE  /\ servo'[a].calls > 0 /\ Sound(servo[a], flying[a], Turned(a))'
                    /\ NoMoreThanBelieved' => Closes(servo'[a], target'[a] - aim'[a])
  OBVIOUS
<1> DEFINE error == to[a] - aim[a]
           r == ServoStep(s[a], error)
<1>1. s[a] \in ServoType /\ error \in Int /\ World /\ flying[a] \in Seq(Int)
      /\ Len(flying[a]) = delay - 1 /\ aim[a] \in Int /\ to[a] \in Int
  BY DEF AimTypes
<1>2. servo'[a] = r.servo /\ sent[a] = r.sent
  BY DEF Steps
<1>3. r.servo.outcome = "running"
  BY <1>2 DEF Running
<1>4. s[a].outcome = "running"
  <2> HIDE DEF error
  <2> QED
    BY <1>1, <1>3, StepIsAServo
<1>5. IF s[a].calls = 0
      THEN Unsent(s[a], flying[a]) /\ s[a].carry = 0
      ELSE /\ Sound(s[a], flying[a], s[a].firstError - error)
           /\ NoMoreThanBelieved => Closes(s[a], error)
  BY <1>4 DEF KnowsBefore
<1>6. /\ r.servo.calls > 0
      /\ Sound(r.servo, Tail(Append(flying[a], r.sent)),
               r.servo.firstError - (error - worth * Arrives(flying[a], r.sent)))
  <2> HIDE DEF error
  <2> QED
    BY <1>1, <1>3, <1>5, StepIsSound
<1>7. /\ flying'[a] = Tail(Append(flying[a], r.sent))
      /\ aim'[a] = aim[a] + worth * Arrives(flying[a], r.sent)
      /\ delay' = delay /\ worth' = worth
  BY <1>2, Received
<1>8. error - worth * Arrives(flying[a], r.sent) = target'[a] - aim'[a]
  <2> DEFINE p == worth * Arrives(flying[a], r.sent)
  <2>1. p \in Int
    <3>1. r.sent \in Int
      <4> HIDE DEF r
      <4>1. sent[a] \in Int
        OBVIOUS
      <4> QED
        BY <1>2, <4>1
    <3>2. Arrives(flying[a], r.sent) \in Int /\ worth \in Int
      <4> HIDE DEF r
      <4>1. Arrives(flying[a], r.sent) \in Int
        BY <1>1, <3>1, Shift
      <4> QED
        BY <1>1, <4>1 DEF World
    <3> QED
      BY <3>2, Product
  <2>2. aim'[a] = aim[a] + p
    BY <1>7
  <2> HIDE DEF p
  <2>3. error - p = to[a] - aim'[a]
    BY <1>1, <2>1, <2>2
  <2> QED
    BY <2>3 DEF p
<1>9. Sound(servo'[a], flying'[a], servo'[a].firstError - (target'[a] - aim'[a]))
  BY <1>2, <1>6, <1>7, <1>8
<1>10. Sound(servo[a], flying[a], Turned(a))'
  BY <1>7, <1>9 DEF Sound, Remembers, FirstFlies, Turned
<1>11. NoMoreThanBelieved' => Closes(servo'[a], target'[a] - aim'[a])
  <2> SUFFICES ASSUME NoMoreThanBelieved
               PROVE  Closes(servo'[a], target'[a] - aim'[a])
    BY <1>7 DEF NoMoreThanBelieved
  <2>1. IF s[a].calls = 0 THEN Unsent(s[a], flying[a]) /\ s[a].carry = 0
        ELSE Sound(s[a], flying[a], s[a].firstError - error) /\ Closes(s[a], error)
    BY <1>5
  <2>2. Closes(r.servo, error - worth * Arrives(flying[a], r.sent))
    <3> HIDE DEF error
    <3> QED
      BY <1>1, <1>3, <2>1, StepCloses
  <2> QED
    BY <1>2, <1>8, <2>2
<1> QED
  BY <1>2, <1>6, <1>10, <1>11

-----------------------------------------------------------------------------
(* Every step keeps the invariant.                                         *)

LEMMA InitAim == Init => AimInv
<1> SUFFICES ASSUME Init PROVE AimInv
  OBVIOUS
<1>1. World
  BY DelayAssumption DEF Init, World
<1>2. servo \in [Axes -> ServoType] /\ \A a \in Axes : ~Running(a)
  BY IdleIsAServo DEF Init, Running
<1>3. flying \in [Axes -> Seq(Int)] /\ \A a \in Axes : Len(flying[a]) = delay - 1
  <2> DEFINE f == [i \in 1 .. delay - 1 |-> 0]
  <2>1. delay - 1 \in Nat
    BY <1>1 DEF World
  <2>2. f \in Seq(Int) /\ Len(f) = delay - 1
    BY <2>1
  <2>3. flying = [a \in Axes |-> f]
    BY DEF Init
  <2> QED
    BY <2>2, <2>3
<1>4. hand \in [Axes -> Int]
  BY InputAssumption DEF Init
<1>5. AimTypes
  BY <1>1, <1>2, <1>3, <1>4, Nothing, UntrackedIsATracker DEF Init, AimTypes
<1> QED
  BY <1>2, <1>5 DEF Init, AimInv, OneAtATime, ServosKnow

\* A frame in which nothing is aimed: no servo runs after it.
LEMMA QuietFrame ==
  ASSUME AimInv, Receives(Silence), servo' \in [Axes -> ServoType],
         \A a \in Axes : ~Running(a)', track' \in [Axes -> TrackType],
         UNCHANGED <<target, body>>, carry' \in Int, clean' = clean,
         ready' => method = "hand"
  PROVE  AimInv'
<1>1. AimTypes'
  BY Received, Nothing DEF AimInv, AimTypes, World
<1>2. ServosKnow'
  BY Received, Nothing DEF AimInv, ServosKnow
<1>3. OneAtATime'
  BY Received, Nothing DEF AimInv, OneAtATime
<1> QED
  BY <1>1, <1>2, <1>3 DEF AimInv

\* A frame of the servos.
LEMMA ServoFrame ==
  ASSUME AimInv, ~ready, NEW s \in [Axes -> ServoType], NEW to \in [Axes -> Int],
         NEW sent \in [Axes -> Int], Receives(sent), target' = to,
         servo' = [a \in Axes |-> Steps(s, to)[a].servo],
         \A a \in Axes : Running(a)' => sent[a] = Steps(s, to)[a].sent,
         clean' => ~deaf /\ KnowsBefore(s, to),
         UNCHANGED <<track, ready>>, carry' \in Int, body' \in Int
  PROVE  AimInv'
<1>1. AimTypes'
  BY Received, ServosStep DEF AimInv, AimTypes, World
<1>2. ServosKnow'
  <2> SUFFICES ASSUME clean' PROVE ServosKnow'
    BY DEF ServosKnow
  <2>1. ~deaf' /\ ~deaf /\ KnowsBefore(s, to)
    BY Received DEF AimInv
  <2>2. \A a \in Axes : Running(a)' => /\ servo'[a].calls > 0
                                       /\ Sound(servo[a], flying[a], Turned(a))'
                                       /\ NoMoreThanBelieved' =>
                                            Closes(servo'[a], target'[a] - aim'[a])
    BY <2>1, StepKnows DEF AimInv
  <2> QED
    BY <2>1, <2>2 DEF ServosKnow
<1>3. OneAtATime'
  BY DEF OneAtATime
<1> QED
  BY <1>1, <1>2, <1>3 DEF AimInv

\* Servos that are started know what is under way when nothing is.
LEMMA FreshKnow == AimTypes /\ IsQuiet => \A to : KnowsBefore(Fresh, to)
BY StartIsUnsent DEF KnowsBefore

LEMMA RunningKnow == AimInv /\ clean => KnowsBefore(servo, target)
<1> SUFFICES ASSUME AimInv, clean, NEW a \in Axes, servo[a].outcome = "running"
             PROVE  IF servo[a].calls = 0
                    THEN Unsent(servo[a], flying[a]) /\ servo[a].carry = 0
                    ELSE /\ Sound(servo[a], flying[a],
                                  servo[a].firstError - (target[a] - aim[a]))
                         /\ NoMoreThanBelieved => Closes(servo[a], target[a] - aim[a])
  BY DEF KnowsBefore
<1>1. /\ servo[a].calls > 0 /\ Sound(servo[a], flying[a], Turned(a))
      /\ NoMoreThanBelieved => Closes(servo[a], target[a] - aim[a])
  BY DEF AimInv, ServosKnow, Running
<1> QED
  BY <1>1 DEF Turned

\* Which is what a frame of the tracker, and one of the stick, is made of.
LEMMA StepAim == AimInv /\ [Next]_vars => AimInv'
<1> SUFFICES ASSUME AimInv, [Next]_vars PROVE AimInv'
  OBVIOUS
<1>0. /\ AimTypes /\ servo \in [Axes -> ServoType] /\ track \in [Axes -> TrackType]
      /\ aim \in [Axes -> Int] /\ target \in [Axes -> Int] /\ hand \in [Axes -> Int]
      /\ carry \in Int /\ body \in Int
  BY DEF AimInv, AimTypes
<1>1. CASE StopHandAim
  <2>1. servo' \in [Axes -> ServoType] /\ \A a \in Axes : ~Running(a)'
    BY <1>0, <1>1, CancelledIsAServo DEF StopHandAim, Running
  <2> QED
    BY <1>0, <1>1, <2>1, UntrackedIsATracker, QuietFrame DEF StopHandAim, Hand
<1>2. CASE TakeOver
  <2>1. \A a \in Axes : ~Running(a)'
    BY <1>2 DEF TakeOver, Runs, Running
  <2> QED
    BY <1>0, <1>2, <2>1, UntrackedIsATracker, QuietFrame DEF TakeOver, Hand
<1>3. CASE Retry
  <2>1. servo' \in [Axes -> ServoType] /\ \A a \in Axes : ~Running(a)'
    BY <1>0, <1>3, EndIsAServo DEF Retry, BackToIdle, Running, Outcomes
  <2> QED
    BY <1>0, <1>3, <2>1, QuietFrame DEF Retry, Hand
<1>4. CASE Begin
  <2>1. Fresh \in [Axes -> ServoType]
    BY StartIsUnsent
  <2> DEFINE sent == [a \in Axes |-> Steps(Fresh, hand)[a].sent]
  <2>2. sent \in [Axes -> Int]
    BY <1>0, <2>1, ServosStep
  <2>3. /\ servo' = [a \in Axes |-> Steps(Fresh, hand)[a].servo] /\ Receives(sent)
        /\ target' = hand /\ clean' = IsQuiet /\ ~ready
        /\ UNCHANGED <<track, ready, carry, body>>
    BY <1>4 DEF Begin, RunServos, Hand
  <2>4. clean' => ~deaf /\ KnowsBefore(Fresh, hand)
    BY <1>0, <2>3, FreshKnow DEF IsQuiet
  <2>5. \A a \in Axes : Running(a)' => sent[a] = Steps(Fresh, hand)[a].sent
    OBVIOUS
  <2> HIDE DEF sent
  <2> QED
    BY <1>0, <2>1, <2>2, <2>3, <2>4, <2>5, ServoFrame
<1>5. CASE Rest
  <2>1. \A a \in Axes : ~Running(a)'
    BY <1>5 DEF Rest, Runs, Running
  <2> QED
    BY <1>0, <1>5, <2>1, QuietFrame DEF Rest, Hand
<1>6. CASE Chase
  <2> DEFINE sent == [a \in Axes |-> Steps(servo, target)[a].sent]
  <2>1. sent \in [Axes -> Int]
    BY <1>0, ServosStep
  <2>2. /\ servo' = [a \in Axes |-> Steps(servo, target)[a].servo] /\ Receives(sent)
        /\ target' = target /\ clean' = clean /\ ~ready
        /\ UNCHANGED <<track, ready, carry, body>>
    BY <1>6 DEF Chase, RunServos, Hand
  <2>3. clean' => ~deaf /\ KnowsBefore(servo, target)
    BY <2>2, RunningKnow DEF AimInv, ServosKnow
  <2>4. \A a \in Axes : Running(a)' => sent[a] = Steps(servo, target)[a].sent
    OBVIOUS
  <2> HIDE DEF sent
  <2> QED
    BY <1>0, <2>1, <2>2, <2>3, <2>4, ServoFrame
<1>7. CASE Track
  <2> DEFINE to == [a \in Axes |-> TrackerStep(track[a], TrackLag, hand[a], aim[a])]
             sent == [a \in Axes |-> to[a].sent]
  <2>1. TrackLag \in Int
    <3>1. servo["yaw"] \in ServoType
      BY <1>0 DEF Axes
    <3> QED
      BY <3>1 DEF TrackLag, ServoType
  <2>2. \A a \in Axes : to[a].sent \in Int /\ to[a].track \in TrackType
    BY <1>0, <2>1, TrackerIsATracker
  <2>3. track' = [a \in Axes |-> to[a].track] /\ Receives(sent) /\ ready
    BY <1>7 DEF Track
  <2> HIDE DEF to
  <2>4. sent \in [Axes -> Int] /\ track' \in [Axes -> TrackType]
    BY <2>2, <2>3
  <2> HIDE DEF sent
  <2>5. UNCHANGED <<servo, ready, target, clean, carry, body>>
    BY <1>7 DEF Track, Hand
  <2>6. AimTypes'
    BY <1>0, <2>3, <2>4, <2>5, Received DEF AimTypes, World
  <2>7. \A a \in Axes : ~Running(a)'
    BY <2>3, <2>5 DEF AimInv, OneAtATime, Running
  <2>8. method' = method /\ deaf' = deaf
    BY <1>0, <2>3, <2>4, Received
  <2>9. OneAtATime' /\ ServosKnow'
    BY <2>3, <2>5, <2>7, <2>8 DEF AimInv, OneAtATime, ServosKnow
  <2> QED
    BY <2>6, <2>9 DEF AimInv
<1>8. CASE StickFrame
  <2> DEFINE starts == stick.pressed /\ ~clicked
             to     == IF starts THEN hand ELSE target
             s      == IF starts THEN Fresh ELSE servo
             turns  == Steps(s, to)["yaw"].servo.outcome # "running"
             turn   == TakeWholeUnits(Thrown + carry, 2)
             sent   == [a \in Axes |-> IF a = "yaw" /\ turns THEN turn.whole
                                                             ELSE Steps(s, to)[a].sent]
  <2>1. s \in [Axes -> ServoType] /\ to \in [Axes -> Int]
    BY <1>0, StartIsUnsent
  <2>2. turn.whole \in Int /\ turn.carry \in Int
    <3>1. Thrown \in Int
      BY <1>0 DEF Thrown, AimTypes
    <3>2. Thrown + carry \in Int
      BY <1>0, <3>1
    <3> QED
      BY <3>2, NothingIsRoundedAway
  <2>3. /\ target' = to /\ clean' = (IF starts THEN IsQuiet ELSE clean)
        /\ servo' = [a \in Axes |-> Steps(s, to)[a].servo]
        /\ carry' = (IF turns THEN turn.carry ELSE carry) /\ Receives(sent)
        /\ UNCHANGED <<track, ready>> /\ method = "stick"
    BY <1>8 DEF StickFrame
  <2>4. body' \in Int
    <3>1. aim["yaw"] - body \in Int
      BY <1>0 DEF Axes
    <3>2. BodyTurnStep(aim["yaw"] - body) \in Int
      BY <3>1, StepBringsBack
    <3> QED
      BY <1>0, <1>8, <3>2 DEF StickFrame, Follows
  <2>5. clean' => ~deaf /\ KnowsBefore(s, to)
    <3>1. CASE starts
      BY <1>0, <2>3, <3>1, FreshKnow DEF IsQuiet
    <3>2. CASE ~starts
      BY <2>3, <3>2, RunningKnow DEF AimInv, ServosKnow
    <3> QED
      BY <3>1, <3>2
  <2>6. ~ready
    BY <2>3 DEF AimInv, OneAtATime
  <2> HIDE DEF s, to, turn, starts
  <2>7. \A a \in Axes : Running(a)' => sent[a] = Steps(s, to)[a].sent
    BY <2>3 DEF Running
  <2>8. sent \in [Axes -> Int] /\ carry' \in Int
    <3>1. \A a \in Axes : Steps(s, to)[a].sent \in Int
      BY <1>0, <2>1, ServosStep
    <3> HIDE DEF turns
    <3> QED
      BY <1>0, <2>2, <2>3, <3>1
  <2> HIDE DEF sent, turns
  <2> QED
    BY <2>1, <2>3, <2>4, <2>5, <2>6, <2>7, <2>8, ServoFrame
<1>9. CASE ReleaseGameButtons
  <2>1. servo' \in [Axes -> ServoType] /\ \A a \in Axes : ~Running(a)'
    BY <1>0, <1>9, CancelledIsAServo DEF ReleaseGameButtons, Running
  <2>2. ready' => method = "hand"
    BY <1>9 DEF ReleaseGameButtons, AimInv, OneAtATime
  <2> QED
    BY <1>0, <1>9, <2>1, <2>2, Nothing, QuietFrame DEF ReleaseGameButtons
\* The game and the viewer touch no servo.
<1>10. CASE StopsListening
  BY <1>0, <1>10 DEF StopsListening, AimInv, AimTypes, World, OneAtATime, ServosKnow, Running
<1>11. CASE /\ UNCHANGED <<method, learned, delay, worth, aim, flying>>
            /\ deaf' => deaf
            /\ hand' \in [Axes -> Int] /\ stick'.throw \in Int
  <2>1. /\ UNCHANGED <<method, servo, track, ready, beat, target, carry, clicked, body, clean,
                       delay, worth, aim, flying>>
    BY <1>11 DEF learned
  <2>2. AimTypes'
    BY <1>0, <1>11, <2>1 DEF AimTypes, World
  <2>3. OneAtATime'
    BY <2>1 DEF AimInv, OneAtATime, Running
  <2>4. ServosKnow'
    <3>1. \A a \in Axes : Running(a)' <=> Running(a)
      BY <2>1 DEF Running
    <3>2. \A a \in Axes : Sound(servo[a], flying[a], Turned(a))
                            => Sound(servo[a], flying[a], Turned(a))'
      BY <2>1 DEF Turned, Sound, Remembers, FirstFlies
    <3>3. /\ NoMoreThanBelieved' = NoMoreThanBelieved
          /\ \A a \in Axes : Closes(servo[a], target[a] - aim[a])
                              => Closes(servo'[a], target'[a] - aim'[a])
      BY <2>1 DEF NoMoreThanBelieved
    <3> QED
      BY <1>11, <2>1, <3>1, <3>2, <3>3 DEF AimInv, ServosKnow
  <2> QED
    BY <2>2, <2>3, <2>4 DEF AimInv
<1>12. CASE Listens
  BY <1>0, <1>11, <1>12 DEF Listens, AimTypes
<1>13. CASE HandMoves
  <2>1. PICK a \in Axes : \E d \in Directions[a] \ {hand[a]} : hand' = [hand EXCEPT ![a] = d]
    BY <1>13 DEF HandMoves
  <2>2. hand' \in [Axes -> Int]
    BY <1>0, <2>1, InputAssumption
  <2> QED
    BY <1>0, <1>11, <1>13, <2>2 DEF HandMoves, AimTypes
<1>14. CASE PoseGoes
  BY <1>0, <1>11, <1>14 DEF PoseGoes, AimTypes
<1>15. CASE PoseComes
  BY <1>0, <1>11, <1>15 DEF PoseComes, AimTypes
<1>16. CASE StickMoves
  <2>1. stick'.throw \in Int
    BY <1>16, InputAssumption DEF StickMoves
  <2> QED
    BY <1>0, <1>11, <1>16, <2>1 DEF StickMoves
<1>17. CASE UNCHANGED vars
  <2>1. UNCHANGED <<method, learned, delay, worth, aim, flying, deaf, hand, stick>>
    BY <1>17 DEF vars, world
  <2> QED
    BY <1>0, <1>11, <2>1 DEF AimTypes
<1> QED
  BY <1>1, <1>2, <1>3, <1>4, <1>5, <1>6, <1>7, <1>8, <1>9, <1>10, <1>12, <1>13, <1>14, <1>15,
     <1>16, <1>17 DEF Next, Frame

LEMMA AimHolds == Spec => []AimInv
BY InitAim, StepAim, PTL DEF Spec

-----------------------------------------------------------------------------
(* What follows from it.                                                   *)

LEMMA KnowsWhatFlies ==
  ASSUME AimInv, NEW a \in Axes, clean, Running(a)
  PROVE  /\ servo[a].lag > 0 => UnderWay(servo[a]) = OnItsWay(a)
         /\ servo[a].lag = 0 =>
              Believed * Turned(a) = worth * (servo[a].firstWorth - OnItsWay(a))
<1> DEFINE s == servo[a]
           f == flying[a]
           turned == Turned(a)
<1>1. World /\ s \in ServoType /\ f \in Seq(Int) /\ Len(f) = delay - 1
  BY DEF AimInv, AimTypes
<1>2. Sound(s, f, turned)
  BY DEF AimInv, ServosKnow
<1>3. delay \in {1, 2, 3, 4} /\ worth \in Nat
  BY <1>1 DEF World
<1>4. \A i \in 1 .. delay - 1 : f[i] \in Int
  BY <1>1, Shift
<1> HIDE DEF s, f, turned
<1>5. s.lag > 0 => UnderWay(s) = Believed * Sum3(f, Len(f))
  <2> SUFFICES ASSUME s.lag > 0 PROVE UnderWay(s) = Believed * Sum3(f, Len(f))
    OBVIOUS
  <2>1. s.lag = delay /\ Remembers(s, f)
    BY <1>2 DEF Sound
  <2>2. UnderWay(s) = Sum3(s.recent, delay - 1)
    BY <2>1 DEF UnderWay
  <2>3. CASE delay = 1
    BY <1>1, <2>2, <2>3 DEF Sum3, Believed
  <2>4. CASE delay = 2
    BY <1>1, <1>4, <2>1, <2>2, <2>4 DEF Sum3, Believed, Remembers
  <2>5. CASE delay = 3
    BY <1>1, <1>4, <2>1, <2>2, <2>5 DEF Sum3, Believed, Remembers
  <2>6. CASE delay = 4
    BY <1>1, <1>4, <2>1, <2>2, <2>6 DEF Sum3, Believed, Remembers
  <2> QED
    BY <1>3, <2>3, <2>4, <2>5, <2>6
<1>6. s.lag = 0 => Believed * turned = worth * (s.firstWorth - Believed * Sum3(f, Len(f)))
  <2> SUFFICES ASSUME s.lag = 0
               PROVE  Believed * turned = worth * (s.firstWorth - Believed * Sum3(f, Len(f)))
    OBVIOUS
  <2>0. s.firstSend \in Int
    BY <1>1 DEF ServoType
  <2>1. CASE s.firstSend < 0
    <3>1. s.firstWorth = 0 /\ turned = 0 /\ \A i \in 1 .. delay - 1 : f[i] = 0
      BY <1>2, <2>1 DEF Sound
    <3>2. Sum3(f, Len(f)) = 0
      BY <1>1, <1>3, <3>1 DEF Sum3
    <3> QED
      BY <1>3, <3>1, <3>2 DEF Believed
  <2>2. CASE s.firstSend >= 0
    <3> DEFINE k == s.calls - s.firstSend
    <3>1. k \in 1 .. delay
      BY <1>2, <2>2 DEF Sound
    <3>2. PICK c \in Int \ {0} :
            /\ s.firstWorth = Believed * c
            /\ \A i \in 1 .. delay - 1 : f[i] = IF i = delay - k THEN c ELSE 0
            /\ turned = IF k = delay THEN worth * c ELSE 0
      BY <1>2, <2>2 DEF Sound, FirstFlies
    <3> HIDE DEF k
    <3>3. Sum3(f, Len(f)) = IF k = delay THEN 0 ELSE c
      <4>1. CASE delay = 1
        BY <1>1, <3>1, <3>2, <4>1 DEF Sum3
      <4>2. CASE delay = 2
        BY <1>1, <3>1, <3>2, <4>2 DEF Sum3
      <4>3. CASE delay = 3
        BY <1>1, <3>1, <3>2, <4>3 DEF Sum3
      <4>4. CASE delay = 4
        BY <1>1, <3>1, <3>2, <4>4 DEF Sum3
      <4> QED
        BY <1>3, <4>1, <4>2, <4>3, <4>4
    <3>4. CASE k = delay
      <4>1. s.firstWorth - Believed * Sum3(f, Len(f)) = 2 * c /\ turned = worth * c
        BY <3>2, <3>3, <3>4 DEF Believed
      <4>2. worth * (2 * c) = 2 * (worth * c)
        BY <1>3
      <4> QED
        BY <4>1, <4>2 DEF Believed
    <3>5. CASE k # delay
      <4>1. s.firstWorth - Believed * Sum3(f, Len(f)) = 0 /\ turned = 0
        BY <3>2, <3>3, <3>5 DEF Believed
      <4> QED
        BY <1>3, <4>1 DEF Believed
    <3> QED
      BY <3>4, <3>5
  <2> QED
    BY <2>0, <2>1, <2>2
<1> QED
  BY <1>5, <1>6 DEF OnItsWay, s, f, turned

\* What a servo has sent and not yet seen is known to it, for every delay of the game and
\* whatever it makes a count worth: nothing is sent a second time (AimServo.Step).
THEOREM UnderWayIsKnown == Spec => []KnowsWhatIsUnderWay
<1>1. AimInv => KnowsWhatIsUnderWay
  BY KnowsWhatFlies DEF KnowsWhatIsUnderWay, NothingIsCountedTwice,
                        OneCorrectionUntilItAnswers, Turned
<1> QED
  BY <1>1, AimHolds, PTL

\* An aim that comes to its target from its own side, and no further off than it began, for
\* every delay, throw and room in a frame: "a wrong gain only changes how fast the error
\* shrinks" (MirvVrMath.h 1005). The counts do no more than is believed, and the tolerance is
\* a count or more, as 0.3 degrees is for every count that turns no more than that (1016).
THEOREM AimComesCloser ==
  ASSUME Tolerance >= Believed
  PROVE  Spec => [](worth <= Believed => NeverWorseNorPast)
<1>1. ASSUME NEW s \in ServoType, NEW e \in Int, Closes(s, e)
      PROVE  /\ Size(e) <= Size(s.firstError)
             /\ e = 0 \/ Sign(e) = Sign(s.firstError)
  <2>1. s.firstError \in Int
    BY <1>1 DEF ServoType
  <2>2. \/ 0 <= e /\ e <= s.firstError /\ s.firstError >= 3
        \/ 0 <= -e /\ -e <= -s.firstError /\ -s.firstError >= 3
    BY <1>1 DEF Closes, FromBelow, Straight
  <2> QED
    BY <1>1, <2>1, <2>2 DEF Size, Sign
<1>2. AimInv /\ worth <= Believed => NeverWorseNorPast
  <2> SUFFICES ASSUME AimInv, worth <= Believed, clean, NEW a \in Axes, Running(a)
               PROVE  LET error == target[a] - aim[a]
                      IN  /\ Size(error) <= Size(servo[a].firstError)
                          /\ error = 0 \/ Sign(error) = Sign(servo[a].firstError)
    BY DEF NeverWorseNorPast, NeverWorse, NeverSwingsPast
  <2>1. NoMoreThanBelieved
    BY DEF NoMoreThanBelieved
  <2>2. Closes(servo[a], target[a] - aim[a])
    BY <2>1 DEF AimInv, ServosKnow
  <2>3. servo[a] \in ServoType /\ target[a] - aim[a] \in Int
    BY DEF AimInv, AimTypes
  <2> QED
    BY <1>1, <2>2, <2>3
<1> QED
  BY <1>2, AimHolds, PTL

\* The body is back about the aim in the frame in which the aim left the cone, for every cone
\* and every snap and however far the aim was pushed (BodyTurnStep).
THEOREM BodyFollows == Spec => BackInTheCone
<1>1. AimInv /\ StickFrame => Size(aim["yaw"] - body') <= Deadzone
  <2> SUFFICES ASSUME AimInv, StickFrame PROVE Size(aim["yaw"] - body') <= Deadzone
    OBVIOUS
  <2> DEFINE rel == aim["yaw"] - body
  <2>1. aim["yaw"] \in Int /\ body \in Int
    BY DEF AimInv, AimTypes, Axes
  <2>2. rel \in Int
    BY <2>1
  <2>3. body' = body + BodyTurnStep(rel)
    BY DEF StickFrame, Follows
  <2> HIDE DEF rel
  <2>4. BodyTurnStep(rel) \in Int /\ Size(rel - BodyTurnStep(rel)) <= Deadzone
    BY <2>2, StepBringsBack
  <2>5. aim["yaw"] - body' = rel - BodyTurnStep(rel)
    BY <2>1, <2>3, <2>4 DEF rel
  <2> QED
    BY <2>4, <2>5
<1> QED
  BY <1>1, AimHolds, PTL DEF BackInTheCone

=============================================================================
