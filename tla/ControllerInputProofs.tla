------------------------ MODULE ControllerInputProofs ------------------------
(***************************************************************************)
(* What TLAPS proves of ControllerInput, for every layout of keys, every   *)
(* depth of the game's own queue and every behaviour of the viewer, the    *)
(* runtime and, where a theorem does not say otherwise, the desktop.       *)
(***************************************************************************)
EXTENDS ControllerInput, SequenceTheorems, WellFoundedInduction, TLAPS

-----------------------------------------------------------------------------
(* The layouts.                                                            *)

\* The held keys are those of the stick and those of the buttons, each at a place.
LEMMA HeldAt ==
    /\ Len(WalkKeys) \in Nat /\ Len(ButtonKeys) \in Nat
    /\ Len(AllHeld) = Len(WalkKeys) + Len(ButtonKeys)
    /\ AllHeld \in Seq(HeldKeys) /\ WalkKeys \in Seq(HeldKeys) /\ ButtonKeys \in Seq(HeldKeys)
    /\ \A k \in HeldKeys : \E i \in 1 .. Len(AllHeld) : AllHeld[i] = k
    /\ TapKey \notin HeldKeys /\ GameKeys = HeldKeys \cup {TapKey}
<1>1. WalkKeys \in Seq(STRING) /\ ButtonKeys \in Seq(STRING) /\ TapKey \notin HeldKeys
  BY KeyAssumption
<1>2. /\ Len(WalkKeys) \in Nat /\ DOMAIN WalkKeys = 1 .. Len(WalkKeys)
      /\ Len(ButtonKeys) \in Nat /\ DOMAIN ButtonKeys = 1 .. Len(ButtonKeys)
      /\ AllHeld \in Seq(STRING) /\ DOMAIN AllHeld = 1 .. Len(AllHeld)
      /\ Len(AllHeld) = Len(WalkKeys) + Len(ButtonKeys)
      /\ \A i \in 1 .. Len(AllHeld) :
           AllHeld[i] = IF i <= Len(WalkKeys) THEN WalkKeys[i] ELSE ButtonKeys[i - Len(WalkKeys)]
  BY <1>1, LenProperties, ConcatProperties DEF AllHeld
<1>3. \A k \in HeldKeys : \E i \in 1 .. Len(AllHeld) : AllHeld[i] = k
  BY <1>2 DEF HeldKeys, ToSet
<1>4. AllHeld \in [1 .. Len(AllHeld) -> HeldKeys]
  BY <1>1, <1>2, LenProperties DEF HeldKeys, ToSet
<1>5. \A i \in 1 .. Len(WalkKeys) : WalkKeys[i] \in HeldKeys
  <2> SUFFICES ASSUME NEW i \in 1 .. Len(WalkKeys)
               PROVE  WalkKeys[i] \in HeldKeys
    OBVIOUS
  <2>1. i \in 1 .. Len(AllHeld) /\ AllHeld[i] = WalkKeys[i]
    BY <1>2
  <2> QED
    BY <2>1, <1>4
<1>6. \A i \in 1 .. Len(ButtonKeys) : ButtonKeys[i] \in HeldKeys
  <2> SUFFICES ASSUME NEW i \in 1 .. Len(ButtonKeys)
               PROVE  ButtonKeys[i] \in HeldKeys
    OBVIOUS
  <2>1. i + Len(WalkKeys) \in 1 .. Len(AllHeld) /\ AllHeld[i + Len(WalkKeys)] = ButtonKeys[i]
    BY <1>2
  <2> QED
    BY <2>1, <1>4
<1>7. AllHeld \in Seq(HeldKeys) /\ WalkKeys \in Seq(HeldKeys) /\ ButtonKeys \in Seq(HeldKeys)
  <2>1. WalkKeys \in [1 .. Len(WalkKeys) -> HeldKeys]
    BY ONLY <1>1, <1>2, <1>5
  <2>2. ButtonKeys \in [1 .. Len(ButtonKeys) -> HeldKeys]
    BY ONLY <1>1, <1>2, <1>6
  <2>3. \A n \in Nat : [1 .. n -> HeldKeys] \subseteq Seq(HeldKeys)
    OBVIOUS
  <2>4. Len(AllHeld) \in Nat
    BY ONLY <1>2
  <2> QED
    BY ONLY <1>2, <1>4, <2>1, <2>2, <2>3, <2>4
<1> QED
  BY <1>1, <1>2, <1>3, <1>7 DEF GameKeys

\* Setting some keys is one task for each of them.
LEMMA KeysSet ==
  ASSUME NEW keys \in Seq(HeldKeys), NEW want, \A i \in 1 .. Len(keys) : want[keys[i]] \in BOOLEAN
  PROVE  /\ SetKeys(keys, want) \in Seq(Tasks)
         /\ Len(SetKeys(keys, want)) = Len(keys)
         /\ \A i \in 1 .. Len(keys) : SetKeys(keys, want)[i] = SetKey(keys[i], want[keys[i]])
<1>1. Len(keys) \in Nat /\ DOMAIN keys = 1 .. Len(keys) /\ \A i \in 1 .. Len(keys) : keys[i] \in HeldKeys
  BY LenProperties
<1>2. SetKeys(keys, want) = [i \in 1 .. Len(keys) |-> SetKey(keys[i], want[keys[i]])]
  BY <1>1 DEF SetKeys
<1>3. \A i \in 1 .. Len(keys) : SetKey(keys[i], want[keys[i]]) \in Tasks
  BY <1>1 DEF SetKey, Tasks
<1>4. SetKeys(keys, want) \in [1 .. Len(keys) -> Tasks]
  BY <1>2, <1>3
<1>5. SetKeys(keys, want) \in Seq(Tasks) /\ Len(SetKeys(keys, want)) = Len(keys)
  BY <1>1, <1>4
<1> QED
  BY <1>2, <1>5

\* A task that follows others.
LEMMA OneMore ==
  ASSUME NEW s \in Seq(Tasks), NEW t \in Tasks
  PROVE  /\ s \o <<t>> \in Seq(Tasks) /\ Len(s) \in Nat
         /\ Len(s \o <<t>>) = Len(s) + 1
         /\ \A i \in 1 .. Len(s) : (s \o <<t>>)[i] = s[i]
         /\ (s \o <<t>>)[Len(s) + 1] = t
<1>1. <<t>> \in Seq(Tasks) /\ Len(<<t>>) = 1 /\ <<t>>[1] = t
  OBVIOUS
<1>2. Len(s) \in Nat
  BY LenProperties
<1> QED
  BY <1>1, <1>2, ConcatProperties

\* Letting everything go is a release of every key, and then of the buttons.
LEMMA LetGoIs ==
    /\ ReleaseHeldKeys \in Seq(Tasks) /\ LetGo \in Seq(Tasks)
    /\ Len(ReleaseHeldKeys) = Len(AllHeld) /\ Len(LetGo) = Len(AllHeld) + 2
    /\ \A i \in 1 .. Len(AllHeld) : LetGo[i] = SetKey(AllHeld[i], FALSE)
    /\ LetGo[Len(AllHeld) + 1] = SetFire(FALSE) /\ LetGo[Len(AllHeld) + 2] = ReleasePointer
<1>1. AllHeld \in Seq(HeldKeys) /\ \A i \in 1 .. Len(AllHeld) : AllHeld[i] \in HeldKeys
  BY HeldAt, LenProperties
<1>2. /\ ReleaseHeldKeys \in Seq(Tasks) /\ Len(ReleaseHeldKeys) = Len(AllHeld)
      /\ \A i \in 1 .. Len(AllHeld) : ReleaseHeldKeys[i] = SetKey(AllHeld[i], FALSE)
  <2> DEFINE want == [k \in HeldKeys |-> FALSE]
  <2>1. \A i \in 1 .. Len(AllHeld) : want[AllHeld[i]] = FALSE
    BY <1>1
  <2>2. want \in [HeldKeys -> BOOLEAN] /\ ReleaseHeldKeys = SetKeys(AllHeld, want)
    BY DEF ReleaseHeldKeys
  <2> HIDE DEF want
  <2>3. /\ SetKeys(AllHeld, want) \in Seq(Tasks) /\ Len(SetKeys(AllHeld, want)) = Len(AllHeld)
        /\ \A i \in 1 .. Len(AllHeld) :
              SetKeys(AllHeld, want)[i] = SetKey(AllHeld[i], want[AllHeld[i]])
    BY <1>1, <2>2, KeysSet
  <2> QED
    BY <2>1, <2>2, <2>3
<1>3. /\ ReleaseGameButtons \in Seq(Tasks) /\ Len(ReleaseGameButtons) = 2
      /\ ReleaseGameButtons[1] = SetFire(FALSE) /\ ReleaseGameButtons[2] = ReleasePointer
  <2>1. SetFire(FALSE) \in Tasks /\ ReleasePointer \in Tasks
    BY DEF SetFire, ReleasePointer, Tasks
  <2>2. \A a, b \in Tasks : /\ <<a, b>> \in Seq(Tasks) /\ Len(<<a, b>>) = 2
                            /\ <<a, b>>[1] = a /\ <<a, b>>[2] = b
    OBVIOUS
  <2> QED
    BY ONLY <2>1, <2>2 DEF ReleaseGameButtons
<1>4. Len(AllHeld) \in Nat
  BY HeldAt
<1>5. /\ LetGo \in Seq(Tasks) /\ Len(LetGo) = Len(AllHeld) + 2
      /\ \A i \in 1 .. Len(AllHeld) + 2 :
           LetGo[i] = IF i <= Len(AllHeld) THEN ReleaseHeldKeys[i] ELSE ReleaseGameButtons[i - Len(AllHeld)]
  <2>1. /\ LetGo \in Seq(Tasks)
        /\ Len(LetGo) = Len(ReleaseHeldKeys) + Len(ReleaseGameButtons)
        /\ \A i \in 1 .. Len(ReleaseHeldKeys) + Len(ReleaseGameButtons) :
             LetGo[i] = IF i <= Len(ReleaseHeldKeys) THEN ReleaseHeldKeys[i]
                        ELSE ReleaseGameButtons[i - Len(ReleaseHeldKeys)]
    <3>1. \A s, t \in Seq(Tasks) :
            /\ s \o t \in Seq(Tasks) /\ Len(s \o t) = Len(s) + Len(t)
            /\ \A i \in 1 .. Len(s) + Len(t) : (s \o t)[i] = IF i <= Len(s) THEN s[i] ELSE t[i - Len(s)]
      BY ONLY ConcatProperties
    <3> QED
      BY ONLY <1>2, <1>3, <3>1 DEF LetGo
  <2> QED
    BY <1>2, <1>3, <2>1
<1>6. \A i \in 1 .. Len(AllHeld) : LetGo[i] = ReleaseHeldKeys[i]
  BY <1>4, <1>5
<1>7. LetGo[Len(AllHeld) + 1] = ReleaseGameButtons[1] /\ LetGo[Len(AllHeld) + 2] = ReleaseGameButtons[2]
  BY <1>4, <1>5
<1> QED
  BY <1>2, <1>3, <1>5, <1>6, <1>7

\* The playing layout sets each key at most twice, and the trigger last.
LEMMA PlayingIs ==
  ASSUME NEW tasks \in PlayingInput
  PROVE  /\ tasks \in Seq(Tasks)
         /\ Len(tasks) >= 1 /\ Len(tasks) <= Len(AllHeld) + Len(ButtonKeys) + 1
         /\ tasks[Len(tasks)].op = "fire"
<1>1. PICK walk \in {SetKeys(WalkKeys, w) : w \in [ToSet(WalkKeys) -> BOOLEAN]} \cup {ReleaseHeldKeys},
           want \in [ToSet(ButtonKeys) -> BOOLEAN], fire \in BOOLEAN :
         tasks = walk \o SetKeys(ButtonKeys, want) \o <<SetFire(fire)>>
  BY SMTT(20) DEF PlayingInput
<1>2. walk \in Seq(Tasks) /\ Len(walk) <= Len(AllHeld)
  <2>1. CASE walk = ReleaseHeldKeys
    BY <2>1, LetGoIs, HeldAt
  <2>2. CASE walk # ReleaseHeldKeys
    <3>1. PICK w \in [ToSet(WalkKeys) -> BOOLEAN] : walk = SetKeys(WalkKeys, w)
      BY <2>2
    <3>2. \A i \in 1 .. Len(WalkKeys) : WalkKeys[i] \in ToSet(WalkKeys)
      BY HeldAt, LenProperties DEF ToSet
    <3>3. \A i \in 1 .. Len(WalkKeys) : w[WalkKeys[i]] \in BOOLEAN
      BY <3>2
    <3>4. WalkKeys \in Seq(HeldKeys)
      BY HeldAt
    <3>5. walk \in Seq(Tasks) /\ Len(walk) = Len(WalkKeys)
      BY <3>1, <3>3, <3>4, KeysSet
    <3> QED
      BY <3>5, HeldAt
  <2> QED
    BY <2>1, <2>2
<1>3. SetKeys(ButtonKeys, want) \in Seq(Tasks) /\ Len(SetKeys(ButtonKeys, want)) = Len(ButtonKeys)
  <2>1. \A i \in 1 .. Len(ButtonKeys) : ButtonKeys[i] \in ToSet(ButtonKeys)
    BY HeldAt, LenProperties DEF ToSet
  <2>2. \A i \in 1 .. Len(ButtonKeys) : want[ButtonKeys[i]] \in BOOLEAN
    BY <2>1
  <2> QED
    BY <2>2, KeysSet, HeldAt
<1>4. /\ walk \o SetKeys(ButtonKeys, want) \in Seq(Tasks)
      /\ Len(walk \o SetKeys(ButtonKeys, want)) <= Len(AllHeld) + Len(ButtonKeys)
  BY <1>2, <1>3, ConcatProperties, LenProperties, HeldAt
<1>5. SetFire(fire) \in Tasks /\ SetFire(fire).op = "fire"
  BY DEF SetFire, Tasks
<1> QED
  BY <1>1, <1>4, <1>5, OneMore, HeldAt

-----------------------------------------------------------------------------
(* The loop over the pending keys.                                         *)

\* A set of numbers that is not empty has a least one, and the places of a sequence a last.
LEMMA LeastNumber ==
  ASSUME NEW T, T \subseteq Nat, T # {}
  PROVE  \E n \in T : \A m \in T : n <= m
<1>1. PICK n \in T : \A m \in T : ~(<<m, n>> \in OpToRel(<, Nat))
  BY NatLessThanWellFounded, WFMin
<1>2. ASSUME NEW m \in T, m < n
      PROVE  <<m, n>> \in OpToRel(<, Nat)
  <2>1. m \in Nat /\ n \in Nat
    OBVIOUS
  <2> QED
    BY <2>1, <1>2, Zenon DEF OpToRel
<1>3. \A m \in T : ~(m < n)
  BY <1>1, <1>2
<1>4. \A m \in T : m \in Nat /\ n \in Nat
  OBVIOUS
<1> QED
  BY <1>3, <1>4

\* What holds of zero, and of the next number with every number, holds of all.
LEMMA FromZero ==
  ASSUME NEW T, 0 \in T, \A n \in T \cap Nat : n + 1 \in T
  PROVE  Nat \subseteq T
<1> DEFINE missing == Nat \ T
<1> SUFFICES ASSUME missing # {}
             PROVE  FALSE
  OBVIOUS
<1>1. PICK n \in missing : \A m \in missing : n <= m
  BY LeastNumber
<1>2. n \in Nat /\ n # 0 /\ n \notin T
  OBVIOUS
<1>3. n - 1 \in Nat /\ n - 1 \notin missing
  BY <1>1, <1>2
<1>4. n - 1 \in T \cap Nat
  BY <1>3
<1>5. (n - 1) + 1 \in T
  BY <1>4
<1>6. (n - 1) + 1 = n
  BY <1>2
<1> QED
  BY <1>2, <1>5, <1>6

LEMMA LastPlace ==
  ASSUME NEW n \in Nat, NEW S, S \subseteq 1 .. n, S # {}
  PROVE  Max(S) \in S /\ \A i \in S : i <= Max(S)
<1> DEFINE T == {m \in Nat : \A i \in S : i <= m}
<1>1. n \in T
  OBVIOUS
<1>2. PICK m \in T : \A l \in T : m <= l
  BY <1>1, LeastNumber
<1>3. m \in S
  <2> SUFFICES ASSUME m \notin S PROVE FALSE
    OBVIOUS
  <2>1. PICK i \in S : TRUE
    OBVIOUS
  <2>2. m - 1 \in T
    BY <1>2, <2>1
  <2> QED
    BY <1>2, <2>2
<1>4. \E x \in S : \A y \in S : x >= y
  BY <1>2, <1>3
<1>5. Max(S) \in S /\ \A y \in S : Max(S) >= y
  BY <1>4 DEF Max
<1> QED
  BY <1>5

\* The loop of the drain has a result, step by step.
Less(p) == [p EXCEPT !.delay = @ - 1]
Step(keys, left, i) ==
    IF i = 0 THEN <<>>
    ELSE IF Due(keys[i]) THEN left[i - 1] ELSE Append(left[i - 1], Less(keys[i]))

LEMMA LoopRuns ==
  ASSUME NEW keys \in Seq(PendingKeys)
  PROVE  \E left : /\ left = [i \in 0 .. Len(keys) |-> Step(keys, left, i)]
                   /\ Waiting(keys) = left[Len(keys)]
<1> DEFINE Runs(n) == \E left : left = [i \in 0 .. n |-> Step(keys, left, i)]
           T == {n \in Nat : Runs(n)}
<1>1. Runs(0)
  <2> DEFINE f == [i \in 0 .. 0 |-> <<>>]
  <2>1. f = [i \in 0 .. 0 |-> Step(keys, f, i)]
    BY DEF Step
  <2> QED
    BY <2>1
<1>2. ASSUME NEW n \in Nat, Runs(n)
      PROVE  Runs(n + 1)
  <2>1. PICK f : f = [i \in 0 .. n |-> Step(keys, f, i)]
    BY <1>2
  <2> DEFINE g == [i \in 0 .. n + 1 |-> IF i = n + 1 THEN Step(keys, f, i) ELSE f[i]]
  <2>2. \A i \in 0 .. n + 1 : Step(keys, g, i) = Step(keys, f, i)
    <3> SUFFICES ASSUME NEW i \in 0 .. n + 1
                 PROVE  Step(keys, g, i) = Step(keys, f, i)
      OBVIOUS
    <3>1. i # 0 => g[i - 1] = f[i - 1]
      OBVIOUS
    <3> QED
      BY <3>1 DEF Step
  <2>3. \A i \in 0 .. n : f[i] = Step(keys, f, i)
    BY <2>1
  <2>4. \A i \in 0 .. n + 1 : g[i] = Step(keys, g, i)
    BY <2>2, <2>3
  <2>5. g = [i \in 0 .. n + 1 |-> Step(keys, g, i)]
    BY <2>4
  <2> QED
    BY <2>5
<1>3. Nat \subseteq T
  <2>1. 0 \in T /\ \A n \in T \cap Nat : n + 1 \in T
    BY <1>1, <1>2
  <2> QED
    BY <2>1, FromZero
<1>4. Len(keys) \in Nat
  BY LenProperties
<1>5. Runs(Len(keys))
  BY <1>3, <1>4
<1> DEFINE F == CHOOSE left : left = [i \in 0 .. Len(keys) |-> Step(keys, left, i)]
<1>6. F = [i \in 0 .. Len(keys) |-> Step(keys, F, i)]
  BY <1>5
<1>7. Waiting(keys) = F[Len(keys)]
  BY DEF Waiting, Step, Less
<1> QED
  BY <1>6, <1>7

\* Where each of the keys left comes from, of the first n.
Origin(keys, n, s, from) ==
    /\ \A i, j \in 1 .. Len(s) : i < j => from[i] < from[j]
    /\ \A i \in 1 .. Len(s) : ~Due(keys[from[i]]) /\ s[i] = Less(keys[from[i]])
    /\ \A m \in 1 .. n : ~Due(keys[m]) => \E i \in 1 .. Len(s) : from[i] = m

Kept(keys, n, s) == /\ s \in Seq(PendingKeys)
                    /\ \E from \in [1 .. Len(s) -> 1 .. n] : Origin(keys, n, s, from)

\* What the drain leaves: the keys that are not due, in their order and nearer their time.
LEMMA WaitingIs ==
  ASSUME NEW keys \in Seq(PendingKeys)
  PROVE  Kept(keys, Len(keys), Waiting(keys))
<1>1. PICK left : /\ left = [i \in 0 .. Len(keys) |-> Step(keys, left, i)]
                  /\ Waiting(keys) = left[Len(keys)]
  BY LoopRuns
<1>2. Len(keys) \in Nat /\ \A i \in 1 .. Len(keys) : keys[i] \in PendingKeys
  BY LenProperties
<1>3. Kept(keys, 0, left[0])
  <2>1. left[0] = <<>>
    BY <1>1, <1>2 DEF Step
  <2>2. left[0] \in Seq(PendingKeys) /\ Len(left[0]) = 0
    BY <2>1
  <2> DEFINE e == [i \in 1 .. 0 |-> 0]
  <2>3. e \in [1 .. Len(left[0]) -> 1 .. 0]
    BY <2>2
  <2>4. Origin(keys, 0, left[0], e)
    BY <2>2 DEF Origin
  <2> HIDE DEF e
  <2> QED
    BY <2>2, <2>3, <2>4 DEF Kept
<1>4. ASSUME NEW n \in Nat, n + 1 <= Len(keys), Kept(keys, n, left[n])
      PROVE  Kept(keys, n + 1, left[n + 1])
  <2>1. PICK e \in [1 .. Len(left[n]) -> 1 .. n] : Origin(keys, n, left[n], e)
    BY <1>4 DEF Kept
  <2>2. left[n] \in Seq(PendingKeys) /\ Len(left[n]) \in Nat
    BY <1>4, LenProperties DEF Kept
  <2>3. left[n + 1] = IF Due(keys[n + 1]) THEN left[n] ELSE Append(left[n], Less(keys[n + 1]))
    <3>1. n + 1 \in 0 .. Len(keys) /\ n + 1 # 0 /\ (n + 1) - 1 = n
      BY <1>2, <1>4
    <3>2. left[n + 1] = Step(keys, left, n + 1)
      BY <1>1, <3>1
    <3> QED
      BY <3>1, <3>2 DEF Step
  <2>4. CASE Due(keys[n + 1])
    <3>1. left[n + 1] = left[n]
      BY <2>3, <2>4
    <3>2. e \in [1 .. Len(left[n]) -> 1 .. n + 1]
      OBVIOUS
    <3>3. \A m \in 1 .. n + 1 : ~Due(keys[m]) => m \in 1 .. n
      BY <2>4
    <3>4. Origin(keys, n + 1, left[n], e)
      BY <2>1, <3>3 DEF Origin
    <3> QED
      BY <2>2, <3>1, <3>2, <3>4 DEF Kept
  <2>5. CASE ~Due(keys[n + 1])
    <3>1. keys[n + 1] \in PendingKeys
      BY <1>2, <1>4
    <3>2. Less(keys[n + 1]) \in PendingKeys
      BY <2>5, <3>1 DEF Less, Due, PendingKeys
    <3>3. /\ left[n + 1] \in Seq(PendingKeys) /\ Len(left[n + 1]) = Len(left[n]) + 1
          /\ left[n + 1][Len(left[n]) + 1] = Less(keys[n + 1])
          /\ \A i \in 1 .. Len(left[n]) : left[n + 1][i] = left[n][i]
      BY <2>2, <2>3, <2>5, <3>2, AppendProperties
    <3> DEFINE L == Len(left[n])
               f == [i \in 1 .. L + 1 |-> IF i = L + 1 THEN n + 1 ELSE e[i]]
    <3>4. f \in [1 .. Len(left[n + 1]) -> 1 .. n + 1]
      BY <2>2, <3>3
    <3>5. \A i \in 1 .. L : f[i] = e[i] /\ e[i] \in 1 .. n
      <4>1. L \in Nat /\ \A i \in 1 .. L : i \in 1 .. L + 1 /\ i # L + 1
        BY <2>2
      <4>2. \A i \in 1 .. L : f[i] = e[i]
        BY <4>1
      <4>3. \A i \in 1 .. L : e[i] \in 1 .. n
        OBVIOUS
      <4> QED
        BY <4>2, <4>3
    <3>6. f[L + 1] = n + 1
      BY <2>2
    <3>7. \A i, j \in 1 .. L + 1 : i < j => f[i] < f[j]
      <4> SUFFICES ASSUME NEW i \in 1 .. L + 1, NEW j \in 1 .. L + 1, i < j
                   PROVE  f[i] < f[j]
        OBVIOUS
      <4>0. L \in Nat /\ i \in Int /\ j \in Int /\ 1 <= i /\ i < j /\ j <= L + 1
        BY <2>2
      <4> HIDE DEF L, f
      <4>1. i \in 1 .. L /\ (j # L + 1 => j \in 1 .. L)
        BY ONLY <4>0
      <4>2. CASE j = L + 1
        BY <4>1, <4>2, <3>5, <3>6
      <4>3. CASE j # L + 1
        <5>1. e[i] < e[j]
          BY <4>0, <4>1, <4>3, <2>1 DEF Origin, L
        <5> QED
          BY <4>1, <4>3, <5>1, <3>5
      <4> QED
        BY <4>2, <4>3
    <3>8. \A i \in 1 .. L + 1 : ~Due(keys[f[i]]) /\ left[n + 1][i] = Less(keys[f[i]])
      <4> SUFFICES ASSUME NEW i \in 1 .. L + 1
                   PROVE  ~Due(keys[f[i]]) /\ left[n + 1][i] = Less(keys[f[i]])
        OBVIOUS
      <4>1. CASE i = L + 1
        BY <4>1, <3>6, <3>3, <2>5
      <4>2. CASE i # L + 1
        <5>1. i \in 1 .. L
          BY <4>2, <2>2
        <5> QED
          BY <5>1, <3>5, <3>3, <2>1 DEF Origin
      <4> QED
        BY <4>1, <4>2
    <3>9. \A m \in 1 .. n + 1 : ~Due(keys[m]) => \E i \in 1 .. L + 1 : f[i] = m
      <4> SUFFICES ASSUME NEW m \in 1 .. n + 1, ~Due(keys[m])
                   PROVE  \E i \in 1 .. L + 1 : f[i] = m
        OBVIOUS
      <4>1. CASE m = n + 1
        <5>1. L + 1 \in 1 .. L + 1
          BY <2>2
        <5>2. f[L + 1] = m
          BY <4>1, <3>6
        <5> QED
          BY <5>1, <5>2
      <4>2. CASE m # n + 1
        <5>1. m \in 1 .. n
          BY <4>2
        <5>2. PICK i \in 1 .. L : e[i] = m
          BY <5>1, <2>1 DEF Origin
        <5>3. i \in 1 .. L + 1 /\ f[i] = m
          BY <5>2, <3>5, <2>2
        <5> QED
          BY <5>3
      <4> QED
        BY <4>1, <4>2
    <3> HIDE DEF f
    <3>10. Origin(keys, n + 1, left[n + 1], f)
      BY <3>3, <3>7, <3>8, <3>9 DEF Origin
    <3> QED
      BY <3>3, <3>4, <3>10 DEF Kept
  <2> QED
    BY <2>4, <2>5
<1>5. Kept(keys, Len(keys), left[Len(keys)])
  <2> DEFINE T == {n \in Nat : n <= Len(keys) => Kept(keys, n, left[n])}
  <2>1. 0 \in T
    BY <1>3
  <2>2. \A n \in T \cap Nat : n + 1 \in T
    BY <1>4, <1>2
  <2>3. Len(keys) \in T
    BY <1>2, <2>1, <2>2, FromZero
  <2> QED
    BY <1>2, <2>3
<1> QED
  BY <1>1, <1>5
-----------------------------------------------------------------------------
(* Types.                                                                  *)

Mice == [down : BOOLEAN, up : BOOLEAN]
Buttons == [real : BOOLEAN, posted : BOOLEAN]

Types ==
    /\ epc \in {"drain", "decide", "wait", "input", "place", "point", "queue"}
    /\ rpc \in {"idle", "input"}
    /\ mode \in Modes /\ cursorPressed \in BOOLEAN /\ fireHeld \in BOOLEAN
    /\ running \in BOOLEAN /\ menuButton \in BOOLEAN /\ focus \in BOOLEAN
    /\ todo \in [Threads -> Seq(Tasks)] /\ half \in [Threads -> BOOLEAN]
    /\ latch \in [HeldKeys -> BOOLEAN] /\ game \in [GameKeys -> BOOLEAN]
    /\ pendingKeys \in Seq(PendingKeys)
    /\ pendingMouse \in Mice /\ button \in Buttons

\* A thread has something to do only where it does it, and one that has set a latch and
\* not yet queued what it means is at that task.
AtWork ==
    /\ todo["engine"] # <<>> => epc \in {"wait", "input"}
    /\ todo["render"] # <<>> => rpc = "input"
    /\ \A t \in Threads : half[t] => todo[t] # <<>>

TypeInv == Types /\ AtWork

\* Every decision gives the mouse to the window exactly when there is one.
LEMMA OneMouse ==
    /\ NoMode \in Modes /\ \A in \in ModeInputs : DecideMode(in) \in Modes
    /\ \A m \in Modes : m.pointer = m.sheet
<1>1. \A in \in ModeInputs : DecideMode(in) \in Modes
  BY DEF Modes
<1>2. NoMode \in Modes
  <2> DEFINE nothing == [sessionRunning |-> FALSE, mapLoaded |-> FALSE, demoPlaying |-> FALSE,
                         manualSheet |-> FALSE]
  <2>1. nothing \in ModeInputs /\ DecideMode(nothing) = NoMode
    BY DEF ModeInputs, DecideMode
  <2> QED
    BY <2>1, <1>1
<1>3. \A in \in ModeInputs : DecideMode(in).pointer = DecideMode(in).sheet
  BY DEF DecideMode, NoMode
<1>4. \A m \in Modes : m.pointer = m.sheet
  BY <1>3 DEF Modes
<1> QED
  BY <1>1, <1>2, <1>4

\* The first of a thread's tasks is a task, and so are the others.
LEMMA FirstTask ==
  ASSUME Types, NEW t \in Threads, todo[t] # <<>>
  PROVE  /\ todo[t] \in Seq(Tasks) /\ Tail(todo[t]) \in Seq(Tasks)
         /\ Head(todo[t]) = todo[t][1] /\ Head(todo[t]) \in Tasks
         /\ Len(todo[t]) \in Nat \ {0} /\ Len(Tail(todo[t])) = Len(todo[t]) - 1
         /\ \A i \in 1 .. Len(todo[t]) - 1 : Tail(todo[t])[i] = todo[t][i + 1]
         /\ Head(todo[t]).op \in {"key", "fire", "point"} /\ Head(todo[t]).want \in BOOLEAN
         /\ Head(todo[t]).op = "key" => Head(todo[t]).key \in HeldKeys
         /\ Head(todo[t]).op = "point" => ~Head(todo[t]).want
<1>1. todo[t] \in Seq(Tasks)
  BY DEF Types
<1>2. Head(todo[t]) \in Tasks /\ Head(todo[t]) = todo[t][1]
  BY <1>1, HeadTailProperties
<1>3. /\ Tail(todo[t]) \in Seq(Tasks) /\ Len(Tail(todo[t])) = Len(todo[t]) - 1
      /\ \A i \in 1 .. Len(todo[t]) - 1 : Tail(todo[t])[i] = todo[t][i + 1]
      /\ Len(todo[t]) \in Nat \ {0}
  BY <1>1, HeadTailProperties, EmptySeq
<1> QED
  BY <1>1, <1>2, <1>3 DEF Tasks

\* Working off a task keeps the types.
LEMMA WorkTyped ==
  ASSUME TypeInv, NEW t \in Threads, Work(t)
  PROVE  TypeInv'
<1>1. \A u \in Threads : todo[u] \in Seq(Tasks) /\ half[u] \in BOOLEAN
  BY DEF TypeInv, Types
<1>2. todo[t] # <<>>
  BY DEF Work, LatchKey, QueueKeyState, LatchFire, LatchPointer, QueueMouseButton, Doing
<1>3. /\ Tail(todo[t]) \in Seq(Tasks) /\ Head(todo[t]).want \in BOOLEAN
      /\ Head(todo[t]).op = "key" => Head(todo[t]).key \in HeldKeys
  BY <1>2, FirstTask DEF TypeInv
<1>4. /\ \/ todo' = [todo EXCEPT ![t] = Tail(@)] /\ ((half' = half /\ ~half[t]) \/ half' = [half EXCEPT ![t] = FALSE])
         \/ todo' = todo /\ half' = [half EXCEPT ![t] = TRUE]
      /\ UNCHANGED <<epc, rpc, mode, running, menuButton, focus, game, button>>
  BY DEF Work, LatchKey, QueueKeyState, LatchFire, LatchPointer, QueueMouseButton, Doing, Done,
         engine, xr, world
<1>5. todo' \in [Threads -> Seq(Tasks)] /\ half' \in [Threads -> BOOLEAN]
  BY <1>1, <1>3, <1>4 DEF TypeInv, Types
<1>6. AtWork'
  <2>1. todo'[t] # <<>> => todo[t] # <<>>
    BY <1>2
  <2>2. \A u \in Threads : u # t => todo'[u] = todo[u] /\ half'[u] = half[u]
    BY <1>4 DEF TypeInv, Types
  <2>3. half'[t] => todo'[t] # <<>>
    BY <1>1, <1>2, <1>4 DEF TypeInv, Types
  <2> QED
    BY <1>2, <1>4, <2>2, <2>3 DEF TypeInv, AtWork, Threads
<1>7. /\ latch' \in [HeldKeys -> BOOLEAN] /\ fireHeld' \in BOOLEAN /\ cursorPressed' \in BOOLEAN
      /\ pendingKeys' \in Seq(PendingKeys) /\ pendingMouse' \in Mice
  <2>1. CASE LatchKey(t)
    BY <1>3, <2>1 DEF LatchKey, TypeInv, Types, Doing, engine
  <2>2. CASE QueueKeyState(t)
    <3>1. [key |-> Head(todo[t]).key, delay |-> 0, down |-> Head(todo[t]).want] \in PendingKeys
      BY <1>3, <2>2 DEF QueueKeyState, Doing, PendingKeys, GameKeys
    <3>2. pendingKeys' \in Seq(PendingKeys)
      BY <2>2, <3>1, AppendProperties DEF QueueKeyState, TypeInv, Types
    <3> QED
      BY <2>2, <3>2 DEF QueueKeyState, TypeInv, Types, engine
  <2>3. CASE LatchFire(t)
    BY <1>3, <2>3 DEF LatchFire, TypeInv, Types, engine
  <2>4. CASE LatchPointer(t)
    BY <2>4 DEF LatchPointer, TypeInv, Types
  <2>5. CASE QueueMouseButton(t)
    BY <2>5 DEF QueueMouseButton, TypeInv, Types, Mice, engine
  <2> QED
    BY <2>1, <2>2, <2>3, <2>4, <2>5 DEF Work
<1> QED
  BY <1>4, <1>5, <1>6, <1>7 DEF TypeInv, Types

\* What is sent of a key is the last of its own, or nothing changes.
LEMMA SentIs ==
  ASSUME Types, NEW k \in GameKeys, NEW places, places \subseteq DOMAIN pendingKeys
  PROVE  LET own == {i \in places : pendingKeys[i].key = k}
         IN  /\ Sent(k, places) \in BOOLEAN
             /\ own = {} => Sent(k, places) = game[k]
             /\ own # {} => \E i \in own : /\ \A j \in own : j <= i
                                           /\ Sent(k, places) = pendingKeys[i].down
<1> DEFINE own == {i \in places : pendingKeys[i].key = k}
<1>1. /\ Len(pendingKeys) \in Nat /\ DOMAIN pendingKeys = 1 .. Len(pendingKeys)
      /\ \A i \in DOMAIN pendingKeys : pendingKeys[i] \in PendingKeys
  BY LenProperties DEF Types
<1>2. own = {} => Sent(k, places) = game[k]
  BY DEF Sent
<1>3. ASSUME own # {}
      PROVE  \E i \in own : /\ \A j \in own : j <= i
                            /\ Sent(k, places) = pendingKeys[i].down
  <2>1. own \subseteq 1 .. Len(pendingKeys)
    BY <1>1
  <2>2. Max(own) \in own /\ \A j \in own : j <= Max(own)
    BY <1>1, <1>3, <2>1, LastPlace
  <2>3. Sent(k, places) = pendingKeys[Max(own)].down
    BY <1>3 DEF Sent
  <2> QED
    BY <2>2, <2>3
<1>4. Sent(k, places) \in BOOLEAN
  <2>1. game[k] \in BOOLEAN
    BY DEF Types
  <2>2. \A i \in own : pendingKeys[i].down \in BOOLEAN
    BY <1>1 DEF PendingKeys
  <2> QED
    BY <1>2, <1>3, <2>1, <2>2
<1> QED
  BY <1>2, <1>3, <1>4

\* Reading the controllers gives the thread tasks, and the game perhaps a tap.
LEMMA ReadTyped ==
  ASSUME TypeInv, NEW t \in Threads, NEW m, ProcessInput(t, m)
  PROVE  /\ todo' \in [Threads -> Seq(Tasks)] /\ \A u \in Threads \ {t} : todo'[u] = todo[u]
         /\ pendingKeys' \in Seq(PendingKeys)
<1>1. \E tasks \in PlayingInput \cup {LetGo, todo[t]} : todo' = [todo EXCEPT ![t] = tasks]
  <2>1. todo = [todo EXCEPT ![t] = todo[t]]
    BY DEF TypeInv, Types
  <2> QED
    BY <2>1 DEF ProcessInput
<1>2. \A tasks \in PlayingInput \cup {LetGo, todo[t]} : tasks \in Seq(Tasks)
  BY LetGoIs, PlayingIs DEF TypeInv, Types
<1>3. todo' \in [Threads -> Seq(Tasks)] /\ \A u \in Threads \ {t} : todo'[u] = todo[u]
  BY <1>1, <1>2 DEF TypeInv, Types
<1>4. pendingKeys' \in {pendingKeys} \cup QueueKeyTap
  BY DEF ProcessInput
<1>5. QueueKeyTap \subseteq Seq(PendingKeys)
  <2> DEFINE tap == <<[key |-> TapKey, delay |-> 0, down |-> TRUE],
                      [key |-> TapKey, delay |-> 2, down |-> FALSE]>>
  <2>1. tap \in Seq(PendingKeys)
    <3>1. /\ [key |-> TapKey, delay |-> 0, down |-> TRUE] \in PendingKeys
          /\ [key |-> TapKey, delay |-> 2, down |-> FALSE] \in PendingKeys
      BY DEF PendingKeys, GameKeys
    <3> QED
      BY <3>1
  <2>2. pendingKeys \o tap \in Seq(PendingKeys)
    BY <2>1, ConcatProperties DEF TypeInv, Types
  <2> QED
    BY <2>2 DEF QueueKeyTap
<1>6. pendingKeys \in Seq(PendingKeys)
  BY DEF TypeInv, Types
<1> QED
  BY <1>3, <1>4, <1>5, <1>6

\* Every step keeps the types.
LEMMA TypeStep ==
  ASSUME TypeInv, [Next]_vars
  PROVE  TypeInv'
<1> USE DEF TypeInv
<1>1. CASE Drain
  <2>1. game' \in [GameKeys -> BOOLEAN]
    <3> DEFINE due == {i \in DOMAIN pendingKeys : Due(pendingKeys[i]) /\ SendGameKey(pendingKeys[i])}
    <3>1. \A k \in GameKeys : Sent(k, due) \in BOOLEAN
      BY SentIs
    <3> QED
      BY <1>1, <3>1 DEF Drain
  <2>2. pendingKeys' \in Seq(PendingKeys)
    BY <1>1, WaitingIs DEF Drain, Kept, Types
  <2>3. pendingMouse' \in Mice /\ button' \in Buttons
    BY <1>1 DEF Drain, Types, Mice, Buttons, NoMouse, Released
  <2>4. AtWork'
    BY <1>1 DEF Drain, AtWork
  <2> QED
    BY <1>1, <2>1, <2>2, <2>3, <2>4 DEF Drain, Types, xr
<1>2. CASE Decide
  <2>1. PICK map \in Maps, switch \in BOOLEAN :
          LET next == DecideMode(Inputs(map, switch))
          IN  /\ mode' = next
              /\ todo' = [todo EXCEPT !["engine"] = IF LetsGo(next) THEN LetGo ELSE <<>>]
              /\ placed' = (placed /\ ~(next.sheet /\ (~mode.sheet \/ next.mode # mode.mode)))
              /\ focus' \in IF next.sheet /\ ~mode.sheet THEN {focus, TRUE} ELSE {focus}
    BY <1>2 DEF Decide
  <2>2. mode' \in Modes
    <3>1. Inputs(map, switch) \in ModeInputs
      BY DEF Inputs, ModeInputs, Types
    <3> QED
      BY <2>1, <3>1, OneMouse
  <2>3. todo' \in [Threads -> Seq(Tasks)]
    <3>1. \E tasks \in {LetGo, <<>>} : todo' = [todo EXCEPT !["engine"] = tasks]
      BY <2>1
    <3>2. LetGo \in Seq(Tasks) /\ <<>> \in Seq(Tasks)
      BY LetGoIs
    <3> QED
      BY <3>1, <3>2 DEF Types
  <2>4. focus' \in BOOLEAN
    BY <2>1 DEF Types
  <2>5. AtWork'
    BY <1>2, <2>1 DEF Decide, AtWork, Types, Threads
  <2> QED
    BY <1>2, <2>2, <2>3, <2>4, <2>5 DEF Decide, Types, xr
<1>3. CASE Work("engine")
  BY <1>3, WorkTyped DEF Threads
<1>4. CASE WaitAndLocate
  <2>1. /\ todo' \in [Threads -> Seq(Tasks)] /\ todo'["render"] = todo["render"]
        /\ pendingKeys' \in Seq(PendingKeys)
    BY <1>4, ReadTyped DEF WaitAndLocate, Threads, Types
  <2>2. AtWork'
    BY <1>4, <2>1 DEF WaitAndLocate, AtWork, Types, Threads
  <2> QED
    BY <1>4, <2>1, <2>2 DEF WaitAndLocate, Types, xr, world
<1>5. CASE Located
  BY <1>5 DEF Located, Types, AtWork, work, xr, world
<1>6. CASE PlaceMenu
  BY <1>6 DEF PlaceMenu, Types, AtWork, work, xr, world
<1>7. CASE PointAtMenu
  <2>1. PICK hit \in {FALSE, LowLatency /\ SheetTakesThePointer}, pressed \in BOOLEAN :
          /\ cursorPressed' = (hit /\ pressed)
          /\ IF cursorPressed' # cursorPressed THEN MoveMouseToSheet(cursorPressed') ELSE UNCHANGED button
    BY <1>7 DEF PointAtMenu
  <2>2. cursorPressed' \in BOOLEAN
    BY <2>1
  <2>3. button' \in Buttons
    <3>1. button' \in {button, [button EXCEPT !.posted = cursorPressed'],
                       [button EXCEPT !.real = cursorPressed']}
      BY <2>1 DEF MoveMouseToSheet
    <3>2. button \in Buttons
      BY DEF Types
    <3> QED
      BY <2>2, <3>1, <3>2 DEF Buttons
  <2>4. AtWork'
    BY <1>7 DEF PointAtMenu, AtWork, work
  <2> QED
    BY <1>7, <2>2, <2>3, <2>4 DEF PointAtMenu, Types, work, xr
<1>8. CASE QueuePasses
  BY <1>8 DEF QueuePasses, Types, AtWork, work, xr, world
<1>9. CASE SubmitEye
  <2>1. /\ todo' \in [Threads -> Seq(Tasks)] /\ todo'["engine"] = todo["engine"]
        /\ pendingKeys' \in Seq(PendingKeys)
    BY <1>9, ReadTyped DEF SubmitEye, Threads, Types
  <2>2. todo["render"] = <<>> /\ todo'["render"] # <<>> => rpc' = "input"
    BY <1>9 DEF SubmitEye, AtWork
  <2>3. AtWork'
    BY <1>9, <2>1, <2>2 DEF SubmitEye, AtWork, Types, Threads
  <2> QED
    BY <1>9, <2>1, <2>3 DEF SubmitEye, Types, xr, world
<1>10. CASE Work("render")
  BY <1>10, WorkTyped DEF Threads
<1>11. CASE EyeLocated
  BY <1>11 DEF EyeLocated, Types, AtWork, engine, work, xr, world
<1>12. CASE World
  <2>1. CASE SessionBegins \/ FocusChanges \/ SessionEnds
    <3>1. UNCHANGED <<engine, rpc, work, menuButton, focus, game, button>> /\ running' \in BOOLEAN
      BY <2>1 DEF SessionBegins, FocusChanges, SessionEnds, world, Types
    <3> QED
      BY <3>1 DEF Types, AtWork, engine, work
  <2>2. CASE PressMenuButton \/ ForegroundChanges
    <3>1. /\ UNCHANGED <<engine, rpc, work, running, game, button>>
          /\ menuButton' \in BOOLEAN /\ focus' \in BOOLEAN
      BY <2>2 DEF PressMenuButton, ForegroundChanges, xr, Types
    <3> QED
      BY <3>1 DEF Types, AtWork, engine, work
  <2> QED
    BY <1>12, <2>1, <2>2 DEF World
<1>13. CASE UNCHANGED vars
  BY <1>13 DEF vars, Types, AtWork, engine, work, xr, world
<1> QED
  BY <1>1, <1>2, <1>3, <1>4, <1>5, <1>6, <1>7, <1>8, <1>9, <1>10, <1>11, <1>12, <1>13
     DEF Next, EngineFrame, RenderCallback

\* The types hold at the start, and so always.
LEMMA TypeStart ==
  ASSUME Init
  PROVE  TypeInv
<1>1. <<>> \in Seq(Tasks) /\ <<>> \in Seq(PendingKeys)
  OBVIOUS
<1>2. NoMode \in Modes
  BY OneMouse
<1> QED
  BY <1>1, <1>2 DEF Init, TypeInv, Types, AtWork, Threads, Mice, Buttons, NoMouse

LEMMA TypeCorrect == Spec => []TypeInv
<1>1. Init => TypeInv
  BY TypeStart
<1>2. TypeInv /\ [Next]_vars => TypeInv'
  BY TypeStep
<1> QED
  BY <1>1, <1>2, PTL DEF Spec

--------------------------------------------------------------------
(* What the low-latency arrangement lets go.                               *)

\* In the low-latency arrangement the render thread never touches the controllers.
RenderIdle == rpc = "idle" /\ queue = <<>> /\ todo["render"] = <<>>

\* A task that lets something go.
ReleaseOfButtons == {SetFire(FALSE), ReleasePointer}
IsRelease(task) == task \in ReleaseOfButtons \/ \E k \in HeldKeys : task = SetKey(k, FALSE)

\* While the controllers are not the game's, all that is left to do is to let go, and
\* whatever a latch still holds is among it.
LeavingInv ==
    LET left == todo["engine"]
    IN  ~ModeTakesGameInput(mode) =>
          /\ \A i \in 1 .. Len(left) : IsRelease(left[i])
          /\ \A k \in HeldKeys : latch[k] =>
               \E i \in 1 .. Len(left) : left[i] = SetKey(k, FALSE) /\ (half["engine"] => i # 1)
          /\ fireHeld => \E i \in 1 .. Len(left) : left[i] = SetFire(FALSE) /\ (half["engine"] => i # 1)

\* From the pointing to the next decision, the pointer holds nothing without a window.
PointerInv == epc \in {"queue", "drain", "decide"} => (cursorPressed => mode.sheet)

LowInv == TypeInv /\ RenderIdle /\ LeavingInv /\ PointerInv

\* With the render thread idle only the engine thread and the world act.
LEMMA RenderStays ==
  ASSUME LowLatency, TypeInv, RenderIdle, [Next]_vars
  PROVE  /\ RenderIdle'
         /\ EngineFrame \/ World \/ UNCHANGED vars
<1>1. ~half["render"]
  BY DEF TypeInv, Types, AtWork, RenderIdle, Threads
<1>2. ~RenderCallback
  BY <1>1 DEF RenderCallback, SubmitEye, Work, LatchKey, QueueKeyState, LatchFire, LatchPointer, QueueMouseButton, Doing, Done,
              EyeLocated, RenderIdle
<1>3. EngineFrame \/ World \/ UNCHANGED vars
  BY <1>2 DEF Next
<1>4. \A t \in {"engine"} : Work(t) => todo'["render"] = todo["render"]
  BY DEF Work, LatchKey, QueueKeyState, LatchFire, LatchPointer, QueueMouseButton, Doing, Done, TypeInv, Types, Threads
<1>5. ASSUME Work("engine") PROVE RenderIdle'
  <2>1. rpc' = rpc /\ queue' = queue
    BY <1>5 DEF Work, LatchKey, QueueKeyState, LatchFire, LatchPointer, QueueMouseButton, Doing, Done, engine
  <2> QED
    BY <1>4, <1>5, <2>1 DEF RenderIdle
<1>6. ASSUME WaitAndLocate PROVE RenderIdle'
  <2>1. todo'["render"] = todo["render"]
    BY <1>6, ReadTyped DEF WaitAndLocate, Threads
  <2> QED
    BY <1>6, <2>1 DEF RenderIdle, WaitAndLocate
<1>7. ASSUME Decide PROVE RenderIdle'
  BY <1>7 DEF Decide, RenderIdle, TypeInv, Types, Threads
<1>8. ASSUME Drain \/ Located \/ PlaceMenu \/ PointAtMenu \/ QueuePasses PROVE RenderIdle'
  BY <1>8 DEF Drain, Located, PlaceMenu, PointAtMenu, QueuePasses, RenderIdle, work
<1>9. ASSUME World \/ UNCHANGED vars PROVE RenderIdle'
  BY <1>9 DEF World, SessionBegins, FocusChanges, SessionEnds, PressMenuButton, ForegroundChanges,
              vars, engine, work, RenderIdle
<1> QED
  BY <1>3, <1>5, <1>6, <1>7, <1>8, <1>9 DEF EngineFrame

\* Letting everything go covers every latch, whatever is set.
LEMMA LetGoCovers ==
  ASSUME Types', todo'["engine"] = LetGo, ~half'["engine"]
  PROVE  LeavingInv'
<1> DEFINE n == Len(AllHeld)
<1>a. n \in Nat
  BY HeldAt
<1>b. /\ Len(LetGo) = n + 2 /\ LetGo[n + 1] = SetFire(FALSE) /\ LetGo[n + 2] = ReleasePointer
      /\ \A i \in 1 .. n : LetGo[i] = SetKey(AllHeld[i], FALSE)
  BY LetGoIs
<1> HIDE DEF n
<1>1. \A i \in 1 .. Len(LetGo) : IsRelease(LetGo[i])
  <2> SUFFICES ASSUME NEW i \in 1 .. Len(LetGo)
               PROVE  IsRelease(LetGo[i])
    OBVIOUS
  <2>1. CASE i = n + 1 \/ i = n + 2
    BY <2>1, <1>b DEF IsRelease, ReleaseOfButtons
  <2>2. CASE i # n + 1 /\ i # n + 2
    <3>1. i \in 1 .. n
      BY <2>2, <1>a, <1>b
    <3>2. AllHeld[i] \in HeldKeys
      BY <3>1, HeldAt, ElementOfSeq DEF n
    <3> QED
      BY <3>1, <3>2, <1>b DEF IsRelease
  <2> QED
    BY <2>1, <2>2
<1>2. \A k \in HeldKeys : \E i \in 1 .. Len(LetGo) : LetGo[i] = SetKey(k, FALSE)
  <2> SUFFICES ASSUME NEW k \in HeldKeys
               PROVE  \E i \in 1 .. Len(LetGo) : LetGo[i] = SetKey(k, FALSE)
    OBVIOUS
  <2>1. PICK i \in 1 .. n : AllHeld[i] = k
    BY HeldAt DEF n
  <2>2. i \in 1 .. Len(LetGo)
    BY <1>a, <1>b
  <2> QED
    BY <2>1, <2>2, <1>b
<1>3. \E i \in 1 .. Len(LetGo) : LetGo[i] = SetFire(FALSE)
  <2>1. n + 1 \in 1 .. Len(LetGo)
    BY <1>a, <1>b
  <2> QED
    BY <2>1, <1>b
<1> QED
  BY <1>1, <1>2, <1>3 DEF LeavingInv

\* Each task worked off leaves the rest of what has to be let go.
LEMMA LeavingWorks ==
  ASSUME LowInv, Work("engine")
  PROVE  LeavingInv'
<1> DEFINE left == todo["engine"]
           rest == Tail(todo["engine"])
<1>1. /\ mode' = mode
      /\ left # <<>>
  BY DEF LowInv, TypeInv, AtWork, Threads, Work, LatchKey, QueueKeyState, LatchFire, LatchPointer, QueueMouseButton, Doing, Done, engine
<1>2. /\ left \in Seq(Tasks) /\ Len(left) \in Nat \ {0} /\ Len(rest) = Len(left) - 1
      /\ \A i \in 1 .. Len(left) - 1 : rest[i] = left[i + 1]
      /\ Head(left) = left[1]
  BY <1>1, FirstTask DEF LowInv, TypeInv, Threads
<1> SUFFICES ASSUME ~ModeTakesGameInput(mode)
             PROVE  LeavingInv'
  BY <1>1 DEF LeavingInv, ModeTakesGameInput
<1>3. /\ \A i \in 1 .. Len(left) : IsRelease(left[i])
      /\ \A k \in HeldKeys : latch[k] =>
           \E i \in 1 .. Len(left) : left[i] = SetKey(k, FALSE) /\ (half["engine"] => i # 1)
      /\ fireHeld => \E i \in 1 .. Len(left) : left[i] = SetFire(FALSE) /\ (half["engine"] => i # 1)
  BY DEF LowInv, LeavingInv
<1>4. /\ SetFire(FALSE).op = "fire" /\ SetFire(FALSE).want = FALSE /\ ReleasePointer.op = "point"
      /\ \A k \in HeldKeys : SetKey(k, FALSE).op = "key"
  BY DEF SetKey, SetFire, ReleasePointer
<1> HIDE DEF left, rest
<1>5. \A i \in 1 .. Len(rest) : IsRelease(rest[i])
  <2> SUFFICES ASSUME NEW i \in 1 .. Len(rest) PROVE IsRelease(rest[i])
    OBVIOUS
  <2>1. i + 1 \in 1 .. Len(left) /\ rest[i] = left[i + 1]
    BY <1>2
  <2> QED
    BY <2>1, <1>3
\* What is further back is still there.
<1>6. \A x : (\E i \in 1 .. Len(left) : i # 1 /\ left[i] = x) => \E i \in 1 .. Len(rest) : rest[i] = x
  <2> SUFFICES ASSUME NEW x, NEW i \in 1 .. Len(left), i # 1, left[i] = x
               PROVE  \E j \in 1 .. Len(rest) : rest[j] = x
    OBVIOUS
  <2>1. i - 1 \in 1 .. Len(rest) /\ rest[i - 1] = x
    BY <1>2
  <2> QED
    BY <2>1
<1>7. CASE LatchKey("engine")
  <2>1. left[1].op = "key" /\ ~half["engine"]
    BY <1>2, <1>7 DEF LatchKey, Doing, left
  <2>2. PICK k \in HeldKeys : left[1] = SetKey(k, FALSE)
    <3>1. IsRelease(left[1])
      BY <1>2, <1>3
    <3> QED
      BY <1>4, <2>1, <3>1 DEF IsRelease, ReleaseOfButtons
  <2>3. Head(left).key = k /\ Head(left).want = FALSE
    BY <1>2, <2>2 DEF SetKey
  <2>4. CASE latch[k] = FALSE
    <3>1. todo'["engine"] = rest /\ UNCHANGED <<latch, half, fireHeld>>
      BY <1>7, <2>3, <2>4 DEF LatchKey, Done, LowInv, TypeInv, Types, Threads, left, rest
    <3>2. \A l \in HeldKeys : latch[l] => \E i \in 1 .. Len(rest) : rest[i] = SetKey(l, FALSE)
      <4> SUFFICES ASSUME NEW l \in HeldKeys, latch[l]
                   PROVE  \E i \in 1 .. Len(left) : i # 1 /\ left[i] = SetKey(l, FALSE)
        BY <1>6
      <4>1. PICK i \in 1 .. Len(left) : left[i] = SetKey(l, FALSE)
        BY <1>3
      <4>2. i # 1
        BY <2>2, <2>4, <4>1 DEF SetKey
      <4> QED
        BY <4>1, <4>2
    <3>3. fireHeld => \E i \in 1 .. Len(rest) : rest[i] = SetFire(FALSE)
      BY <1>3, <1>4, <1>6, <2>2
    <3> QED
      BY <2>1, <3>1, <3>2, <3>3, <1>5 DEF LeavingInv
  <2>5. CASE latch[k] # FALSE
    <3>1. /\ todo'["engine"] = left /\ half'["engine"] /\ UNCHANGED fireHeld
          /\ latch' = [latch EXCEPT ![k] = FALSE]
      BY <1>7, <2>3, <2>5 DEF LatchKey, LowInv, TypeInv, Types, Threads, left, rest
    <3>2. \A l \in HeldKeys : latch'[l] => l # k /\ latch[l]
      BY <3>1 DEF LowInv, TypeInv, Types
    <3>3. \A l \in HeldKeys : latch'[l] => \E i \in 1 .. Len(left) : left[i] = SetKey(l, FALSE) /\ i # 1
      <4> SUFFICES ASSUME NEW l \in HeldKeys, latch'[l]
                   PROVE  \E i \in 1 .. Len(left) : left[i] = SetKey(l, FALSE) /\ i # 1
        OBVIOUS
      <4>1. PICK i \in 1 .. Len(left) : left[i] = SetKey(l, FALSE)
        BY <1>3, <3>2
      <4>2. i # 1
        BY <2>2, <3>2, <4>1 DEF SetKey
      <4> QED
        BY <4>1, <4>2
    <3>4. fireHeld => \E i \in 1 .. Len(left) : left[i] = SetFire(FALSE) /\ i # 1
      BY <1>3, <1>4, <2>1
    <3> QED
      BY <1>3, <3>1, <3>3, <3>4 DEF LeavingInv, left
  <2> QED
    BY <2>4, <2>5
<1>8. CASE QueueKeyState("engine") \/ QueueMouseButton("engine")
  <2>1. half["engine"]
    BY <1>8 DEF QueueKeyState, QueueMouseButton
  <2>2. todo'["engine"] = rest /\ ~half'["engine"] /\ UNCHANGED <<latch, fireHeld>>
    BY <1>8 DEF QueueKeyState, QueueMouseButton, Done, LowInv, TypeInv, Types, Threads, rest
  <2>3. \A l \in HeldKeys : latch[l] => \E i \in 1 .. Len(rest) : rest[i] = SetKey(l, FALSE)
    BY <1>3, <1>6, <2>1
  <2>4. fireHeld => \E i \in 1 .. Len(rest) : rest[i] = SetFire(FALSE)
    BY <1>3, <1>6, <2>1
  <2> QED
    BY <1>5, <2>2, <2>3, <2>4 DEF LeavingInv
\* A button's latch stands for no key.
<1>9. ASSUME left[1].op # "key", NEW l \in HeldKeys, latch[l]
      PROVE  \E i \in 1 .. Len(left) : i # 1 /\ left[i] = SetKey(l, FALSE)
  <2>1. PICK i \in 1 .. Len(left) : left[i] = SetKey(l, FALSE)
    BY <1>3, <1>9
  <2>2. i # 1
    BY <1>4, <1>9, <2>1
  <2> QED
    BY <2>1, <2>2
<1>10. CASE LatchFire("engine")
  <2>1. left[1].op = "fire" /\ ~half["engine"] /\ UNCHANGED latch
    BY <1>2, <1>10 DEF LatchFire, Doing, left
  <2>2. left[1] = SetFire(FALSE)
    <3>1. IsRelease(left[1])
      BY <1>2, <1>3
    <3> QED
      BY <1>4, <2>1, <3>1 DEF IsRelease, ReleaseOfButtons
  <2>3. Head(left).want = FALSE
    BY <1>2, <1>4, <2>2
  <2>4. CASE fireHeld = FALSE
    <3>1. todo'["engine"] = rest /\ UNCHANGED <<half, fireHeld>>
      BY <1>10, <2>3, <2>4 DEF LatchFire, Done, LowInv, TypeInv, Types, Threads, left, rest
    <3>2. \A l \in HeldKeys : latch[l] => \E i \in 1 .. Len(rest) : rest[i] = SetKey(l, FALSE)
      BY <1>6, <1>9, <2>1
    <3> QED
      BY <1>5, <2>1, <2>4, <3>1, <3>2 DEF LeavingInv
  <2>5. CASE fireHeld # FALSE
    <3>1. todo'["engine"] = left /\ half'["engine"] /\ fireHeld' = FALSE
      BY <1>10, <2>3, <2>5 DEF LatchFire, LowInv, TypeInv, Types, Threads, left
    <3>2. \A l \in HeldKeys : latch[l] => \E i \in 1 .. Len(left) : left[i] = SetKey(l, FALSE) /\ i # 1
      BY <1>9, <2>1
    <3> QED
      BY <1>3, <2>1, <3>1, <3>2 DEF LeavingInv, left
  <2> QED
    BY <2>4, <2>5
<1>11. CASE LatchPointer("engine")
  <2>1. left[1].op = "point" /\ ~half["engine"] /\ UNCHANGED <<latch, fireHeld>>
    BY <1>2, <1>11 DEF LatchPointer, Doing, left
  <2>2. \A l \in HeldKeys : latch[l] => \E i \in 1 .. Len(left) : i # 1 /\ left[i] = SetKey(l, FALSE)
    BY <1>9, <2>1
  <2>3. fireHeld => \E i \in 1 .. Len(left) : i # 1 /\ left[i] = SetFire(FALSE)
    <3>1. left[1] # SetFire(FALSE)
      BY <1>4, <2>1
    <3> QED
      BY <1>3, <3>1
  <2>4. CASE todo'["engine"] = left
    BY <1>3, <2>1, <2>2, <2>3, <2>4 DEF LeavingInv, left
  <2>5. CASE todo'["engine"] = rest
    <3>1. \A l \in HeldKeys : latch[l] => \E i \in 1 .. Len(rest) : rest[i] = SetKey(l, FALSE)
      BY <1>6, <2>2
    <3>2. fireHeld => \E i \in 1 .. Len(rest) : rest[i] = SetFire(FALSE)
      BY <1>6, <2>3
    <3>3. ~half'["engine"] \/ left = rest
      BY <1>11, <2>1, <2>5 DEF LatchPointer, LowInv, TypeInv, Types, Threads, left
    <3>4. left # rest
      BY <1>2
    <3> QED
      BY <1>5, <2>1, <2>5, <3>1, <3>2, <3>3, <3>4 DEF LeavingInv
  <2>6. todo'["engine"] = left \/ todo'["engine"] = rest
    BY <1>11 DEF LatchPointer, Done, LowInv, TypeInv, Types, Threads, left, rest
  <2> QED
    BY <2>4, <2>5, <2>6
<1> QED
  BY <1>7, <1>8, <1>10, <1>11 DEF Work

\* A step that leaves the mode, the tasks and the latches alone leaves this alone.
LEMMA LeavingKept ==
  ASSUME LeavingInv, UNCHANGED <<mode, todo, half, latch, fireHeld>>
  PROVE  LeavingInv'
BY DEF LeavingInv

\* Every step keeps what is left to be let go, and what the pointer holds.
LEMMA LowStep ==
  ASSUME LowLatency, LowInv, [Next]_vars
  PROVE  LowInv'
<1> DEFINE held == <<mode, todo, half, latch, fireHeld>>
<1>1. TypeInv'
  BY TypeStep DEF LowInv
<1>2. RenderIdle' /\ (EngineFrame \/ World \/ UNCHANGED vars)
  BY RenderStays DEF LowInv
<1>3. CASE Work("engine")
  <2>1. LeavingInv'
    BY <1>3, LeavingWorks
  <2>2. epc' = epc /\ epc \in {"wait", "input"}
    BY <1>3 DEF LowInv, TypeInv, AtWork, Threads, Work, LatchKey, QueueKeyState, LatchFire, LatchPointer, QueueMouseButton, Doing, Done,
                engine
  <2>3. PointerInv'
    BY <2>2 DEF PointerInv
  <2> QED
    BY <1>1, <1>2, <2>1, <2>3 DEF LowInv
<1>4. CASE Decide
  <2>1. /\ epc' = "wait" /\ UNCHANGED <<latch, fireHeld, half>> /\ todo["engine"] = <<>>
        /\ ~half["engine"]
    BY <1>4 DEF Decide, LowInv, TypeInv, Types, AtWork, Threads
  <2>2. todo'["engine"] = IF ModeChanges(mode, mode') THEN LetGo ELSE <<>>
    BY <1>4 DEF Decide, LetsGo, LowInv, TypeInv, Types, Threads
  <2>3. CASE ModeChanges(mode, mode')
    <3>1. ~half'["engine"] /\ todo'["engine"] = LetGo
      BY <2>1, <2>2, <2>3
    <3>2. LeavingInv'
      BY <1>1, <3>1, LetGoCovers DEF TypeInv
    <3> QED
      BY <1>1, <1>2, <2>1, <3>2 DEF LowInv, PointerInv
  <2>4. CASE ~ModeChanges(mode, mode')
    <3>1. todo'["engine"] = todo["engine"]
      BY <2>1, <2>2, <2>4
    <3>2. mode'.mode = mode.mode /\ mode'.sheet = mode.sheet
      BY <2>4 DEF ModeChanges
    <3>3. mode'.pointer = mode.pointer
      BY <1>1, <3>2, OneMouse DEF LowInv, TypeInv, Types
    <3>4. ModeTakesGameInput(mode') <=> ModeTakesGameInput(mode)
      BY <3>2, <3>3 DEF ModeTakesGameInput
    <3>5. LeavingInv'
      BY <2>1, <3>1, <3>4 DEF LeavingInv, LowInv
    <3> QED
      BY <1>1, <1>2, <2>1, <3>5 DEF LowInv, PointerInv
  <2> QED
    BY <2>3, <2>4
<1>5. CASE WaitAndLocate
  <2>1. /\ epc' \in {"input", "place"} /\ UNCHANGED <<mode, latch, fireHeld, half>>
        /\ todo["engine"] = <<>> /\ ~half["engine"]
    BY <1>5 DEF WaitAndLocate, LowInv, TypeInv, Types, AtWork, Threads
  <2>2. \/ ModeTakesGameInput(mode')
        \/ todo' = todo
        \/ todo'["engine"] = LetGo
    BY <1>5 DEF WaitAndLocate, ProcessInput, LowInv, TypeInv, Types, Threads
  <2>3. LeavingInv'
    <3>1. CASE ModeTakesGameInput(mode')
      BY <3>1 DEF LeavingInv, ModeTakesGameInput
    <3>2. CASE todo' = todo
      BY <2>1, <3>2, LeavingKept DEF LowInv
    <3>3. CASE todo'["engine"] = LetGo
      BY <1>1, <2>1, <3>3, LetGoCovers DEF TypeInv
    <3> QED
      BY <2>2, <3>1, <3>2, <3>3
  <2> QED
    BY <1>1, <1>2, <2>1, <2>3 DEF LowInv, PointerInv
<1>6. CASE PointAtMenu
  <2>1. UNCHANGED held /\ (cursorPressed' => mode.sheet)
    BY <1>6 DEF PointAtMenu, SheetTakesThePointer, work
  <2>2. LeavingInv' /\ PointerInv'
    BY <2>1, LeavingKept DEF PointerInv, LowInv
  <2> QED
    BY <1>1, <1>2, <2>2 DEF LowInv
<1>7. CASE Drain \/ Located \/ PlaceMenu \/ QueuePasses
  <2>1. UNCHANGED held /\ cursorPressed' = cursorPressed
    BY <1>7 DEF Drain, Located, PlaceMenu, QueuePasses, work
  <2>2. epc' \in {"queue", "drain", "decide"} => epc \in {"queue", "drain", "decide"}
    BY <1>7 DEF Drain, Located, PlaceMenu, QueuePasses
  <2>3. LeavingInv' /\ PointerInv'
    BY <2>1, <2>2, LeavingKept DEF PointerInv, LowInv
  <2> QED
    BY <1>1, <1>2, <2>3 DEF LowInv
<1>8. CASE World \/ UNCHANGED vars
  <2>1. UNCHANGED held /\ UNCHANGED <<cursorPressed, epc>>
    BY <1>8 DEF World, SessionBegins, FocusChanges, SessionEnds, PressMenuButton, ForegroundChanges,
                vars, engine, work
  <2>2. LeavingInv' /\ PointerInv'
    BY <2>1, LeavingKept DEF PointerInv, LowInv
  <2> QED
    BY <1>1, <1>2, <2>2 DEF LowInv
<1> QED
  BY <1>2, <1>3, <1>4, <1>5, <1>6, <1>7, <1>8 DEF EngineFrame

LEMMA LowAlways ==
  ASSUME LowLatency
  PROVE  Spec => []LowInv
<1>1. Init => LowInv
  <2> SUFFICES ASSUME Init PROVE LowInv
    OBVIOUS
  <2>1. TypeInv
    BY TypeStart
  <2> QED
    BY <2>1 DEF Init, LowInv, RenderIdle, LeavingInv, PointerInv, Threads
<1>2. LowInv /\ [Next]_vars => LowInv'
  BY LowStep
<1> QED
  BY <1>1, <1>2, PTL DEF Spec

\* In the low-latency arrangement a frame that does not take the controllers for the game
\* ends with nothing held: no key's latch, no trigger's, and the pointer's only under a
\* window (the releases on a change of the mode and on a lost focus, and ProcessInput out
\* of the playing layout).
THEOREM LeavingLetsGo ==
  ASSUME LowLatency
  PROVE  Spec => []LeftModesHoldNothing
<1>1. LowInv => LeftModesHoldNothing
  <2> SUFFICES ASSUME LowInv, epc = "drain"
               PROVE  /\ ~ModeTakesGameInput(mode) => ~fireHeld /\ \A k \in HeldKeys : ~latch[k]
                      /\ cursorPressed => mode.sheet
    BY DEF LeftModesHoldNothing
  <2>1. todo["engine"] = <<>>
    BY DEF LowInv, TypeInv, AtWork
  <2>2. \A i \in 1 .. Len(todo["engine"]) : FALSE
    BY <2>1
  <2> QED
    BY <2>2 DEF LowInv, LeavingInv, PointerInv
<1> QED
  BY <1>1, LowAlways, PTL

--------------------------------------------------------------------
(* The mouse button.                                                       *)

\* The engine thread has cleared a latch of the button and is about to queue its release.
ReleaseComing ==
    half["engine"] /\ Head(todo["engine"]).op \in {"fire", "point"} /\ ~Head(todo["engine"]).want

\* A press of the trigger is about to be queued only while its latch is set.
PressInv == half["engine"] /\ Head(todo["engine"]).op = "fire" => fireHeld = Head(todo["engine"]).want

\* Each way the button was pressed has what brings it up: a trigger's press the trigger
\* or a release on its way, a pointer's the pointer as well.  What the pointer posts
\* never mixes with what the trigger does.
DownInv ==
    /\ pendingMouse.down => fireHeld \/ pendingMouse.up \/ ReleaseComing
    /\ button.real => fireHeld \/ pendingMouse.up \/ ReleaseComing \/ (~PointerPosts /\ cursorPressed)
    /\ button.posted => PointerPosts /\ (cursorPressed \/ pendingMouse.up \/ ReleaseComing)

ButtonInv == focus /\ PressInv /\ DownInv

\* Where a thread has nothing to do, no release is half done.
LEMMA NothingComing ==
  ASSUME TypeInv
  PROVE  todo["engine"] = <<>> => ~half["engine"] /\ ~ReleaseComing
BY DEF TypeInv, AtWork, Threads, ReleaseComing

\* Working off a task, between whose two halves the release of a latch is coming.
LEMMA ButtonWorks ==
  ASSUME TypeInv, ButtonInv, Work("engine")
  PROVE  ButtonInv'
<1> DEFINE task == Head(todo["engine"])
           rest == Tail(todo["engine"])
<1>1. /\ fireHeld \in BOOLEAN /\ cursorPressed \in BOOLEAN /\ half["engine"] \in BOOLEAN
      /\ pendingMouse \in Mice /\ button \in Buttons
  BY DEF TypeInv, Types, Threads
<1>2. /\ UNCHANGED <<focus, button>> /\ todo["engine"] # <<>>
  BY DEF Work, LatchKey, QueueKeyState, LatchFire, LatchPointer, QueueMouseButton, Doing,
         engine, world
<1>3. /\ task.want \in BOOLEAN
      /\ task.op = "point" => ~task.want
  BY <1>2, FirstTask DEF TypeInv, Threads
<1>4. focus'
  BY <1>2 DEF ButtonInv
<1>5. CASE LatchKey("engine")
  <2>1. /\ ~half["engine"] /\ task.op = "key" /\ UNCHANGED <<pendingMouse, fireHeld, cursorPressed>>
        /\ ~half'["engine"] \/ todo' = todo
    BY <1>5 DEF LatchKey, Doing, engine
  <2>2. ~ReleaseComing /\ ~ReleaseComing' /\ PressInv'
    BY <2>1 DEF ReleaseComing, PressInv
  <2> QED
    BY <1>2, <1>4, <2>1, <2>2 DEF ButtonInv, DownInv
<1>6. CASE QueueKeyState("engine")
  <2>1. /\ ~half'["engine"] /\ task.op = "key" /\ UNCHANGED <<pendingMouse, fireHeld, cursorPressed>>
    BY <1>6 DEF QueueKeyState, Doing, engine, TypeInv, Types, Threads
  <2>2. ~ReleaseComing /\ ~ReleaseComing' /\ PressInv'
    BY <2>1 DEF ReleaseComing, PressInv
  <2> QED
    BY <1>2, <1>4, <2>1, <2>2 DEF ButtonInv, DownInv
<1>7. CASE LatchFire("engine")
  <2>1. /\ ~half["engine"] /\ task.op = "fire" /\ UNCHANGED <<pendingMouse, cursorPressed>>
        /\ ~ReleaseComing
    BY <1>7 DEF LatchFire, Doing, engine, ReleaseComing
  <2>2. CASE fireHeld = task.want
    <3>1. ~half'["engine"] /\ UNCHANGED fireHeld
      BY <1>7, <2>1, <2>2 DEF LatchFire
    <3>2. ~ReleaseComing' /\ PressInv'
      BY <3>1 DEF ReleaseComing, PressInv
    <3> QED
      BY <1>2, <1>4, <2>1, <3>1, <3>2 DEF ButtonInv, DownInv
  <2>3. CASE fireHeld # task.want
    <3>1. half'["engine"] /\ fireHeld' = task.want /\ todo' = todo
      BY <1>7, <2>3 DEF LatchFire, TypeInv, Types, Threads
    <3>2. PressInv' /\ (fireHeld' \/ ReleaseComing')
      BY <1>3, <2>1, <3>1 DEF ReleaseComing, PressInv
    <3>3. DownInv'
      BY <1>2, <2>1, <3>2 DEF ButtonInv, DownInv
    <3> QED
      BY <1>4, <3>2, <3>3 DEF ButtonInv
  <2> QED
    BY <2>2, <2>3
<1>8. CASE LatchPointer("engine")
  <2>1. /\ ~half["engine"] /\ task.op = "point" /\ UNCHANGED <<pendingMouse, fireHeld>>
        /\ ~ReleaseComing
    BY <1>8 DEF LatchPointer, Doing, ReleaseComing
  <2>2. CASE cursorPressed
    <3>1. half'["engine"] /\ todo' = todo
      BY <1>8, <2>2 DEF LatchPointer, TypeInv, Types, Threads
    <3>2. PressInv' /\ ReleaseComing'
      BY <1>3, <2>1, <3>1 DEF ReleaseComing, PressInv
    <3>3. DownInv'
      BY <1>2, <2>1, <3>2 DEF ButtonInv, DownInv
    <3> QED
      BY <1>4, <3>2, <3>3 DEF ButtonInv
  <2>3. CASE ~cursorPressed
    <3>1. ~half'["engine"] /\ cursorPressed' = FALSE
      BY <1>8, <2>1, <2>3 DEF LatchPointer
    <3>2. ~ReleaseComing' /\ PressInv'
      BY <3>1 DEF ReleaseComing, PressInv
    <3> QED
      BY <1>2, <1>4, <2>1, <2>3, <3>1, <3>2 DEF ButtonInv, DownInv
  <2> QED
    BY <2>2, <2>3
<1>9. CASE QueueMouseButton("engine")
  <2>1. /\ half["engine"] /\ task.op \in {"fire", "point"} /\ UNCHANGED <<fireHeld, cursorPressed>>
        /\ ~half'["engine"]
        /\ pendingMouse' = IF task.want THEN [pendingMouse EXCEPT !.down = TRUE]
                           ELSE [pendingMouse EXCEPT !.up = TRUE]
    BY <1>9 DEF QueueMouseButton, Doing, engine, TypeInv, Types, Threads
  <2>2. PressInv' /\ ~ReleaseComing'
    BY <2>1 DEF PressInv, ReleaseComing
  <2>3. CASE task.want
    <3>1. ~ReleaseComing /\ fireHeld
      BY <1>1, <1>3, <2>1, <2>3 DEF ReleaseComing, ButtonInv, PressInv
    <3>2. pendingMouse'.up = pendingMouse.up
      BY <1>1, <2>1, <2>3 DEF Mice
    <3>3. DownInv'
      BY <1>2, <2>1, <3>1, <3>2 DEF ButtonInv, DownInv
    <3> QED
      BY <1>4, <2>2, <3>3 DEF ButtonInv
  <2>4. CASE ~task.want
    <3>1. pendingMouse'.up
      BY <1>1, <2>1, <2>4 DEF Mice
    <3>2. DownInv'
      BY <1>2, <3>1 DEF ButtonInv, DownInv
    <3> QED
      BY <1>4, <2>2, <3>2 DEF ButtonInv
  <2> QED
    BY <2>3, <2>4
<1> QED
  BY <1>5, <1>6, <1>7, <1>8, <1>9 DEF Work

\* The game in front, every step of the trigger, the pointer and the drain keeps it.
LEMMA ButtonStep ==
  ASSUME LowLatency, ~FocusMayBeLost, LowInv, ButtonInv, [Next]_vars
  PROVE  ButtonInv'
<1> DEFINE hand == <<focus, pendingMouse, fireHeld, cursorPressed, button>>
<1>1. /\ focus \in BOOLEAN /\ fireHeld \in BOOLEAN /\ cursorPressed \in BOOLEAN
      /\ pendingMouse \in Mice /\ button \in Buttons
  BY DEF LowInv, TypeInv, Types
<1>2. ASSUME UNCHANGED hand, UNCHANGED <<todo, half>> \/ (todo["engine"] = <<>> /\ UNCHANGED half)
      PROVE  ButtonInv'
  <2>1. CASE UNCHANGED <<todo, half>>
    BY <1>2, <2>1 DEF ButtonInv, DownInv, PressInv, ReleaseComing
  <2>2. CASE todo["engine"] = <<>> /\ UNCHANGED half
    <3>1. ~half["engine"] /\ ~half'["engine"]
      BY <2>2, NothingComing DEF LowInv
    <3>2. ~ReleaseComing /\ ~ReleaseComing' /\ PressInv'
      BY <3>1 DEF PressInv, ReleaseComing
    <3> QED
      BY <1>2, <3>2 DEF ButtonInv, DownInv
  <2> QED
    BY <1>2, <2>1, <2>2
<1>3. CASE Drain
  <2>1. /\ UNCHANGED <<focus, fireHeld, cursorPressed, todo, half>> /\ pendingMouse' = NoMouse
        /\ button' = IF pendingMouse.up THEN Released(button)
                     ELSE IF pendingMouse.down /\ focus THEN [button EXCEPT !.real = TRUE]
                     ELSE button
    BY <1>3 DEF Drain
  <2>2. todo["engine"] = <<>>
    BY <1>3 DEF Drain, LowInv, TypeInv, AtWork
  <2>3. ~ReleaseComing /\ PressInv' /\ focus /\ focus'
    BY <2>1, <2>2, NothingComing DEF LowInv, PressInv, ButtonInv
  <2>4. CASE pendingMouse.up
    <3>1. ~button'.real /\ ~button'.posted
      BY <2>1, <2>3, <2>4 DEF Released
    <3> QED
      BY <2>1, <2>3, <3>1 DEF ButtonInv, DownInv, NoMouse
  <2>5. CASE ~pendingMouse.up
    <3>1. /\ button'.real => button.real \/ pendingMouse.down
          /\ button'.posted => button.posted
      BY <1>1, <2>1, <2>5 DEF Buttons
    <3> QED
      BY <2>1, <2>3, <2>5, <3>1 DEF ButtonInv, DownInv, NoMouse
  <2> QED
    BY <2>4, <2>5
<1>4. CASE Decide
  <2>1. focus' /\ UNCHANGED <<pendingMouse, fireHeld, cursorPressed, button, half>>
    BY <1>4 DEF Decide, ButtonInv
  <2>2. todo["engine"] = <<>>
    BY <1>4 DEF Decide, LowInv, TypeInv, AtWork
  <2>3. focus' = focus
    BY <2>1 DEF ButtonInv
  <2> QED
    BY <1>2, <2>1, <2>2, <2>3
<1>5. CASE Work("engine")
  BY <1>5, ButtonWorks DEF LowInv
<1>6. CASE PointAtMenu
  <2>1. /\ UNCHANGED <<focus, pendingMouse, fireHeld, todo, half>>
        /\ cursorPressed' \in BOOLEAN
        /\ IF cursorPressed' # cursorPressed THEN MoveMouseToSheet(cursorPressed')
           ELSE UNCHANGED button
    BY <1>6 DEF PointAtMenu, work
  <2>2. CASE cursorPressed' = cursorPressed
    BY <2>1, <2>2, <1>2
  <2>3. ~ReleaseComing /\ ~ReleaseComing' /\ PressInv'
    <3>1. todo["engine"] = <<>>
      BY <1>6 DEF PointAtMenu, LowInv, TypeInv, AtWork
    <3> QED
      BY <2>1, <3>1, NothingComing DEF LowInv, PressInv, ReleaseComing
  <2>4. CASE cursorPressed' # cursorPressed /\ PointerPosts
    <3>1. button' = [button EXCEPT !.posted = cursorPressed']
      BY <2>1, <2>4 DEF MoveMouseToSheet
    <3>2. button'.posted = cursorPressed' /\ button'.real = button.real
      BY <1>1, <3>1 DEF Buttons
    <3> QED
      BY <2>1, <2>3, <2>4, <3>2 DEF ButtonInv, DownInv
  <2>5. CASE cursorPressed' # cursorPressed /\ ~PointerPosts
    <3>1. button' = [button EXCEPT !.real = cursorPressed']
      BY <2>1, <2>5 DEF MoveMouseToSheet, ButtonInv
    <3>2. button'.real = cursorPressed' /\ button'.posted = button.posted
      BY <1>1, <3>1 DEF Buttons
    <3> QED
      BY <2>1, <2>3, <2>5, <3>2 DEF ButtonInv, DownInv
  <2> QED
    BY <2>2, <2>4, <2>5
<1>7. CASE WaitAndLocate
  BY <1>2, <1>7 DEF WaitAndLocate, world
<1>8. CASE Located \/ PlaceMenu \/ QueuePasses
  BY <1>2, <1>8 DEF Located, PlaceMenu, QueuePasses, work, world
<1>9. CASE World
  BY <1>2, <1>9 DEF World, SessionBegins, FocusChanges, SessionEnds, PressMenuButton,
                    ForegroundChanges, engine, work, world
<1>10. CASE UNCHANGED vars
  BY <1>2, <1>10 DEF vars, engine, work, world
<1>11. EngineFrame \/ World \/ UNCHANGED vars
  BY RenderStays DEF LowInv
<1> QED
  BY <1>3, <1>4, <1>5, <1>6, <1>7, <1>8, <1>9, <1>10, <1>11 DEF EngineFrame

\* In the low-latency arrangement, and as long as the game stays in front, a mouse button
\* that is down in it has a latch, of the trigger or of the pointer, or a release on its
\* way, be it between the clearing of the latch and the queueing: however the pointer
\* clicks (PlayingInput, EngineThread_PointAtMenu, ReleaseGameButtons and the drain).
THEOREM ButtonLatched ==
  ASSUME LowLatency, ~FocusMayBeLost
  PROVE  Spec => []ButtonHasItsLatch
<1>1. Init => ButtonInv
  BY DEF Init, ButtonInv, PressInv, DownInv, NoMouse, Threads
<1>2. LowInv /\ ButtonInv /\ [Next]_vars => ButtonInv'
  BY ButtonStep
<1>3. ButtonInv => ButtonHasItsLatch
  <2>1. ReleaseComing => ButtonUnqueued
    BY DEF ReleaseComing, ButtonUnqueued, Threads
  <2> QED
    BY <2>1 DEF ButtonInv, DownInv, ButtonHasItsLatch
<1> QED
  BY LowAlways, <1>1, <1>2, <1>3, PTL DEF Spec

-----------------------------------------------------------------------------
(* The keys.                                                               *)

\* What a frame may queue: two ways up of earlier taps, a tap, everything let go by the
\* decision, and everything set by the controllers, where the stick may let go first.
MostKeys == 4 + 2 * Len(AllHeld) + Len(ButtonKeys)

\* The keys that are left to be set: the last tasks are the buttons', the trigger's alone
\* or the pointer's behind it.
ButtonsLast(left) == IF left[Len(left)].op = "point" THEN 2 ELSE 1
KeysIn(left) == IF Len(left) <= ButtonsLast(left) THEN 0 ELSE Len(left) - ButtonsLast(left)
NoKeysLast(left) == \A i \in 1 .. Len(left) : i > KeysIn(left) => left[i].op # "key"

KeysToCome == KeysIn(todo["engine"])

RoomInv ==
    /\ NoKeysLast(todo["engine"])
    /\ epc = "decide" => Len(pendingKeys) <= 2
    /\ epc = "wait" => Len(pendingKeys) + KeysToCome <= 2 + Len(AllHeld)
    /\ Len(pendingKeys) + KeysToCome <= MostKeys

\* Only the way up of a tap waits, no two of them equally long, and none as long as the
\* next tap's while a frame has not read the controllers.
WaitInv ==
    \A i \in 1 .. Len(pendingKeys) :
      LET p == pendingKeys[i]
      IN  /\ p.delay > 0 => p.key = TapKey /\ ~p.down
          /\ epc \in {"decide", "wait"} => p.delay < 2
          /\ \A j \in 1 .. Len(pendingKeys) : p.delay > 0 /\ pendingKeys[j].delay = p.delay => i = j

\* A tap that is not yet sent has its way up behind it.
TapInv ==
    /\ (\E i \in 1 .. Len(pendingKeys) : pendingKeys[i].key = TapKey /\ pendingKeys[i].down) =>
         \E j \in 1 .. Len(pendingKeys) :
            pendingKeys[j].key = TapKey /\ ~pendingKeys[j].down /\ pendingKeys[j].delay = 2
    /\ TapsWillComeUp

\* A latch that is set and not yet queued is set to what will be queued.
HalfInv == half["engine"] /\ Head(todo["engine"]).op = "key" =>
               latch[Head(todo["engine"]).key] = Head(todo["engine"]).want

StuckInv == RoomInv /\ WaitInv /\ TapInv /\ HalfInv /\ KeysHaveTheirLatch

\* How many keys there are to come.
LEMMA ToCome ==
  ASSUME NEW left \in Seq(Tasks)
  PROVE  /\ Len(left) \in Nat /\ ButtonsLast(left) \in {1, 2}
         /\ KeysIn(left) \in Nat /\ KeysIn(left) <= Len(left)
         /\ left = <<>> => KeysIn(left) = 0 /\ NoKeysLast(left)
<1>1. Len(left) \in Nat /\ (left = <<>> => Len(left) = 0)
  BY LenProperties
<1>2. ButtonsLast(left) \in {1, 2}
  BY DEF ButtonsLast
<1> QED
  BY <1>1, <1>2 DEF KeysIn, NoKeysLast

LEMMA NothingToCome == KeysIn(<<>>) = 0 /\ NoKeysLast(<<>>)
<1>1. <<>> \in Seq(Tasks)
  OBVIOUS
<1> QED
  BY <1>1, ToCome

\* What is pending, one by one.
LEMMA PendingIs ==
  ASSUME Types
  PROVE  /\ Len(pendingKeys) \in Nat /\ DOMAIN pendingKeys = 1 .. Len(pendingKeys)
         /\ \A i \in 1 .. Len(pendingKeys) :
              /\ pendingKeys[i] \in PendingKeys
              /\ pendingKeys[i].key \in GameKeys /\ pendingKeys[i].down \in BOOLEAN
              /\ pendingKeys[i].delay \in 0 .. 2
<1>1. /\ Len(pendingKeys) \in Nat /\ DOMAIN pendingKeys = 1 .. Len(pendingKeys)
      /\ \A i \in 1 .. Len(pendingKeys) : pendingKeys[i] \in PendingKeys
  BY LenProperties DEF Types
<1> QED
  BY <1>1 DEF PendingKeys

\* Keys queued behind the others settle nothing of another key.
LEMMA SettledKept ==
  ASSUME Types, Types', game' = game, NEW l \in GameKeys,
         Len(pendingKeys) <= Len(pendingKeys'),
         \A i \in 1 .. Len(pendingKeys) : pendingKeys'[i] = pendingKeys[i],
         \A i \in 1 .. Len(pendingKeys') : i > Len(pendingKeys) => pendingKeys'[i].key # l
  PROVE  Settled(l)' = Settled(l)
<1> DEFINE own == {i \in DOMAIN pendingKeys : pendingKeys[i].key = l}
           owned == {i \in DOMAIN pendingKeys' : pendingKeys'[i].key = l}
<1>1. /\ Len(pendingKeys) \in Nat /\ DOMAIN pendingKeys = 1 .. Len(pendingKeys)
      /\ Len(pendingKeys') \in Nat /\ DOMAIN pendingKeys' = 1 .. Len(pendingKeys')
  BY PendingIs, LenProperties DEF Types
<1>2. own = owned
  BY <1>1
<1>3. CASE own = {}
  BY <1>2, <1>3 DEF Settled, Sent
<1>4. CASE own # {}
  <2>1. own \subseteq 1 .. Len(pendingKeys)
    BY <1>1
  <2>2. Max(own) \in own
    BY <1>1, <1>4, <2>1, LastPlace
  <2>3. pendingKeys'[Max(own)] = pendingKeys[Max(own)]
    BY <2>1, <2>2
  <2>4. Settled(l) = pendingKeys[Max(own)].down
    BY <1>4 DEF Settled, Sent
  <2>5. Settled(l)' = pendingKeys'[Max(owned)].down
    BY <1>2, <1>4 DEF Settled, Sent
  <2> QED
    BY <1>2, <2>3, <2>4, <2>5
<1> QED
  BY <1>3, <1>4

\* The last key queued settles its own.
LEMMA SettledLast ==
  ASSUME Types', NEW l \in GameKeys, Len(pendingKeys') > 0,
         pendingKeys'[Len(pendingKeys')].key = l
  PROVE  Settled(l)' = pendingKeys'[Len(pendingKeys')].down
<1> DEFINE n == Len(pendingKeys')
           own == {i \in DOMAIN pendingKeys' : pendingKeys'[i].key = l}
<1>1. n \in Nat /\ DOMAIN pendingKeys' = 1 .. n
  BY LenProperties DEF Types
<1>2. n \in own /\ own \subseteq 1 .. n
  BY <1>1
<1>3. Max(own) \in own /\ \A i \in own : i <= Max(own)
  BY <1>1, <1>2, LastPlace
<1>4. Max(own) \in 1 .. n /\ n <= Max(own)
  BY <1>2, <1>3
<1>5. Max(own) = n
  BY <1>1, <1>4
<1> QED
  BY <1>2, <1>5 DEF Settled, Sent

\* What a drain leaves waiting has waited before, one frame longer.
LEMMA DrainLeaves ==
  ASSUME TypeInv, WaitInv, Drain
  PROVE  /\ \A i \in 1 .. Len(pendingKeys') : \E m \in 1 .. Len(pendingKeys) :
              /\ pendingKeys[m].delay > 0 /\ pendingKeys'[i] = Less(pendingKeys[m])
         /\ \A m \in 1 .. Len(pendingKeys) : pendingKeys[m].delay > 0 =>
              \E i \in 1 .. Len(pendingKeys') : pendingKeys'[i] = Less(pendingKeys[m])
         /\ WaitInv' /\ Len(pendingKeys') <= 2
<1> DEFINE old == pendingKeys
           new == pendingKeys'
<1>1. new \in Seq(PendingKeys) /\ Len(new) \in Nat
  BY WaitingIs, LenProperties DEF Drain, Kept, TypeInv, Types
<1>2. PICK from \in [1 .. Len(new) -> 1 .. Len(old)] : Origin(old, Len(old), new, from)
  BY WaitingIs DEF Drain, Kept, TypeInv, Types
<1>3. \A m \in 1 .. Len(old) : /\ old[m] \in PendingKeys /\ old[m].delay \in 0 .. 2
                               /\ Due(old[m]) <=> ~(old[m].delay > 0)
  BY PendingIs DEF TypeInv, Due
<1>4. \A i \in 1 .. Len(new) : from[i] \in 1 .. Len(old)
  BY <1>2
<1>5. \A i \in 1 .. Len(new) : old[from[i]].delay > 0 /\ new[i] = Less(old[from[i]])
  BY <1>2, <1>3, <1>4 DEF Origin
<1>6. \A m \in 1 .. Len(old) : old[m].delay > 0 => \E i \in 1 .. Len(new) : from[i] = m
  BY <1>2, <1>3 DEF Origin
<1>7. \A p \in PendingKeys : /\ Less(p).key = p.key /\ Less(p).down = p.down
                             /\ Less(p).delay = p.delay - 1
  BY DEF PendingKeys, Less
<1>8. \A i, j \in 1 .. Len(new) : from[i] = from[j] => i = j
  <2> SUFFICES ASSUME NEW i \in 1 .. Len(new), NEW j \in 1 .. Len(new), i # j
               PROVE  from[i] # from[j]
    OBVIOUS
  <2>1. i < j \/ j < i
    BY <1>1
  <2> QED
    BY <2>1, <1>2, <1>4 DEF Origin
<1>9. \A i \in 1 .. Len(new) :
        /\ new[i].key = TapKey /\ ~new[i].down /\ new[i].delay \in 0 .. 1
        /\ new[i].delay = old[from[i]].delay - 1
  <2> TAKE i \in 1 .. Len(new)
  <2>1. PICK m \in 1 .. Len(old) : m = from[i]
    BY <1>4
  <2>2. /\ old[m] \in PendingKeys /\ old[m].delay \in 0 .. 2 /\ old[m].delay > 0
        /\ new[i] = Less(old[m])
    BY <1>3, <1>5, <2>1
  <2>3. old[m].key = TapKey /\ ~old[m].down
    BY <2>2 DEF WaitInv
  <2>4. new[i].key = old[m].key /\ new[i].down = old[m].down /\ new[i].delay = old[m].delay - 1
    BY ONLY <1>7, <2>2
  <2> QED
    BY ONLY <2>1, <2>2, <2>3, <2>4
<1>10. \A i, j \in 1 .. Len(new) : new[i].delay = new[j].delay => i = j
  <2> SUFFICES ASSUME NEW i \in 1 .. Len(new), NEW j \in 1 .. Len(new), new[i].delay = new[j].delay
               PROVE  from[i] = from[j]
    BY <1>8
  <2>1. /\ old[from[i]].delay \in 0 .. 2 /\ old[from[j]].delay \in 0 .. 2
        /\ old[from[i]].delay > 0
    BY <1>3, <1>4, <1>5
  <2>2. /\ new[i].delay = old[from[i]].delay - 1
        /\ new[j].delay = old[from[j]].delay - 1
    BY <1>9
  <2>3. old[from[i]].delay = old[from[j]].delay
    <3>1. \A a, b \in 0 .. 2 : a - 1 = b - 1 => a = b
      OBVIOUS
    <3>2. old[from[i]].delay - 1 = old[from[j]].delay - 1
      BY <2>2
    <3> QED
      BY <2>1, <3>1, <3>2
  <2> QED
    BY <1>4, <2>1, <2>3 DEF WaitInv
<1>11. WaitInv'
  <2>1. \A i \in 1 .. Len(new) : new[i].delay < 2
    BY <1>9
  <2> QED
    BY <1>9, <1>10, <2>1 DEF WaitInv
<1>12. Len(new) <= 2
  <2> SUFFICES ASSUME Len(new) >= 3 PROVE FALSE
    BY <1>1
  <2>1. 1 \in 1 .. Len(new) /\ 2 \in 1 .. Len(new) /\ 3 \in 1 .. Len(new)
    BY <1>1
  <2>2. new[1].delay # new[2].delay /\ new[1].delay # new[3].delay /\ new[2].delay # new[3].delay
    BY <1>10, <2>1
  <2>3. new[1].delay \in 0 .. 1 /\ new[2].delay \in 0 .. 1 /\ new[3].delay \in 0 .. 1
    BY <1>9, <2>1
  <2> QED
    BY <2>2, <2>3
<1> QED
  BY <1>4, <1>5, <1>6, <1>11, <1>12

\* The drain leaves no key down that its latch does not know of, and no tap without its
\* way up.
LEMMA StuckDrains ==
  ASSUME LowInv, StuckInv, Drain
  PROVE  StuckInv'
<1> DEFINE old == pendingKeys
           new == pendingKeys'
           due == {i \in DOMAIN pendingKeys : Due(pendingKeys[i]) /\ SendGameKey(pendingKeys[i])}
<1>1. Types /\ Types'
  BY TypeStep DEF LowInv, TypeInv, Next, EngineFrame
<1>2. /\ Len(old) \in Nat /\ DOMAIN old = 1 .. Len(old)
      /\ \A i \in 1 .. Len(old) :
           /\ old[i].key \in GameKeys /\ old[i].down \in BOOLEAN /\ old[i].delay \in 0 .. 2
           /\ Due(old[i]) <=> ~(old[i].delay > 0)
  BY <1>1, PendingIs DEF Due
<1>3. /\ \A i \in 1 .. Len(new) : \E m \in 1 .. Len(old) : old[m].delay > 0 /\ new[i] = Less(old[m])
      /\ \A m \in 1 .. Len(old) : old[m].delay > 0 => \E i \in 1 .. Len(new) : new[i] = Less(old[m])
      /\ WaitInv' /\ Len(new) <= 2
  BY DrainLeaves DEF LowInv, StuckInv
<1>4. \A p \in PendingKeys : /\ Less(p).key = p.key /\ Less(p).down = p.down
                             /\ Less(p).delay = p.delay - 1
  BY DEF PendingKeys, Less
<1>5. \A i \in 1 .. Len(new) : new[i].key = TapKey /\ ~new[i].down
  <2> SUFFICES ASSUME NEW i \in 1 .. Len(new)
               PROVE  new[i].key = TapKey /\ ~new[i].down
    OBVIOUS
  <2>1. PICK m \in 1 .. Len(old) : old[m].delay > 0 /\ new[i] = Less(old[m])
    BY <1>3
  <2>2. old[m] \in PendingKeys /\ old[m].key = TapKey /\ ~old[m].down
    BY <1>1, <2>1, PendingIs DEF StuckInv, WaitInv
  <2> QED
    BY <1>4, <2>1, <2>2
<1>6. /\ game' = [k \in GameKeys |-> Sent(k, due)] /\ epc' = "decide"
      /\ UNCHANGED <<todo, half, latch>> /\ todo["engine"] = <<>> /\ ~half["engine"]
      /\ DOMAIN new = 1 .. Len(new) /\ Len(new) \in Nat
  <2>1. new \in Seq(PendingKeys)
    BY <1>1 DEF Types
  <2>2. todo["engine"] = <<>> /\ ~half["engine"]
    BY DEF Drain, LowInv, TypeInv, AtWork, Threads
  <2> QED
    BY <2>1, <2>2, LenProperties DEF Drain
<1>7. ~half["render"]
  BY DEF LowInv, TypeInv, AtWork, RenderIdle, Threads
<1>8. RoomInv'
  <2>1. KeysToCome' = 0 /\ NoKeysLast(todo'["engine"])
    BY <1>6, NothingToCome DEF KeysToCome
  <2>2. Len(AllHeld) \in Nat /\ Len(ButtonKeys) \in Nat
    BY HeldAt
  <2> QED
    BY <1>3, <1>6, <2>1, <2>2 DEF RoomInv, MostKeys
\* A tap that went down in this drain has its way up at the longest wait.
<1>9. TapInv'
  <2>1. ~\E i \in 1 .. Len(new) : new[i].key = TapKey /\ new[i].down
    BY <1>5
  <2>2. TapsWillComeUp'
    <3> SUFFICES ASSUME game'[TapKey]
                 PROVE  \E i \in 1 .. Len(new) : new[i].key = TapKey /\ ~new[i].down
      BY <1>6 DEF TapsWillComeUp
    <3> SUFFICES \E m \in 1 .. Len(old) : old[m].delay > 0
      BY <1>3, <1>5
    <3> DEFINE own == {i \in due : pendingKeys[i].key = TapKey}
    <3>1. Sent(TapKey, due) /\ TapKey \in GameKeys
      BY <1>6 DEF GameKeys
    <3>2. CASE own = {}
      <4>1. game[TapKey]
        BY <1>1, <3>1, <3>2, SentIs
      <4>2. PICK m \in 1 .. Len(old) : old[m].key = TapKey /\ ~old[m].down
        BY <1>2, <4>1 DEF StuckInv, TapInv, TapsWillComeUp
      <4>3. m \notin due
        BY <3>2, <4>2
      <4> QED
        BY <1>2, <4>2, <4>3 DEF SendGameKey
    <3>3. CASE own # {}
      <4>1. PICK i \in own : old[i].down
        BY <1>1, <3>1, <3>3, SentIs
      <4>2. i \in 1 .. Len(old) /\ old[i].key = TapKey /\ old[i].down
        BY <1>2, <4>1
      <4> QED
        BY <4>2 DEF StuckInv, TapInv
    <3> QED
      BY <3>2, <3>3
  <2> QED
    BY <2>1, <2>2 DEF TapInv
<1>10. KeysHaveTheirLatch'
  <2> SUFFICES ASSUME NEW k \in HeldKeys, Settled(k)'
               PROVE  latch'[k] \/ Unqueued(k)'
    BY DEF KeysHaveTheirLatch
  <2>1. k \in GameKeys /\ k # TapKey
    BY HeldAt
  <2>2. Settled(k)' = game'[k]
    <3>1. {i \in DOMAIN new : new[i].key = k} = {}
      BY <1>5, <1>6, <2>1
    <3> QED
      BY <3>1 DEF Settled, Sent
  <2>3. Sent(k, due)
    BY <1>6, <2>1, <2>2
  <2> DEFINE own == {i \in due : pendingKeys[i].key = k}
             all == {i \in DOMAIN pendingKeys : pendingKeys[i].key = k}
  <2>4. \A i \in all : Due(old[i])
    BY <1>2, <2>1 DEF StuckInv, WaitInv
  <2>5. Settled(k)
    <3>1. CASE own = {}
      <4>1. game[k]
        BY <1>1, <2>1, <2>3, <3>1, SentIs
      <4>2. \A i \in all : old[i].down
        BY <1>2, <2>4, <3>1 DEF SendGameKey
      <4> QED
        BY <1>1, <2>1, <4>1, <4>2, SentIs DEF Settled
    <3>2. CASE own # {}
      <4>1. PICK i \in own : old[i].down
        BY <1>1, <2>1, <2>3, <3>2, SentIs
      <4>2. focus
        BY <4>1 DEF SendGameKey
      <4>3. own = all
        BY <2>4, <4>2 DEF SendGameKey
      <4> QED
        BY <2>3, <4>3 DEF Settled, Sent
    <3> QED
      BY <3>1, <3>2
  <2>6. ~Unqueued(k)
    BY <1>6, <1>7 DEF Unqueued, Threads
  <2>7. latch[k]
    BY <2>5, <2>6 DEF StuckInv, KeysHaveTheirLatch
  <2> QED
    BY <1>6, <2>7
<1> QED
  BY <1>3, <1>6, <1>8, <1>9, <1>10 DEF StuckInv, HalfInv

\* Working off a task leaves the rest of the tasks, the last of them still the buttons'.
LEMMA RestOfTasks ==
  ASSUME NEW left \in Seq(Tasks), left # <<>>, NoKeysLast(left)
  PROVE  /\ NoKeysLast(Tail(left))
         /\ KeysIn(left) \in Nat /\ KeysIn(Tail(left)) \in Nat /\ KeysIn(Tail(left)) <= KeysIn(left)
         /\ Head(left).op = "key" => KeysIn(Tail(left)) + 1 = KeysIn(left)
<1> DEFINE rest == Tail(left)
           k == KeysIn(left)
           l == KeysIn(rest)
<1>1. /\ Len(left) \in Nat \ {0} /\ Len(rest) = Len(left) - 1
      /\ \A i \in 1 .. Len(left) - 1 : rest[i] = left[i + 1]
      /\ Head(left) = left[1] /\ rest \in Seq(Tasks)
  BY HeadTailProperties, EmptySeq
<1>2. ButtonsLast(left) \in {1, 2} /\ k \in Nat /\ l \in Nat
  BY <1>1, ToCome
<1> HIDE DEF rest
<1>3. k = IF Len(left) <= ButtonsLast(left) THEN 0 ELSE Len(left) - ButtonsLast(left)
  BY DEF KeysIn
<1>4. l = IF Len(rest) <= ButtonsLast(left) THEN 0 ELSE Len(rest) - ButtonsLast(left)
  <2>1. CASE Len(rest) = 0
    <3>1. rest = <<>>
      BY <1>1, <2>1, EmptySeq
    <3>2. l = 0
      BY <1>1, <3>1, ToCome
    <3> QED
      BY <1>2, <2>1, <3>2
  <2>2. CASE Len(rest) # 0
    <3>1. Len(rest) \in 1 .. Len(left) - 1 /\ Len(rest) + 1 = Len(left)
      BY <1>1, <2>2
    <3>2. rest[Len(rest)] = left[Len(left)]
      BY <1>1, <3>1
    <3>3. ButtonsLast(rest) = ButtonsLast(left)
      BY <3>2 DEF ButtonsLast
    <3> QED
      BY <3>3 DEF KeysIn
  <2> QED
    BY <2>1, <2>2
<1>5. \A i \in 1 .. Len(left) : i > k => left[i].op # "key"
  BY DEF NoKeysLast
<1> HIDE DEF k, l
<1>6. l <= k /\ k <= l + 1 /\ (k > 0 => l + 1 = k)
  <2>1. \A x \in Nat \ {0}, y \in {1, 2} :
          LET c == IF x <= y THEN 0 ELSE x - y
              d == IF x - 1 <= y THEN 0 ELSE (x - 1) - y
          IN  d <= c /\ c <= d + 1 /\ (c > 0 => d + 1 = c)
    OBVIOUS
  <2> QED
    BY <1>1, <1>2, <1>3, <1>4, <2>1
<1>7. \A i \in 1 .. Len(rest) : i > l => rest[i].op # "key"
  <2> SUFFICES ASSUME NEW i \in 1 .. Len(rest), i > l
               PROVE  rest[i].op # "key"
    OBVIOUS
  <2>1. i \in 1 .. Len(left) - 1 /\ i + 1 \in 1 .. Len(left)
    BY <1>1
  <2>2. i + 1 > k
    BY <1>2, <1>6
  <2>3. rest[i] = left[i + 1]
    BY <1>1, <2>1
  <2> QED
    BY <1>5, <2>1, <2>2, <2>3
<1>8. ASSUME Head(left).op = "key" PROVE l + 1 = k
  <2>1. 1 \in 1 .. Len(left) /\ left[1].op = "key"
    BY <1>1, <1>8
  <2>2. k > 0
    BY <1>2, <1>5, <2>1
  <2> QED
    BY <1>6, <2>2
<1> QED
  BY <1>2, <1>6, <1>7, <1>8 DEF NoKeysLast, rest, k, l

\* Nothing pending and nothing in the game changes.
LEMMA PendingKept ==
  ASSUME UNCHANGED <<epc, pendingKeys, game>>
  PROVE  /\ WaitInv => WaitInv'
         /\ TapInv => TapInv'
         /\ \A k \in HeldKeys : Settled(k)' = Settled(k)
BY DEF WaitInv, TapInv, TapsWillComeUp, Settled, Sent

\* Working off a task: a latch is set and then queued, and there is room for it.
LEMMA StuckWorks ==
  ASSUME KeyCap >= MostKeys, LowInv, StuckInv, Work("engine"), TypeInv'
  PROVE  StuckInv'
<1> DEFINE left == todo["engine"]
           n == Len(pendingKeys)
<1>1. /\ Types /\ Types' /\ left # <<>> /\ epc' = epc /\ game' = game
      /\ ~half["render"]
  BY DEF LowInv, TypeInv, AtWork, RenderIdle, Threads, Work, LatchKey, QueueKeyState, LatchFire, LatchPointer, QueueMouseButton, Doing, Done,
         engine, world
<1>2. Len(AllHeld) \in Nat /\ Len(ButtonKeys) \in Nat /\ MostKeys \in Nat /\ KeyCap \in Nat
  BY HeldAt, CapAssumption DEF MostKeys
<1>3. n \in Nat /\ DOMAIN pendingKeys = 1 .. n
  BY <1>1, PendingIs
<1>4. Head(left).want \in BOOLEAN /\ (Head(left).op = "key" => Head(left).key \in HeldKeys)
  BY <1>1, FirstTask DEF LowInv, TypeInv, Threads
<1>5. \A k \in HeldKeys : Settled(k) => latch[k] \/ (half["engine"] /\ Head(left).op = "key" /\ Head(left).key = k)
  BY <1>1 DEF StuckInv, KeysHaveTheirLatch, Unqueued, Threads
<1>6. ASSUME todo'["engine"] = Tail(left)
      PROVE  /\ NoKeysLast(todo'["engine"])
             /\ KeysToCome \in Nat /\ KeysToCome' \in Nat /\ KeysToCome' <= KeysToCome
             /\ Head(left).op = "key" => KeysToCome' + 1 = KeysToCome
  <2>1. left \in Seq(Tasks) /\ NoKeysLast(left)
    BY <1>1 DEF Types, Threads, StuckInv, RoomInv
  <2>2. KeysToCome = KeysIn(left) /\ KeysToCome' = KeysIn(Tail(left))
    BY <1>6 DEF KeysToCome
  <2> QED
    BY <1>1, <1>6, <2>1, <2>2, RestOfTasks
\* The tasks get fewer and no key is queued.
<1>7. ASSUME todo'["engine"] = Tail(left), UNCHANGED pendingKeys
      PROVE  RoomInv'
  BY <1>1, <1>2, <1>3, <1>7, <1>6 DEF RoomInv, StuckInv, MostKeys
<1>8. CASE LatchKey("engine")
  <2>1. /\ UNCHANGED <<epc, pendingKeys, game>> /\ ~half["engine"] /\ Head(left).op = "key"
    BY <1>8 DEF LatchKey, Doing, engine, world
  <2>2. WaitInv' /\ TapInv' /\ \A k \in HeldKeys : Settled(k)' = Settled(k)
    BY <2>1, PendingKept DEF StuckInv
  <2>3. \A k \in HeldKeys : Settled(k)' => latch[k]
    BY <1>5, <2>1, <2>2
  <2>4. CASE latch[Head(left).key] = Head(left).want
    <3>1. todo'["engine"] = Tail(left) /\ UNCHANGED <<latch, half, pendingKeys>>
      BY <1>8, <2>4 DEF LatchKey, Done, LowInv, TypeInv, Types, Threads
    <3> QED
      BY <1>7, <2>1, <2>2, <2>3, <3>1 DEF StuckInv, HalfInv, KeysHaveTheirLatch
  <2>5. CASE latch[Head(left).key] # Head(left).want
    <3>1. /\ UNCHANGED <<todo, pendingKeys>> /\ half'["engine"]
          /\ latch' = [latch EXCEPT ![Head(left).key] = Head(left).want]
      BY <1>8, <2>5 DEF LatchKey, LowInv, TypeInv, Types, Threads
    <3>2. latch'[Head(left).key] = Head(left).want
      BY <1>4, <2>1, <3>1 DEF LowInv, TypeInv, Types
    <3>3. \A k \in HeldKeys : k # Head(left).key => latch'[k] = latch[k]
      BY <3>1 DEF LowInv, TypeInv, Types
    <3>4. KeysHaveTheirLatch'
      <4> SUFFICES ASSUME NEW k \in HeldKeys, Settled(k)', ~latch'[k]
                   PROVE  Unqueued(k)'
        BY DEF KeysHaveTheirLatch
      <4>1. k = Head(left).key
        BY <2>3, <3>3
      <4>2. todo'["engine"] = left
        BY <3>1
      <4> QED
        BY <2>1, <3>1, <4>1, <4>2 DEF Unqueued, Threads
    <3>5. RoomInv'
      BY <2>1, <3>1 DEF StuckInv, RoomInv, KeysToCome
    <3> QED
      BY <2>2, <3>1, <3>2, <3>4, <3>5 DEF StuckInv, HalfInv
  <2> QED
    BY <2>4, <2>5
<1>9. CASE QueueKeyState("engine")
  <2> DEFINE key == Head(left).key
             new == pendingKeys'
  <2>1. /\ half["engine"] /\ ~half'["engine"] /\ todo'["engine"] = Tail(left) /\ latch' = latch
        /\ Head(left).op = "key" /\ key \in HeldKeys /\ latch[key] = Head(left).want
    BY <1>4, <1>9 DEF QueueKeyState, Doing, Done, LowInv, TypeInv, Types, Threads, StuckInv, HalfInv
  <2>2. KeysToCome \in Nat /\ KeysToCome' \in Nat /\ KeysToCome' + 1 = KeysToCome
    BY <2>1, <1>6
  <2>3. n < KeyCap
    <3>1. n + KeysToCome <= MostKeys
      BY DEF StuckInv, RoomInv
    <3>2. \A a, b, c, d, m \in Nat : a + b <= c /\ d + 1 = b /\ m >= c => a < m
      OBVIOUS
    <3> QED
      BY <1>2, <1>3, <2>2, <3>1, <3>2
  <2>4. new = Append(pendingKeys, [key |-> key, delay |-> 0, down |-> Head(left).want])
    BY <1>9, <2>3 DEF QueueKeyState
  <2>5. /\ Len(new) = n + 1 /\ DOMAIN new = 1 .. n + 1
        /\ new[n + 1] = [key |-> key, delay |-> 0, down |-> Head(left).want]
        /\ \A i \in 1 .. n : new[i] = pendingKeys[i]
    BY <1>1, <2>4, AppendProperties, LenProperties DEF Types
  <2>6. new[n + 1].key = key /\ new[n + 1].delay = 0 /\ new[n + 1].down = Head(left).want
    BY <2>5
  <2>7. key # TapKey /\ key \in GameKeys
    BY <2>1, HeldAt
  <2>8. RoomInv'
    <3>1. (n + 1) + KeysToCome' = n + KeysToCome
      <4>1. \A a, b, c \in Nat : c + 1 = b => (a + 1) + c = a + b
        OBVIOUS
      <4> QED
        BY <1>3, <2>2, <4>1
    <3>2. epc # "decide"
      BY <1>1 DEF LowInv, TypeInv, AtWork
    <3>3. NoKeysLast(todo'["engine"])
      BY <2>1, <1>6
    <3>4. MostKeys' = MostKeys
      BY DEF MostKeys
    <3>5. /\ n + KeysToCome <= MostKeys
          /\ epc = "wait" => n + KeysToCome <= 2 + Len(AllHeld)
      BY DEF StuckInv, RoomInv
    <3>6. Len(new) = n + 1
      BY <2>5
    <3> QED
      BY <1>1, <3>1, <3>2, <3>3, <3>4, <3>5, <3>6 DEF RoomInv
  <2>9. WaitInv'
    <3> SUFFICES ASSUME NEW i \in 1 .. n + 1
                 PROVE  /\ new[i].delay > 0 => new[i].key = TapKey /\ ~new[i].down
                        /\ epc' \in {"decide", "wait"} => new[i].delay < 2
                        /\ \A j \in 1 .. n + 1 :
                             new[i].delay > 0 /\ new[j].delay = new[i].delay => i = j
      BY <2>5 DEF WaitInv
    <3>1. CASE i = n + 1
      BY <2>6, <3>1
    <3>2. CASE i # n + 1
      <4>1. i \in 1 .. n /\ new[i] = pendingKeys[i]
        BY <1>3, <2>5, <3>2
      <4>2. \A j \in 1 .. n + 1 : j \in 1 .. n \/ new[j].delay = 0
        BY <1>3, <2>6
      <4> QED
        BY <1>1, <2>5, <4>1, <4>2 DEF StuckInv, WaitInv
    <3> QED
      BY <3>1, <3>2
  <2>10. TapInv'
    <3>1. \A i \in 1 .. n + 1 : i \in 1 .. n \/ new[i].key # TapKey
      BY <1>3, <2>6, <2>7
    <3>2. 1 .. n \subseteq 1 .. n + 1
      BY <1>3
    <3>3. TapsWillComeUp'
      BY <1>1, <1>3, <2>5, <3>2 DEF StuckInv, TapInv, TapsWillComeUp
    <3> QED
      BY <2>5, <3>1, <3>2, <3>3 DEF StuckInv, TapInv
  <2>11. KeysHaveTheirLatch'
    <3> SUFFICES ASSUME NEW k \in HeldKeys, Settled(k)'
                 PROVE  latch'[k]
      BY DEF KeysHaveTheirLatch
    <3>1. CASE k = key
      <4>1. Len(new) > 0 /\ new[Len(new)].key = k
        BY <1>3, <2>5, <2>6, <3>1
      <4>2. Settled(k)' = new[Len(new)].down
        BY <1>1, <2>7, <3>1, <4>1, SettledLast
      <4> QED
        BY <2>1, <2>5, <2>6, <3>1, <4>2
    <3>2. CASE k # key
      <4>1. k \in GameKeys
        BY HeldAt
      <4>2. \A i \in 1 .. n + 1 : i > n => new[i].key # k
        BY <1>3, <2>6, <3>2
      <4>3. n <= Len(new)
        BY <1>3, <2>5
      <4>4. Settled(k)' = Settled(k)
        BY <1>1, <2>5, <4>1, <4>2, <4>3, SettledKept
      <4> QED
        BY <1>5, <2>1, <3>2, <4>4
    <3> QED
      BY <3>1, <3>2
  <2> QED
    BY <2>1, <2>8, <2>9, <2>10, <2>11 DEF StuckInv, HalfInv
\* What is done to the buttons leaves the keys alone.
<1>10. CASE LatchFire("engine") \/ LatchPointer("engine") \/ QueueMouseButton("engine")
  <2>1. /\ UNCHANGED <<epc, pendingKeys, game, latch>> /\ Head(left).op # "key"
    BY <1>10 DEF LatchFire, LatchPointer, QueueMouseButton, Doing, engine, world
  <2>2. \/ todo' = todo
        \/ todo'["engine"] = Tail(left) /\ ~half'["engine"]
    BY <1>10 DEF LatchFire, LatchPointer, QueueMouseButton, Done, LowInv, TypeInv, Types, Threads
  <2>3. WaitInv' /\ TapInv' /\ \A k \in HeldKeys : Settled(k)' = Settled(k)
    BY <2>1, PendingKept DEF StuckInv
  <2>4. KeysHaveTheirLatch'
    BY <1>5, <2>1, <2>3 DEF KeysHaveTheirLatch
  <2>5. CASE todo' = todo
    BY <2>1, <2>3, <2>4, <2>5 DEF StuckInv, RoomInv, KeysToCome, HalfInv
  <2>6. CASE todo'["engine"] = Tail(left) /\ ~half'["engine"]
    BY <1>7, <2>1, <2>3, <2>4, <2>6 DEF StuckInv, HalfInv
  <2> QED
    BY <2>2, <2>5, <2>6
<1> QED
  BY <1>8, <1>9, <1>10 DEF Work

\* Letting everything go sets every key, and the buttons last.
LEMMA LetGoRoom == NoKeysLast(LetGo) /\ KeysIn(LetGo) = Len(AllHeld)
<1> DEFINE n == Len(AllHeld)
<1>1. /\ n \in Nat /\ Len(LetGo) = n + 2
      /\ LetGo[n + 1].op = "fire" /\ LetGo[n + 2].op = "point"
  BY HeldAt, LetGoIs DEF SetFire, ReleasePointer
<1> HIDE DEF n
<1>2. ButtonsLast(LetGo) = 2
  BY <1>1 DEF ButtonsLast
<1>3. KeysIn(LetGo) = n
  BY <1>1, <1>2 DEF KeysIn
<1>4. ASSUME NEW i \in 1 .. Len(LetGo), i > n
      PROVE  LetGo[i].op # "key"
  <2>1. i = n + 1 \/ i = n + 2
    BY <1>1, <1>4
  <2> QED
    BY <1>1, <2>1
<1> QED
  BY <1>3, <1>4 DEF NoKeysLast, n

\* The tasks a reading of the controllers gives, and what it may tap.
LEMMA ReadsRoom ==
  ASSUME LowInv, ProcessInput("engine", mode), todo["engine"] = <<>>
  PROVE  /\ NoKeysLast(todo'["engine"])
         /\ KeysToCome' \in Nat /\ KeysToCome' <= Len(AllHeld) + Len(ButtonKeys)
<1>1. Len(AllHeld) \in Nat /\ Len(ButtonKeys) \in Nat
  BY HeldAt
<1>2. todo'["engine"] \in PlayingInput \cup {LetGo, <<>>}
  BY DEF ProcessInput, LowInv, TypeInv, Types, Threads
<1>3. CASE todo'["engine"] = <<>>
  BY <1>1, <1>3, NothingToCome DEF KeysToCome
<1>4. CASE todo'["engine"] = LetGo
  BY <1>1, <1>4, LetGoRoom DEF KeysToCome
<1>5. CASE todo'["engine"] \in PlayingInput
  <2> DEFINE tasks == todo'["engine"]
  <2>1. /\ Len(tasks) \in Nat /\ Len(tasks) >= 1
        /\ Len(tasks) <= Len(AllHeld) + Len(ButtonKeys) + 1
        /\ tasks[Len(tasks)].op = "fire"
    BY <1>5, PlayingIs, LenProperties
  <2>2. ButtonsLast(tasks) = 1
    BY <2>1 DEF ButtonsLast
  <2>3. KeysToCome' = Len(tasks) - 1
    BY <2>1, <2>2 DEF KeysToCome, KeysIn
  <2>4. NoKeysLast(todo'["engine"])
    <3> SUFFICES ASSUME NEW i \in 1 .. Len(tasks), i > KeysToCome'
                 PROVE  tasks[i].op # "key"
      BY DEF NoKeysLast, KeysToCome
    <3>1. i = Len(tasks)
      BY <2>1, <2>3
    <3> QED
      BY <2>1, <3>1
  <2> QED
    BY <1>1, <2>1, <2>3, <2>4
<1> QED
  BY <1>2, <1>3, <1>4, <1>5

\* A tap is behind what was pending: a press to be sent and a way up that waits longest.
LEMMA Tapped ==
  ASSUME Types, pendingKeys' \in QueueKeyTap
  PROVE  /\ Len(pendingKeys') = Len(pendingKeys) + 2
         /\ DOMAIN pendingKeys' = 1 .. Len(pendingKeys) + 2
         /\ \A i \in 1 .. Len(pendingKeys) : pendingKeys'[i] = pendingKeys[i]
         /\ LET p == pendingKeys'[Len(pendingKeys) + 1]
            IN  p.key = TapKey /\ p.delay = 0 /\ p.down = TRUE
         /\ LET p == pendingKeys'[Len(pendingKeys) + 2]
            IN  p.key = TapKey /\ p.delay = 2 /\ p.down = FALSE
<1> DEFINE press   == [key |-> TapKey, delay |-> 0, down |-> TRUE]
           release == [key |-> TapKey, delay |-> 2, down |-> FALSE]
           n == Len(pendingKeys)
<1>1. press \in PendingKeys /\ release \in PendingKeys
  BY DEF PendingKeys, GameKeys
<1>2. /\ press.key = TapKey /\ press.delay = 0 /\ press.down = TRUE
      /\ release.key = TapKey /\ release.delay = 2 /\ release.down = FALSE
  OBVIOUS
<1> HIDE DEF press, release
<1>3. /\ <<press, release>> \in Seq(PendingKeys) /\ Len(<<press, release>>) = 2
      /\ <<press, release>>[1] = press /\ <<press, release>>[2] = release
  BY <1>1
<1>4. pendingKeys' = pendingKeys \o <<press, release>>
  BY DEF QueueKeyTap, press, release
<1>5. n \in Nat /\ pendingKeys \in Seq(PendingKeys)
  BY PendingIs DEF Types
<1>6. /\ pendingKeys' \in Seq(PendingKeys)
      /\ Len(pendingKeys') = n + 2
      /\ \A i \in 1 .. n + 2 :
           pendingKeys'[i] = IF i <= n THEN pendingKeys[i] ELSE <<press, release>>[i - n]
  BY <1>3, <1>4, <1>5, ConcatProperties
<1>7. pendingKeys'[n + 1] = press /\ pendingKeys'[n + 2] = release
  BY <1>3, <1>5, <1>6
<1>8. \A i \in 1 .. n : pendingKeys'[i] = pendingKeys[i]
  BY <1>5, <1>6
<1>9. DOMAIN pendingKeys' = 1 .. n + 2
  BY <1>6, LenProperties
<1> QED
  BY <1>2, <1>6, <1>7, <1>8, <1>9

\* A tap keeps what waits in order, has its own way up, and settles no held key.
LEMMA StuckTaps ==
  ASSUME LowInv, StuckInv, Types', game' = game, pendingKeys' \in QueueKeyTap,
         epc = "wait", epc' = "input"
  PROVE  /\ WaitInv' /\ TapInv'
         /\ \A k \in HeldKeys : Settled(k)' = Settled(k)
<1> DEFINE n == Len(pendingKeys)
           new == pendingKeys'
<1>1. /\ Types /\ n \in Nat /\ DOMAIN pendingKeys = 1 .. n
      /\ \A i \in 1 .. n : pendingKeys[i].delay \in 0 .. 2
  BY PendingIs DEF LowInv, TypeInv
<1>2. /\ Len(new) = n + 2 /\ DOMAIN new = 1 .. n + 2
      /\ \A i \in 1 .. n : new[i] = pendingKeys[i]
      /\ new[n + 1].key = TapKey /\ new[n + 1].delay = 0 /\ new[n + 1].down = TRUE
      /\ new[n + 2].key = TapKey /\ new[n + 2].delay = 2 /\ new[n + 2].down = FALSE
  BY <1>1, Tapped
<1>3. \A i \in 1 .. n + 2 : i \in 1 .. n \/ i = n + 1 \/ i = n + 2
  BY <1>1
<1>4. \A i \in 1 .. n : i \in 1 .. n + 2 /\ new[i].delay < 2 /\ (new[i].delay > 0 => new[i].key = TapKey /\ ~new[i].down)
  BY <1>1, <1>2 DEF StuckInv, WaitInv
<1>5. \A i, j \in 1 .. n : new[i].delay > 0 /\ new[j].delay = new[i].delay => i = j
  BY <1>2 DEF StuckInv, WaitInv
<1>6. \A i, j \in 1 .. n + 2 : new[i].delay > 0 /\ new[j].delay = new[i].delay => i = j
  <2> SUFFICES ASSUME NEW i \in 1 .. n + 2, NEW j \in 1 .. n + 2,
                      new[i].delay > 0, new[j].delay = new[i].delay
               PROVE  i = j
    OBVIOUS
  <2>1. i # n + 1 /\ j # n + 1
    BY <1>2
  <2>2. CASE i = n + 2
    BY <1>2, <1>3, <1>4, <2>1, <2>2
  <2>3. CASE i # n + 2
    <3>1. i \in 1 .. n
      BY <1>3, <2>1, <2>3
    <3>2. j # n + 2
      BY <1>2, <1>4, <3>1
    <3>3. j \in 1 .. n
      BY <1>3, <2>1, <3>2
    <3> QED
      BY <1>5, <3>1, <3>3
  <2> QED
    BY <2>2, <2>3
<1>7. WaitInv'
  <2>1. \A i \in 1 .. n + 2 : new[i].delay > 0 => new[i].key = TapKey /\ ~new[i].down
    BY <1>2, <1>3, <1>4
  <2> QED
    BY <1>2, <1>6, <2>1 DEF WaitInv
<1>8. TapInv'
  <2>1. n + 2 \in 1 .. n + 2
    BY <1>1
  <2>2. TapsWillComeUp'
    BY <1>2, <2>1 DEF TapsWillComeUp
  <2>3. \E j \in 1 .. n + 2 : new[j].key = TapKey /\ ~new[j].down /\ new[j].delay = 2
    BY <1>2, <2>1
  <2> QED
    BY <1>2, <2>2, <2>3 DEF TapInv
<1>9. ASSUME NEW k \in HeldKeys PROVE Settled(k)' = Settled(k)
  <2>1. k \in GameKeys /\ k # TapKey
    BY HeldAt
  <2>2. \A i \in 1 .. n + 2 : i > n => new[i].key # k
    BY <1>1, <1>2, <1>3, <2>1
  <2>3. n <= Len(new)
    BY <1>1, <1>2
  <2> QED
    BY <1>1, <1>2, <2>1, <2>2, <2>3, SettledKept
<1> QED
  BY <1>7, <1>8, <1>9

\* Every step keeps a way up for whatever is down.
LEMMA StuckStep ==
  ASSUME LowLatency, KeyCap >= MostKeys, LowInv, StuckInv, [Next]_vars
  PROVE  StuckInv'
<1>1. TypeInv' /\ (EngineFrame \/ World \/ UNCHANGED vars)
  BY TypeStep, RenderStays DEF LowInv
<1>2. Len(AllHeld) \in Nat /\ Len(ButtonKeys) \in Nat /\ Len(pendingKeys) \in Nat
  BY HeldAt, PendingIs DEF LowInv, TypeInv
<1>3. CASE Drain
  BY <1>3, StuckDrains
<1>4. CASE Work("engine")
  BY <1>1, <1>4, StuckWorks
\* Between the tasks no latch is half set.
<1>5. ASSUME todo["engine"] = <<>>
      PROVE  /\ ~half["engine"] /\ KeysToCome = 0
             /\ \A k \in HeldKeys : Settled(k) => latch[k]
  <2>1. ~half["engine"] /\ ~half["render"]
    BY <1>5 DEF LowInv, TypeInv, AtWork, RenderIdle, Threads
  <2> QED
    BY <1>5, <2>1, NothingToCome DEF KeysToCome, StuckInv, KeysHaveTheirLatch, Unqueued, Threads
<1>6. CASE Decide
  <2>1. /\ epc = "decide" /\ epc' = "wait" /\ todo["engine"] = <<>>
        /\ UNCHANGED <<latch, half, pendingKeys, game>>
    BY <1>6 DEF Decide, LowInv, TypeInv, AtWork
  <2>2. todo'["engine"] \in {LetGo, <<>>}
    BY <1>6 DEF Decide, LowInv, TypeInv, Types, Threads
  <2>3. NoKeysLast(todo'["engine"]) /\ KeysToCome' \in Nat /\ KeysToCome' <= Len(AllHeld)
    BY <1>2, <2>2, NothingToCome, LetGoRoom DEF KeysToCome
  <2>4. RoomInv'
    <3>1. Len(pendingKeys') <= 2 /\ Len(pendingKeys') \in Nat
      BY <1>2, <2>1 DEF StuckInv, RoomInv
    <3>2. \A a, b, c, d \in Nat : a <= 2 /\ b <= c => a + b <= 2 + c /\ a + b <= 4 + 2 * c + d
      OBVIOUS
    <3>3. /\ Len(pendingKeys') + KeysToCome' <= 2 + Len(AllHeld)
          /\ Len(pendingKeys') + KeysToCome' <= 4 + 2 * Len(AllHeld) + Len(ButtonKeys)
      BY <1>2, <2>3, <3>1, <3>2
    <3> QED
      BY <2>1, <2>3, <3>3 DEF RoomInv, MostKeys
  <2>5. WaitInv'
    BY <2>1 DEF StuckInv, WaitInv
  <2>6. TapInv' /\ \A k \in HeldKeys : Settled(k)' = Settled(k)
    BY <2>1 DEF StuckInv, TapInv, TapsWillComeUp, Settled, Sent
  <2> QED
    BY <1>5, <2>1, <2>4, <2>5, <2>6 DEF StuckInv, HalfInv, KeysHaveTheirLatch
<1>7. CASE WaitAndLocate
  <2>1. /\ epc = "wait" /\ todo["engine"] = <<>>
        /\ UNCHANGED <<latch, half, game>>
    BY <1>7 DEF WaitAndLocate, world
  <2>2. CASE epc' = "input" /\ ProcessInput("engine", mode)
    <3>1. pendingKeys' = pendingKeys \/ pendingKeys' \in QueueKeyTap
      BY <2>2 DEF ProcessInput
    <3>2. NoKeysLast(todo'["engine"]) /\ KeysToCome' \in Nat /\ KeysToCome' <= Len(AllHeld) + Len(ButtonKeys)
      BY <1>1, <2>1, <2>2, ReadsRoom DEF TypeInv
    <3>3. Len(pendingKeys') \in Nat /\ Len(pendingKeys') <= Len(pendingKeys) + 2
      <4>1. pendingKeys' \in QueueKeyTap => Len(pendingKeys') = Len(pendingKeys) + 2
        BY Tapped DEF LowInv, TypeInv
      <4>2. CASE pendingKeys' = pendingKeys
        BY <1>2, <4>2
      <4>3. CASE pendingKeys' \in QueueKeyTap
        BY <1>2, <4>1, <4>3
      <4> QED
        BY <3>1, <4>2, <4>3
    <3>4. Len(pendingKeys) <= 2 + Len(AllHeld)
      BY <1>2, <1>5, <2>1 DEF StuckInv, RoomInv
    <3>5. RoomInv'
      <4>1. \A a, b, c, d, e \in Nat : a <= b + 2 /\ b <= 2 + c /\ e <= c + d => a + e <= 4 + 2 * c + d
        OBVIOUS
      <4>2. Len(pendingKeys') + KeysToCome' <= 4 + 2 * Len(AllHeld) + Len(ButtonKeys)
        BY <1>2, <3>2, <3>3, <3>4, <4>1
      <4> QED
        BY <2>2, <3>2, <4>2 DEF RoomInv, MostKeys
    <3>6. WaitInv' /\ TapInv' /\ \A k \in HeldKeys : Settled(k)' = Settled(k)
      <4>1. CASE pendingKeys' = pendingKeys
        BY <2>1, <2>2, <4>1 DEF StuckInv, WaitInv, TapInv, TapsWillComeUp, Settled, Sent
      <4>2. CASE pendingKeys' \in QueueKeyTap
        BY <1>1, <2>1, <2>2, <4>2, StuckTaps DEF TypeInv
      <4> QED
        BY <3>1, <4>1, <4>2
    <3> QED
      BY <1>5, <2>1, <3>5, <3>6 DEF StuckInv, HalfInv, KeysHaveTheirLatch
  <2>3. CASE epc' = "place" /\ UNCHANGED <<todo, pendingKeys>>
    <3>1. RoomInv'
      BY <2>3 DEF StuckInv, RoomInv, KeysToCome, MostKeys
    <3>2. WaitInv' /\ TapInv' /\ \A k \in HeldKeys : Settled(k)' = Settled(k)
      BY <2>1, <2>3 DEF StuckInv, WaitInv, TapInv, TapsWillComeUp, Settled, Sent
    <3> QED
      BY <1>5, <2>1, <2>3, <3>1, <3>2 DEF StuckInv, HalfInv, KeysHaveTheirLatch
  <2> QED
    BY <1>7, <2>2, <2>3 DEF WaitAndLocate
<1>8. CASE Located \/ PlaceMenu \/ PointAtMenu \/ QueuePasses \/ World \/ UNCHANGED vars
  <2>1. UNCHANGED <<todo, half, latch, pendingKeys, game>>
    BY <1>8 DEF Located, PlaceMenu, PointAtMenu, QueuePasses, World, SessionBegins, FocusChanges,
                SessionEnds, PressMenuButton, ForegroundChanges, vars, work, world
  <2>2. epc' \in {"decide", "wait"} => epc' = epc
    BY <1>8 DEF Located, PlaceMenu, PointAtMenu, QueuePasses, World, SessionBegins, FocusChanges,
                SessionEnds, PressMenuButton, ForegroundChanges, vars, engine
  <2>3. RoomInv'
    BY <2>1, <2>2 DEF StuckInv, RoomInv, KeysToCome, MostKeys
  <2>4. WaitInv'
    BY <2>1, <2>2 DEF StuckInv, WaitInv
  <2>5. TapInv' /\ \A k \in HeldKeys : Settled(k)' = Settled(k)
    BY <2>1 DEF StuckInv, TapInv, TapsWillComeUp, Settled, Sent
  <2>6. HalfInv' /\ KeysHaveTheirLatch'
    BY <2>1, <2>5 DEF StuckInv, HalfInv, KeysHaveTheirLatch, Unqueued
  <2> QED
    BY <2>3, <2>4, <2>5, <2>6 DEF StuckInv
<1> QED
  BY <1>1, <1>3, <1>4, <1>6, <1>7, <1>8 DEF EngineFrame

\* In the low-latency arrangement, with a queue as long as what a frame may put into it,
\* no key is stuck: a held key that is down in the game, or will be, has the latch that
\* brings it up, and a tap that is down has its way up queued - whatever the desktop does
\* to the focus between a press and its release (SetHeldKey, QueueKeyState, QueueKeyTap,
\* the drain and SendGameKey).
THEOREM NoKeyStuck ==
  ASSUME LowLatency, KeyCap >= 4 + 2 * Len(AllHeld) + Len(ButtonKeys)
  PROVE  Spec => []NoKeyIsStuck
<1>1. KeyCap >= MostKeys
  BY DEF MostKeys
<1>2. Init => StuckInv
  <2> SUFFICES ASSUME Init PROVE StuckInv
    OBVIOUS
  <2>1. /\ pendingKeys = <<>> /\ todo["engine"] = <<>> /\ ~half["engine"] /\ epc = "drain"
        /\ game = [k \in GameKeys |-> FALSE]
    BY DEF Init, Threads
  <2>2. DOMAIN pendingKeys = 1 .. Len(pendingKeys) /\ Len(pendingKeys) = 0 /\ 1 .. 0 = {}
    BY <2>1, LenProperties
  <2>3. RoomInv
    <3>1. KeysToCome = 0 /\ NoKeysLast(todo["engine"])
      BY <2>1, NothingToCome DEF KeysToCome
    <3> QED
      BY <2>1, <2>2, <3>1, HeldAt DEF RoomInv, MostKeys
  <2>4. WaitInv
    BY <2>2 DEF WaitInv
  <2>5. TapInv
    BY <2>1, <2>2 DEF TapInv, TapsWillComeUp, GameKeys
  <2>6. KeysHaveTheirLatch
    <3>1. \A k \in HeldKeys : Settled(k) = game[k] /\ k \in GameKeys
      BY <2>2 DEF Settled, Sent, GameKeys
    <3> QED
      BY <2>1, <3>1 DEF KeysHaveTheirLatch
  <2> QED
    BY <2>1, <2>3, <2>4, <2>5, <2>6 DEF StuckInv, HalfInv
<1>3. LowInv /\ StuckInv /\ [Next]_vars => StuckInv'
  BY <1>1, StuckStep
<1>4. StuckInv => NoKeyIsStuck
  BY DEF StuckInv, TapInv, NoKeyIsStuck
<1> QED
  BY LowAlways, <1>2, <1>3, <1>4, PTL DEF Spec
=============================================================================
