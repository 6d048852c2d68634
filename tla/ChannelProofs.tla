---------------------------- MODULE ChannelProofs ----------------------------
(***************************************************************************)
(* What TLAPS proves of the pipe that Launcher composes: for every set of  *)
(* clients and lines, every length of the queue and any number of lines.   *)
(*                                                                         *)
(* A line goes from written, as pieces, through bytes and pending, and as  *)
(* its place in written through queue and due to ran.  That it is run once *)
(* and in order is not inductive; what is, is that all of this is in order *)
(* at every moment, and that nobody writes behind half a line.             *)
(***************************************************************************)
EXTENDS Launcher, SequenceTheorems, TLAPS

Piecewise == [of : Nat, last : BOOLEAN]

Doings == {"idle", "open", "write", "close"}

\* What may go a step of the pipe's way.
ChannelStep ==
    \/ PipeThread \/ Engine \/ GameExits
    \/ \E c \in Clients : Client(c)
    \/ TryAgain \/ ScriptIsThrough

ChannelTypes ==
    /\ written \in Seq(Texts) /\ cpc \in [Clients -> Doings]
    /\ ran \in Seq(Nat) /\ due \in Seq(Nat) /\ queue \in Seq(Nat) /\ pending \in Seq(Nat)
    /\ bytes \in Seq(Piecewise)

\* Whose the pipe is: nobody's without a thread, and empty until a client has it.
PipeInv ==
    /\ ~thread => ppc = "none"
    /\ ppc \in {"none", "create", "failed", "ended"} => pipe = "none"
    /\ epc = "closing" => thread
    /\ holder # Nobody => pipe = "held"
    /\ pipe = "free" => ppc # "read"
    /\ pipe \in {"none", "free"} => bytes = <<>>
    /\ ppc # "read" => pending = <<>>

AllBelow(s, n) == \A j \in 1 .. Len(s) : s[j] < n
Below(s, t)    == \A k \in 1 .. Len(t) : AllBelow(s, t[k])
Rising(s)      == \A j, k \in 1 .. Len(s) : j < k => s[j] < s[k]
AtMost(s, n)   == \A j \in 1 .. Len(s) : s[j] \in 1 .. n
Among(s, S)    == \A j \in 1 .. Len(s) : s[j] \in S

\* The lines that may be run: whole, or overlong and without their beginning.
Runnable == {i \in 1 .. Len(written) : written[i] = Overlong => i \in cut}

\* What has been read is in order.
QueueInv ==
    /\ Rising(due) /\ Rising(queue)
    /\ Below(ran, due) /\ Below(ran, queue) /\ Below(due, queue)
    /\ AtMost(ran, Len(written)) /\ AtMost(due, Len(written)) /\ AtMost(queue, Len(written))
    /\ Among(due, Runnable) /\ Among(queue, Runnable)
    /\ epc = "frame" => due = <<>>

\* Nothing that has been read comes after a piece.
Behind(n) == AllBelow(ran, n) /\ AllBelow(due, n) /\ AllBelow(queue, n)

\* And so is what has not: the pieces of a line follow each other and nothing is between.
PieceInv ==
    /\ \A k \in 1 .. Len(bytes) : bytes[k].of \in 1 .. Len(written) /\ Behind(bytes[k].of)
    /\ \A j, k \in 1 .. Len(bytes) :
         j < k => /\ bytes[j].of <= bytes[k].of
                  /\ bytes[j].last => bytes[j].of < bytes[k].of
    /\ \A k \in 1 .. Len(bytes) : k + 1 <= Len(bytes) /\ ~bytes[k].last => bytes[k + 1].of = bytes[k].of
    /\ \A k \in 1 .. Len(pending) : pending[k] \in 1 .. Len(written) /\ Behind(pending[k])
    /\ \A j, k \in 1 .. Len(pending) : pending[j] = pending[k]
    /\ pending # <<>> /\ bytes # <<>> => bytes[1].of = pending[1]

HalfALine == IF bytes = <<>> THEN pending # <<>> ELSE ~bytes[Len(bytes)].last

\* Whoever has left half a line does not write on.
HalfInv == HalfALine /\ holder # Nobody => cpc[holder] # "write"

ChannelInv == ChannelTypes /\ PipeInv /\ QueueInv /\ PieceInv /\ HalfInv

-----------------------------------------------------------------------------
(* Sequences in order, with an element more at the end or less at the front. *)

LEMMA AppendInOrder ==
  ASSUME NEW s \in Seq(Nat), NEW n \in Nat
  PROVE  /\ Append(s, n) \in Seq(Nat)
         /\ \A m \in Nat : AllBelow(s, m) /\ n < m => AllBelow(Append(s, n), m)
         /\ \A m \in Nat : AtMost(s, m) /\ n \in 1 .. m => AtMost(Append(s, n), m)
         /\ \A S : Among(s, S) /\ n \in S => Among(Append(s, n), S)
         /\ Rising(s) /\ AllBelow(s, n) => Rising(Append(s, n))
         /\ \A t \in Seq(Nat) : Below(t, s) /\ AllBelow(t, n) => Below(t, Append(s, n))
<1> DEFINE a == Append(s, n)
<1>1. /\ a \in Seq(Nat) /\ Len(a) = Len(s) + 1 /\ Len(s) \in Nat
      /\ \A k \in 1 .. Len(s) : a[k] = s[k] /\ s[k] \in Nat
      /\ a[Len(s) + 1] = n
  BY AppendProperties
<1> HIDE DEF a
<1>2. \A k \in 1 .. Len(a) : (k \in 1 .. Len(s) /\ a[k] = s[k]) \/ (k = Len(a) /\ a[k] = n)
  BY <1>1
<1>3. ASSUME NEW m \in Nat, AllBelow(s, m), n < m PROVE AllBelow(a, m)
  BY <1>1, <1>2, <1>3 DEF AllBelow
<1>4. ASSUME NEW m \in Nat, AtMost(s, m), n \in 1 .. m PROVE AtMost(a, m)
  BY <1>1, <1>2, <1>4 DEF AtMost
<1>5. ASSUME Rising(s), AllBelow(s, n) PROVE Rising(a)
  <2> SUFFICES ASSUME NEW j \in 1 .. Len(a), NEW k \in 1 .. Len(a), j < k PROVE a[j] < a[k]
    BY DEF Rising
  <2>1. j \in 1 .. Len(s) /\ a[j] = s[j]
    <3>1. Len(a) = Len(s) + 1 /\ Len(s) \in Nat
      BY <1>1
    <3>2. j \in 1 .. Len(s)
      BY ONLY <3>1, j \in 1 .. Len(a), k \in 1 .. Len(a), j < k
    <3> QED
      BY <1>1, <3>2
  <2>2. CASE k \in 1 .. Len(s) /\ a[k] = s[k]
    BY <1>5, <2>1, <2>2 DEF Rising
  <2>3. CASE k = Len(a) /\ a[k] = n
    BY <1>5, <2>1, <2>3 DEF AllBelow
  <2> QED
    BY <1>2, <2>2, <2>3
<1>6. ASSUME NEW t \in Seq(Nat), Below(t, s), AllBelow(t, n) PROVE Below(t, a)
  BY <1>1, <1>2, <1>6 DEF Below
<1>7. ASSUME NEW S, Among(s, S), n \in S PROVE Among(a, S)
  BY <1>1, <1>2, <1>7 DEF Among
<1> QED
  BY <1>1, <1>3, <1>4, <1>5, <1>6, <1>7 DEF a

LEMMA TailInOrder ==
  ASSUME NEW s \in Seq(Nat), s # <<>>
  PROVE  /\ Head(s) \in Nat /\ Head(s) = s[1] /\ 1 \in 1 .. Len(s) /\ Tail(s) \in Seq(Nat)
         /\ \A m \in Nat : AllBelow(s, m) => AllBelow(Tail(s), m) /\ Head(s) < m
         /\ \A m \in Nat : AtMost(s, m) => AtMost(Tail(s), m) /\ Head(s) \in 1 .. m
         /\ \A S : Among(s, S) => Among(Tail(s), S) /\ Head(s) \in S
         /\ Rising(s) => /\ Rising(Tail(s))
                         /\ \A k \in 1 .. Len(Tail(s)) : Head(s) < Tail(s)[k]
         /\ \A t \in Seq(Nat) : Below(t, s) => Below(t, Tail(s)) /\ AllBelow(t, Head(s))
         /\ \A t \in Seq(Nat) : Below(s, t) => Below(Tail(s), t)
<1> DEFINE r == Tail(s)
<1>1. /\ r \in Seq(Nat) /\ Len(r) = Len(s) - 1 /\ Len(s) \in Nat \ {0}
      /\ \A k \in 1 .. Len(r) : r[k] = s[k + 1]
  BY HeadTailProperties
<1>2. /\ Head(s) = s[1] /\ 1 \in 1 .. Len(s) /\ \A k \in 1 .. Len(s) : s[k] \in Nat
  BY <1>1
<1> HIDE DEF r
<1>3. \A k \in 1 .. Len(r) : k + 1 \in 1 .. Len(s) /\ 1 < k + 1 /\ r[k] = s[k + 1]
  BY <1>1
<1>4. ASSUME NEW m \in Nat, AllBelow(s, m) PROVE AllBelow(r, m) /\ s[1] < m
  BY <1>2, <1>3, <1>4 DEF AllBelow
<1>5. ASSUME NEW m \in Nat, AtMost(s, m) PROVE AtMost(r, m) /\ s[1] \in 1 .. m
  BY <1>2, <1>3, <1>5 DEF AtMost
<1>6. ASSUME Rising(s) PROVE Rising(r) /\ \A k \in 1 .. Len(r) : s[1] < r[k]
  <2>1. \A j, k \in 1 .. Len(r) : j < k => j + 1 < k + 1
    BY <1>1
  <2> QED
    BY <1>2, <1>3, <1>6, <2>1 DEF Rising
<1>7. ASSUME NEW t \in Seq(Nat), Below(t, s) PROVE Below(t, r) /\ AllBelow(t, s[1])
  BY <1>2, <1>3, <1>7 DEF Below
<1>8. ASSUME NEW t \in Seq(Nat), Below(s, t) PROVE Below(r, t)
  BY <1>2, <1>3, <1>8 DEF Below, AllBelow
<1>9. ASSUME NEW S, Among(s, S) PROVE Among(r, S) /\ s[1] \in S
  BY <1>2, <1>3, <1>9 DEF Among
<1> QED
  BY <1>1, <1>2, <1>4, <1>5, <1>6, <1>7, <1>8, <1>9 DEF r

-----------------------------------------------------------------------------
LEMMA Stepwise == [Next]_vars => ChannelStep \/ UNCHANGED <<hook, ran, line, clients>>
<1>1. CASE Launch
  BY <1>1 DEF Launch, Parse, SelfTest, Look, Prepare, CreateGame, SetDllDirectory, LoadHook,
              GiveUpTheGame, ResumeGame, FollowLog, Leave, Outside
<1>2. CASE Prompt \/ Send
  BY <1>2, LauncherAssumption DEF Prompt, Send, ChannelStep, Client
<1>3. CASE TheRest
  BY <1>3, ClientAssumption DEF TheRest, Others, ChannelStep
<1>4. CASE UNCHANGED vars
  BY <1>4 DEF vars, rcVars
<1> QED
  BY <1>1, <1>2, <1>3, <1>4 DEF Next

\* What an action does not touch stays as it is.
LEMMA QueueStays ==
  ASSUME QueueInv, UNCHANGED <<ran, due, queue, written>>, cut \subseteq cut',
         epc' = epc \/ epc' # "frame" \/ due = <<>>
  PROVE  QueueInv'
BY DEF QueueInv, Among, Runnable

LEMMA PiecesStay ==
  ASSUME PieceInv, UNCHANGED <<ran, due, queue, written, pending, bytes>>
  PROVE  PieceInv'
BY DEF PieceInv, Behind

LEMMA HalfStays ==
  ASSUME HalfInv, UNCHANGED <<pending, bytes, holder, cpc>>
  PROVE  HalfInv'
BY DEF HalfInv, HalfALine

\* An empty pipe is in order whatever was in it.
LEMMA EmptyInOrder ==
  ASSUME bytes' = <<>>, pending' = <<>>
  PROVE  PieceInv' /\ HalfInv'
BY DEF PieceInv, HalfInv, HalfALine

LEMMA UntouchedKeeps ==
  ASSUME ChannelInv, UNCHANGED <<hook, ran, line, clients>>
  PROVE  ChannelInv'
<1>1. UNCHANGED <<ran, due, queue, written, pending, cut, bytes, holder, cpc, epc, thread, ppc, pipe>>
  BY DEF hook, line, clients
<1>2. ChannelTypes' /\ PipeInv'
  BY <1>1 DEF ChannelInv, ChannelTypes, PipeInv
<1> QED
  BY <1>1, <1>2, QueueStays, PiecesStay, HalfStays DEF ChannelInv

-----------------------------------------------------------------------------
(* The pipe's thread.                                                      *)

\* What is pending is of the line whose piece comes next.
LEMMA PendingIs ==
  ASSUME ChannelTypes, PieceInv, bytes # <<>>
  PROVE  \A k \in 1 .. Len(pending) : pending[k] = bytes[1].of
<1>1. CASE pending = <<>>
  BY <1>1
<1>2. CASE pending # <<>>
  <2>1. Len(pending) \in Nat \ {0}
    BY <1>2 DEF ChannelTypes
  <2> QED
    BY <1>2, <2>1 DEF PieceInv
<1> QED
  BY <1>1, <1>2

\* A line that has been read in pieces is the one the pieces are of.
LEMMA AssembledIs ==
  ASSUME ChannelTypes, PieceInv, bytes # <<>>
  PROVE  Assembled(Append(pending, bytes[1].of)) = bytes[1].of
<1> DEFINE pieces == Append(pending, bytes[1].of)
<1>1. bytes[1] \in Piecewise /\ Len(bytes) \in Nat \ {0}
  BY DEF ChannelTypes
<1>2. /\ pieces \in Seq(Nat) /\ Len(pieces) = Len(pending) + 1
      /\ \A k \in 1 .. Len(pending) : pieces[k] = pending[k]
      /\ pieces[Len(pending) + 1] = bytes[1].of
  BY <1>1, AppendProperties DEF ChannelTypes, Piecewise
<1>3. \A k \in 1 .. Len(pending) : pending[k] = bytes[1].of
  BY PendingIs
<1>4. Len(pending) \in Nat
  BY DEF ChannelTypes
<1>5. \A k \in 1 .. Len(pieces) : pieces[k] = bytes[1].of
  BY <1>2, <1>3, <1>4
<1>6. Last(pieces) = bytes[1].of
  BY <1>2, <1>4 DEF Last
<1> QED
  BY <1>5, <1>6 DEF Assembled

LEMMA ReadKeeps ==
  ASSUME ChannelInv, Read
  PROVE  ChannelInv'
<1> DEFINE p == bytes[1]
<1>1. /\ ChannelTypes /\ PipeInv /\ QueueInv /\ PieceInv /\ HalfInv
      /\ bytes # <<>> /\ ppc = "read"
      /\ UNCHANGED <<ran, due, written, holder, cpc, epc, thread, ppc, pipe>>
  BY DEF ChannelInv, Read, Serves, clients
<1>2. /\ p \in Piecewise /\ Len(bytes) \in Nat \ {0} /\ Len(queue) \in Nat
      /\ Len(pending) \in Nat /\ Len(ran) \in Nat /\ Len(due) \in Nat
  BY <1>1 DEF ChannelTypes
<1>3. Head(bytes) = p /\ p.of \in Nat /\ p.last \in BOOLEAN
  BY <1>1, <1>2 DEF ChannelTypes, Piecewise
<1>4. /\ bytes' \in Seq(Piecewise) /\ Len(bytes') = Len(bytes) - 1
      /\ \A k \in 1 .. Len(bytes') : bytes'[k] = bytes[k + 1]
  BY <1>1, HeadTailProperties DEF Read, ChannelTypes
<1>5. pending' = <<>> \/ (~p.last /\ pending' = Append(pending, p.of))
  BY <1>3 DEF Read
<1>7. p.of \in 1 .. Len(written) /\ Behind(p.of)
  BY <1>1, <1>2 DEF PieceInv
<1>6. \/ queue' = queue /\ cut \subseteq cut'
      \/ p.last /\ queue' = Append(queue, p.of) /\ p.of \in Runnable /\ cut' = cut
  <2>1. Assembled(Append(pending, p.of)) = p.of /\ p.of # Mixed
    BY <1>1, <1>7, AssembledIs DEF Mixed
  <2>2. IsALine(p.of) => p.of \in Runnable
    BY <1>7, <2>1 DEF IsALine, Runnable
  <2> QED
    BY <1>3, <2>1, <2>2 DEF Read, QueueCommand
<1>13. ran \in Seq(Nat) /\ due \in Seq(Nat) /\ queue \in Seq(Nat) /\ Len(written) \in Nat
  BY <1>1 DEF ChannelTypes
<1>8. ChannelTypes'
  <2>1. pending \in Seq(Nat) /\ Append(pending, p.of) \in Seq(Nat) /\ Append(queue, p.of) \in Seq(Nat)
    BY <1>1, <1>3, <1>13, AppendProperties DEF ChannelTypes
  <2>2. pending' \in Seq(Nat) /\ queue' \in Seq(Nat)
    BY <1>5, <1>6, <1>13, <2>1, EmptySeq
  <2> QED
    BY <1>1, <1>4, <2>2 DEF ChannelTypes
<1>9. PipeInv'
  BY <1>1 DEF PipeInv
<1>10. QueueInv'
  <2>1. CASE queue' = queue /\ cut \subseteq cut'
    BY <1>1, <2>1, QueueStays
  <2>2. CASE queue' = Append(queue, p.of) /\ p.of \in Runnable /\ cut' = cut
    <3>1. /\ Rising(queue) /\ Below(ran, queue) /\ Below(due, queue) /\ AtMost(queue, Len(written))
          /\ Among(queue, Runnable)
          /\ AllBelow(ran, p.of) /\ AllBelow(due, p.of) /\ AllBelow(queue, p.of)
      BY <1>1, <1>7 DEF QueueInv, Behind
    <3>2. /\ Rising(queue') /\ Below(ran, queue') /\ Below(due, queue')
          /\ AtMost(queue', Len(written)) /\ Among(queue', Runnable)
      BY <1>3, <1>7, <1>13, <2>2, <3>1, AppendInOrder
    <3>3. Runnable' = Runnable
      BY <1>1, <2>2 DEF Runnable
    <3> QED
      BY <1>1, <3>2, <3>3 DEF QueueInv
  <2> QED
    BY <1>6, <2>1, <2>2
\* What has been read is behind whatever comes after the piece.
<1>11. ASSUME NEW n \in Nat, Behind(n), p.last => p.of < n
       PROVE  Behind(n)'
  <2>1. CASE queue' = queue
    BY <1>1, <1>11, <2>1 DEF Behind
  <2>2. CASE p.last /\ queue' = Append(queue, p.of)
    <3>1. AllBelow(queue', n)
      BY <1>3, <1>11, <1>13, <2>2, AppendInOrder DEF Behind
    <3> QED
      BY <1>1, <1>11, <3>1 DEF Behind
  <2> QED
    BY <1>6, <2>1, <2>2
<1>12. \A k \in 1 .. Len(bytes') : /\ bytes'[k].of \in 1 .. Len(written)
                                   /\ p.of <= bytes'[k].of
                                   /\ Behind(bytes[k].of)'
  <2> TAKE k \in 1 .. Len(bytes')
  <2>1. /\ k + 1 \in 1 .. Len(bytes) /\ 1 \in 1 .. Len(bytes) /\ 1 < k + 1
        /\ bytes'[k] = bytes[k + 1]
    BY <1>2, <1>4
  <2>2. /\ bytes[k + 1].of \in 1 .. Len(written) /\ Behind(bytes[k + 1].of)
        /\ p.of <= bytes[k + 1].of /\ (p.last => p.of < bytes[k + 1].of)
    BY <1>1, <2>1 DEF PieceInv
  <2>3. PICK n \in Nat : n = bytes[k + 1].of
    BY <2>2
  <2>4. Behind(n)' /\ bytes'[k].of = n
    BY <1>11, <2>1, <2>2, <2>3
  <2> QED
    BY <2>2, <2>3, <2>4
<1>14. PieceInv'
  <2>1. \A j, k \in 1 .. Len(bytes') :
          j < k => /\ bytes'[j].of <= bytes'[k].of
                   /\ bytes'[j].last => bytes'[j].of < bytes'[k].of
    <3> TAKE j, k \in 1 .. Len(bytes')
    <3>1. /\ j + 1 \in 1 .. Len(bytes) /\ k + 1 \in 1 .. Len(bytes)
          /\ bytes'[j] = bytes[j + 1] /\ bytes'[k] = bytes[k + 1] /\ (j < k => j + 1 < k + 1)
      BY <1>2, <1>4
    <3>2. j + 1 < k + 1 => /\ bytes[j + 1].of <= bytes[k + 1].of
                           /\ bytes[j + 1].last => bytes[j + 1].of < bytes[k + 1].of
      BY <1>1, <3>1 DEF PieceInv
    <3> QED
      BY <3>1, <3>2
  <2>2. \A k \in 1 .. Len(bytes') :
          k + 1 <= Len(bytes') /\ ~bytes'[k].last => bytes'[k + 1].of = bytes'[k].of
    <3> TAKE k \in 1 .. Len(bytes')
    <3>1. HAVE k + 1 <= Len(bytes') /\ ~bytes'[k].last
    <3>2. /\ k + 1 \in 1 .. Len(bytes) /\ (k + 1) + 1 <= Len(bytes)
          /\ bytes'[k] = bytes[k + 1] /\ bytes'[k + 1] = bytes[(k + 1) + 1]
      BY <1>2, <1>4, <3>1
    <3>3. (k + 1) + 1 <= Len(bytes) /\ ~bytes[k + 1].last
            => bytes[(k + 1) + 1].of = bytes[k + 1].of
      BY <1>1, <3>2 DEF PieceInv
    <3> QED
      BY <3>1, <3>2, <3>3
  <2>3. CASE pending' = <<>>
    BY <1>1, <1>12, <2>1, <2>2, <2>3 DEF PieceInv
  <2>4. CASE ~p.last /\ pending' = Append(pending, p.of)
    <3>1. UNCHANGED queue
      BY <1>6, <2>4
    <3>2. PICK n \in 1 .. Len(written) : n = p.of /\ Behind(n)
      BY <1>7
    <3>3. Behind(n)'
      BY <1>1, <3>1, <3>2 DEF Behind
    <3>4. \A k \in 1 .. Len(pending') : pending'[k] = n
      <4>1. \A k \in 1 .. Len(pending) : pending[k] = n
        BY <1>1, <3>2, PendingIs
      <4>2. /\ pending \in Seq(Nat) /\ Len(pending') = Len(pending) + 1 /\ pending'[Len(pending) + 1] = n
            /\ \A k \in 1 .. Len(pending) : pending'[k] = pending[k]
        <5>1. pending \in Seq(Nat) /\ n \in Nat /\ pending' = Append(pending, n)
          BY <1>1, <1>3, <2>4, <3>2 DEF ChannelTypes
        <5> QED
          BY ONLY <5>1, AppendProperties
      <4>3. \A k \in 1 .. Len(pending') : k \in 1 .. Len(pending) \/ k = Len(pending) + 1
        <5>1. Len(pending) \in Nat /\ Len(pending') = Len(pending) + 1
          BY <1>2, <4>2
        <5> QED
          BY ONLY <5>1
      <4> QED
        BY ONLY <4>1, <4>2, <4>3
    <3>5. bytes' # <<>> => bytes'[1].of = n
      <4>1. ASSUME bytes' # <<>> PROVE 1 + 1 <= Len(bytes) /\ bytes'[1] = bytes[1 + 1]
        BY <1>2, <1>4, <4>1
      <4>2. 1 \in 1 .. Len(bytes)
        BY <1>2
      <4> QED
        BY <1>1, <2>4, <3>2, <4>1, <4>2 DEF PieceInv
    <3>6. pending' # <<>> => 1 \in 1 .. Len(pending')
      BY <1>8 DEF ChannelTypes
    <3>7. \A k \in 1 .. Len(pending') : pending'[k] \in 1 .. Len(written) /\ Behind(pending[k])'
      BY <3>2, <3>3, <3>4
    <3> QED
      BY <1>1, <1>12, <2>1, <2>2, <3>4, <3>5, <3>6, <3>7 DEF PieceInv
  <2> QED
    BY <1>5, <2>3, <2>4
<1>15. HalfInv'
  <2>1. HalfALine' => HalfALine
    <3>1. CASE bytes' = <<>>
      <4>1. Len(bytes) = 1
        BY <1>2, <1>4, <3>1
      <4> QED
        BY <1>1, <1>5, <3>1, <4>1 DEF HalfALine
    <3>2. CASE bytes' # <<>>
      <4>1. /\ Len(bytes') \in 1 .. Len(bytes') /\ Len(bytes') + 1 = Len(bytes)
        BY <1>2, <1>4, <3>2
      <4>2. bytes'[Len(bytes')] = bytes[Len(bytes)]
        BY <1>4, <4>1
      <4> QED
        BY <1>1, <3>2, <4>2 DEF HalfALine
    <3> QED
      BY <3>1, <3>2
  <2> QED
    BY <1>1, <2>1 DEF HalfInv
<1> QED
  BY <1>8, <1>9, <1>10, <1>14, <1>15 DEF ChannelInv

LEMMA PipeThreadKeeps ==
  ASSUME ChannelInv, PipeThread
  PROVE  ChannelInv'
<1>1. ChannelTypes /\ PipeInv /\ QueueInv /\ PieceInv /\ HalfInv
  BY DEF ChannelInv
<1>2. ASSUME PipeInv', Serves, UNCHANGED <<pending, cut, queue>>,
             UNCHANGED <<bytes, holder>> \/ (Gone /\ pending = <<>>)
      PROVE  ChannelInv'
  <2>1. UNCHANGED <<ran, due, queue, written, cpc, epc, pending, cut>>
    BY <1>2 DEF Serves, clients
  <2>2. ChannelTypes'
    BY <1>1, <1>2, <2>1 DEF ChannelTypes, Gone
  <2>3. QueueInv'
    BY <1>1, <2>1, QueueStays
  <2>4. PieceInv' /\ HalfInv'
    <3>1. CASE UNCHANGED <<bytes, holder>>
      BY <1>1, <2>1, <3>1, PiecesStay, HalfStays
    <3>2. CASE Gone /\ pending = <<>>
      BY <2>1, <3>2, EmptyInOrder DEF Gone
    <3> QED
      BY <1>2, <3>1, <3>2
  <2> QED
    BY <1>2, <2>2, <2>3, <2>4 DEF ChannelInv
<1>3. CASE CreatePipe
  BY <1>1, <1>2, <1>3 DEF CreatePipe, Serves, PipeInv
<1>4. CASE StopsBetween
  BY <1>1, <1>2, <1>4 DEF StopsBetween, Serves, PipeInv, line
<1>5. CASE Connect
  <2>1. pending = <<>>
    BY <1>1, <1>5 DEF Connect, PipeInv
  <2>2. PipeInv'
    BY <1>1, <1>5 DEF Connect, Serves, PipeInv, line, Gone
  <2> QED
    BY <1>2, <1>5, <2>1, <2>2 DEF Connect, line
<1>6. CASE Accept
  BY <1>1, <1>2, <1>6 DEF Accept, Serves, PipeInv, line
<1>7. CASE StopsListening
  BY <1>1, <1>2, <1>7 DEF StopsListening, Serves, PipeInv, Gone
<1>8. CASE Read
  BY <1>8, ReadKeeps
<1>9. CASE Hangup
  <2>1. /\ UNCHANGED <<ran, due, queue, cut, written, cpc, epc, thread>>
        /\ pending' = <<>> /\ bytes' = <<>> /\ ppc = "read" /\ ppc' = "create"
        /\ pipe' = "none" /\ holder' = Nobody
    BY <1>9 DEF Hangup, Serves, clients, Gone, ForgetsHalfALine, ServesTheNext
  <2>2. ChannelTypes' /\ PipeInv'
    BY <1>1, <2>1 DEF ChannelTypes, PipeInv
  <2> QED
    BY <1>1, <2>1, <2>2, EmptyInOrder, QueueStays DEF ChannelInv
<1> QED
  BY <1>3, <1>4, <1>5, <1>6, <1>7, <1>8, <1>9 DEF PipeThread

-----------------------------------------------------------------------------
(* The engine thread.                                                      *)

LEMMA EngineKeeps ==
  ASSUME ChannelInv, Engine
  PROVE  ChannelInv'
<1>1. ChannelTypes /\ PipeInv /\ QueueInv /\ PieceInv /\ HalfInv
  BY DEF ChannelInv
<1>2. UNCHANGED <<written, cpc, pending, cut, bytes, holder, pipe>>
  BY DEF Engine, EngineFrame, RunCommand, EngineFrameEnds, PipeIsShut, line, clients
<1>3. PipeInv'
  <2>1. CASE EngineFrame
    BY <1>1, <1>2, <2>1 DEF EngineFrame, PipeStart, PipeInv
  <2>2. CASE RunCommand
    BY <1>1, <1>2, <2>2 DEF RunCommand, PipeStart, BeginsToShut, PipeInv
  <2>3. CASE EngineFrameEnds
    BY <1>1, <1>2, <2>3 DEF EngineFrameEnds, PipeInv
  <2>4. CASE PipeIsShut
    BY <1>1, <1>2, <2>4 DEF PipeIsShut, Ended, PipeInv
  <2> QED
    BY <2>1, <2>2, <2>3, <2>4 DEF Engine
<1>4. HalfInv'
  BY <1>1, <1>2, HalfStays
<1>5. CASE EngineFrame
  <2>1. due = <<>> /\ due' = queue /\ queue' = <<>> /\ epc' = "run" /\ UNCHANGED ran
    BY <1>1, <1>5 DEF EngineFrame, TakesAll, QueueInv
  <2>2. ChannelTypes'
    BY <1>1, <1>2, <2>1 DEF ChannelTypes
  <2>3. QueueInv'
    BY <1>1, <1>2, <2>1 DEF QueueInv, Rising, Below, AtMost, AllBelow, Among, Runnable
  <2>4. \A n : Behind(n) => Behind(n)'
    BY <2>1 DEF Behind, AllBelow
  <2>5. PieceInv'
    BY <1>1, <1>2, <2>4 DEF PieceInv
  <2> QED
    BY <1>3, <1>4, <2>2, <2>3, <2>5 DEF ChannelInv
<1>6. CASE RunCommand
  <2>1. /\ due # <<>> /\ ran' = Append(ran, Head(due)) /\ due' = Tail(due)
        /\ queue' = queue /\ epc # "frame"
    BY <1>6 DEF RunCommand
  <2>2. epc' # "frame"
    BY <1>6 DEF RunCommand, PipeStart, BeginsToShut
  <2>3. ran \in Seq(Nat) /\ due \in Seq(Nat) /\ queue \in Seq(Nat) /\ Len(written) \in Nat
    BY <1>1 DEF ChannelTypes
  <2>4. Head(due) \in Nat /\ Tail(due) \in Seq(Nat) /\ Append(ran, Head(due)) \in Seq(Nat)
    BY <2>1, <2>3, TailInOrder, AppendInOrder
  <2>5. ChannelTypes'
    BY <1>1, <1>2, <2>1, <2>4 DEF ChannelTypes
  <2>6. /\ Rising(due') /\ Below(due', queue) /\ AtMost(due', Len(written))
        /\ Head(due) \in 1 .. Len(written) /\ Below(ran, Tail(due))
        /\ \A k \in 1 .. Len(Tail(due)) : Head(due) < Tail(due)[k]
        /\ AllBelow(ran, Head(due)) /\ Among(due', Runnable)
    BY <1>1, <2>1, <2>3, TailInOrder DEF QueueInv
  <2>7. Below(ran', due')
    BY <2>1, <2>3, <2>4, <2>6, AppendInOrder, ElementOfSeq DEF Below
  <2>8. Below(ran', queue)
    <3>1. \A k \in 1 .. Len(queue) : Head(due) < queue[k] /\ AllBelow(ran, queue[k]) /\ queue[k] \in Nat
      <4>1. Head(due) = due[1] /\ 1 \in 1 .. Len(due)
        BY <2>1, <2>3, TailInOrder
      <4>2. \A k \in 1 .. Len(queue) : AllBelow(due, queue[k]) /\ AllBelow(ran, queue[k])
        BY <1>1 DEF QueueInv, Below
      <4>3. \A k \in 1 .. Len(queue) : queue[k] \in Nat
        BY <2>3, ElementOfSeq
      <4> QED
        BY <4>1, <4>2, <4>3 DEF AllBelow
    <3> QED
      BY <2>1, <2>3, <2>4, <3>1, AppendInOrder DEF Below
  <2>9. AtMost(ran', Len(written))
    BY <1>1, <2>1, <2>3, <2>4, <2>6, AppendInOrder DEF QueueInv
  <2>10. QueueInv'
    <3>1. Runnable' = Runnable
      BY <1>2 DEF Runnable
    <3> QED
      BY <1>1, <1>2, <2>1, <2>2, <2>6, <2>7, <2>8, <2>9, <3>1 DEF QueueInv
  <2>11. ASSUME NEW n \in Nat, Behind(n) PROVE Behind(n)'
    BY <2>1, <2>3, <2>4, <2>11, TailInOrder, AppendInOrder DEF Behind
  <2>12. PieceInv'
    BY <1>1, <1>2, <2>11 DEF PieceInv
  <2> QED
    BY <1>3, <1>4, <2>5, <2>10, <2>12 DEF ChannelInv
<1>7. CASE EngineFrameEnds \/ PipeIsShut
  <2>1. /\ UNCHANGED <<ran, due, queue>>
        /\ epc' # "frame" \/ due = <<>>
    BY <1>7 DEF EngineFrameEnds, PipeIsShut
  <2>2. ChannelTypes'
    BY <1>1, <1>2, <2>1 DEF ChannelTypes
  <2> QED
    BY <1>1, <1>2, <1>3, <1>4, <2>1, <2>2, QueueStays, PiecesStay DEF ChannelInv
<1> QED
  BY <1>5, <1>6, <1>7 DEF Engine

LEMMA GameExitsKeeps ==
  ASSUME ChannelInv, GameExits
  PROVE  ChannelInv'
<1>1. /\ pending' = <<>> /\ queue' = <<>> /\ due' = <<>> /\ bytes' = <<>> /\ pipe' = "none"
      /\ holder' = Nobody /\ thread' = FALSE /\ ppc' = "none" /\ epc' = "frame"
      /\ UNCHANGED <<ran, written, cut, cpc>>
  BY DEF GameExits, Gone, clients
<1>2. ChannelTypes' /\ PipeInv'
  BY <1>1 DEF ChannelInv, ChannelTypes, PipeInv
<1>3. QueueInv'
  BY <1>1 DEF ChannelInv, QueueInv, Rising, Below, AtMost, AllBelow, Among
<1> QED
  BY <1>1, <1>2, <1>3, EmptyInOrder DEF ChannelInv

-----------------------------------------------------------------------------
(* The clients.                                                            *)

LEMMA HolderIsSomebody == \A c \in Clients : c # Nobody
BY ClientAssumption

LEMMA OneBetween ==
  ASSUME NEW a \in Nat, NEW b \in {1, 2}, NEW j \in Nat, NEW k \in Nat,
         j < k, k <= a + b, j > a
  PROVE  j - a = 1 /\ b = 2 /\ ~(j <= a)
OBVIOUS

\* Whoever writes does so behind whole lines.
LEMMA WriteKeeps ==
  ASSUME ChannelInv, NEW c \in Clients, Write(c), holder = c
  PROVE  ChannelInv'
<1>1. ChannelTypes /\ PipeInv /\ QueueInv /\ PieceInv /\ HalfInv
  BY DEF ChannelInv
<1>2. /\ cpc[c] = "write"
      /\ UNCHANGED <<ran, due, queue, pending, cut, epc, thread, ppc, pipe, holder>>
  BY DEF Write, Asks, hook
<1>4. PICK n \in Nat : n = Len(written) + 1
  BY <1>1 DEF ChannelTypes
<1>3. PICK t \in Texts : /\ written' = Append(written, t)
                         /\ \E ps \in Pieces(c, n, t) : bytes' = bytes \o ps
  BY <1>4 DEF Write
<1>5. /\ written' \in Seq(Texts) /\ Len(written') = n /\ Len(written) \in Nat
  BY <1>1, <1>3, <1>4, AppendProperties DEF ChannelTypes
<1>6. PICK ps \in Pieces(c, n, t) : bytes' = bytes \o ps
  BY <1>3
<1>7. cpc' = [cpc EXCEPT ![c] = IF c = Script /\ Last(bytes').last /\ HasRoom THEN "write" ELSE "close"]
  BY DEF Write
\* The pieces of the new line.
<1>8. /\ ps \in Seq(Piecewise) /\ Len(ps) \in {1, 2}
      /\ \A k \in 1 .. Len(ps) : ps[k].of = n
      /\ Len(ps) = 2 => ~ps[1].last
  <2>1. Piece(n, TRUE) \in Piecewise /\ Piece(n, FALSE) \in Piecewise
    BY DEF Piece, Piecewise
  <2>2. CASE ps = <<Piece(n, TRUE)>>
    BY <2>1, <2>2 DEF Piece
  <2>3. CASE ps = <<Piece(n, FALSE), Piece(n, TRUE)>>
    BY <2>1, <2>3 DEF Piece
  <2>4. CASE ps = <<Piece(n, FALSE)>>
    BY <2>1, <2>4 DEF Piece
  <2> QED
    BY <2>2, <2>3, <2>4 DEF Pieces
<1>9. /\ bytes' \in Seq(Piecewise) /\ Len(bytes') = Len(bytes) + Len(ps) /\ Len(bytes) \in Nat
      /\ \A k \in 1 .. Len(bytes') :
           bytes'[k] = IF k <= Len(bytes) THEN bytes[k] ELSE ps[k - Len(bytes)]
  <2>1. bytes \in Seq(Piecewise)
    BY <1>1 DEF ChannelTypes
  <2> QED
    BY ONLY <1>6, <1>8, <2>1, ConcatProperties
<1>10. ~HalfALine
  BY <1>1, <1>2, HolderIsSomebody DEF HalfInv
\* Every piece is an old one or of the new line.
<1>11. \A k \in 1 .. Len(bytes') :
         \/ k \in 1 .. Len(bytes) /\ bytes'[k] = bytes[k]
         \/ k > Len(bytes) /\ bytes'[k].of = n
  BY <1>8, <1>9
<1>12. \A k \in 1 .. Len(bytes) : bytes[k].of \in 1 .. Len(written) /\ bytes[k].of < n /\ bytes[k].of \in Nat
  BY <1>1, <1>4, <1>5 DEF PieceInv
<1>13. ChannelTypes'
  <2>1. cpc' = [cpc EXCEPT ![c] = "write"] \/ cpc' = [cpc EXCEPT ![c] = "close"]
    BY <1>7, Zenon
  <2> QED
    BY <1>1, <1>2, <1>5, <1>9, <2>1 DEF ChannelTypes, Doings
<1>14. PipeInv'
  BY <1>1, <1>2, HolderIsSomebody DEF PipeInv
<1>15. /\ AtMost(ran, Len(written')) /\ AtMost(due, Len(written')) /\ AtMost(queue, Len(written'))
       /\ Behind(n)
  BY <1>1, <1>4, <1>5 DEF QueueInv, AtMost, Behind, AllBelow
<1>19. Among(due, Runnable') /\ Among(queue, Runnable')
  <2>1. \A i \in 1 .. Len(written) : written'[i] = written[i] /\ i \in 1 .. Len(written')
    BY <1>1, <1>3, <1>4, <1>5, AppendProperties DEF ChannelTypes
  <2> QED
    BY <1>1, <1>2, <2>1 DEF QueueInv, Among, Runnable
<1>16. QueueInv'
  BY <1>1, <1>2, <1>15, <1>19 DEF QueueInv
<1>17. PieceInv'
  <2>1. \A m : Behind(m) => Behind(m)'
    BY <1>2 DEF Behind
  <2>2. \A k \in 1 .. Len(bytes') : bytes'[k].of \in 1 .. Len(written') /\ Behind(bytes[k].of)'
    <3> TAKE k \in 1 .. Len(bytes')
    <3>1. CASE k \in 1 .. Len(bytes) /\ bytes'[k] = bytes[k]
      <4>1. bytes[k].of \in 1 .. Len(written') /\ Behind(bytes[k].of)
        BY <1>1, <1>4, <1>5, <1>12, <3>1 DEF PieceInv
      <4> QED
        BY <1>2, <3>1, <4>1 DEF Behind
    <3>2. CASE bytes'[k].of = n
      BY <1>2, <1>4, <1>5, <1>15, <3>2 DEF Behind
    <3> QED
      BY <1>11, <3>1, <3>2
  <2>3. \A j, k \in 1 .. Len(bytes') :
          j < k => /\ bytes'[j].of <= bytes'[k].of
                   /\ bytes'[j].last => bytes'[j].of < bytes'[k].of
    <3> SUFFICES ASSUME NEW j \in 1 .. Len(bytes'), NEW k \in 1 .. Len(bytes'), j < k
                 PROVE  /\ bytes'[j].of <= bytes'[k].of
                        /\ bytes'[j].last => bytes'[j].of < bytes'[k].of
      OBVIOUS
    <3>1. CASE k \in 1 .. Len(bytes) /\ bytes'[k] = bytes[k]
      <4>1. j \in 1 .. Len(bytes) /\ bytes'[j] = bytes[j]
        BY <1>9, <1>11, <3>1
      <4> QED
        BY <1>1, <3>1, <4>1 DEF PieceInv
    <3>2. CASE k > Len(bytes) /\ bytes'[k].of = n
      <4>1. CASE j \in 1 .. Len(bytes) /\ bytes'[j] = bytes[j]
        BY <1>12, <3>2, <4>1
      <4>2. CASE j > Len(bytes) /\ bytes'[j].of = n
        <5>1. Len(bytes) \in Nat /\ Len(ps) \in {1, 2} /\ Len(bytes') = Len(bytes) + Len(ps)
          BY <1>8, <1>9
        <5>2. j \in Nat /\ k \in Nat /\ k <= Len(bytes) + Len(ps)
          BY <5>1
        <5>3. j - Len(bytes) = 1 /\ Len(ps) = 2 /\ ~(j <= Len(bytes))
          BY <4>2, <5>1, <5>2, OneBetween
        <5>4. bytes'[j] = ps[1]
          BY <1>9, <5>3
        <5> QED
          BY <1>8, <3>2, <4>2, <5>3, <5>4
      <4> QED
        BY <1>11, <4>1, <4>2
    <3> QED
      BY <1>11, <3>1, <3>2
  <2>4. \A k \in 1 .. Len(bytes') :
          k + 1 <= Len(bytes') /\ ~bytes'[k].last => bytes'[k + 1].of = bytes'[k].of
    <3> SUFFICES ASSUME NEW k \in 1 .. Len(bytes'), k + 1 <= Len(bytes'), ~bytes'[k].last
                 PROVE  bytes'[k + 1].of = bytes'[k].of
      OBVIOUS
    <3>1. k + 1 \in 1 .. Len(bytes')
      BY <1>9
    <3>2. CASE k + 1 <= Len(bytes)
      <4>1. k \in 1 .. Len(bytes) /\ bytes'[k] = bytes[k] /\ bytes'[k + 1] = bytes[k + 1]
        BY <1>9, <3>1, <3>2
      <4> QED
        BY <1>1, <3>2, <4>1 DEF PieceInv
    <3>3. CASE k = Len(bytes)
      <4>1. bytes'[k] = bytes[Len(bytes)] /\ bytes # <<>>
        BY <1>9, <3>3
      <4> QED
        BY <1>10, <4>1 DEF HalfALine
    <3>4. CASE k > Len(bytes)
      BY <1>9, <1>11, <3>1, <3>4
    <3> QED
      BY <1>9, <3>2, <3>3, <3>4
  <2>5. \A k \in 1 .. Len(pending) : pending[k] \in 1 .. Len(written') /\ Behind(pending[k])'
    <3>1. \A k \in 1 .. Len(pending) : pending[k] \in 1 .. Len(written) /\ Behind(pending[k])
      BY <1>1 DEF PieceInv
    <3> QED
      BY <1>2, <1>4, <1>5, <3>1 DEF Behind
  <2>6. pending # <<>> => bytes'[1].of = pending[1]
    <3>1. ASSUME pending # <<>> PROVE bytes # <<>>
      BY <1>10, <3>1 DEF HalfALine
    <3>2. bytes # <<>> => bytes'[1] = bytes[1]
      BY <1>8, <1>9
    <3> QED
      BY <1>1, <3>1, <3>2 DEF PieceInv
  <2> QED
    BY <1>1, <1>2, <2>2, <2>3, <2>4, <2>5, <2>6 DEF PieceInv
<1>18. HalfInv'
  <2>1. bytes' # <<>>
    <3>1. Len(bytes') # 0
      BY SMTT(20), <1>8, <1>9
    <3>2. Len(<<>>) = 0
      OBVIOUS
    <3> QED
      BY <3>1, <3>2
  <2>2. ASSUME HalfALine' PROVE cpc'[c] = "close"
    <3>1. ~Last(bytes').last
      BY <2>1, <2>2 DEF HalfALine, Last
    <3> QED
      BY <1>1, <1>7, <3>1 DEF ChannelTypes
  <2> QED
    BY <1>2, <2>2 DEF HalfInv
<1> QED
  BY <1>13, <1>14, <1>16, <1>17, <1>18 DEF ChannelInv

LEMMA ClientKeeps ==
  ASSUME ChannelInv, (\E c \in Clients : Client(c)) \/ TryAgain \/ ScriptIsThrough
  PROVE  ChannelInv'
<1>1. ChannelTypes /\ PipeInv /\ QueueInv /\ PieceInv /\ HalfInv
  BY DEF ChannelInv
\* Most of what a client does is to itself.
<1>2. ASSUME Asks, UNCHANGED written, bytes' = bytes, ChannelTypes', PipeInv', HalfInv'
      PROVE  ChannelInv'
  <2>1. UNCHANGED <<ran, due, queue, pending, cut, epc>>
    BY <1>2 DEF Asks, hook
  <2> QED
    BY <1>1, <1>2, <2>1, QueueStays, PiecesStay DEF ChannelInv
<1>3. ASSUME NEW c \in Clients, NEW w \in Doings, w # "write", Asks,
             cpc' = [cpc EXCEPT ![c] = w], UNCHANGED <<line, written>>
      PROVE  ChannelInv'
  <2>1. /\ UNCHANGED <<ran, due, queue, pending, epc, thread, ppc, pipe, holder, bytes, written>>
        /\ cpc' \in [Clients -> Doings]
    BY <1>1, <1>3 DEF Asks, hook, line, ChannelTypes
  <2>2. ChannelTypes' /\ PipeInv'
    BY <1>1, <2>1 DEF ChannelTypes, PipeInv
  <2>3. HalfInv'
    BY <1>1, <1>3, <2>1 DEF HalfInv, HalfALine, ChannelTypes
  <2> QED
    BY <1>2, <1>3, <2>1, <2>2, <2>3
<1>4. ASSUME NEW c \in Clients, Open(c) PROVE ChannelInv'
  <2>1. /\ pipe = "free" /\ pipe' = "held" /\ Asks /\ UNCHANGED <<bytes, written>>
        /\ UNCHANGED <<ran, due, queue, pending, epc, thread, ppc>>
        /\ cpc' = [cpc EXCEPT ![c] = "write"]
    BY <1>4 DEF Open, Asks, hook
  <2>2. bytes = <<>> /\ pending = <<>>
    BY <1>1, <2>1 DEF PipeInv
  <2>3. ChannelTypes' /\ PipeInv'
    BY <1>1, <2>1 DEF ChannelTypes, PipeInv, Doings
  <2>4. HalfInv'
    BY <2>1, <2>2, EmptyInOrder
  <2> QED
    BY <1>2, <2>1, <2>3, <2>4
<1>5. ASSUME NEW c \in Clients, Write(c) PROVE ChannelInv'
  <2>1. CASE holder = c
    BY <1>5, <2>1, WriteKeeps
  <2>2. CASE holder # c
    <3>1. cpc' = [cpc EXCEPT ![c] = "close"] /\ Asks /\ UNCHANGED <<line, written>>
      BY <1>5, <2>2, Zenon DEF Write, line
    <3>2. "close" \in Doings /\ "close" # "write"
      BY DEF Doings
    <3> QED
      BY <1>3, <3>1, <3>2
  <2> QED
    BY <2>1, <2>2
<1>6. ASSUME NEW c \in Clients, Close(c) PROVE ChannelInv'
  <2>1. CASE holder = c
    <3>1. /\ pipe' = "left" /\ holder' = Nobody /\ Asks /\ UNCHANGED <<bytes, written>>
          /\ UNCHANGED <<ran, due, queue, pending, epc, thread, ppc>>
          /\ cpc' = [cpc EXCEPT ![c] = "idle"] /\ pipe = "held"
      BY <1>1, <1>6, <2>1, HolderIsSomebody DEF Close, Asks, hook, PipeInv
    <3>2. ChannelTypes' /\ PipeInv'
      BY <1>1, <3>1 DEF ChannelTypes, PipeInv, Doings
    <3>3. HalfInv'
      BY <3>1 DEF HalfInv
    <3> QED
      BY <1>2, <3>1, <3>2, <3>3
  <2>2. CASE holder # c
    <3>1. cpc' = [cpc EXCEPT ![c] = "idle"] /\ Asks /\ UNCHANGED <<line, written>>
      BY <1>6, <2>2, Zenon DEF Close, line
    <3>2. "idle" \in Doings /\ "idle" # "write"
      BY DEF Doings
    <3> QED
      BY <1>3, <3>1, <3>2
  <2> QED
    BY <2>1, <2>2
<1>7. ASSUME NEW c \in Clients, Ask(c) \/ GiveUp(c) PROVE ChannelInv'
  <2>1. "idle" \in Doings /\ "open" \in Doings /\ "idle" # "write" /\ "open" # "write"
    BY DEF Doings
  <2>2. CASE Ask(c)
    <3>1. cpc' = [cpc EXCEPT ![c] = "open"] /\ Asks /\ UNCHANGED <<line, written>>
      BY <2>2, Zenon DEF Ask, line
    <3> QED
      BY <1>3, <2>1, <3>1
  <2>3. CASE GiveUp(c)
    <3>1. cpc' = [cpc EXCEPT ![c] = "idle"] /\ Asks /\ UNCHANGED <<line, written>>
      BY <2>3, Zenon DEF GiveUp, line
    <3> QED
      BY <1>3, <2>1, <3>1
  <2> QED
    BY <1>7, <2>2, <2>3
<1>8. CASE TryAgain
  <2>1. CASE UNCHANGED cpc
    <3>1. /\ UNCHANGED <<ran, due, queue, pending, cut, epc, thread, ppc, pipe, holder, bytes>>
          /\ UNCHANGED <<written, cpc>>
      BY <1>8, <2>1 DEF TryAgain, Asks, hook, line
    <3> QED
      BY <1>1, <3>1, HalfStays, QueueStays, PiecesStay DEF ChannelInv, ChannelTypes, PipeInv
  <2>2. CASE cpc' = [cpc EXCEPT ![Server] = "idle"]
    <3>1. Asks /\ UNCHANGED <<line, written>> /\ Server \in Clients
      BY <1>8, ClientAssumption DEF TryAgain, line
    <3>2. "idle" \in Doings /\ "idle" # "write"
      BY DEF Doings
    <3> QED
      BY <1>3, <2>2, <3>1, <3>2
  <2> QED
    BY <1>8, <2>1, <2>2 DEF TryAgain
<1>9. CASE ScriptIsThrough
  <2>1. /\ cpc' = [cpc EXCEPT ![Script] = "close"] /\ Asks /\ UNCHANGED <<line, written>>
        /\ Script \in Clients
    BY <1>9, ClientAssumption, Zenon DEF ScriptIsThrough, line
  <2>2. "close" \in Doings /\ "close" # "write"
    BY DEF Doings
  <2> QED
    BY <1>3, <2>1, <2>2
<1> QED
  BY <1>4, <1>5, <1>6, <1>7, <1>8, <1>9 DEF Client

LEMMA ChannelInvariant == Spec => []ChannelInv
<1>1. Init => ChannelInv
  <2> SUFFICES ASSUME Init PROVE ChannelInv
    OBVIOUS
  <2>1. /\ written = <<>> /\ ran = <<>> /\ due = <<>> /\ queue = <<>> /\ pending = <<>> /\ bytes = <<>>
        /\ thread = FALSE /\ ppc = "none" /\ pipe = "none" /\ epc = "frame" /\ holder = Nobody
        /\ cpc = [c \in Clients |-> "idle"]
    BY DEF Init, RCInit
  <2>2. ChannelTypes
    BY <2>1, EmptySeq DEF ChannelTypes, Doings
  <2>3. PipeInv /\ HalfInv
    BY <2>1 DEF PipeInv, HalfInv, HalfALine
  <2>4. QueueInv /\ PieceInv
    BY <2>1, EmptyInOrder DEF QueueInv, PieceInv, Rising, Below, AllBelow, AtMost, Among
  <2> QED
    BY <2>2, <2>3, <2>4 DEF ChannelInv
<1>2. ChannelInv /\ [Next]_vars => ChannelInv'
  BY Stepwise, UntouchedKeeps, PipeThreadKeeps, EngineKeeps, GameExitsKeeps, ClientKeeps
     DEF ChannelStep
<1> QED
  BY <1>1, <1>2, PTL DEF Spec

-----------------------------------------------------------------------------
\* A pipe that counts as closed is closed (PipeShutdown, PipeIsOpen).
THEOREM PipeClosed == Spec => []ClosedIsClosed
<1>1. ChannelInv => ClosedIsClosed
  BY DEF ChannelInv, PipeInv, ClosedIsClosed
<1> QED
  BY <1>1, ChannelInvariant, PTL

\* What the launcher, the server and a script write to the pipe comes to be run as the
\* abstract channel says: once, in the order it was written, and whole unless it was longer
\* than the pipe holds (CommandChannel).
THEOREM Implements == Spec => KeepsTheOrder
<1>1. Init => Channel!Init
  BY DEF Init, RCInit, Channel!Init
<1>2. ASSUME ChannelInv, [Next]_vars
      PROVE  [Channel!Next]_(Channel!vars)
  <2>1. ASSUME UNCHANGED <<written, cut, ran>> PROVE UNCHANGED Channel!vars
    BY <2>1 DEF Channel!vars
  <2>2. CASE UNCHANGED <<hook, ran, line, clients>>
    BY <2>1, <2>2 DEF hook, clients
  <2>3. CASE PipeThread /\ ~Read
    BY <2>1, <2>3 DEF PipeThread, CreatePipe, StopsBetween, Connect, Accept, StopsListening,
                      Hangup, Serves, clients
  <2>11. CASE Read
    <3> DEFINE i == bytes[1].of
    <3>1. UNCHANGED <<written, ran>> /\ bytes # <<>> /\ Head(bytes) = bytes[1] /\ 1 \in 1 .. Len(bytes)
      BY <1>2, <2>11 DEF Read, Serves, clients, ChannelInv, ChannelTypes
    <3>2. UNCHANGED cut \/ (written[i] = Overlong /\ cut' = cut \cup {i})
      BY <2>11, <3>1 DEF Read
    <3>3. i \in 1 .. Len(written) /\ AllBelow(ran, i)
      BY <1>2, <3>1 DEF ChannelInv, PieceInv, Behind
    <3>4. UNCHANGED cut \/ Channel!Cut
      BY <3>1, <3>2, <3>3 DEF Channel!Cut, Channel!Comes, AllBelow
    <3> QED
      BY <2>1, <3>1, <3>4 DEF Channel!Next
  <2>4. CASE RunCommand
    <3>1. /\ due # <<>> /\ ran' = Append(ran, Head(due)) /\ UNCHANGED <<written, cut>>
      BY <2>4 DEF RunCommand, clients
    <3>2. due \in Seq(Nat) /\ ran \in Seq(Nat) /\ Len(written) \in Nat
      BY <1>2 DEF ChannelInv, ChannelTypes
    <3>3. /\ Head(due) \in 1 .. Len(written) /\ AllBelow(ran, Head(due))
          /\ Head(due) \in Runnable
      BY <1>2, <3>1, <3>2, TailInOrder DEF ChannelInv, QueueInv
    <3>4. Channel!Run
      BY <3>1, <3>3 DEF Channel!Run, Channel!Comes, AllBelow, Runnable
    <3> QED
      BY <3>4 DEF Channel!Next
  <2>5. CASE EngineFrame \/ EngineFrameEnds \/ PipeIsShut \/ GameExits
    BY <2>1, <2>5 DEF EngineFrame, EngineFrameEnds, PipeIsShut, GameExits, clients
  <2>6. ASSUME NEW c \in Clients, Write(c), holder = c PROVE Channel!Send
    BY <2>6 DEF Write, Asks, hook, Channel!Send
  <2>7. ASSUME NEW c \in Clients, Ask(c) \/ Open(c) \/ GiveUp(c) \/ Close(c) 
                      PROVE UNCHANGED <<written, cut, ran>>
    BY <2>7 DEF Ask, Open, GiveUp, Close, Asks, hook
  <2>8. ASSUME NEW c \in Clients, Write(c), holder # c PROVE UNCHANGED <<written, cut, ran>>
    BY <2>8 DEF Write, Asks, hook
  <2>9. CASE TryAgain \/ ScriptIsThrough
    BY <2>1, <2>9 DEF TryAgain, ScriptIsThrough, Asks, hook
  <2>10. CASE \E c \in Clients : Client(c)
    BY <2>1, <2>6, <2>7, <2>8, <2>10 DEF Client, Channel!Next
  <2> QED
    BY <1>2, <2>2, <2>3, <2>4, <2>5, <2>9, <2>10, <2>11, Stepwise DEF ChannelStep, Engine
<1> QED
  BY <1>1, <1>2, ChannelInvariant, PTL DEF Spec, KeepsTheOrder, Channel!Spec

LEMMA ElementsAre ==
  ASSUME NEW s \in Seq(Nat)
  PROVE  ToSet(s) = {s[i] : i \in 1 .. Len(s)}
<1>1. DOMAIN s = 1 .. Len(s)
  BY LenProperties
<1> QED
  BY ONLY <1>1 DEF ToSet

LEMMA ElementIsIn ==
  ASSUME NEW s \in Seq(Nat), NEW k \in 1 .. Len(s)
  PROVE  s[k] \in ToSet(s)
<1>1. ToSet(s) = {s[i] : i \in 1 .. Len(s)}
  BY ElementsAre
<1> QED
  BY ONLY k \in 1 .. Len(s), <1>1

LEMMA PrefixHolds ==
  ASSUME NEW s \in Seq(Nat), NEW t \in Seq(Nat), Len(s) <= Len(t),
         \A k \in 1 .. Len(s) : t[k] = s[k]
  PROVE  ToSet(s) \subseteq ToSet(t)
<1> SUFFICES ASSUME NEW x \in ToSet(s) PROVE x \in ToSet(t)
  OBVIOUS
<1>1. PICK k \in 1 .. Len(s) : x = s[k]
  BY ElementsAre
<1>2. k \in 1 .. Len(t) /\ x = t[k]
  BY <1>1, LenProperties
<1> QED
  BY <1>2, ElementIsIn

\* What was queued stays in hand until it is run, or the game goes (NothingQueuedIsLost).
THEOREM NothingLost == Spec => NothingQueuedIsLost
<1>1. ASSUME ChannelInv, [Next]_vars
      PROVE  [InHand \subseteq InHand' \/ game' = "gone"]_rcVars
  <2>1. ASSUME UNCHANGED <<queue, due, ran>> PROVE InHand \subseteq InHand'
    BY <2>1 DEF InHand
  <2>2. queue \in Seq(Nat) /\ due \in Seq(Nat) /\ ran \in Seq(Nat)
    BY <1>1 DEF ChannelInv, ChannelTypes
  <2>3. CASE UNCHANGED <<hook, ran, line, clients>>
    BY <2>1, <2>3 DEF hook
  <2>4. CASE Read
    <3>1. UNCHANGED <<due, ran>>
      BY <2>4 DEF Read, Serves
    <3>2. queue' = queue \/ \E l \in Nat : queue' = Append(queue, l)
      <4>1. bytes # <<>> /\ bytes \in Seq(Piecewise)
        BY <1>1, <2>4 DEF Read, ChannelInv, ChannelTypes
      <4>2. Head(bytes) = bytes[1] /\ bytes[1].of \in Nat
        <5>1. bytes[1] \in Piecewise
          BY <4>1
        <5> QED
          BY <4>1, <5>1 DEF Piecewise
      <4> QED
        BY <1>1, <2>4, <4>1, <4>2, AssembledIs DEF Read, QueueCommand, ChannelInv
    <3>3. ASSUME NEW l \in Nat, queue' = Append(queue, l) PROVE ToSet(queue) \subseteq ToSet(queue')
      <4>1. /\ queue' \in Seq(Nat) /\ Len(queue) <= Len(queue')
            /\ \A k \in 1 .. Len(queue) : queue'[k] = queue[k]
        BY <2>2, <3>3, AppendProperties
      <4> QED
        BY <2>2, <4>1, PrefixHolds
    <3>4. ToSet(queue) \subseteq ToSet(queue')
      BY <3>2, <3>3
    <3> QED
      BY <3>1, <3>4 DEF InHand
  <2>5. CASE PipeThread /\ ~Read
    BY <2>1, <2>5 DEF PipeThread, CreatePipe, StopsBetween, Connect, Accept, StopsListening,
                      Hangup, Serves
  <2>6. CASE EngineFrame
    <3>1. due = <<>> /\ due' = queue /\ queue' = <<>> /\ UNCHANGED ran
      BY <1>1, <2>6 DEF EngineFrame, TakesAll, ChannelInv, QueueInv
    <3> QED
      BY <3>1 DEF InHand, ToSet
  <2>7. CASE RunCommand
    <3>1. /\ due # <<>> /\ ran' = Append(ran, Head(due)) /\ due' = Tail(due) /\ UNCHANGED queue
      BY <2>7 DEF RunCommand
    <3>2. \A x \in ToSet(due) : x = Head(due) \/ x \in ToSet(Tail(due))
      <4> TAKE x \in ToSet(due)
      <4>4. ToSet(due) = {due[i] : i \in 1 .. Len(due)}
        BY <2>2, ElementsAre
      <4>1. PICK k \in 1 .. Len(due) : x = due[k]
        BY <4>4
      <4>2. CASE k = 1
        <5>1. Head(due) = due[1]
          BY <2>2, <3>1, TailInOrder
        <5> QED
          BY <4>1, <4>2, <5>1
      <4>3. CASE k # 1
        <5>1. k - 1 \in 1 .. Len(Tail(due)) /\ Tail(due)[k - 1] = due[k] /\ Tail(due) \in Seq(Nat)
          BY <2>2, <3>1, <4>1, <4>3, HeadTailProperties
        <5> QED
          BY <4>1, <5>1, ElementIsIn
      <4> QED
        BY <4>2, <4>3
    <3>3. ToSet(ran) \subseteq ToSet(ran') /\ Head(due) \in ToSet(ran')
      <4>1. /\ ran' \in Seq(Nat) /\ Len(ran') = Len(ran) + 1 /\ ran'[Len(ran) + 1] = Head(due)
            /\ \A k \in 1 .. Len(ran) : ran'[k] = ran[k]
        BY <2>2, <3>1, TailInOrder, AppendProperties
      <4>2. ToSet(ran) \subseteq ToSet(ran')
        <5>1. Len(ran) <= Len(ran')
          BY <2>2, <4>1
        <5> QED
          BY <2>2, <4>1, <5>1, PrefixHolds
      <4>3. Len(ran) + 1 \in 1 .. Len(ran')
        BY <2>2, <4>1
      <4> QED
        BY <4>1, <4>2, <4>3, ElementIsIn
    <3> QED
      BY <3>1, <3>2, <3>3 DEF InHand
  <2>8. CASE EngineFrameEnds \/ PipeIsShut
    BY <2>1, <2>8 DEF EngineFrameEnds, PipeIsShut
  <2>9. CASE GameExits
    BY <2>9 DEF GameExits
  <2>10. CASE (\E c \in Clients : Client(c)) \/ TryAgain \/ ScriptIsThrough
    BY <2>1, <2>10 DEF Client, Ask, Open, GiveUp, Write, Close, TryAgain, ScriptIsThrough, Asks, hook
  <2> QED
    BY <1>1, <2>3, <2>4, <2>5, <2>6, <2>7, <2>8, <2>9, <2>10, Stepwise DEF ChannelStep, Engine
<1> QED
  BY <1>1, ChannelInvariant, PTL DEF Spec, NothingQueuedIsLost

=============================================================================
