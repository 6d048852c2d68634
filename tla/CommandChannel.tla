---------------------------- MODULE CommandChannel ----------------------------
(***************************************************************************)
(* What the console pipe promises whoever writes to it: a line is run at   *)
(* most once, whole, and in the order the lines were written.  It does not *)
(* promise that a line is run at all: there is no answer on the pipe, and  *)
(* the game may be gone before it comes to it.  Nor is it whole if it is   *)
(* longer than the pipe holds: then its beginning is lost, and what is run *)
(* as a line of its own, if anything, is its end.                          *)
(***************************************************************************)
EXTENDS Naturals, Sequences

CONSTANTS Lines, Overlong

VARIABLES
    sent,       \* the lines that were written
    cut,        \* the places in sent of the lines that have lost their beginning
    run         \* the places in sent of the lines the game has run, or the end of

vars == <<sent, cut, run>>

Init == sent = <<>> /\ cut = {} /\ run = <<>>

Send == /\ \E l \in Lines : sent' = Append(sent, l)
        /\ UNCHANGED <<cut, run>>

\* Later than every line run so far.
Comes(i) == i \in 1 .. Len(sent) /\ \A j \in 1 .. Len(run) : run[j] < i

Cut == /\ \E i \in 1 .. Len(sent) :
            Comes(i) /\ sent[i] = Overlong /\ cut' = cut \cup {i}
       /\ UNCHANGED <<sent, run>>

\* Whole, or of an overlong line the end.
Run == /\ \E i \in 1 .. Len(sent) :
            /\ Comes(i) /\ (sent[i] = Overlong => i \in cut)
            /\ run' = Append(run, i)
       /\ UNCHANGED <<sent, cut>>

Next == Send \/ Cut \/ Run

Spec == Init /\ [][Next]_vars

=============================================================================
