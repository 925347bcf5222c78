----------------------------- MODULE LineBuffer -----------------------------
(***************************************************************************)
(* What the console's input promises: a line is edited until it is ended   *)
(* (by a newline, an end of file, or because nothing more fits), and from  *)
(* then on its characters can only be taken, in the order they were typed. *)
(***************************************************************************)
EXTENDS Integers, Sequences

CONSTANTS Char, EndOfLine, Capacity

VARIABLES
  queue,   \* what readers may take
  line     \* what may still be edited

Init == queue = <<>> /\ line = <<>>

Type(c) ==
  /\ Len(queue) + Len(line) < Capacity
  /\ IF c \in EndOfLine \/ Len(queue) + Len(line) + 1 = Capacity
     THEN queue' = queue \o Append(line, c) /\ line' = <<>>
     ELSE line' = Append(line, c) /\ UNCHANGED queue

\* Characters are erased from the end of the line.
Erase == \E n \in 0 .. Len(line) : line' = SubSeq(line, 1, n) /\ UNCHANGED queue

Take == queue # <<>> /\ queue' = Tail(queue) /\ UNCHANGED line

Next == Erase \/ Take \/ \E c \in Char : Type(c)

Spec == Init /\ [][Next]_<<queue, line>>

=============================================================================
