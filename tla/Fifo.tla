-------------------------------- MODULE Fifo --------------------------------
(***************************************************************************)
(* What a pipe promises: a bounded first-in first-out queue of bytes.  The *)
(* ends are closed for good, a read end that is closed takes nothing more. *)
(***************************************************************************)
EXTENDS Naturals, Sequences

CONSTANTS Byte, Capacity

VARIABLES
  queue,      \* the bytes written and not yet read
  ends        \* the open ends of the pipe

vars == <<queue, ends>>

Init ==
  /\ queue = << >>
  /\ ends  = {"read", "write"}

Put(b) ==
  /\ "write" \in ends
  /\ Len(queue) < Capacity
  /\ queue' = Append(queue, b)
  /\ UNCHANGED ends

Get ==
  /\ "read" \in ends
  /\ queue # << >>
  /\ queue' = Tail(queue)
  /\ UNCHANGED ends

Close(e) ==
  /\ ends' = ends \ {e}
  /\ UNCHANGED queue

Next == Get \/ (\E b \in Byte : Put(b)) \/ (\E e \in ends : Close(e))

Spec == Init /\ [][Next]_vars

=============================================================================
