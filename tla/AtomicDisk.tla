----------------------------- MODULE AtomicDisk -----------------------------
(***************************************************************************)
(* What the logging layer (log.c) promises to the file system: blocks that *)
(* system calls change between begin_op() and end_op() become durable all  *)
(* together, at a moment when no system call is in the middle of its       *)
(* changes; a crash takes every block back to its last durable contents.   *)
(* Readers always see the latest contents.                                 *)
(***************************************************************************)
CONSTANTS Process, Block, Data, Initial

VARIABLES
  durable,   \* contents of every block that survive a crash
  current,   \* contents of every block that a reader sees
  active     \* the processes between begin_op() and end_op()

vars == <<durable, current, active>>

Init ==
  /\ durable = [b \in Block |-> Initial]
  /\ current = durable
  /\ active  = {}

Begin(p) ==
  /\ p \notin active
  /\ active' = active \cup {p}
  /\ UNCHANGED <<durable, current>>

Write(p, b, d) ==
  /\ p \in active
  /\ current' = [current EXCEPT ![b] = d]
  /\ UNCHANGED <<durable, active>>

End(p) ==
  /\ p \in active
  /\ active' = active \ {p}
  /\ UNCHANGED <<durable, current>>

\* All changes made so far, and no half of a system call, become durable.
Commit ==
  /\ active = {}
  /\ durable' = current
  /\ UNCHANGED <<current, active>>

Crash ==
  /\ current' = durable
  /\ active' = {}
  /\ UNCHANGED durable

Next ==
  \/ \E p \in Process : \/ Begin(p) \/ End(p)
                        \/ \E b \in Block, d \in Data : Write(p, b, d)
  \/ Commit
  \/ Crash

Spec == Init /\ [][Next]_vars

=============================================================================
