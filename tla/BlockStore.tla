----------------------------- MODULE BlockStore -----------------------------
(***************************************************************************)
(* What the buffer cache promises to its clients: every block is a         *)
(* register that one process at a time has for itself, from bread() to     *)
(* brelse(), and whose last value the next process gets.                   *)
(***************************************************************************)
CONSTANTS Proc, Block, Value,
          None       \* the process does not have the block

VARIABLES
  content,   \* the value of each block
  view       \* what a process that has a block sees in it

vars == <<content, view>>

Init ==
  /\ content \in [Block -> Value]
  /\ view = [p \in Proc |-> [k \in Block |-> None]]

Get(p, k) ==
  /\ \A q \in Proc : view[q][k] = None
  /\ view' = [view EXCEPT ![p][k] = content[k]]
  /\ UNCHANGED content

Put(p, k, v) ==
  /\ view[p][k] # None
  /\ view' = [view EXCEPT ![p][k] = v]
  /\ content' = [content EXCEPT ![k] = v]

Drop(p, k) ==
  /\ view[p][k] # None
  /\ view' = [view EXCEPT ![p][k] = None]
  /\ UNCHANGED content

Next ==
  \E p \in Proc, k \in Block :
    \/ Get(p, k) \/ Drop(p, k)
    \/ \E v \in Value : Put(p, k, v)

Spec == Init /\ [][Next]_vars
=============================================================================
