------------------------------ MODULE MCMemory ------------------------------
(***************************************************************************)
(* The kernel's memory, the user-level allocator and the tests of system   *)
(* call arguments share nothing, so one of them is explored at a time.     *)
(***************************************************************************)
EXTENDS Memory, Umalloc, Args, TLC
CONSTANTS p0, p1
TwoProcs == {p0, p1}
Pages == 1 .. 15
Deltas == {-9, -4, 1, 4}
\* The pages of init and of the others are kept apart, which saves states.
LowOrHigh(p, S) == IF p = p0 THEN Min(S) ELSE Max(S)
Symmetry == Permutations(CPU)
VARIABLE part
MCInit ==
  /\ part \in {"kernel", "malloc", "args"}
  /\ Init /\ UmallocInit
  /\ ArgsInit /\ (part # "args" => procsz = 0)
MCNext ==
  \/ part = "kernel" /\ Next /\ UNCHANGED <<heapVars, argVars, part>>
  \/ part = "malloc" /\ UmallocNext /\ UNCHANGED <<vars, argVars, part>>
  \/ part = "args" /\ ArgsNext /\ UNCHANGED <<vars, heapVars, part>>
MCSpec == MCInit /\ [][MCNext]_<<vars, heapVars, argVars, part>>
=============================================================================
