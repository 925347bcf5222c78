------------------------------ MODULE MCFiles ------------------------------
(***************************************************************************)
(* The file table and the contents of files share nothing but the inode's  *)
(* lock, so one of them is explored at a time.                             *)
(***************************************************************************)
EXTENDS Files, Blocks
CONSTANTS p1, p2, g1
Lengths == [n \in Ino |-> IF n = 1 THEN {2, 8} ELSE {5}]
VARIABLE part
Init == FilesInit /\ BlocksInit /\ part \in {"table", "contents"}
Next ==
  \/ part = "table" /\ FilesNext /\ UNCHANGED <<blocksVars, part>>
  \/ part = "contents" /\ BlocksNext /\ UNCHANGED <<filesVars, part>>
Spec == Init /\ [][Next]_<<filesVars, blocksVars, part>>
=============================================================================
