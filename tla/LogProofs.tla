------------------------------ MODULE LogProofs ------------------------------
(***************************************************************************)
(* The log reserves enough space and implements the atomic disk, for every *)
(* number of processes, blocks and calls the log has room for.  LogInv is  *)
(* inductive; the refinement of AtomicDisk follows from it step by step.   *)
(***************************************************************************)
EXTENDS Log, FiniteSetTheorems, TLAPS

CommitLabels   == {"write_log", "write_head", "install", "erase", "finish"}
RecoveryLabels == {"read_head", "reinstall", "reerase"}
CallLabels     == {"op", "check", "append", "panic"}

\* One process at a time commits or recovers.  No call is active during a commit,
\* and recovery is alone in the machine.
ControlInv ==
  /\ \A p, q \in Process : pc[p] \in CommitLabels \cup RecoveryLabels =>
                             (pc[q] \in CommitLabels \cup RecoveryLabels => p = q)
  /\ committing = 1 <=> \E p \in Process : pc[p] \in CommitLabels
  /\ \A p, q \in Process : pc[p] \in CommitLabels => pc[q] \notin CallLabels
  /\ \A p, q \in Process : pc[p] \in RecoveryLabels => q = p \/ pc[q] = "down"
  /\ \A q \in Process : pc[q] = "down" => \E p \in Process : pc[p] \in RecoveryLabels

\* The buffer that a call has locked, and the blocks it has changed.
CallInv ==
  \A p \in Process :
    /\ pc[p] \in {"check", "append", "panic"} <=> target[p] # Absent
    /\ target[p] # Absent => target[p] \in wrote[p]
    /\ pc[p] \notin CallLabels => wrote[p] = {}
    /\ Cardinality(wrote[p]) <= MAXOPBLOCKS
    /\ pc[p] \in {"write_log", "install", "reinstall"} => tail[p] <= Len(lh)
    /\ pc[p] \notin {"write_log", "install", "reinstall"} => tail[p] = 1

\* The blocks that the calls A may still change, have changed, and have changed
\* without a place among the blocks L of the transaction.
Free(A, w)        == {t \in A \X (1 .. MAXOPBLOCKS) : t[2] > Cardinality(w[t[1]])}
Used(A, w)        == {t \in A \X Block : t[2] \in w[t[1]]}
Unlogged(A, w, L) == {t \in A \X Block : t[2] \in w[t[1]] /\ t[2] \notin L}

\* The blocks of a transaction.
Blocks(h) == {h[i] : i \in 1 .. Len(h)}

SpaceInv ==
  /\ outstanding = Cardinality(Active)
  /\ Cardinality(Free(Active, wrote)) + Cardinality(Used(Active, wrote))
       = outstanding * MAXOPBLOCKS
  /\ Len(lh) + Cardinality(Free(Active, wrote)) + Cardinality(Unlogged(Active, wrote, Blocks(lh)))
       <= LOGSIZE

Injective(h) == \A i, j \in 1 .. Len(h) : h[i] = h[j] => i = j

\* The header on disk is that of the transaction from write_head() on, and
\* empty otherwise.
HeaderInv ==
  /\ Injective(lh) /\ Injective(header) /\ Len(header) < LOGSIZE
  /\ header = << >> \/ \E p \in Process : pc[p] \in {"install", "erase"} \cup RecoveryLabels
  /\ \A p \in Process :
       /\ pc[p] \in {"install", "erase", "reinstall", "reerase"} => lh = header
       /\ pc[p] \in {"write_log", "write_head", "install", "reinstall"} => lh # << >>
       /\ pc[p] = "write_head" => Len(lh) < LOGSIZE
       /\ pc[p] \in {"finish", "read_head"} => lh = << >>

\* The pinned buffers are those of the transaction that are not yet home.
DirtyInv ==
  /\ \A b \in Block : b \in dirty \/ Locked(b) => buf[b] # Absent
  /\ (\A p \in Process : pc[p] \notin {"install", "erase"} \cup RecoveryLabels)
       => dirty = Blocks(lh)
  /\ \A p \in Process :
       /\ pc[p] = "install" => dirty = {lh[i] : i \in tail[p] .. Len(lh)}
       /\ pc[p] \in {"erase"} \cup RecoveryLabels => dirty = {}

\* A buffer that is neither pinned nor locked holds what a crash would leave of
\* its block, and from write_head() on every buffer does.
CoherentInv ==
  \A b \in Block :
    (/\ buf[b] # Absent /\ ~Locked(b)
     /\ b \notin dirty \/ \E p \in Process : pc[p] = "install")
    => buf[b] = AfterRecovery(b)

\* How far the copying loops of commit() and recovery are.
CopyInv ==
  \A p \in Process :
    /\ pc[p] = "write_log" => \A i \in 1 .. tail[p] - 1 : i \in LogSlot /\ logblock[i] = buf[lh[i]]
    /\ pc[p] = "write_head" => \A i \in 1 .. Len(lh) : logblock[i] = buf[lh[i]]
    /\ pc[p] \in {"install", "reinstall"} => \A i \in 1 .. tail[p] - 1 : disk[lh[i]] = logblock[i]
    /\ pc[p] \in {"erase", "reerase"} => \A i \in 1 .. Len(lh) : disk[lh[i]] = logblock[i]

LogInv ==
  /\ TypeOK
  /\ ControlInv
  /\ CallInv
  /\ SpaceInv
  /\ HeaderInv
  /\ DirtyInv
  /\ CoherentInv
  /\ CopyInv

------------------------------------------------------------------------------
(* Counting what the active calls may still log *)

Rows(A, D, F) == {t \in A \X D : t[2] \in F[t[1]]}

\* A set of pairs is the row of p and the rows of the others.
LEMMA RowSplit ==
  ASSUME NEW A, IsFiniteSet(A), NEW D, IsFiniteSet(D), NEW p \in A, NEW F, F[p] \subseteq D
  PROVE  /\ IsFiniteSet(Rows(A \ {p}, D, F)) /\ IsFiniteSet(F[p])
         /\ Cardinality(Rows(A, D, F)) = Cardinality(Rows(A \ {p}, D, F)) + Cardinality(F[p])
<1> DEFINE S == Rows(A, D, F)
           R == Rows(A \ {p}, D, F)
           Q == {p} \X F[p]
<1>1. IsFiniteSet(A \X D)  BY FS_Product
<1>2. IsFiniteSet(R) /\ IsFiniteSet(F[p]) /\ IsFiniteSet({p})
  <2>1. R \subseteq A \X D  BY DEF Rows
  <2> QED  BY <1>1, <2>1, FS_Subset, FS_Singleton
<1>3. IsFiniteSet(Q) /\ Cardinality(Q) = Cardinality(F[p])
  <2>1. Cardinality({p}) = 1  BY FS_Singleton
  <2>2. IsFiniteSet(Q) /\ Cardinality(Q) = Cardinality({p}) * Cardinality(F[p])  BY <1>2, FS_Product
  <2>3. Cardinality(F[p]) \in Nat  BY <1>2, FS_CardinalityType
  <2> QED  BY <2>1, <2>2, <2>3
<1>4. S = R \cup Q  BY DEF Rows
<1>5. R \cap Q = {}  BY DEF Rows
<1>6. Cardinality(R \cap Q) = 0  BY <1>5, FS_EmptySet
<1>7. Cardinality(R) \in Nat /\ Cardinality(F[p]) \in Nat  BY <1>2, FS_CardinalityType
<1>8. Cardinality(R \cup Q) = Cardinality(R) + Cardinality(Q) - Cardinality(R \cap Q)
  BY <1>2, <1>3, FS_Union
<1>9. Cardinality(S) = Cardinality(R) + Cardinality(F[p])
  <2> HIDE DEF S, R, Q
  <2> QED  BY <1>3, <1>4, <1>6, <1>7, <1>8
<1> QED  BY <1>2, <1>9

\* The free updates of p and of the others.
LEMMA FreeRow ==
  ASSUME NEW A, IsFiniteSet(A), NEW p \in A, NEW w, Cardinality(w[p]) \in 0 .. MAXOPBLOCKS
  PROVE  /\ Cardinality(Free(A \ {p}, w)) \in Nat
         /\ Cardinality(Free(A, w)) = Cardinality(Free(A \ {p}, w)) + MAXOPBLOCKS - Cardinality(w[p])
<1> USE LogAssumption
<1> DEFINE n == Cardinality(w[p])
           D == 1 .. MAXOPBLOCKS
           F == [q \in A |-> {i \in D : i > Cardinality(w[q])}]
<1>1. F[p] = n + 1 .. MAXOPBLOCKS  OBVIOUS
<1>2. Cardinality(F[p]) = MAXOPBLOCKS - n
  <2>1. n + 1 \in Int /\ MAXOPBLOCKS \in Int /\ n \in 0 .. MAXOPBLOCKS  OBVIOUS
  <2> HIDE DEF n, F
  <2>2. Cardinality(n + 1 .. MAXOPBLOCKS)
          = IF n + 1 > MAXOPBLOCKS THEN 0 ELSE MAXOPBLOCKS - (n + 1) + 1
    BY <2>1, FS_Interval
  <2> QED  BY <1>1, <2>1, <2>2
<1>4. IsFiniteSet(D) /\ F[p] \subseteq D  BY FS_Interval
<1>5. Rows(A, D, F) = Free(A, w) /\ Rows(A \ {p}, D, F) = Free(A \ {p}, w)  BY DEF Rows, Free
<1>6. n \in 0 .. MAXOPBLOCKS  OBVIOUS
<1> HIDE DEF F, n, D
<1>7. /\ IsFiniteSet(Free(A \ {p}, w))
      /\ Cardinality(Free(A, w)) = Cardinality(Free(A \ {p}, w)) + Cardinality(F[p])
  BY <1>4, <1>5, RowSplit
<1>8. Cardinality(Free(A \ {p}, w)) \in Nat  BY <1>7, FS_CardinalityType
<1>9. Cardinality(Free(A, w)) = Cardinality(Free(A \ {p}, w)) + MAXOPBLOCKS - n
  BY <1>2, <1>6, <1>7, <1>8
<1> QED  BY <1>8, <1>9 DEF n

\* The changes of p and of the others.
LEMMA UsedRow ==
  ASSUME NEW A, IsFiniteSet(A), NEW p \in A, NEW w, w[p] \subseteq Block
  PROVE  /\ Cardinality(Used(A \ {p}, w)) \in Nat /\ Cardinality(w[p]) \in Nat
         /\ Cardinality(Used(A, w)) = Cardinality(Used(A \ {p}, w)) + Cardinality(w[p])
<1>1. Used(A, w) = Rows(A, Block, w) /\ Used(A \ {p}, w) = Rows(A \ {p}, Block, w)  BY DEF Used, Rows
<1>2. IsFiniteSet(Block)  BY LogAssumption
<1>3. /\ IsFiniteSet(Rows(A \ {p}, Block, w)) /\ IsFiniteSet(w[p])
      /\ Cardinality(Rows(A, Block, w)) = Cardinality(Rows(A \ {p}, Block, w)) + Cardinality(w[p])
  BY <1>2, RowSplit
<1>4. /\ IsFiniteSet(Used(A \ {p}, w)) /\ IsFiniteSet(w[p])
      /\ Cardinality(Used(A, w)) = Cardinality(Used(A \ {p}, w)) + Cardinality(w[p])
  BY <1>1, <1>3, Zenon
<1> QED  BY <1>4, FS_CardinalityType

\* Nobody is active.
LEMMA NoRows ==
  ASSUME NEW w, NEW L
  PROVE  /\ Cardinality(Free({}, w)) = 0 /\ Cardinality(Used({}, w)) = 0
         /\ Cardinality(Unlogged({}, w, L)) = 0
<1>1. Free({}, w) = {} /\ Used({}, w) = {} /\ Unlogged({}, w, L) = {}
  BY DEF Free, Used, Unlogged
<1> QED  BY <1>1, FS_EmptySet

\* The counts depend on the sets of the calls counted.
LEMMA SameRows ==
  ASSUME NEW A, NEW w, NEW v, \A q \in A : w[q] = v[q], NEW L
  PROVE  Free(A, w) = Free(A, v) /\ Used(A, w) = Used(A, v) /\ Unlogged(A, w, L) = Unlogged(A, v, L)
BY DEF Free, Used, Unlogged

\* The counts are numbers, and what is not logged is part of what is used.
LEMMA RowsFinite ==
  ASSUME NEW A, IsFiniteSet(A), NEW w, NEW L
  PROVE  /\ IsFiniteSet(Unlogged(A, w, L))
         /\ Cardinality(Unlogged(A, w, L)) \in Nat
         /\ Cardinality(Used(A, w)) \in Nat
         /\ Cardinality(Free(A, w)) \in Nat
         /\ Cardinality(Unlogged(A, w, L)) <= Cardinality(Used(A, w))
<1>1. IsFiniteSet(A \X Block)  BY LogAssumption, FS_Product
<1>2. IsFiniteSet(A \X (1 .. MAXOPBLOCKS))
  <2>1. IsFiniteSet(1 .. MAXOPBLOCKS)  BY LogAssumption, FS_Interval
  <2> QED  BY <2>1, FS_Product
<1>3. /\ Unlogged(A, w, L) \subseteq Used(A, w) /\ Used(A, w) \subseteq A \X Block
      /\ Free(A, w) \subseteq A \X (1 .. MAXOPBLOCKS)
  BY DEF Unlogged, Used, Free
<1>4. IsFiniteSet(Used(A, w)) /\ IsFiniteSet(Free(A, w))  BY <1>1, <1>2, <1>3, FS_Subset
<1>5. /\ IsFiniteSet(Unlogged(A, w, L))
      /\ Cardinality(Unlogged(A, w, L)) <= Cardinality(Used(A, w))
  BY <1>3, <1>4, FS_Subset
<1> QED  BY <1>4, <1>5, FS_CardinalityType

\* A call changes a block.
LEMMA UnloggedMore ==
  ASSUME NEW A, IsFiniteSet(A), NEW w, NEW v, NEW L, NEW p, NEW b,
         \A q \in A \ {p} : v[q] \subseteq w[q], v[p] \subseteq w[p] \cup {b}
  PROVE  Cardinality(Unlogged(A, v, L)) <= Cardinality(Unlogged(A, w, L)) + 1
<1> DEFINE U == Unlogged(A, w, L)
           V == Unlogged(A, v, L)
           T == U \cup {<<p, b>>}
<1>1. V \subseteq T  BY DEF Unlogged
<1>2. IsFiniteSet(U) /\ Cardinality(U) \in Nat /\ Cardinality(V) \in Nat  BY RowsFinite
<1> HIDE DEF U, V
<1>3. /\ IsFiniteSet(T)
      /\ Cardinality(T) = Cardinality(U) \/ Cardinality(T) = Cardinality(U) + 1
  BY <1>2, FS_AddElement
<1>4. Cardinality(V) <= Cardinality(T)  BY <1>1, <1>3, FS_Subset
<1>5. Cardinality(V) <= Cardinality(U) + 1
  <2> HIDE DEF T
  <2> QED  BY <1>2, <1>3, <1>4
<1> QED  BY <1>5 DEF U, V

\* A block gets its place in the transaction.
LEMMA UnloggedLess ==
  ASSUME NEW A, IsFiniteSet(A), NEW w, NEW L, NEW p \in A, NEW b \in Block, b \in w[p], b \notin L
  PROVE  Cardinality(Unlogged(A, w, L \cup {b})) + 1 <= Cardinality(Unlogged(A, w, L))
<1> DEFINE U == Unlogged(A, w, L)
           V == Unlogged(A, w, L \cup {b})
           T == U \ {<<p, b>>}
<1>1. V \subseteq T /\ <<p, b>> \in U  BY DEF Unlogged
<1>2. IsFiniteSet(U) /\ Cardinality(U) \in Nat /\ Cardinality(V) \in Nat  BY RowsFinite
<1> HIDE DEF U, V
<1>3. IsFiniteSet(T) /\ Cardinality(T) = Cardinality(U) - 1  BY <1>1, <1>2, FS_RemoveElement
<1>4. Cardinality(V) <= Cardinality(T)  BY <1>1, <1>3, FS_Subset
<1>5. Cardinality(V) + 1 <= Cardinality(U)
  <2> HIDE DEF T
  <2> QED  BY <1>2, <1>3, <1>4
<1> QED  BY <1>5 DEF U, V

\* A call ends.
LEMMA UnloggedGone ==
  ASSUME NEW A, IsFiniteSet(A), NEW w, NEW L, NEW p
  PROVE  Cardinality(Unlogged(A \ {p}, w, L)) <= Cardinality(Unlogged(A, w, L))
<1>1. Unlogged(A \ {p}, w, L) \subseteq Unlogged(A, w, L)  BY DEF Unlogged
<1> QED  BY <1>1, RowsFinite, FS_Subset

\* A call starts: all its updates are still to come.
LEMMA RowsBegin ==
  ASSUME NEW A, IsFiniteSet(A), NEW p, p \notin A, NEW w, w[p] = {}
  PROVE  /\ Cardinality(A \cup {p}) = Cardinality(A) + 1
         /\ Cardinality(Free(A \cup {p}, w)) = Cardinality(Free(A, w)) + MAXOPBLOCKS
         /\ Cardinality(Used(A \cup {p}, w)) = Cardinality(Used(A, w))
<1> DEFINE B == A \cup {p}
<1>1. p \in B /\ B \ {p} = A  OBVIOUS
<1>2. IsFiniteSet(B) /\ Cardinality(B) = Cardinality(A) + 1  BY FS_AddElement
<1>3. Used(B, w) = Used(A, w)  BY DEF Used
<1> HIDE DEF B
<1>4. Cardinality(w[p]) = 0 /\ Cardinality(w[p]) \in 0 .. MAXOPBLOCKS /\ MAXOPBLOCKS \in Nat
  BY FS_EmptySet, LogAssumption
<1>5. /\ Cardinality(Free(B \ {p}, w)) \in Nat
      /\ Cardinality(Free(B, w)) = Cardinality(Free(B \ {p}, w)) + MAXOPBLOCKS - Cardinality(w[p])
  BY <1>1, <1>2, <1>4, FreeRow
<1>6. Cardinality(Free(B \ {p}, w)) = Cardinality(Free(A, w))  BY <1>1, Zenon
<1>7. Cardinality(Free(B, w)) = Cardinality(Free(A, w)) + MAXOPBLOCKS  BY <1>4, <1>5, <1>6
<1>8. Cardinality(Used(B, w)) = Cardinality(Used(A, w))  BY <1>3, Zenon
<1> QED  BY <1>2, <1>7, <1>8 DEF B

\* A call changes one more block.
LEMMA RowsModify ==
  ASSUME NEW A, IsFiniteSet(A), NEW p \in A, NEW w, NEW v, NEW b \in Block, NEW L,
         w[p] \subseteq Block, b \notin w[p], v[p] = w[p] \cup {b},
         Cardinality(w[p]) < MAXOPBLOCKS, \A q \in A \ {p} : w[q] = v[q]
  PROVE  /\ Cardinality(Free(A, v)) = Cardinality(Free(A, w)) - 1
         /\ Cardinality(Used(A, v)) = Cardinality(Used(A, w)) + 1
         /\ Cardinality(Unlogged(A, v, L)) <= Cardinality(Unlogged(A, w, L)) + 1
<1> USE LogAssumption
<1> DEFINE n == Cardinality(w[p])
<1>1. IsFiniteSet(w[p]) /\ n \in Nat  BY FS_Subset, FS_CardinalityType
<1>2. Cardinality(v[p]) = n + 1  BY <1>1, FS_AddElement
<1>3. Free(A \ {p}, w) = Free(A \ {p}, v) /\ Used(A \ {p}, w) = Used(A \ {p}, v)  BY SameRows
<1>4. n \in 0 .. MAXOPBLOCKS /\ Cardinality(v[p]) \in 0 .. MAXOPBLOCKS /\ v[p] \subseteq Block
  BY <1>1, <1>2
<1>5. /\ Cardinality(Free(A \ {p}, w)) \in Nat
      /\ Cardinality(Free(A, w)) = Cardinality(Free(A \ {p}, w)) + MAXOPBLOCKS - n
  BY <1>4, FreeRow
<1>6. Cardinality(Free(A, v)) = Cardinality(Free(A \ {p}, v)) + MAXOPBLOCKS - Cardinality(v[p])
  BY <1>4, FreeRow
<1>7. /\ Cardinality(Used(A \ {p}, w)) \in Nat
      /\ Cardinality(Used(A, w)) = Cardinality(Used(A \ {p}, w)) + n
  BY UsedRow
<1>8. Cardinality(Used(A, v)) = Cardinality(Used(A \ {p}, v)) + Cardinality(v[p])
  BY <1>4, UsedRow
<1>9. Cardinality(Unlogged(A, v, L)) <= Cardinality(Unlogged(A, w, L)) + 1
  BY UnloggedMore
<1> HIDE DEF n
<1>10. Cardinality(Free(A, v)) = Cardinality(Free(A, w)) - 1
  BY <1>1, <1>2, <1>3, <1>5, <1>6
<1>11. Cardinality(Used(A, v)) = Cardinality(Used(A, w)) + 1
  BY <1>1, <1>2, <1>3, <1>7, <1>8
<1> QED  BY <1>9, <1>10, <1>11

\* A call ends and gives back what it has reserved.
LEMMA RowsEnd ==
  ASSUME NEW A, IsFiniteSet(A), NEW p \in A, NEW w,
         w[p] \subseteq Block, Cardinality(w[p]) \in 0 .. MAXOPBLOCKS
  PROVE  /\ Cardinality(A \ {p}) = Cardinality(A) - 1
         /\ Cardinality(Free(A \ {p}, w)) + Cardinality(Used(A \ {p}, w))
              = Cardinality(Free(A, w)) + Cardinality(Used(A, w)) - MAXOPBLOCKS
         /\ Cardinality(Free(A \ {p}, w)) <= Cardinality(Free(A, w))
<1> USE LogAssumption
<1>1. Cardinality(A \ {p}) = Cardinality(A) - 1  BY FS_RemoveElement
<1>2. /\ Cardinality(Free(A \ {p}, w)) \in Nat
      /\ Cardinality(Free(A, w)) = Cardinality(Free(A \ {p}, w)) + MAXOPBLOCKS - Cardinality(w[p])
  BY FreeRow
<1>3. /\ Cardinality(Used(A \ {p}, w)) \in Nat
      /\ Cardinality(Used(A, w)) = Cardinality(Used(A \ {p}, w)) + Cardinality(w[p])
  BY UsedRow
<1> QED  BY <1>1, <1>2, <1>3


------------------------------------------------------------------------------
(* What the parts of LogInv say together *)

\* The contents of b after recovery with header h, log l and home locations d.
Recovery(h, l, d, b) ==
  IF \E i \in 1 .. Len(h) : h[i] = b THEN l[CHOOSE i \in 1 .. Len(h) : h[i] = b] ELSE d[b]

LEMMA AfterIsRecovery ==
  ASSUME NEW b
  PROVE  /\ AfterRecovery(b) = Recovery(header, logblock, disk, b)
         /\ AfterRecovery(b)' = Recovery(header', logblock', disk', b)
BY Zenon DEF AfterRecovery, Recovery

\* The logged contents of the blocks in the header, and the home locations of the
\* others.
LEMMA RecoveredContents ==
  ASSUME NEW h \in Seq(Block), Injective(h), NEW l, NEW d
  PROVE  /\ \A i \in 1 .. Len(h) : Recovery(h, l, d, h[i]) = l[i]
         /\ \A b \in Block : b \notin Blocks(h) => Recovery(h, l, d, b) = d[b]
<1>1. ASSUME NEW i \in 1 .. Len(h) PROVE Recovery(h, l, d, h[i]) = l[i]
  <2>1. \E j \in 1 .. Len(h) : h[j] = h[i]  OBVIOUS
  <2>2. (CHOOSE j \in 1 .. Len(h) : h[j] = h[i]) = i
    BY <2>1 DEF Injective
  <2> QED  BY <2>1, <2>2, Zenon DEF Recovery
<1>2. \A b \in Block : b \notin Blocks(h) => Recovery(h, l, d, b) = d[b]
  BY DEF Blocks, Recovery
<1> QED  BY <1>1, <1>2

LEMMA SameRecovery ==
  ASSUME UNCHANGED stable
  PROVE  \A b \in Block : AfterRecovery(b)' = AfterRecovery(b)
BY AfterIsRecovery DEF stable

LEMMA ActiveCalls ==
  ASSUME TypeOK, CallInv
  PROVE  Active = {p \in Process : pc[p] \in CallLabels} /\ IsFiniteSet(Active)
<1>1. Active = {p \in Process : pc[p] \in CallLabels}  BY DEF TypeOK, CallInv, Active, CallLabels
<1>2. Active \subseteq Process  BY DEF Active
<1> QED  BY <1>1, <1>2, LogAssumption, FS_Subset

\* Nobody else does anything during a commit.
LEMMA CommitStage ==
  ASSUME LogInv, NEW p \in Process, pc[p] \in CommitLabels
  PROVE  /\ \A q \in Process \ {p} : pc[q] \in {"idle", "begin_op", "sleep"}
         /\ \A b \in Block : ~Locked(b)
         /\ Active = {} /\ outstanding = 0 /\ committing = 1
         /\ pc[p] \in {"write_log", "write_head"} =>
              /\ header = << >> /\ dirty = Blocks(lh)
              /\ \A i \in 1 .. Len(lh) : lh[i] \in dirty /\ buf[lh[i]] # Absent
<1> USE DEF LogInv, TypeOK, CommitLabels, RecoveryLabels, CallLabels
<1>1. \A q \in Process \ {p} : pc[q] \in {"idle", "begin_op", "sleep"}
  BY DEF ControlInv, Labels
<1>2. \A b \in Block : ~Locked(b)  BY DEF ControlInv, Locked
<1>3. Active = {}  BY ActiveCalls DEF ControlInv
<1>4. outstanding = 0  BY <1>3, FS_EmptySet DEF SpaceInv
<1>5. committing = 1  BY DEF ControlInv
<1>6. ASSUME pc[p] \in {"write_log", "write_head"}
      PROVE  /\ header = << >> /\ dirty = Blocks(lh)
             /\ \A i \in 1 .. Len(lh) : lh[i] \in dirty /\ buf[lh[i]] # Absent
  <2>1. \A q \in Process : pc[q] \notin {"install", "erase"} \cup RecoveryLabels  BY <1>1, <1>6
  <2>2. header = << >> /\ dirty = Blocks(lh)  BY <2>1 DEF HeaderInv, DirtyInv
  <2>3. \A i \in 1 .. Len(lh) : lh[i] \in dirty /\ lh[i] \in Block  BY <2>2 DEF Blocks
  <2> QED  BY <2>2, <2>3 DEF DirtyInv
<1> QED  BY <1>1, <1>2, <1>3, <1>4, <1>5, <1>6

\* Recovery is alone.
LEMMA RecoveryStage ==
  ASSUME LogInv, NEW p \in Process, pc[p] \in RecoveryLabels
  PROVE  /\ \A q \in Process \ {p} : pc[q] = "down"
         /\ \A b \in Block : ~Locked(b)
         /\ Active = {} /\ outstanding = 0 /\ committing = 0 /\ dirty = {}
<1> USE DEF LogInv, TypeOK, CommitLabels, RecoveryLabels, CallLabels
<1>1. \A q \in Process \ {p} : pc[q] = "down"  BY DEF ControlInv
<1>2. \A b \in Block : ~Locked(b)  BY <1>1 DEF Locked
<1>3. Active = {}  BY <1>1, ActiveCalls
<1>4. outstanding = 0  BY <1>3, FS_EmptySet DEF SpaceInv
<1>5. committing = 0  BY <1>1 DEF ControlInv
<1>6. dirty = {}  BY DEF DirtyInv
<1> QED  BY <1>1, <1>2, <1>3, <1>4, <1>5, <1>6

\* While a call is active nothing is committed or recovered.
LEMMA CallStage ==
  ASSUME LogInv, NEW p \in Process, pc[p] \in CallLabels
  PROVE  /\ \A q \in Process : pc[q] \in {"idle", "begin_op", "sleep"} \cup CallLabels
         /\ p \in Active /\ committing = 0
         /\ header = << >> /\ dirty = Blocks(lh)
<1> USE DEF LogInv, TypeOK, CommitLabels, RecoveryLabels, CallLabels
<1>1. \A q \in Process : pc[q] \in {"idle", "begin_op", "sleep"} \cup CallLabels
  BY DEF ControlInv, Labels
<1>2. p \in Active  BY ActiveCalls
<1>3. committing = 0  BY <1>1 DEF ControlInv
<1>4. header = << >> /\ dirty = Blocks(lh)  BY <1>1 DEF HeaderInv, DirtyInv
<1> QED  BY <1>1, <1>2, <1>3, <1>4

LEMMA SameSpace ==
  ASSUME SpaceInv, Active' = Active, UNCHANGED <<wrote, lh, outstanding>>
  PROVE  SpaceInv'
BY Zenon DEF SpaceInv, Blocks

\* Outside of calls nothing is reserved.
LEMMA QuietSpace ==
  ASSUME Active' = {}, outstanding' = 0, Len(lh') \in Nat, Len(lh') <= LOGSIZE
  PROVE  SpaceInv'
<1>1. Cardinality(Active') = 0  BY FS_EmptySet
<1>2. /\ Cardinality(Free(Active', wrote')) = 0 /\ Cardinality(Used(Active', wrote')) = 0
      /\ Cardinality(Unlogged(Active', wrote', Blocks(lh'))) = 0
  BY NoRows
<1>3. LOGSIZE \in Int /\ outstanding' * MAXOPBLOCKS = 0  BY LogAssumption DEF LOGSIZE
<1> QED  BY <1>1, <1>2, <1>3 DEF SpaceInv, Blocks

LEMMA LogSize == LOGSIZE \in Nat \ {0} /\ LogSlot = 1 .. LOGSIZE - 1
BY LogAssumption DEF LOGSIZE, LogSlot, nlog

LEMMA EmptyHeader ==
  ASSUME NEW l, NEW d, NEW b
  PROVE  Recovery(<< >>, l, d, b) = d[b]
BY DEF Recovery

LEMMA HeaderContents ==
  ASSUME TypeOK, Injective(header)
  PROVE  /\ \A i \in 1 .. Len(header) : AfterRecovery(header[i]) = logblock[i]
         /\ \A b \in Block : b \notin Blocks(header) => AfterRecovery(b) = disk[b]
<1>1. header \in Seq(Block)  BY DEF TypeOK
<1>2. /\ \A i \in 1 .. Len(header) : Recovery(header, logblock, disk, header[i]) = logblock[i]
      /\ \A b \in Block : b \notin Blocks(header) => Recovery(header, logblock, disk, b) = disk[b]
  BY <1>1, RecoveredContents
<1> QED  BY <1>2, AfterIsRecovery

\* Everything is home.
LEMMA AllHome ==
  ASSUME LogInv, header = << >> \/ \E p \in Process : pc[p] \in {"erase", "reerase"}
  PROVE  \A b \in Block : AfterRecovery(b) = disk[b]
<1>1. CASE header = << >>
  BY <1>1, AfterIsRecovery, EmptyHeader
<1>2. ASSUME NEW p \in Process, pc[p] \in {"erase", "reerase"}, NEW b \in Block
      PROVE  AfterRecovery(b) = disk[b]
  <2>1. Injective(header) /\ lh = header  BY <1>2 DEF LogInv, HeaderInv
  <2>2. \A i \in 1 .. Len(header) : disk[header[i]] = logblock[i]
    BY <1>2, <2>1 DEF LogInv, CopyInv
  <2>3. /\ \A i \in 1 .. Len(header) : AfterRecovery(header[i]) = logblock[i]
        /\ b \notin Blocks(header) => AfterRecovery(b) = disk[b]
    BY <1>2, <2>1, HeaderContents DEF LogInv
  <2> QED  BY <2>2, <2>3 DEF Blocks
<1> QED  BY <1>1, <1>2

LEMMA Fits ==
  ASSUME LogInv
  PROVE  SpaceReserved /\ Len(lh) <= LOGSIZE
<1>1. IsFiniteSet(Active)  BY ActiveCalls DEF LogInv
<1>2. /\ Cardinality(Free(Active, wrote)) \in Nat
      /\ Cardinality(Unlogged(Active, wrote, Blocks(lh))) \in Nat
  BY <1>1, RowsFinite
<1>3. Promised = Free(Active, wrote)  BY DEF Promised, Free
<1>4. Len(lh) \in Nat  BY DEF LogInv, TypeOK
<1> QED  BY <1>2, <1>3, <1>4, LogSize DEF LogInv, SpaceInv, SpaceReserved

------------------------------------------------------------------------------
(* The steps of AtomicDisk, in terms of what the log keeps *)

SameContents ==
  \A b \in Block : AfterRecovery(b)' = AfterRecovery(b) /\ Visible(b)' = Visible(b)

\* A stutter.
Unseen == SameContents /\ Active' = Active

Begins(p) == SameContents /\ p \notin Active /\ Active' = Active \cup {p}

Ends(p) == SameContents /\ p \in Active /\ Active' = Active \ {p}

Writes(p, b, d) ==
  /\ p \in Active /\ Active' = Active
  /\ \A c \in Block : /\ AfterRecovery(c)' = AfterRecovery(c)
                       /\ Visible(c)' = IF c = b THEN d ELSE Visible(c)

Commits ==
  /\ Active = {} /\ Active' = {}
  /\ \A b \in Block : AfterRecovery(b)' = Visible(b) /\ Visible(b)' = Visible(b)

Crashes ==
  /\ Active' = {}
  /\ \A b \in Block : AfterRecovery(b)' = AfterRecovery(b) /\ Visible(b)' = AfterRecovery(b)

------------------------------------------------------------------------------
(* Every action preserves LogInv *)

\* A buffer is read from home.
LEMMA ReadInv ==
  ASSUME LogInv, NEW b \in Block, Read(b)
  PROVE  LogInv' /\ Unseen
<1> USE LogAssumption DEF LogInv, TypeOK, Read, stable
<1>a. AfterRecovery(b) = disk[b]
  <2>1. header \in Seq(Block) /\ Injective(header)  BY DEF HeaderInv
  <2>2. CASE b \notin Blocks(header)  BY <2>1, <2>2, RecoveredContents, AfterIsRecovery
  <2>3. ASSUME NEW i \in 1 .. Len(header), b = header[i] PROVE AfterRecovery(b) = disk[b]
    <3>1. PICK p \in Process : pc[p] \in {"install", "erase"}
      BY <2>3 DEF HeaderInv, ControlInv, RecoveryLabels
    <3>2. lh = header /\ b = lh[i]  BY <2>3, <3>1 DEF HeaderInv
    <3>3. AfterRecovery(b) = logblock[i]  BY <2>1, <2>3, RecoveredContents, AfterIsRecovery
    <3>4. pc[p] = "install" => i < tail[p]  BY <3>2 DEF DirtyInv
    <3> QED  BY <3>1, <3>2, <3>3, <3>4 DEF CopyInv
  <2> QED  BY <2>2, <2>3 DEF Blocks
<1>1. TypeOK'  BY LogSize DEF Labels
<1>2. ControlInv'  BY DEF ControlInv, CommitLabels, RecoveryLabels, CallLabels
<1>3. CallInv'  BY DEF CallInv, CallLabels
<1>4. SpaceInv'
  <2>1. Active' = Active  BY DEF Active, CallInv
  <2> QED  BY <2>1, SameSpace
<1>5. HeaderInv'  BY DEF HeaderInv, Injective, RecoveryLabels
<1>6. DirtyInv'  BY DEF DirtyInv, Locked, Blocks, RecoveryLabels
<1>7. CoherentInv'
  <2>1. \A c \in Block : AfterRecovery(c)' = AfterRecovery(c)  BY SameRecovery
  <2> QED  BY <1>a, <2>1 DEF CoherentInv, Locked
<1>8. CopyInv'
  <2>1. \A p \in Process : pc[p] \in {"write_log", "write_head"} =>
          \A i \in 1 .. Len(lh) : buf[lh[i]] # Absent
    BY CommitStage DEF CommitLabels
  <2> QED  BY <2>1 DEF CopyInv, CallInv
<1>9. Unseen
  <2>1. Active' = Active  BY DEF Active, CallInv
  <2>2. \A c \in Block : AfterRecovery(c)' = AfterRecovery(c)  BY SameRecovery
  <2> QED  BY <1>a, <2>1, <2>2 DEF Unseen, SameContents, Visible
<1> QED  BY <1>1, <1>2, <1>3, <1>4, <1>5, <1>6, <1>7, <1>8, <1>9

\* A clean buffer is recycled.
LEMMA EvictInv ==
  ASSUME LogInv, NEW b \in Block, Evict(b)
  PROVE  LogInv' /\ Unseen
<1> USE LogAssumption DEF LogInv, TypeOK, Evict, stable
<1>1. TypeOK'  BY LogSize DEF Labels
<1>2. ControlInv'  BY DEF ControlInv, CommitLabels, RecoveryLabels, CallLabels
<1>3. CallInv'  BY DEF CallInv, CallLabels
<1>4. SpaceInv'
  <2>1. Active' = Active  BY DEF Active, CallInv
  <2> QED  BY <2>1, SameSpace
<1>5. HeaderInv'  BY DEF HeaderInv, Injective, RecoveryLabels
<1>6. DirtyInv'  BY DEF DirtyInv, Locked, Blocks, RecoveryLabels
<1>7. CoherentInv'
  <2>1. \A c \in Block : AfterRecovery(c)' = AfterRecovery(c)  BY SameRecovery
  <2> QED  BY <2>1 DEF CoherentInv, Locked
<1>8. CopyInv'
  <2>1. \A p \in Process : pc[p] \in {"write_log", "write_head"} =>
          \A i \in 1 .. Len(lh) : lh[i] \in dirty
    BY CommitStage DEF CommitLabels
  <2> QED  BY <2>1 DEF CopyInv, CallInv
<1>9. Unseen
  <2>1. Active' = Active  BY DEF Active
  <2>2. \A c \in Block : AfterRecovery(c)' = AfterRecovery(c)  BY SameRecovery
  <2>3. buf[b] = AfterRecovery(b)  BY DEF CoherentInv
  <2> QED  BY <2>1, <2>2, <2>3 DEF Unseen, SameContents, Visible
<1> QED  BY <1>1, <1>2, <1>3, <1>4, <1>5, <1>6, <1>7, <1>8, <1>9

\* A process enters begin_op().
LEMMA StartInv ==
  ASSUME LogInv, NEW p \in Process, Start(p)
  PROVE  LogInv' /\ Unseen
<1> USE LogAssumption DEF LogInv, TypeOK, Start, Goto, stable
<1>1. TypeOK'  BY LogSize DEF Labels
<1>2. ControlInv'  BY DEF ControlInv, CommitLabels, RecoveryLabels, CallLabels
<1>3. CallInv'  BY DEF CallInv, CallLabels
<1>4. SpaceInv'
  <2>1. Active' = Active  BY DEF Active, CallInv
  <2> QED  BY <2>1, SameSpace
<1>5. HeaderInv'  BY DEF HeaderInv, Injective, RecoveryLabels
<1>6. DirtyInv'  BY DEF DirtyInv, Locked, Blocks, RecoveryLabels
<1>7. CoherentInv'  BY SameRecovery DEF CoherentInv, Locked
<1>8. CopyInv'  BY DEF CopyInv
<1>9. Unseen
  <2>1. Active' = Active  BY DEF Active, CallInv
  <2>2. \A c \in Block : AfterRecovery(c)' = AfterRecovery(c)  BY SameRecovery
  <2> QED  BY <2>1, <2>2 DEF Unseen, SameContents, Visible
<1> QED  BY <1>1, <1>2, <1>3, <1>4, <1>5, <1>6, <1>7, <1>8, <1>9

\* A call waits in begin_op().
LEMMA BeginWaitInv ==
  ASSUME LogInv, NEW p \in Process, pc[p] = "begin_op",
         pc' = [pc EXCEPT ![p] = "sleep"], UNCHANGED <<outstanding, tail, target, wrote, lh, committing, buf, dirty, header, logblock, disk>>
  PROVE  LogInv' /\ Unseen
<1> USE LogAssumption DEF LogInv, TypeOK, stable
<1>1. TypeOK'  BY LogSize DEF Labels
<1>2. ControlInv'  BY DEF ControlInv, CommitLabels, RecoveryLabels, CallLabels
<1>3. CallInv'  BY DEF CallInv, CallLabels
<1>4. SpaceInv'
  <2>1. Active' = Active  BY DEF Active, CallInv
  <2> QED  BY <2>1, SameSpace
<1>5. HeaderInv'  BY DEF HeaderInv, Injective, RecoveryLabels
<1>6. DirtyInv'  BY DEF DirtyInv, Locked, Blocks, RecoveryLabels
<1>7. CoherentInv'  BY SameRecovery DEF CoherentInv, Locked
<1>8. CopyInv'  BY DEF CopyInv
<1>9. Unseen
  <2>1. Active' = Active  BY DEF Active, CallInv
  <2>2. \A c \in Block : AfterRecovery(c)' = AfterRecovery(c)  BY SameRecovery
  <2> QED  BY <2>1, <2>2 DEF Unseen, SameContents, Visible
<1> QED  BY <1>1, <1>2, <1>3, <1>4, <1>5, <1>6, <1>7, <1>8, <1>9

\* A call starts.
LEMMA BeginGoInv ==
  ASSUME LogInv, NEW p \in Process, pc[p] = "begin_op", committing = 0,
         Len(lh) + (outstanding + 1) * MAXOPBLOCKS <= LOGSIZE,
         pc' = [pc EXCEPT ![p] = "op"], outstanding' = outstanding + 1,
         UNCHANGED <<tail, target, wrote, lh, committing, buf, dirty, header, logblock, disk>>
  PROVE  LogInv' /\ Begins(p)
<1> USE LogAssumption DEF LogInv, TypeOK, stable
<1>1. TypeOK'  BY LogSize DEF Labels
<1>2. ControlInv'  BY DEF ControlInv, CommitLabels, RecoveryLabels, CallLabels
<1>3. CallInv'  BY DEF CallInv, CallLabels
<1>4. SpaceInv'
  <2>0. IsFiniteSet(Active) /\ p \notin Active /\ wrote[p] = {}
    BY ActiveCalls DEF CallInv, CallLabels
  <2> DEFINE A == Active \cup {p}
             L == Blocks(lh)
  <2>1. Active' = A  BY DEF Active
  <2>2. IsFiniteSet(A) /\ Len(lh) \in Nat  BY <2>0, FS_AddElement
  <2>6. /\ Cardinality(Free(Active, wrote)) \in Nat /\ Cardinality(Used(Active, wrote)) \in Nat
        /\ Cardinality(Active) \in Nat
    BY <2>0, RowsFinite, FS_CardinalityType
  <2>3. /\ Cardinality(A) = Cardinality(Active) + 1
        /\ Cardinality(Free(A, wrote)) = Cardinality(Free(Active, wrote)) + MAXOPBLOCKS
        /\ Cardinality(Used(A, wrote)) = Cardinality(Used(Active, wrote))
    BY <2>0, <2>6, RowsBegin
  <2>4. /\ outstanding = Cardinality(Active)
        /\ Cardinality(Free(Active, wrote)) + Cardinality(Used(Active, wrote)) = outstanding * MAXOPBLOCKS
    BY DEF SpaceInv
  <2> HIDE DEF A, L
  <2>5. /\ Cardinality(Unlogged(A, wrote, L)) <= Cardinality(Used(A, wrote))
        /\ Cardinality(Unlogged(A, wrote, L)) \in Nat /\ Cardinality(Used(A, wrote)) \in Nat
        /\ Cardinality(Free(A, wrote)) \in Nat
    BY <2>2, RowsFinite
  <2>7. (outstanding + 1) * MAXOPBLOCKS = outstanding * MAXOPBLOCKS + MAXOPBLOCKS  OBVIOUS
  <2>8. Cardinality(Free(A, wrote)) + Cardinality(Used(A, wrote)) = (outstanding + 1) * MAXOPBLOCKS
    BY <2>3, <2>4, <2>5, <2>6, <2>7
  <2>9. Len(lh) + Cardinality(Free(A, wrote)) + Cardinality(Unlogged(A, wrote, L)) <= LOGSIZE
    BY <2>2, <2>5, <2>8, LogSize
  <2> QED  BY <2>1, <2>3, <2>4, <2>8, <2>9 DEF SpaceInv, L, Blocks
<1>5. HeaderInv'  BY DEF HeaderInv, Injective, RecoveryLabels
<1>6. DirtyInv'  BY DEF DirtyInv, Locked, Blocks, RecoveryLabels
<1>7. CoherentInv'  BY SameRecovery DEF CoherentInv, Locked
<1>8. CopyInv'  BY DEF CopyInv
<1>9. Begins(p)
  <2>1. p \notin Active /\ Active' = Active \cup {p}  BY DEF Active
  <2>2. \A c \in Block : AfterRecovery(c)' = AfterRecovery(c)  BY SameRecovery
  <2> QED  BY <2>1, <2>2 DEF Begins, SameContents, Visible
<1> QED  BY <1>1, <1>2, <1>3, <1>4, <1>5, <1>6, <1>7, <1>8, <1>9

\* A process is woken up for nothing.
LEMMA KillWakeInv ==
  ASSUME LogInv, NEW p \in Process, KillWake(p)
  PROVE  LogInv' /\ Unseen
<1> USE LogAssumption DEF LogInv, TypeOK, KillWake, Goto, stable
<1>1. TypeOK'  BY LogSize DEF Labels
<1>2. ControlInv'  BY DEF ControlInv, CommitLabels, RecoveryLabels, CallLabels
<1>3. CallInv'  BY DEF CallInv, CallLabels
<1>4. SpaceInv'
  <2>1. Active' = Active  BY DEF Active, CallInv
  <2> QED  BY <2>1, SameSpace
<1>5. HeaderInv'  BY DEF HeaderInv, Injective, RecoveryLabels
<1>6. DirtyInv'  BY DEF DirtyInv, Locked, Blocks, RecoveryLabels
<1>7. CoherentInv'  BY SameRecovery DEF CoherentInv, Locked
<1>8. CopyInv'  BY DEF CopyInv
<1>9. Unseen
  <2>1. Active' = Active  BY DEF Active, CallInv
  <2>2. \A c \in Block : AfterRecovery(c)' = AfterRecovery(c)  BY SameRecovery
  <2> QED  BY <2>1, <2>2 DEF Unseen, SameContents, Visible
<1> QED  BY <1>1, <1>2, <1>3, <1>4, <1>5, <1>6, <1>7, <1>8, <1>9

\* A call changes a buffer.
LEMMA ModifyInv ==
  ASSUME LogInv, NEW p \in Process, NEW b \in Block, NEW d \in Data, Modify(p, b, d)
  PROVE  LogInv' /\ Writes(p, b, d)
<1> USE LogAssumption DEF LogInv, TypeOK, Modify, Goto, stable
<1>0. /\ \A q \in Process : pc[q] \in {"idle", "begin_op", "sleep"} \cup CallLabels
      /\ p \in Active /\ committing = 0 /\ header = << >> /\ dirty = Blocks(lh)
  BY CallStage DEF CallLabels
<1>a. /\ IsFiniteSet(wrote[p]) /\ Cardinality(wrote[p]) \in 0 .. MAXOPBLOCKS
      /\ b \notin wrote[p] => Cardinality(wrote[p]) < MAXOPBLOCKS
      /\ wrote' = [wrote EXCEPT ![p] = wrote[p] \cup {b}]
  <2>1. IsFiniteSet(wrote[p]) /\ Cardinality(wrote[p]) \in Nat  BY FS_Subset, FS_CardinalityType
  <2> QED  BY <2>1 DEF CallInv
<1>b. Cardinality(wrote[p] \cup {b}) <= MAXOPBLOCKS
  <2>1. Cardinality(wrote[p] \cup {b}) = IF b \in wrote[p] THEN Cardinality(wrote[p]) ELSE Cardinality(wrote[p]) + 1
    BY <1>a, FS_AddElement
  <2> QED  BY <1>a, <2>1
<1>1. TypeOK'  BY LogSize DEF Labels
<1>2. ControlInv'  BY DEF ControlInv, CommitLabels, RecoveryLabels, CallLabels
<1>3. CallInv'  BY <1>0, <1>a, <1>b DEF CallInv, CallLabels
<1>4. SpaceInv'
  <2>1. Active' = Active /\ IsFiniteSet(Active)  BY ActiveCalls DEF Active, CallInv
  <2>2. CASE b \in wrote[p]
    <3>1. wrote' = wrote  BY <1>a, <2>2
    <3> QED  BY <2>1, <3>1, SameSpace
  <2>3. CASE b \notin wrote[p]
    <3> DEFINE A == Active
               L == Blocks(lh)
    <3>1. wrote'[p] = wrote[p] \cup {b} /\ \A q \in A \ {p} : wrote[q] = wrote'[q]
      BY <1>a DEF Active
    <3>2. /\ Cardinality(Free(A, wrote')) = Cardinality(Free(A, wrote)) - 1
          /\ Cardinality(Used(A, wrote')) = Cardinality(Used(A, wrote)) + 1
          /\ Cardinality(Unlogged(A, wrote', L)) <= Cardinality(Unlogged(A, wrote, L)) + 1
      BY <1>0, <1>a, <2>1, <2>3, <3>1, RowsModify
    <3>0. Len(lh) \in Nat  OBVIOUS
    <3>3. /\ Cardinality(Free(A, wrote)) \in Nat /\ Cardinality(Used(A, wrote)) \in Nat
          /\ Cardinality(Unlogged(A, wrote, L)) \in Nat /\ Cardinality(Unlogged(A, wrote', L)) \in Nat
      BY <2>1, RowsFinite
    <3>4. /\ outstanding = Cardinality(A)
          /\ Cardinality(Free(A, wrote)) + Cardinality(Used(A, wrote)) = outstanding * MAXOPBLOCKS
      BY DEF SpaceInv
    <3>7. Len(lh) + Cardinality(Free(A, wrote)) + Cardinality(Unlogged(A, wrote, L)) <= LOGSIZE
      BY DEF SpaceInv
    <3> HIDE DEF A, L
    <3>5. Cardinality(Free(A, wrote')) + Cardinality(Used(A, wrote')) = outstanding * MAXOPBLOCKS
      BY <3>2, <3>3, <3>4
    <3>6. Len(lh) + Cardinality(Free(A, wrote')) + Cardinality(Unlogged(A, wrote', L)) <= LOGSIZE
      BY <3>0, <3>2, <3>3, <3>7, LogSize
    <3> QED  BY <2>1, <3>4, <3>5, <3>6 DEF SpaceInv, A, L, Blocks
  <2> QED  BY <2>2, <2>3
<1>5. HeaderInv'  BY DEF HeaderInv, Injective, RecoveryLabels
<1>6. DirtyInv'  BY DEF DirtyInv, Locked, Blocks, RecoveryLabels
<1>7. CoherentInv'  BY SameRecovery DEF CoherentInv, Locked
<1>8. CopyInv'  BY <1>0 DEF CopyInv, CallLabels
<1>9. Writes(p, b, d)
  <2>1. Active' = Active  BY DEF Active, CallInv
  <2>2. \A c \in Block : AfterRecovery(c)' = AfterRecovery(c)  BY SameRecovery
  <2>3. d # Absent  OBVIOUS
  <2> QED  BY <1>0, <2>1, <2>2, <2>3 DEF Writes, Visible
<1> QED  BY <1>1, <1>2, <1>3, <1>4, <1>5, <1>6, <1>7, <1>8, <1>9

\* log_write() tests the size of the transaction.
LEMMA Log_write_checkInv ==
  ASSUME LogInv, NEW p \in Process, log_write_check(p)
  PROVE  LogInv' /\ Unseen
<1> USE LogAssumption DEF LogInv, TypeOK, log_write_check, Goto, stable
<1>1. TypeOK'  BY LogSize DEF Labels
<1>2. ControlInv'  BY DEF ControlInv, CommitLabels, RecoveryLabels, CallLabels
<1>3. CallInv'  BY DEF CallInv, CallLabels
<1>4. SpaceInv'
  <2>1. target[p] # Absent  BY DEF CallInv
  <2>2. Active' = Active  BY <2>1 DEF Active
  <2> QED  BY <2>2, SameSpace
<1>5. HeaderInv'  BY DEF HeaderInv, Injective, RecoveryLabels
<1>6. DirtyInv'  BY DEF DirtyInv, Locked, Blocks, RecoveryLabels
<1>7. CoherentInv'  BY SameRecovery DEF CoherentInv, Locked
<1>8. CopyInv'  BY DEF CopyInv
<1>9. Unseen
  <2>0. target[p] # Absent  BY DEF CallInv
  <2>1. Active' = Active  BY <2>0 DEF Active
  <2>2. \A c \in Block : AfterRecovery(c)' = AfterRecovery(c)  BY SameRecovery
  <2> QED  BY <2>1, <2>2 DEF Unseen, SameContents, Visible
<1> QED  BY <1>1, <1>2, <1>3, <1>4, <1>5, <1>6, <1>7, <1>8, <1>9

\* A block gets its place in the transaction.
LEMMA Log_writeInv ==
  ASSUME LogInv, NEW p \in Process, log_write(p)
  PROVE  LogInv' /\ Unseen
<1> USE LogAssumption DEF LogInv, TypeOK, log_write, Goto, stable
<1>0. /\ \A q \in Process : pc[q] \in {"idle", "begin_op", "sleep"} \cup CallLabels
      /\ p \in Active /\ committing = 0 /\ header = << >> /\ dirty = Blocks(lh)
  BY CallStage DEF CallLabels
<1>a. target[p] \in Block /\ target[p] \in wrote[p]  BY DEF CallInv
<1>b. Blocks(lh') = Blocks(lh) \cup {target[p]} /\ lh' \in Seq(Block)
  <2>1. CASE \E i \in 1 .. Len(lh) : lh[i] = target[p]  BY <2>1 DEF Blocks
  <2>2. CASE ~\E i \in 1 .. Len(lh) : lh[i] = target[p]
    <3>1. lh' = Append(lh, target[p]) /\ Len(lh') = Len(lh) + 1  BY <1>a, <2>2
    <3>2. \A i \in 1 .. Len(lh) : lh'[i] = lh[i]  BY <1>a, <3>1
    <3>3. lh'[Len(lh) + 1] = target[p] /\ 1 .. Len(lh) + 1 = (1 .. Len(lh)) \cup {Len(lh) + 1}
      BY <1>a, <3>1
    <3> QED  BY <1>a, <3>1, <3>2, <3>3 DEF Blocks
  <2> QED  BY <2>1, <2>2
<1>1. TypeOK'  BY <1>a, <1>b, LogSize DEF Labels
<1>2. ControlInv'  BY DEF ControlInv, CommitLabels, RecoveryLabels, CallLabels
<1>3. CallInv'  BY DEF CallInv, CallLabels
<1>4. SpaceInv'
  <2>1. Active' = Active /\ IsFiniteSet(Active)  BY ActiveCalls DEF Active, CallInv
  <2>2. CASE \E i \in 1 .. Len(lh) : lh[i] = target[p]
    <3>1. lh' = lh  BY <2>2
    <3> QED  BY <2>1, <3>1, SameSpace
  <2>3. CASE ~\E i \in 1 .. Len(lh) : lh[i] = target[p]
    <3> DEFINE A == Active
               L == Blocks(lh)
               b == target[p]
    <3>1. Len(lh') = Len(lh) + 1 /\ Len(lh) \in Nat  BY <1>a, <2>3
    <3>2. b \notin L  BY <2>3 DEF Blocks
    <3>3. Cardinality(Unlogged(A, wrote, L \cup {b})) + 1 <= Cardinality(Unlogged(A, wrote, L))
      BY <1>0, <1>a, <2>1, <3>2, UnloggedLess
    <3>4. /\ Cardinality(Free(A, wrote)) \in Nat /\ Cardinality(Unlogged(A, wrote, L)) \in Nat
          /\ Cardinality(Unlogged(A, wrote, L \cup {b})) \in Nat
      BY <2>1, RowsFinite
    <3>5. Len(lh) + Cardinality(Free(A, wrote)) + Cardinality(Unlogged(A, wrote, L)) <= LOGSIZE
      BY DEF SpaceInv
    <3>6. Blocks(lh') = L \cup {b}  BY <1>b
    <3> HIDE DEF A, L, b
    <3>7. Len(lh') + Cardinality(Free(A, wrote)) + Cardinality(Unlogged(A, wrote, L \cup {b})) <= LOGSIZE
      BY <3>1, <3>3, <3>4, <3>5, LogSize
    <3>8. Len(lh') + Cardinality(Free(A, wrote)) + Cardinality(Unlogged(A, wrote, Blocks(lh'))) <= LOGSIZE
      BY <3>6, <3>7, Zenon
    <3> QED  BY <2>1, <3>8 DEF SpaceInv, A, Blocks
  <2> QED  BY <2>2, <2>3
<1>5. HeaderInv'
  <2>1. Injective(lh')
    <3>1. CASE \E i \in 1 .. Len(lh) : lh[i] = target[p]  BY <3>1 DEF HeaderInv, Injective
    <3>2. CASE ~\E i \in 1 .. Len(lh) : lh[i] = target[p]
      BY <1>a, <3>2 DEF HeaderInv, Injective
    <3> QED  BY <3>1, <3>2
  <2>2. \A q \in Process : pc'[q] \in {"idle", "begin_op", "sleep"} \cup CallLabels
    BY <1>0 DEF CallLabels
  <2>3. Injective(header') /\ Len(header') < LOGSIZE /\ header' = << >>  BY <1>0 DEF HeaderInv
  <2> QED  BY <2>1, <2>2, <2>3 DEF HeaderInv, CallLabels
<1>6. DirtyInv'
  <2>1. dirty' = Blocks(lh')  BY <1>0, <1>b
  <2>2. buf[target[p]] # Absent  BY <1>a DEF DirtyInv, Locked
  <2>3. \A b \in Block : b \in dirty' \/ Locked(b)' => buf'[b] # Absent
    BY <2>2 DEF DirtyInv, Locked
  <2>4. \A q \in Process : pc'[q] \in {"idle", "begin_op", "sleep"} \cup CallLabels
    BY <1>0 DEF CallLabels
  <2> QED  BY <2>1, <2>3, <2>4 DEF DirtyInv, Blocks, CallLabels, RecoveryLabels
<1>7. CoherentInv'
  <2>1. \A c \in Block : AfterRecovery(c)' = AfterRecovery(c)  BY SameRecovery
  <2>2. \A q \in Process : pc[q] # "install" /\ pc'[q] # "install"  BY <1>0 DEF CallLabels
  <2>3. \A c \in Block : c \notin dirty' /\ ~Locked(c)' => c \notin dirty /\ ~Locked(c)
    BY DEF Locked
  <2> QED  BY <2>1, <2>2, <2>3 DEF CoherentInv
<1>8. CopyInv'
  <2>1. \A q \in Process : pc'[q] \in {"idle", "begin_op", "sleep"} \cup CallLabels
    BY <1>0 DEF CallLabels
  <2> QED  BY <2>1 DEF CopyInv, CallLabels
<1>9. Unseen
  <2>1. Active' = Active  BY DEF Active, CallInv
  <2>2. \A c \in Block : AfterRecovery(c)' = AfterRecovery(c)  BY SameRecovery
  <2> QED  BY <2>1, <2>2 DEF Unseen, SameContents, Visible
<1> QED  BY <1>1, <1>2, <1>3, <1>4, <1>5, <1>6, <1>7, <1>8, <1>9

\* A call ends, and the last one starts the commit.
LEMMA End_opInv ==
  ASSUME LogInv, NEW p \in Process, end_op(p)
  PROVE  LogInv' /\ Ends(p)
<1> USE LogAssumption DEF LogInv, TypeOK, end_op, wakeup, stable
<1>0. /\ \A q \in Process : pc[q] \in {"idle", "begin_op", "sleep"} \cup CallLabels
      /\ p \in Active /\ committing = 0 /\ header = << >> /\ dirty = Blocks(lh)
  BY CallStage DEF CallLabels
<1>a. /\ IsFiniteSet(Active) /\ outstanding = Cardinality(Active)
      /\ Cardinality(Active \ {p}) = outstanding - 1 /\ IsFiniteSet(Active \ {p})
      /\ outstanding - 1 \in Nat /\ (outstanding - 1 = 0 <=> Active \ {p} = {})
  <2>1. IsFiniteSet(Active)  BY ActiveCalls
  <2>2. outstanding = Cardinality(Active)  BY DEF SpaceInv
  <2>3. Cardinality(Active \ {p}) = outstanding - 1 /\ IsFiniteSet(Active \ {p})
    BY <1>0, <2>1, <2>2, FS_RemoveElement
  <2>4. Cardinality(Active \ {p}) \in Nat  BY <2>3, FS_CardinalityType
  <2> QED  BY <2>1, <2>2, <2>3, <2>4, FS_EmptySet
<1>b. \A q \in Process : pc[q] \in CallLabels => q = p \/ outstanding - 1 # 0
  BY <1>a, ActiveCalls
<1>c. /\ pc[p] = "op" /\ outstanding' = outstanding - 1 /\ wrote' = [wrote EXCEPT ![p] = {}]
      /\ committing' = IF outstanding' = 0 THEN 1 ELSE 0
      /\ UNCHANGED <<tail, target, lh, buf, dirty, header, logblock, disk>>
      /\ pc' \in [Process -> Labels]
  BY <1>0 DEF Labels
<1>d. /\ pc'[p] = IF outstanding' # 0 THEN "idle" ELSE IF lh # << >> THEN "write_log" ELSE "finish"
      /\ \A q \in Process \ {p} : pc'[q] = pc[q] \/ (pc[q] = "sleep" /\ pc'[q] = "begin_op")
      /\ \A q \in Process : outstanding' = 0 => q = p \/ pc[q] \in {"idle", "begin_op", "sleep"}
  BY <1>0, <1>b, <1>c
<1> HIDE DEF end_op
<1>1. TypeOK'  BY <1>a, <1>c 
<1>2. ControlInv'
  <2>1. CASE outstanding' # 0
    <3>1. \A q \in Process : pc'[q] \in {"idle", "begin_op", "sleep"} \cup CallLabels
      BY <1>0, <1>c, <1>d, <2>1
    <3>2. committing' = 0  BY <1>c, <2>1
    <3>3. \A q \in Process : pc'[q] \notin CommitLabels \cup RecoveryLabels /\ pc'[q] # "down"
      BY <3>1 DEF CommitLabels, RecoveryLabels, CallLabels
    <3> QED  BY <3>2, <3>3 DEF ControlInv
  <2>2. CASE outstanding' = 0
    <3>1. \A q \in Process \ {p} : pc'[q] \in {"idle", "begin_op", "sleep"}  BY <1>d, <2>2
    <3>2. pc'[p] \in {"write_log", "finish"} /\ committing' = 1  BY <1>c, <1>d, <2>2
    <3>3. \A q \in Process : /\ pc'[q] \notin CallLabels \cup RecoveryLabels /\ pc'[q] # "down"
                             /\ pc'[q] \in CommitLabels => q = p
      <4>1. \A q \in Process \ {p} : pc'[q] \notin CommitLabels \cup CallLabels \cup RecoveryLabels \cup {"down"}
        BY <3>1 DEF CommitLabels, RecoveryLabels, CallLabels
      <4>2. pc'[p] \notin CallLabels \cup RecoveryLabels \cup {"down"}
        BY <3>2 DEF RecoveryLabels, CallLabels
      <4> QED  BY <4>1, <4>2
    <3>4. pc'[p] \in CommitLabels  BY <3>2 DEF CommitLabels
    <3> QED  BY <3>2, <3>3, <3>4 DEF ControlInv
  <2> QED  BY <2>1, <2>2
<1>3. CallInv'
  <2>1. \A q \in Process \ {p} : /\ tail'[q] = tail[q] /\ target'[q] = target[q] /\ wrote'[q] = wrote[q]
                                 /\ pc'[q] = pc[q] \/ (pc[q] = "sleep" /\ pc'[q] = "begin_op")
    BY <1>c, <1>d
  <2>2. wrote'[p] = {} /\ Cardinality(wrote'[p]) = 0  BY <1>c, FS_EmptySet
  <2>3. target'[p] = Absent /\ tail'[p] = 1 /\ pc'[p] \in {"idle", "write_log", "finish"}
    BY <1>c, <1>d DEF CallInv
  <2>4. pc'[p] = "write_log" => Len(lh) >= 1  BY <1>d
  <2>5. ASSUME NEW q \in Process \ {p} PROVE CallInv!(q)'
    BY <1>c, <2>1 DEF CallInv, CallLabels
  <2>6. CallInv!(p)'  BY <1>c, <2>2, <2>3, <2>4 DEF CallInv, CallLabels
  <2> QED  BY <2>5, <2>6 DEF CallInv
<1>4. SpaceInv'
  <2> DEFINE A == Active \ {p}
             B == Active
             L == Blocks(lh)
  <2>1. Active' = A
    <3>1. \A q \in Process \ {p} : q \in Active' <=> q \in Active
      BY <1>c, <1>d DEF Active
    <3>2. p \notin Active'  BY <1>c, <1>d DEF Active
    <3>3. Active \subseteq Process /\ Active' \subseteq Process  BY DEF Active
    <3> QED  BY <3>1, <3>2, <3>3
  <2>2. \A q \in A : wrote[q] = wrote'[q]  BY <1>c DEF Active
  <2>3. wrote[p] \subseteq Block /\ Cardinality(wrote[p]) \in 0 .. MAXOPBLOCKS
    <3>1. wrote[p] \subseteq Block  OBVIOUS
    <3>2. Cardinality(wrote[p]) \in Nat  BY <3>1, FS_Subset, FS_CardinalityType
    <3> QED  BY <3>1, <3>2 DEF CallInv
  <2>4. Free(A, wrote) = Free(A, wrote') /\ Used(A, wrote) = Used(A, wrote')
        /\ Unlogged(A, wrote, L) = Unlogged(A, wrote', L)
    BY <2>2, SameRows
  <2>5. /\ Cardinality(Free(A, wrote)) + Cardinality(Used(A, wrote))
             = Cardinality(Free(B, wrote)) + Cardinality(Used(B, wrote)) - MAXOPBLOCKS
    BY <1>0, <1>a, <2>3, RowsEnd
  <2>14. Cardinality(Free(A, wrote)) <= Cardinality(Free(B, wrote))
    BY <1>0, <1>a, <2>3, RowsEnd
  <2>6. Cardinality(Unlogged(A, wrote, L)) <= Cardinality(Unlogged(B, wrote, L))
    BY <1>a, UnloggedGone
  <2>7. /\ Cardinality(Free(A, wrote)) \in Nat /\ Cardinality(Used(A, wrote)) \in Nat
        /\ Cardinality(Free(B, wrote)) \in Nat /\ Cardinality(Used(B, wrote)) \in Nat
        /\ Cardinality(Unlogged(A, wrote, L)) \in Nat /\ Cardinality(Unlogged(B, wrote, L)) \in Nat
    BY <1>a, RowsFinite
  <2>8. Cardinality(Free(B, wrote)) + Cardinality(Used(B, wrote)) = outstanding * MAXOPBLOCKS
    BY DEF SpaceInv
  <2>9. Len(lh) + Cardinality(Free(B, wrote)) + Cardinality(Unlogged(B, wrote, L)) <= LOGSIZE
    BY DEF SpaceInv
  <2>10. outstanding' = Cardinality(A) /\ Len(lh) \in Nat  BY <1>a, <1>c
  <2> HIDE DEF A, B, L
  <2>11. (outstanding - 1) * MAXOPBLOCKS = outstanding * MAXOPBLOCKS - MAXOPBLOCKS  OBVIOUS
  <2>12. Cardinality(Free(A, wrote)) + Cardinality(Used(A, wrote)) = (outstanding - 1) * MAXOPBLOCKS
    BY <2>5, <2>7, <2>8, <2>11
  <2>13. Len(lh) + Cardinality(Free(A, wrote)) + Cardinality(Unlogged(A, wrote, L)) <= LOGSIZE
    BY <2>14, <2>6, <2>7, <2>9, <2>10, LogSize
  <2> QED  BY <1>c, <2>1, <2>4, <2>10, <2>12, <2>13 DEF SpaceInv, L, Blocks
<1>5. HeaderInv'
  <2>1. pc'[p] \in {"idle", "write_log", "finish"} /\ (pc'[p] = "finish" => lh = << >>)
        /\ (pc'[p] = "write_log" => lh # << >>)
    BY <1>d
  <2>2. \A q \in Process \ {p} : pc'[q] \in {"idle", "begin_op", "sleep"} \cup CallLabels
    BY <1>0, <1>d
  <2> QED  BY <1>0, <1>c, <2>1, <2>2 DEF HeaderInv, CallLabels
<1>6. DirtyInv'
  <2>1. \A q \in Process : pc'[q] \notin {"install", "erase"} \cup RecoveryLabels
    BY <1>0, <1>d DEF RecoveryLabels, CallLabels
  <2>2. \A b \in Block : Locked(b)' => Locked(b)  BY <1>c, <1>d DEF Locked
  <2> QED  BY <1>0, <1>c, <2>1, <2>2 DEF DirtyInv, Blocks, RecoveryLabels
<1>7. CoherentInv'
  <2>1. \A c \in Block : AfterRecovery(c)' = AfterRecovery(c)  BY <1>c, SameRecovery
  <2>2. \A q \in Process : pc'[q] # "install"  BY <1>0, <1>d DEF CallLabels
  <2>3. \A c \in Block : Locked(c)' <=> Locked(c)  BY <1>c, <1>d DEF Locked
  <2> QED  BY <1>c, <2>1, <2>2, <2>3 DEF CoherentInv
<1>8. CopyInv'
  <2>1. \A q \in Process : pc'[q] \notin {"write_head", "install", "reinstall", "erase", "reerase"}
    BY <1>0, <1>d DEF CallLabels
  <2>2. \A q \in Process : pc'[q] = "write_log" => tail'[q] = 1  BY <1>0, <1>c, <1>d DEF CallInv, CallLabels
  <2> QED  BY <2>1, <2>2 DEF CopyInv
<1>9. Ends(p)
  <2>1. Active' = Active \ {p}
    <3>1. \A q \in Process \ {p} : q \in Active' <=> q \in Active  BY <1>c, <1>d DEF Active
    <3>2. p \notin Active'  BY <1>c, <1>d DEF Active
    <3>3. Active \subseteq Process /\ Active' \subseteq Process  BY DEF Active
    <3> QED  BY <3>1, <3>2, <3>3
  <2>2. \A c \in Block : AfterRecovery(c)' = AfterRecovery(c)  BY <1>c, SameRecovery
  <2> QED  BY <1>0, <1>c, <2>1, <2>2 DEF Ends, SameContents, Visible
<1> QED  BY <1>1, <1>2, <1>3, <1>4, <1>5, <1>6, <1>7, <1>8, <1>9

\* A block is copied to the log.
LEMMA Write_logInv ==
  ASSUME LogInv, NEW p \in Process, write_log(p)
  PROVE  LogInv' /\ Unseen
<1> USE LogAssumption DEF LogInv, TypeOK, write_log, Goto, NextTurn, Cached
<1>0. /\ \A q \in Process \ {p} : pc[q] \in {"idle", "begin_op", "sleep"}
      /\ \A b \in Block : ~Locked(b)
      /\ Active = {} /\ outstanding = 0 /\ committing = 1
  BY CommitStage DEF CommitLabels
<1>a. /\ tail[p] \in 1 .. Len(lh) /\ tail[p] \in 1 .. LOGSIZE - 1 /\ lh[tail[p]] \in Block
      /\ buf' = buf /\ buf[lh[tail[p]]] \in Data /\ header = << >> /\ dirty = Blocks(lh)
  <2>1. /\ header = << >> /\ dirty = Blocks(lh)
        /\ \A i \in 1 .. Len(lh) : buf[lh[i]] # Absent
    BY CommitStage DEF CommitLabels
  <2>2. tail[p] \in 1 .. Len(lh) /\ tail[p] \in 1 .. LOGSIZE - 1  BY LogSize DEF CallInv
  <2>3. lh[tail[p]] \in Block /\ buf[lh[tail[p]]] # Absent  BY <2>1, <2>2
  <2> QED  BY <2>1, <2>2, <2>3
<1>b. /\ logblock' = [logblock EXCEPT ![tail[p]] = buf[lh[tail[p]]]]
      /\ UNCHANGED <<target, wrote, lh, outstanding, committing, dirty, header, disk>>
      /\ pc[p] = "write_log"
  BY <1>a
<1>c. \/ /\ tail[p] = Len(lh) /\ tail' = [tail EXCEPT ![p] = 1]
         /\ pc' = [pc EXCEPT ![p] = "write_head"]
      \/ /\ tail[p] < Len(lh) /\ tail' = [tail EXCEPT ![p] = tail[p] + 1]
         /\ pc' = pc
  BY <1>a
<1>d. /\ \A q \in Process \ {p} : pc'[q] = pc[q] /\ tail'[q] = tail[q]
      /\ \/ tail[p] = Len(lh) /\ tail'[p] = 1 /\ pc'[p] = "write_head"
         \/ tail[p] < Len(lh) /\ tail'[p] = tail[p] + 1 /\ pc'[p] = "write_log"
  BY <1>b, <1>c
<1> HIDE DEF write_log
<1>1. TypeOK'
  <2>1. Len(lh) <= LOGSIZE  BY Fits
  <2>2. 1 \in 1 .. LOGSIZE + 1 /\ tail[p] + 1 \in 1 .. LOGSIZE + 1  BY <1>a, <2>1, LogSize
  <2>3. tail' \in [Process -> 1 .. LOGSIZE + 1] /\ pc' \in [Process -> Labels]
    BY <1>c, <2>2 DEF Labels
  <2>4. logblock' \in [LogSlot -> Data]  BY <1>a, <1>b, LogSize
  <2> QED  BY <1>a, <1>b, <2>3, <2>4
<1>2. ControlInv'  BY <1>0, <1>b, <1>d DEF ControlInv, CommitLabels, RecoveryLabels, CallLabels
<1>3. CallInv'
  <2>1. ASSUME NEW q \in Process \ {p} PROVE CallInv!(q)'  BY <1>b, <1>d DEF CallInv, CallLabels
  <2>2. CallInv!(p)'  BY <1>a, <1>b, <1>d DEF CallInv, CallLabels
  <2> QED  BY <2>1, <2>2 DEF CallInv
<1>4. SpaceInv'
  <2>1. Active' = Active  BY <1>b, <1>d DEF Active, CallInv
  <2> QED  BY <1>b, <2>1, SameSpace
<1>5. HeaderInv'
  <2>1. \A q \in Process \ {p} : pc'[q] \in {"idle", "begin_op", "sleep"}  BY <1>0, <1>d
  <2>2. pc'[p] \in {"write_log", "write_head"} /\ (pc'[p] = "write_head" => Len(lh) < LOGSIZE)
    BY <1>a, <1>d, LogSize
  <2>3. lh # << >> /\ Injective(lh) /\ Injective(header) /\ Len(header) < LOGSIZE
    BY <1>b DEF HeaderInv
  <2> QED  BY <1>a, <1>b, <2>1, <2>2, <2>3 DEF HeaderInv
<1>6. DirtyInv'
  <2>1. \A b \in Block : b \in dirty' \/ Locked(b)' => buf'[b] # Absent
    BY <1>a, <1>b, <1>d DEF DirtyInv, Locked
  <2>2. \A q \in Process : pc'[q] \in {"idle", "begin_op", "sleep", "write_log", "write_head"}
    BY <1>0, <1>d
  <2>3. dirty' = Blocks(lh')  BY <1>a, <1>b
  <2> QED  BY <2>1, <2>2, <2>3 DEF DirtyInv, RecoveryLabels, Blocks
<1>7. CoherentInv'
  <2>1. \A c \in Block : AfterRecovery(c)' = AfterRecovery(c)
    BY <1>a, <1>b, AfterIsRecovery, EmptyHeader
  <2>2. \A q \in Process : pc'[q] # "install"  BY <1>0, <1>d
  <2> QED  BY <1>0, <1>a, <1>b, <2>1, <2>2 DEF CoherentInv
<1>8. CopyInv'
  <2>1. \A i \in 1 .. tail[p] : i \in LogSlot /\ logblock'[i] = buf'[lh'[i]]
    BY <1>a, <1>b, LogSize DEF CopyInv
  <2>2. \A q \in Process \ {p} : pc'[q] \in {"idle", "begin_op", "sleep"}  BY <1>0, <1>d
  <2>3. ASSUME NEW q \in Process \ {p} PROVE CopyInv!(q)'  BY <2>2
  <2>4. CopyInv!(p)'  BY <1>a, <1>b, <1>d, <2>1
  <2> QED  BY <2>3, <2>4 DEF CopyInv
<1>9. Unseen
  <2>1. Active' = Active  BY <1>b, <1>d DEF Active, CallInv
  <2>2. \A c \in Block : AfterRecovery(c)' = AfterRecovery(c)  BY <1>a, <1>b, AfterIsRecovery, EmptyHeader
  <2> QED  BY <1>a, <2>1, <2>2 DEF Unseen, SameContents, Visible
<1> QED  BY <1>1, <1>2, <1>3, <1>4, <1>5, <1>6, <1>7, <1>8, <1>9

\* The transaction commits.
LEMMA Write_headInv ==
  ASSUME LogInv, NEW p \in Process, write_head(p)
  PROVE  LogInv' /\ Commits
<1> USE LogAssumption DEF LogInv, TypeOK, write_head, Goto
<1>0. /\ \A q \in Process \ {p} : pc[q] \in {"idle", "begin_op", "sleep"}
      /\ \A b \in Block : ~Locked(b)
      /\ Active = {} /\ outstanding = 0 /\ committing = 1
  BY CommitStage DEF CommitLabels
<1>a. /\ header = << >> /\ dirty = Blocks(lh) /\ tail[p] = 1 /\ Len(lh) \in Nat \ {0}
      /\ Injective(lh) /\ Len(lh) < LOGSIZE
  BY CommitStage DEF CommitLabels, CallInv, HeaderInv
<1>1. TypeOK'  BY LogSize DEF Labels
<1>2. ControlInv'  BY DEF ControlInv, CommitLabels, RecoveryLabels, CallLabels
<1>3. CallInv'  BY <1>a DEF CallInv, CallLabels
<1>4. SpaceInv'
  <2>1. Active' = Active  BY DEF Active, CallInv
  <2> QED  BY <2>1, SameSpace
<1>5. HeaderInv'  BY <1>0, <1>a DEF HeaderInv
<1>6. DirtyInv'
  <2>1. dirty' = {lh'[i] : i \in tail'[p] .. Len(lh')}  BY <1>a DEF Blocks
  <2>2. \A b \in Block : b \in dirty' \/ Locked(b)' => buf'[b] # Absent  BY DEF DirtyInv, Locked
  <2> QED  BY <1>0, <2>1, <2>2 DEF DirtyInv, RecoveryLabels
<1>7. CoherentInv'
  <2>1. /\ \A b \in Block : \A i \in 1 .. Len(lh) : b = lh[i] => AfterRecovery(b)' = logblock[i]
        /\ \A b \in Block : b \notin Blocks(lh) => AfterRecovery(b)' = disk[b]
    <3>1. /\ \A i \in 1 .. Len(lh) : Recovery(lh, logblock, disk, lh[i]) = logblock[i]
          /\ \A b \in Block : b \notin Blocks(lh) => Recovery(lh, logblock, disk, b) = disk[b]
      BY <1>a, RecoveredContents
    <3>2. \A b \in Block : AfterRecovery(b)' = Recovery(lh, logblock, disk, b)
      BY AfterIsRecovery
    <3> QED  BY <3>1, <3>2
  <2>2. \A i \in 1 .. Len(lh) : logblock[i] = buf[lh[i]]  BY DEF CopyInv
  <2>3. \A b \in Block : b \notin Blocks(lh) /\ buf[b] # Absent => buf[b] = disk[b]
    BY <1>0, <1>a, AllHome DEF CoherentInv
  <2>4. \A b \in Block : buf[b] # Absent => buf[b] = AfterRecovery(b)'
    <3>1. ASSUME NEW b \in Block, NEW i \in 1 .. Len(lh), b = lh[i] PROVE buf[b] = AfterRecovery(b)'
      BY <2>1, <2>2, <3>1
    <3>2. ASSUME NEW b \in Block, b \notin Blocks(lh), buf[b] # Absent PROVE buf[b] = AfterRecovery(b)'
      BY <2>1, <2>3, <3>2
    <3> QED  BY <3>1, <3>2 DEF Blocks
  <2> QED  BY <2>4 DEF CoherentInv
<1>8. CopyInv'  BY <1>0, <1>a DEF CopyInv
<1>9. Commits
  <2>1. Active' = {}  BY <1>0 DEF Active
  <2>2. \A c \in Block : AfterRecovery(c)' = Visible(c)
    <3>1. \A c \in Block : c \notin Blocks(lh) => AfterRecovery(c)' = disk[c]
      BY <1>a, RecoveredContents, AfterIsRecovery
    <3>2. ASSUME NEW c \in Block, buf[c] # Absent PROVE AfterRecovery(c)' = buf[c]
      <4>1. buf'[c] # Absent /\ ~Locked(c)' /\ pc'[p] = "install"  BY <1>0, <3>2 DEF Locked
      <4> QED  BY <1>7, <4>1 DEF CoherentInv
    <3>3. \A c \in Block : AfterRecovery(c) = disk[c]  BY <1>a, AllHome
    <3>4. \A c \in Block : c \in Blocks(lh) => buf[c] # Absent  BY <1>a DEF DirtyInv
    <3> QED  BY <3>1, <3>2, <3>3, <3>4 DEF Visible
  <2> QED  BY <1>0, <2>1, <2>2 DEF Commits, Visible
<1> QED  BY <1>1, <1>2, <1>3, <1>4, <1>5, <1>6, <1>7, <1>8, <1>9

\* A logged block is written home.
LEMMA Install_transInv ==
  ASSUME LogInv, NEW p \in Process, install_trans(p)
  PROVE  LogInv' /\ Unseen
<1> USE LogAssumption DEF LogInv, TypeOK, install_trans, Goto, NextTurn
<1>0. /\ \A q \in Process \ {p} : pc[q] \in {"idle", "begin_op", "sleep", "down"}
      /\ \A c \in Block : ~Locked(c)
      /\ Active = {} /\ outstanding = 0
  BY CommitStage, RecoveryStage DEF CommitLabels, RecoveryLabels
<1>a. /\ tail[p] \in 1 .. Len(lh) /\ lh[tail[p]] \in Block /\ lh = header /\ Injective(header)
      /\ Len(lh) \in 1 .. LOGSIZE - 1 /\ logblock[tail[p]] \in Data
  <2>1. tail[p] \in 1 .. Len(lh) /\ lh = header /\ Injective(header) /\ Len(header) < LOGSIZE
    BY LogSize DEF CallInv, HeaderInv
  <2>2. Len(lh) \in 1 .. LOGSIZE - 1 /\ tail[p] \in LogSlot  BY <2>1, LogSize
  <2> QED  BY <2>1, <2>2
<1>b. /\ \A c \in Block : AfterRecovery(c)' = AfterRecovery(c)
      /\ AfterRecovery(lh[tail[p]]) = logblock[tail[p]]
  <2>1. /\ \A i \in 1 .. Len(header) : Recovery(header, logblock, disk, header[i]) = logblock[i]
        /\ \A c \in Block : c \notin Blocks(header) => Recovery(header, logblock, disk, c) = disk[c]
    BY <1>a, RecoveredContents
  <2>0. header \in Seq(Block)  OBVIOUS
  <2>2. /\ \A i \in 1 .. Len(header) : Recovery(header, logblock, disk', header[i]) = logblock[i]
        /\ \A c \in Block : c \notin Blocks(header) => Recovery(header, logblock, disk', c) = disk'[c]
    BY ONLY <1>a, <2>0, RecoveredContents
  <2>3. \A c \in Block : c \notin Blocks(header) => disk'[c] = disk[c]  BY <1>a DEF Blocks
  <2>4. \A c \in Block : Recovery(header, logblock, disk', c) = Recovery(header, logblock, disk, c)
    <3>1. ASSUME NEW i \in 1 .. Len(header)
          PROVE  Recovery(header, logblock, disk', header[i]) = Recovery(header, logblock, disk, header[i])
      BY ONLY <2>1, <2>2, <3>1
    <3>2. ASSUME NEW c \in Block, c \notin Blocks(header)
          PROVE  Recovery(header, logblock, disk', c) = Recovery(header, logblock, disk, c)
      BY ONLY <2>1, <2>2, <2>3, <3>2
    <3> QED  BY ONLY <3>1, <3>2 DEF Blocks
  <2>5. \A c \in Block : /\ AfterRecovery(c) = Recovery(header, logblock, disk, c)
                         /\ AfterRecovery(c)' = Recovery(header, logblock, disk', c)
    BY AfterIsRecovery
  <2>6. AfterRecovery(lh[tail[p]]) = Recovery(header, logblock, disk, lh[tail[p]])  BY <1>a, <2>5
  <2> QED  BY ONLY <1>a, <2>1, <2>4, <2>5, <2>6
<1>c. /\ buf' = [buf EXCEPT ![lh[tail[p]]] = logblock[tail[p]]]
      /\ disk' = [disk EXCEPT ![lh[tail[p]]] = logblock[tail[p]]]
      /\ dirty' = dirty \ {lh[tail[p]]}
      /\ UNCHANGED <<target, wrote, lh, outstanding, committing, header, logblock>>
      /\ pc[p] \in {"install", "reinstall"}
  OBVIOUS
<1>d. \/ /\ tail[p] = Len(lh) /\ tail' = [tail EXCEPT ![p] = 1]
         /\ pc' = [pc EXCEPT ![p] = IF pc[p] = "install" THEN "erase" ELSE "reerase"]
      \/ tail[p] < Len(lh) /\ tail' = [tail EXCEPT ![p] = tail[p] + 1] /\ pc' = pc
  BY <1>a
<1>e. /\ \A q \in Process \ {p} : pc'[q] = pc[q] /\ tail'[q] = tail[q]
      /\ \/ tail[p] = Len(lh) /\ tail'[p] = 1 /\ pc'[p] = IF pc[p] = "install" THEN "erase" ELSE "reerase"
         \/ tail[p] < Len(lh) /\ tail'[p] = tail[p] + 1 /\ pc'[p] = pc[p]
  BY <1>c, <1>d
<1> HIDE DEF install_trans
<1>1. TypeOK'
  <2>1. 1 \in 1 .. LOGSIZE + 1 /\ tail[p] + 1 \in 1 .. LOGSIZE + 1  BY <1>a, LogSize
  <2>2. tail' \in [Process -> 1 .. LOGSIZE + 1] /\ pc' \in [Process -> Labels]
    BY <1>d, <2>1 DEF Labels
  <2> QED  BY <1>a, <1>c, <2>2
<1>2. ControlInv'
  <2>1. \A q \in Process : /\ pc[q] \in CommitLabels <=> pc'[q] \in CommitLabels
                           /\ pc[q] \in RecoveryLabels <=> pc'[q] \in RecoveryLabels
                           /\ pc[q] \in CallLabels <=> pc'[q] \in CallLabels
                           /\ pc[q] = "down" <=> pc'[q] = "down"
    BY <1>c, <1>e DEF CommitLabels, RecoveryLabels, CallLabels
  <2> QED  BY <1>c, <2>1 DEF ControlInv
<1>3. CallInv'
  <2>1. ASSUME NEW q \in Process \ {p} PROVE CallInv!(q)'  BY <1>c, <1>e DEF CallInv, CallLabels
  <2>2. CallInv!(p)'  BY <1>a, <1>c, <1>e DEF CallInv, CallLabels
  <2> QED  BY <2>1, <2>2 DEF CallInv
<1>4. SpaceInv'
  <2>1. Active' = Active  BY <1>c, <1>e DEF Active, CallInv
  <2> QED  BY <1>c, <2>1, SameSpace
<1>5. HeaderInv'
  <2>1. \A q \in Process \ {p} : pc'[q] \in {"idle", "begin_op", "sleep", "down"}  BY <1>0, <1>e
  <2>2. pc'[p] \in {"install", "erase", "reinstall", "reerase"}  BY <1>c, <1>e
  <2>3. Injective(lh) /\ Len(header) < LOGSIZE /\ lh # << >>  BY <1>c DEF HeaderInv
  <2> QED  BY <1>a, <1>c, <2>1, <2>2, <2>3 DEF HeaderInv, RecoveryLabels
<1>6. DirtyInv'
  <2>1. \A c \in Block : ~Locked(c)'  BY <1>0, <1>c, <1>e DEF Locked
  <2>2. \A c \in Block : c \in dirty' => buf'[c] # Absent  BY <1>a, <1>c DEF DirtyInv
  <2>3. \A q \in Process \ {p} : pc'[q] \in {"idle", "begin_op", "sleep", "down"}  BY <1>0, <1>e
  <2>4. CASE pc[p] = "reinstall"
    <3>1. dirty = {} /\ dirty' = {}  BY <1>c, <2>4 DEF DirtyInv, RecoveryLabels
    <3>2. pc'[p] \in {"reinstall", "reerase"}  BY <1>e, <2>4
    <3> QED  BY <2>1, <2>2, <2>3, <3>1, <3>2 DEF DirtyInv, RecoveryLabels
  <2>5. CASE pc[p] = "install"
    <3>1. dirty = {lh[i] : i \in tail[p] .. Len(lh)}  BY <2>5 DEF DirtyInv
    <3>2. dirty' = {lh[i] : i \in tail[p] + 1 .. Len(lh)}  BY <1>a, <1>c, <3>1 DEF Injective
    <3>3. CASE tail[p] = Len(lh) /\ pc'[p] = "erase"
      <4>1. dirty' = {}  BY <1>a, <3>2, <3>3
      <4> QED  BY <2>1, <2>2, <2>3, <3>3, <4>1 DEF DirtyInv, RecoveryLabels
    <3>4. CASE tail'[p] = tail[p] + 1 /\ pc'[p] = "install"
      <4>1. dirty' = {lh'[i] : i \in tail'[p] .. Len(lh')}  BY <1>c, <3>2, <3>4
      <4> QED  BY <2>1, <2>2, <2>3, <3>4, <4>1 DEF DirtyInv, RecoveryLabels
    <3> QED  BY <1>e, <2>5, <3>3, <3>4
  <2> QED  BY <1>c, <2>4, <2>5
<1>7. CoherentInv'
  <2>1. \A c \in Block : buf[c] # Absent => buf[c] = AfterRecovery(c)
    BY <1>0, <1>c DEF CoherentInv, DirtyInv, RecoveryLabels
  <2>2. \A c \in Block : buf'[c] # Absent => buf'[c] = AfterRecovery(c)
    BY <1>a, <1>b, <1>c, <2>1
  <2> QED  BY <1>b, <2>2 DEF CoherentInv
<1>8. CopyInv'
  <2>1. \A i \in 1 .. tail[p] : disk'[lh[i]] = logblock[i]
    <3>1. \A i \in 1 .. tail[p] - 1 : disk[lh[i]] = logblock[i]  BY <1>c DEF CopyInv
    <3>2. \A i \in 1 .. tail[p] - 1 : lh[i] # lh[tail[p]] /\ lh[i] \in Block
      <4>1. \A i \in 1 .. tail[p] - 1 : i \in 1 .. Len(lh) /\ i # tail[p]  BY <1>a
      <4> QED  BY <1>a, <4>1 DEF Injective
    <3>3. disk'[lh[tail[p]]] = logblock[tail[p]]  BY <1>a, <1>c
    <3>4. \A i \in 1 .. tail[p] - 1 : disk'[lh[i]] = logblock[i]  BY <1>c, <3>1, <3>2
    <3> QED  BY <1>a, <3>3, <3>4
  <2>2. \A q \in Process \ {p} : pc'[q] \in {"idle", "begin_op", "sleep", "down"}  BY <1>0, <1>e
  <2>3. ASSUME NEW q \in Process \ {p} PROVE CopyInv!(q)'  BY <2>2
  <2>4. CopyInv!(p)'  BY <1>a, <1>c, <1>e, <2>1
  <2> QED  BY <2>3, <2>4 DEF CopyInv
<1>9. Unseen
  <2>1. Active' = Active  BY <1>c, <1>e DEF Active, CallInv
  <2>2. \A c \in Block : buf[c] # Absent => buf[c] = AfterRecovery(c)
    BY <1>0, <1>c DEF CoherentInv, DirtyInv, RecoveryLabels
  <2>3. \A c \in Block : Visible(c) = AfterRecovery(c) /\ Visible(c)' = AfterRecovery(c)
    BY <1>a, <1>b, <1>c, <2>2 DEF Visible
  <2> QED  BY <1>b, <2>1, <2>3 DEF Unseen, SameContents
<1> QED  BY <1>1, <1>2, <1>3, <1>4, <1>5, <1>6, <1>7, <1>8, <1>9

\* The log is emptied after the commit.
LEMMA EraseInv ==
  ASSUME LogInv, NEW p \in Process, Erase(p)
  PROVE  LogInv' /\ Unseen
<1> USE LogAssumption DEF LogInv, TypeOK, Erase, Goto
<1>0. /\ \A q \in Process \ {p} : pc[q] \in {"idle", "begin_op", "sleep"}
      /\ \A b \in Block : ~Locked(b)
      /\ Active = {} /\ outstanding = 0 /\ committing = 1
  BY CommitStage DEF CommitLabels
<1>b. \A c \in Block : AfterRecovery(c)' = AfterRecovery(c)
  <2>1. \A c \in Block : AfterRecovery(c) = disk[c]  BY AllHome
  <2>2. \A c \in Block : AfterRecovery(c)' = disk[c]  BY AfterIsRecovery, EmptyHeader
  <2> QED  BY <2>1, <2>2
<1>1. TypeOK'  BY LogSize DEF Labels
<1>2. ControlInv'
  <2>1. \A q \in Process : /\ pc[q] \in CommitLabels <=> pc'[q] \in CommitLabels
                           /\ pc[q] \in RecoveryLabels <=> pc'[q] \in RecoveryLabels
                           /\ pc[q] \in CallLabels <=> pc'[q] \in CallLabels
                           /\ pc[q] = "down" <=> pc'[q] = "down"
    BY DEF CommitLabels, RecoveryLabels, CallLabels
  <2> QED  BY <2>1 DEF ControlInv
<1>3. CallInv'
  <2>1. ASSUME NEW q \in Process \ {p} PROVE CallInv!(q)'  BY <1>0 DEF CallInv, CallLabels
  <2>2. CallInv!(p)'  BY DEF CallInv, CallLabels
  <2> QED  BY <2>1, <2>2 DEF CallInv
<1>4. SpaceInv'
  <2>1. Active' = {}  BY <1>0 DEF Active
  <2> QED  BY <1>0, <2>1, LogSize, QuietSpace
<1>5. HeaderInv'
  <2>1. Injective(<< >>) /\ Len(<< >>) < LOGSIZE  BY LogSize DEF Injective
  <2>2. \A q \in Process : pc'[q] \in {"idle", "begin_op", "sleep", "finish"}  BY <1>0
  <2> QED  BY <2>1, <2>2 DEF HeaderInv
<1>6. DirtyInv'
  <2>1. \A q \in Process : pc'[q] \in {"idle", "begin_op", "sleep", "finish"}  BY <1>0
  <2>2. dirty' = {} /\ Blocks(lh') = {}  BY DEF DirtyInv, Blocks
  <2>3. \A c \in Block : ~Locked(c)'  BY <2>1 DEF Locked
  <2> QED  BY <2>1, <2>2, <2>3 DEF DirtyInv, Blocks, RecoveryLabels
<1>7. CoherentInv'
  <2>1. \A c \in Block : buf[c] # Absent => buf[c] = AfterRecovery(c)
    BY <1>0 DEF CoherentInv, DirtyInv, RecoveryLabels
  <2> QED  BY <1>b, <2>1 DEF CoherentInv
<1>8. CopyInv'
  <2>1. \A q \in Process : pc'[q] \in {"idle", "begin_op", "sleep", "finish"}  BY <1>0
  <2> QED  BY <2>1 DEF CopyInv
<1>9. Unseen
  <2>1. Active' = {}  BY <1>0 DEF Active
  <2> QED  BY <1>0, <1>b, <2>1 DEF Unseen, SameContents, Visible
<1> QED  BY <1>1, <1>2, <1>3, <1>4, <1>5, <1>6, <1>7, <1>8, <1>9

\* Calls are let in again.
LEMMA End_commitInv ==
  ASSUME LogInv, NEW p \in Process, end_commit(p)
  PROVE  LogInv' /\ Unseen
<1> USE LogAssumption DEF LogInv, TypeOK, end_commit, wakeup, stable
<1>0. /\ \A q \in Process \ {p} : pc[q] \in {"idle", "begin_op", "sleep"}
      /\ \A b \in Block : ~Locked(b)
      /\ Active = {} /\ outstanding = 0 /\ committing = 1
  BY CommitStage DEF CommitLabels
<1>a. \A q \in Process : pc'[q] \in {"idle", "begin_op"}  BY <1>0
<1>1. TypeOK'  BY LogSize DEF Labels
<1>2. ControlInv'
  <2>1. \A q \in Process : pc'[q] \notin CommitLabels \cup RecoveryLabels /\ pc'[q] # "down"
    BY <1>a DEF CommitLabels, RecoveryLabels
  <2> QED  BY <2>1 DEF ControlInv
<1>3. CallInv'  BY DEF CallInv, CallLabels
<1>4. SpaceInv'
  <2>1. Active' = Active  BY DEF Active, CallInv
  <2> QED  BY <2>1, SameSpace
<1>5. HeaderInv'  BY DEF HeaderInv, Injective, RecoveryLabels
<1>6. DirtyInv'
  <2>1. dirty = Blocks(lh)  BY <1>0 DEF DirtyInv, RecoveryLabels
  <2>2. \A c \in Block : ~Locked(c)'  BY <1>a DEF Locked
  <2>3. \A c \in Block : c \in dirty' => buf'[c] # Absent  BY DEF DirtyInv
  <2>4. dirty' = Blocks(lh')  BY <2>1
  <2> QED  BY <1>a, <2>2, <2>3, <2>4 DEF DirtyInv, Blocks, RecoveryLabels
<1>7. CoherentInv'  BY SameRecovery DEF CoherentInv, Locked
<1>8. CopyInv'  BY DEF CopyInv
<1>9. Unseen
  <2>1. Active' = {}  BY <1>a DEF Active
  <2>2. \A c \in Block : AfterRecovery(c)' = AfterRecovery(c)  BY SameRecovery
  <2> QED  BY <1>0, <2>1, <2>2 DEF Unseen, SameContents, Visible
<1> QED  BY <1>1, <1>2, <1>3, <1>4, <1>5, <1>6, <1>7, <1>8, <1>9

\* Memory is lost.
LEMMA CrashInv ==
  ASSUME LogInv, Crash
  PROVE  LogInv' /\ Crashes
<1> USE LogAssumption DEF LogInv, TypeOK, Crash, Boot, stable
<1>p. PICK p \in Process : pc' = [q \in Process |-> IF q = p THEN "read_head" ELSE "down"]  OBVIOUS
<1>1. TypeOK'  BY <1>p, LogSize DEF Labels
<1>2. ControlInv'  BY <1>p DEF ControlInv, CommitLabels, RecoveryLabels, CallLabels
<1>3. CallInv'
  <2>1. Cardinality({}) = 0  BY FS_EmptySet
  <2> QED  BY <1>p, <2>1 DEF CallInv, CallLabels
<1>4. SpaceInv'
  <2>1. Active' = {}  BY <1>p DEF Active
  <2> QED  BY <2>1, LogSize, QuietSpace
<1>5. HeaderInv'  BY <1>p DEF HeaderInv, Injective, RecoveryLabels
<1>6. DirtyInv'  BY <1>p DEF DirtyInv, Locked, Blocks, RecoveryLabels
<1>7. CoherentInv'  BY <1>p, SameRecovery DEF CoherentInv, Locked
<1>8. CopyInv'  BY <1>p DEF CopyInv
<1>9. Crashes
  <2>1. Active' = {}  BY <1>p DEF Active
  <2>2. \A c \in Block : AfterRecovery(c)' = AfterRecovery(c)  BY SameRecovery
  <2> QED  BY <2>1, <2>2 DEF Crashes, Visible
<1> QED  BY <1>1, <1>2, <1>3, <1>4, <1>5, <1>6, <1>7, <1>8, <1>9

\* Recovery reads the header.
LEMMA Read_headInv ==
  ASSUME LogInv, NEW p \in Process, read_head(p)
  PROVE  LogInv' /\ Unseen
<1> USE LogAssumption DEF LogInv, TypeOK, read_head, Goto, stable
<1>0. /\ \A q \in Process \ {p} : pc[q] = "down"
      /\ \A b \in Block : ~Locked(b)
      /\ Active = {} /\ outstanding = 0 /\ committing = 0 /\ dirty = {}
  BY RecoveryStage DEF RecoveryLabels
<1>a. pc'[p] = (IF header = << >> THEN "reerase" ELSE "reinstall") /\ \A q \in Process \ {p} : pc'[q] = "down"
  BY <1>0
<1>1. TypeOK'  BY LogSize DEF Labels
<1>2. ControlInv'  BY DEF ControlInv, CommitLabels, RecoveryLabels, CallLabels
<1>3. CallInv'
  <2>1. ASSUME NEW q \in Process \ {p} PROVE CallInv!(q)'  BY <1>0 DEF CallInv, CallLabels
  <2>2. header # << >> => Len(header) >= 1  OBVIOUS
  <2>3. target[p] = Absent /\ wrote[p] = {} /\ tail[p] = 1 /\ Cardinality(wrote[p]) <= MAXOPBLOCKS
    BY DEF CallInv, CallLabels
  <2>4. CallInv!(p)'  BY <1>a, <2>2, <2>3 DEF CallLabels
  <2> QED  BY <2>1, <2>4 DEF CallInv
<1>4. SpaceInv'
  <2>1. Active' = {}  BY <1>a DEF Active
  <2>2. Len(lh') \in Nat /\ Len(lh') <= LOGSIZE  BY LogSize DEF HeaderInv
  <2> QED  BY <1>0, <2>1, <2>2, QuietSpace
<1>5. HeaderInv'
  <2>1. lh' = header /\ Injective(header) /\ Len(header) < LOGSIZE  BY DEF HeaderInv
  <2> QED  BY <1>a, <2>1 DEF HeaderInv, RecoveryLabels
<1>6. DirtyInv'
  <2>1. \A c \in Block : ~Locked(c)'  BY <1>a DEF Locked
  <2> QED  BY <1>0, <1>a, <2>1 DEF DirtyInv, RecoveryLabels
<1>7. CoherentInv'  BY SameRecovery DEF CoherentInv, Locked
<1>8. CopyInv'
  <2>1. tail'[p] = 1 /\ lh' = header  BY DEF CallInv
  <2> QED  BY <1>a, <2>1 DEF CopyInv
<1>9. Unseen
  <2>1. Active' = {}  BY <1>a DEF Active
  <2>2. \A c \in Block : AfterRecovery(c)' = AfterRecovery(c)  BY SameRecovery
  <2> QED  BY <1>0, <2>1, <2>2 DEF Unseen, SameContents, Visible
<1> QED  BY <1>1, <1>2, <1>3, <1>4, <1>5, <1>6, <1>7, <1>8, <1>9

\* Recovery empties the log.
LEMMA RecoveredInv ==
  ASSUME LogInv, NEW p \in Process, Recovered(p)
  PROVE  LogInv' /\ Unseen
<1> USE LogAssumption DEF LogInv, TypeOK, Recovered
<1>0. /\ \A q \in Process \ {p} : pc[q] = "down"
      /\ \A b \in Block : ~Locked(b)
      /\ Active = {} /\ outstanding = 0 /\ committing = 0 /\ dirty = {}
  BY RecoveryStage DEF RecoveryLabels
<1>b. \A c \in Block : AfterRecovery(c)' = AfterRecovery(c)
  <2>1. \A c \in Block : AfterRecovery(c) = disk[c]  BY AllHome
  <2>2. \A c \in Block : AfterRecovery(c)' = disk[c]  BY AfterIsRecovery, EmptyHeader
  <2> QED  BY <2>1, <2>2
<1>1. TypeOK'  BY LogSize DEF Labels
<1>2. ControlInv'  BY DEF ControlInv, CommitLabels, RecoveryLabels, CallLabels
<1>3. CallInv'
  <2>1. \A q \in Process : target[q] = Absent /\ wrote[q] = {} /\ tail[q] = 1  BY <1>0 DEF CallInv, CallLabels
  <2> QED  BY <2>1 DEF CallInv, CallLabels
<1>4. SpaceInv'
  <2>1. Active' = {}  BY <1>0 DEF Active
  <2> QED  BY <1>0, <2>1, LogSize, QuietSpace
<1>5. HeaderInv'
  <2>1. Injective(<< >>) /\ Len(<< >>) < LOGSIZE  BY LogSize DEF Injective
  <2>2. \A q \in Process : pc'[q] \in {"idle", "begin_op", "sleep", "finish"}  OBVIOUS
  <2> QED  BY <2>1, <2>2 DEF HeaderInv
<1>6. DirtyInv'  BY DEF DirtyInv, Locked, Blocks, RecoveryLabels
<1>7. CoherentInv'
  <2>1. \A c \in Block : buf[c] # Absent => buf[c] = AfterRecovery(c)
    BY <1>0 DEF CoherentInv, DirtyInv, RecoveryLabels
  <2> QED  BY <1>b, <2>1 DEF CoherentInv
<1>8. CopyInv'  BY DEF CopyInv
<1>9. Unseen
  <2>1. Active' = {}  BY <1>0 DEF Active
  <2> QED  BY <1>0, <1>b, <2>1 DEF Unseen, SameContents, Visible
<1> QED  BY <1>1, <1>2, <1>3, <1>4, <1>5, <1>6, <1>7, <1>8, <1>9

------------------------------------------------------------------------------
(* The theorems *)

LEMMA InitLog == Init => LogInv
<1> SUFFICES ASSUME Init PROVE LogInv  OBVIOUS
<1> USE LogAssumption DEF Init
<1>p. PICK p \in Process : pc = [q \in Process |-> IF q = p THEN "read_head" ELSE "down"]
  BY DEF Boot
<1>1. TypeOK  BY <1>p, LogSize DEF TypeOK, Labels
<1>2. ControlInv  BY <1>p DEF ControlInv, CommitLabels, RecoveryLabels, CallLabels
<1>3. CallInv
  <2>1. Cardinality({}) = 0  BY FS_EmptySet
  <2> QED  BY <1>p, <2>1 DEF CallInv, CallLabels
<1>4. SpaceInv
  <2>1. Active = {}  BY <1>p DEF Active
  <2>2. Cardinality(Active) = 0  BY <2>1, FS_EmptySet
  <2>3. /\ Cardinality(Free(Active, wrote)) = 0 /\ Cardinality(Used(Active, wrote)) = 0
        /\ Cardinality(Unlogged(Active, wrote, Blocks(lh))) = 0
    BY <2>1, NoRows
  <2>4. LOGSIZE \in Nat /\ outstanding * MAXOPBLOCKS = 0  BY LogSize
  <2> QED  BY <2>2, <2>3, <2>4 DEF SpaceInv
<1>5. HeaderInv  BY <1>p, LogSize DEF HeaderInv, Injective, RecoveryLabels
<1>6. DirtyInv  BY <1>p DEF DirtyInv, Locked, RecoveryLabels
<1>7. CoherentInv  BY DEF CoherentInv
<1>8. CopyInv  BY <1>p DEF CopyInv
<1> QED  BY <1>1, <1>2, <1>3, <1>4, <1>5, <1>6, <1>7, <1>8 DEF LogInv

LEMMA Begin_opInv ==
  ASSUME LogInv, NEW p \in Process, begin_op(p)
  PROVE  LogInv' /\ (Unseen \/ Begins(p))
<1>1. CASE MustWait /\ Goto(p, "sleep") /\ UNCHANGED outstanding
  BY <1>1, BeginWaitInv DEF begin_op, Goto, stable
<1>2. CASE ~MustWait /\ outstanding' = outstanding + 1 /\ Goto(p, "op")
  <2>1. committing = 0 /\ ~(Len(lh) + (outstanding + 1) * MAXOPBLOCKS > LOGSIZE)
    BY <1>2 DEF MustWait, LogInv, TypeOK
  <2>2. Len(lh) + (outstanding + 1) * MAXOPBLOCKS <= LOGSIZE
    <3>1. Len(lh) + (outstanding + 1) * MAXOPBLOCKS \in Int /\ LOGSIZE \in Int
      BY LogAssumption, LogSize DEF LogInv, TypeOK
    <3> QED  BY <2>1, <3>1
  <2> QED  BY <1>2, <2>1, <2>2, BeginGoInv DEF begin_op, Goto, stable
<1> QED  BY <1>1, <1>2 DEF begin_op

\* Every step keeps LogInv and is a step of AtomicDisk, or none.
LEMMA StepLog ==
  ASSUME LogInv, [Next]_vars
  PROVE  /\ LogInv'
         /\ \/ Unseen \/ Commits \/ Crashes
            \/ \E p \in Process : \/ Begins(p) \/ Ends(p)
                                  \/ \E b \in Block, d \in Data : Writes(p, b, d)
<1>1. CASE UNCHANGED vars
  <2>1. Active' = Active  BY <1>1 DEF Active, vars, memory
  <2>2. SameContents
    <3>1. \A c \in Block : AfterRecovery(c)' = AfterRecovery(c)  BY <1>1, SameRecovery DEF vars
    <3> QED  BY <1>1, <3>1 DEF SameContents, Visible, vars, memory
  <2>3. TypeOK' /\ ControlInv' /\ CallInv'
    BY <1>1 DEF LogInv, TypeOK, ControlInv, CallInv, vars, memory, stable
  <2>4. SpaceInv'  BY <1>1, <2>1, SameSpace DEF LogInv, vars, memory
  <2>5. HeaderInv' /\ DirtyInv' /\ CopyInv'
    BY <1>1 DEF LogInv, HeaderInv, Injective, DirtyInv, CopyInv, Locked, Blocks, vars, memory, stable
  <2>6. CoherentInv'  BY <1>1, <2>2 DEF LogInv, CoherentInv, SameContents, Locked, vars, memory
  <2> QED  BY <2>1, <2>2, <2>3, <2>4, <2>5, <2>6 DEF LogInv, Unseen
<1>2. ASSUME NEW p \in Process, KernelStep(p)
      PROVE  LogInv' /\ (Unseen \/ Begins(p) \/ Commits)
  BY <1>2, Begin_opInv, Log_write_checkInv, Log_writeInv, Write_logInv, Write_headInv,
     Install_transInv, EraseInv, End_commitInv, Read_headInv, RecoveredInv DEF KernelStep
<1>3. ASSUME NEW p \in Process, CallStep(p)
      PROVE  LogInv' /\ (Unseen \/ Ends(p) \/ \E b \in Block, d \in Data : Writes(p, b, d))
  BY <1>3, StartInv, End_opInv, KillWakeInv, ModifyInv DEF CallStep
<1>4. ASSUME NEW b \in Block, Read(b) \/ Evict(b) PROVE LogInv' /\ Unseen
  BY <1>4, ReadInv, EvictInv
<1>5. CASE Crash
  BY <1>5, CrashInv
<1> QED  BY <1>1, <1>2, <1>3, <1>4, <1>5 DEF Next

\* LogInv is an invariant of every instance.
THEOREM LogInvariant == Spec => []LogInv
<1>1. LogInv /\ [Next]_vars => LogInv'  BY StepLog
<1> QED  BY <1>1, InitLog, PTL DEF Spec

\* Type correctness of the log, in memory and on disk.
THEOREM LogTypeCorrect == Spec => []TypeOK
<1>1. LogInv => TypeOK  BY DEF LogInv
<1> QED  BY <1>1, LogInvariant, PTL

\* begin_op() reserves enough: what the active calls have logged and may still
\* log fits into the header array, for every MAXOPBLOCKS and LOGSIZE.
THEOREM SpaceIsReserved == Spec => []SpaceReserved
<1>1. LogInv => SpaceReserved  BY Fits
<1> QED  BY <1>1, LogInvariant, PTL

\* The abstract state.
LEMMA AbstractStep ==
  ASSUME LogInv, [Next]_vars
  PROVE  [AbstractDisk!Next]_(AbstractDisk!vars)
<1> DEFINE D == [b \in Block |-> AfterRecovery(b)]
           C == [b \in Block |-> Visible(b)]
<1>1. CASE Unseen
  <2>1. D' = D /\ C' = C /\ Active' = Active  BY <1>1 DEF Unseen, SameContents
  <2> QED  BY <2>1 DEF AbstractDisk!vars
<1>2. ASSUME NEW p \in Process, Begins(p) PROVE AbstractDisk!Next
  <2>1. D' = D /\ C' = C  BY <1>2 DEF Begins, SameContents
  <2>2. AbstractDisk!Begin(p)  BY <1>2, <2>1 DEF Begins, AbstractDisk!Begin
  <2> QED  BY <2>2 DEF AbstractDisk!Next
<1>3. ASSUME NEW p \in Process, Ends(p) PROVE AbstractDisk!Next
  <2>1. D' = D /\ C' = C  BY <1>3 DEF Ends, SameContents
  <2>2. AbstractDisk!End(p)  BY <1>3, <2>1 DEF Ends, AbstractDisk!End
  <2> QED  BY <2>2 DEF AbstractDisk!Next
<1>4. ASSUME NEW p \in Process, NEW b \in Block, NEW d \in Data, Writes(p, b, d) PROVE AbstractDisk!Next
  <2>1. D' = D /\ C' = [C EXCEPT ![b] = d]  BY <1>4 DEF Writes
  <2>2. AbstractDisk!Write(p, b, d)  BY <1>4, <2>1 DEF Writes, AbstractDisk!Write
  <2> QED  BY <2>2 DEF AbstractDisk!Next
<1>5. CASE Commits
  <2>1. D' = C /\ C' = C  BY <1>5 DEF Commits
  <2>2. AbstractDisk!Commit  BY <1>5, <2>1 DEF Commits, AbstractDisk!Commit
  <2> QED  BY <2>2 DEF AbstractDisk!Next
<1>6. CASE Crashes
  <2>1. D' = D /\ C' = D  BY <1>6 DEF Crashes
  <2>2. AbstractDisk!Crash  BY <1>6, <2>1 DEF Crashes, AbstractDisk!Crash
  <2> QED  BY <2>2 DEF AbstractDisk!Next
<1> QED  BY <1>1, <1>2, <1>3, <1>4, <1>5, <1>6, StepLog

LEMMA AbstractInit == Init => AbstractDisk!Init
<1> SUFFICES ASSUME Init PROVE AbstractDisk!Init  OBVIOUS
<1>1. \A b \in Block : AfterRecovery(b) = Initial /\ Visible(b) = Initial
  <2>1. \A b \in Block : AfterRecovery(b) = disk[b]  BY AfterIsRecovery, EmptyHeader DEF Init
  <2> QED  BY <2>1 DEF Init, Visible
<1>2. Active = {}  BY DEF Init, Boot, Active
<1> QED  BY <1>1, <1>2 DEF AbstractDisk!Init

\* The log implements the atomic disk: updates become durable together, at a
\* moment without active calls, and every crash, also one during commit() or
\* recovery, takes the file system back to the last commit.
THEOREM UpdatesAreAtomic == Spec => AtomicUpdates
BY LogInvariant, AbstractInit, AbstractStep, PTL DEF Spec, AtomicUpdates, AbstractDisk!Spec
==============================================================================
