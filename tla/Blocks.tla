------------------------------- MODULE Blocks -------------------------------
(***************************************************************************)
(* What files contain (fs.c): the block bitmap, the direct and indirect    *)
(* block numbers of an inode, readi() and writei(), and filewrite() (file.c)*)
(* which splits a write into transactions.                                 *)
(*                                                                         *)
(* A file is used by one process at a time (ilock); the files share the    *)
(* bitmap, whose buffer is locked while balloc() searches it, so that the  *)
(* loop of writei() is one step per block.  A block holds BSIZE words; a   *)
(* file's bytes are its own number, so that a byte of another file, a      *)
(* block number or a zero in it shows.  Block 0 stands for "no block".     *)
(***************************************************************************)
EXTENDS Integers, Sequences, FiniteSets, FiniteSetsExt

CONSTANTS Ino,              \* the files, as numbers
          NBLOCK,           \* data blocks are 1 .. NBLOCK
          BSIZE, NDIRECT,
          BPB,              \* bits in a block of the bitmap
          MAXOPBLOCKS,
          WriteLen,         \* bound: the lengths of write()s to each file
          Wrap              \* unsigned integers wrap here

NINDIRECT == BSIZE
MAXFILE == NDIRECT + NINDIRECT
Block == 0 .. NBLOCK

ASSUME BlocksAssumption ==
  /\ Ino \subseteq Nat \ {0} /\ NBLOCK \in Nat \ {0} /\ BSIZE \in Nat \ {0}
  /\ NDIRECT \in Nat /\ BPB \in Nat \ {0}
  /\ MAXOPBLOCKS \in Nat /\ MAXOPBLOCKS >= 4    \* for filewrite's max
  /\ NBLOCK \div BPB + 2 <= MAXOPBLOCKS         \* for itrunc()
  /\ WriteLen \in [Ino -> SUBSET (Nat \ {0})]
  /\ Wrap \in Nat /\ Wrap > MAXFILE * BSIZE
  /\ \A n \in UNION {WriteLen[i] : i \in Ino} : Wrap > MAXFILE * BSIZE + n

VARIABLES
  used,     \* the blocks marked in the bitmap
  data,     \* the blocks' words, as the buffer cache has them
  size, addrs,  \* of the inodes in memory
  dinode,   \* the inodes as iupdate() saved them
  op,       \* the write() in progress on a file, with filewrite's variables
  log       \* the blocks the operation on a file has passed to log_write()

blocksVars == <<used, data, size, addrs, dinode, op, log>>

Zero == [k \in 0 .. BSIZE - 1 |-> 0]
NoAddrs == [i \in 0 .. NDIRECT |-> 0]
Idle == [at |-> "idle", off |-> 0, n |-> 0, end |-> 0]

\* A file system with empty files.
BlocksInit ==
  /\ used = {}
  /\ data = [b \in Block |-> Zero]
  /\ size = [i \in Ino |-> 0]
  /\ addrs = [i \in Ino |-> NoAddrs]
  /\ dinode = [i \in Ino |-> <<0, NoAddrs>>]
  /\ op = [i \in Ino |-> Idle]
  /\ log = [i \in Ino |-> {}]

\* panic() stops every CPU.
Halted == \E i \in Ino : op[i].at = "panic"

-----------------------------------------------------------------------------
(* Blocks.  m is a record of the state an operation on one file changes;   *)
(* m.addr is the operation's result, and 0 when balloc() panics.           *)

\* log_write() of the bitmap block of b, of block b, and of the inode's block.
BBLOCK(b) == <<"bitmap", b \div BPB>>
DBLOCK(b) == <<"data", b>>
IBLOCK == <<"inode", 0>>

bzero(m, b) == [m EXCEPT !.data[b] = Zero, !.log = @ \cup {DBLOCK(b)}]

\* Faulty variant of balloc: the block is not cleared.
BallocDirty(m) ==
  LET b == Min(Block \ (m.used \cup {0}))
  IN IF Block \ (m.used \cup {0}) = {} THEN [m EXCEPT !.addr = 0]
     ELSE [m EXCEPT !.used = @ \cup {b}, !.log = @ \cup {BBLOCK(b)}, !.addr = b]

\* The first free block, marked and cleared; the kernel panics if there is none.
balloc(m) ==
  LET b == Min(Block \ (m.used \cup {0}))
  IN IF Block \ (m.used \cup {0}) = {} THEN [m EXCEPT !.addr = 0]
     ELSE bzero([m EXCEPT !.used = @ \cup {b}, !.log = @ \cup {BBLOCK(b)},
                          !.addr = b], b)

\* The block of ip->addrs[k], allocated if necessary.
Direct(m, k) ==
  IF m.addrs[k] # 0 THEN [m EXCEPT !.addr = m.addrs[k]]
  ELSE LET r == balloc(m) IN [r EXCEPT !.addrs[k] = r.addr]

bmap(m, bn) ==
  IF bn < NDIRECT THEN Direct(m, bn)
  ELSE LET r == Direct(m, NDIRECT)
           ind == r.addr
           k == bn - NDIRECT
           q == balloc(r)
       IN CASE ind = 0 -> r
            [] ind # 0 /\ r.data[ind][k] # 0 -> [r EXCEPT !.addr = r.data[ind][k]]
            [] OTHER -> [q EXCEPT !.data[ind][k] = q.addr, !.log = @ \cup {DBLOCK(ind)}]

FileState(i) == [used |-> used, data |-> data, addrs |-> addrs[i], log |-> log[i],
            addr |-> 0]

\* The blocks of file i that itrunc() frees.
Blocks(i) ==
  LET direct == {addrs[i][k] : k \in 0 .. NDIRECT}
      ind == addrs[i][NDIRECT]
      indirect == IF ind = 0 THEN {} ELSE {data[ind][k] : k \in 0 .. NINDIRECT - 1}
  IN (direct \cup indirect) \ {0}

\* bfree() of the blocks in S.
bfree(S) == used \ S

-----------------------------------------------------------------------------
(* Operations *)

\* writei() and readi() refuse to leave a hole, an offset that wraps, and
\* writei() a file that is too long.
BadRange(i, off, n) == off > size[i] \/ (off + n) % Wrap < off
TooLong(off, n) == off + n > MAXFILE * BSIZE

\* Faulty variant of max: no slop for a write that is not aligned.
MaxNoSlop == ((MAXOPBLOCKS - 1 - 1) \div 2) * BSIZE

\* filewrite's bound on what one transaction writes.
max == ((MAXOPBLOCKS - 1 - 1 - 2) \div 2) * BSIZE

\* One round of filewrite's loop: begin_op() and the tests of writei(), or the
\* end because all is written or writei() failed.
WriteChunk(i, off, n) ==
  LET n1 == Min({n, max})
  IN /\ op' = [op EXCEPT ![i] =
                 IF n = 0 \/ BadRange(i, off, n1) \/ TooLong(off, n1) THEN Idle
                 ELSE [at |-> "write", off |-> off, n |-> n - n1, end |-> off + n1]]
     /\ log' = [log EXCEPT ![i] = {}]
     /\ UNCHANGED <<used, data, size, addrs, dinode>>

\* Bound: where f->off may be, inside a block or at the end of the file; beyond
\* it writei() fails.
Offset(i) == {1, size[i], size[i] + 1}

\* filewrite() of n words at the file's offset.
filewrite(i) ==
  \/ /\ op[i].at = "idle" /\ ~Halted
     /\ \E off \in Offset(i), n \in WriteLen[i] : WriteChunk(i, off, n)
  \/ op[i].at = "chunk" /\ ~Halted /\ WriteChunk(i, op[i].off, op[i].n)

\* One round of writei()'s loop: the words of one block.
WriteBlock(i) ==
  /\ op[i].at = "write" /\ op[i].off < op[i].end /\ ~Halted
  /\ LET o == op[i]
         r == bmap(FileState(i), o.off \div BSIZE)
         lo == o.off % BSIZE
         m == Min({o.end - o.off, BSIZE - lo})
     IN /\ used' = r.used
        /\ addrs' = [addrs EXCEPT ![i] = r.addrs]
        /\ data' = [r.data EXCEPT ![r.addr] =
                      [k \in DOMAIN @ |-> IF k \in lo .. lo + m - 1 THEN i ELSE @[k]]]
        /\ log' = [log EXCEPT ![i] = r.log \cup {DBLOCK(r.addr)}]
        /\ op' = [op EXCEPT ![i].off = @ + m, ![i].at = IF r.addr = 0 THEN "panic" ELSE @]
  /\ UNCHANGED <<size, dinode>>

\* Faulty variant of GrowFile.
GrowUnsaved(i) ==
  /\ size' = [size EXCEPT ![i] = Max({@, op[i].off})]
  /\ UNCHANGED <<dinode, log>>

\* The end of writei(): a longer file gets its size, and iupdate() saves it.
GrowFile(i) ==
  IF op[i].off > size[i]
  THEN /\ size' = [size EXCEPT ![i] = op[i].off]
       /\ dinode' = [dinode EXCEPT ![i] = <<op[i].off, addrs[i]>>]
       /\ log' = [log EXCEPT ![i] = @ \cup {IBLOCK}]
  ELSE UNCHANGED <<size, dinode, log>>

\* The end of a transaction: end_op(), and on to the next chunk.
WriteEnd(i) ==
  /\ op[i].at = "write" /\ op[i].off = op[i].end /\ ~Halted
  /\ GrowFile(i)
  /\ op' = [op EXCEPT ![i].at = "chunk"]
  /\ UNCHANGED <<used, data, addrs>>

\* itrunc(), when the last link and reference of the file go away.
itrunc(i) ==
  /\ op[i].at = "idle" /\ size[i] > 0 /\ ~Halted
  /\ used' = bfree(Blocks(i))
  /\ addrs' = [addrs EXCEPT ![i] = NoAddrs]
  /\ size' = [size EXCEPT ![i] = 0]
  /\ dinode' = [dinode EXCEPT ![i] = <<0, NoAddrs>>]
  /\ log' = [log EXCEPT ![i] = {BBLOCK(b) : b \in Blocks(i)} \cup {IBLOCK}]
  /\ UNCHANGED <<data, op>>

BlocksNext ==
  \E i \in Ino : filewrite(i) \/ WriteBlock(i) \/ WriteEnd(i) \/ itrunc(i)

BlocksSpec == BlocksInit /\ [][BlocksNext]_blocksVars

-----------------------------------------------------------------------------
(* Properties *)

\* readi(): the words it returns, or <<-1>>.
readi(i, off, n) ==
  LET len == IF off + n > size[i] THEN size[i] - off ELSE n
  IN IF BadRange(i, off, n) THEN <<-1>>
     ELSE [k \in 1 .. len |->
             data[bmap(FileState(i), (off + k - 1) \div BSIZE).addr][(off + k - 1) % BSIZE]]

\* A file reads back as what was written to it, and only that: no zeroes, no
\* words of other files or of indirect blocks, wherever a read starts and ends
\* (readi, bmap, balloc's bzero).  Meanwhile other files grow and go away.
ReadBack ==
  \A i \in Ino : op[i].at = "idle" =>
    \A off \in 0 .. size[i] + 1, n \in WriteLen[i] \cup {0} :
      readi(i, off, n) = IF off > size[i] THEN <<-1>>
                         ELSE [k \in 1 .. Min({n, size[i] - off}) |-> i]

\* Every block marked in the bitmap belongs to exactly one file, in one place,
\* and between transactions the inode on disk knows it (balloc, bmap, itrunc,
\* writei's iupdate).
OneOwner ==
  ~Halted =>
    /\ \A i, j \in Ino : i # j => Blocks(i) \cap Blocks(j) = {}
    /\ used = UNION {Blocks(i) : i \in Ino}
    /\ \A i \in Ino : op[i].at # "write" =>
         /\ dinode[i] = <<size[i], addrs[i]>>
         /\ Cardinality(Blocks(i)) =
              LET nb == (size[i] + BSIZE - 1) \div BSIZE
              IN nb + (IF nb > NDIRECT THEN 1 ELSE 0)

\* No system call logs more blocks in one transaction than begin_op() reserves
\* for it, wherever the write starts and wherever its new blocks lie in the
\* bitmap (filewrite's max).
TransactionFits == \A i \in Ino : Cardinality(log[i]) <= MAXOPBLOCKS

=============================================================================
