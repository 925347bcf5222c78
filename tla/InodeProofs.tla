----------------------------- MODULE InodeProofs -----------------------------
(***************************************************************************)
(* The inode cache counts its references and the links right, its valid    *)
(* entries agree with the disk and iput() frees only what nothing leads    *)
(* to: for any number of processes, names and inodes.                      *)
(***************************************************************************)
EXTENDS Inode, FiniteSetTheorems, TLAPS

-----------------------------------------------------------------------------
(* The inductive invariant *)

\* Where a call is; during an iput(), where it will go on.
Where(p) == IF pc[p] \in Iputs THEN after[p] ELSE pc[p]

\* The places of the calls where the directory is locked, where the inode in ip
\* is, and where the variables dp and ip hold references.
RootHeld == {"dirlookup", "created", "mknew", "init", "dirlink", "baddir", "find",
             "victim", "erase", "full"}
IpHeld == {"init", "fdalloc", "count", "undo", "erase", "drop"}
HasDp == RootHeld \cup {"lookup", "create", "linkdir", "unlink"}
Creating == {"mknew", "init"}
Linking == {"linkdir", "dirlink", "baddir", "bad", "undo"}
Unlinking == {"victim", "erase", "drop"}
HasIp == {"open", "link", "linkput"} \cup IpHeld \cup Creating \cup Linking \cup Unlinking

\* The references, the arguments and the file that a process has at each place;
\* the lock that iput() takes is not one that the call has already.
CallInv(p) ==
  LET l == Where(p)
      op == call[p].op
  IN /\ l \notin Iputs \cup {"panic"}
     /\ pc[p] \in Iputs <=> put[p] # None
     /\ pc[p] \notin Iputs => after[p] = "idle"
     /\ pc[p] = "idle" \/ l \in {"read", "readi"} => call[p] = NoCall
     /\ dp[p] = IF l \in HasDp THEN Root ELSE None
     /\ ip[p] # None <=> l \in HasIp
     /\ l \in Creating \cup Linking \cup Unlinking \cup {"linkput"} => ip[p] # Root
     /\ l \in {"victim", "erase"} => entry[call[p].path] = ip[p]
     /\ l \in HasDp => call[p].path \in Name
     /\ op \in {"open", "creat"} => fd[p] = None
     /\ l \in {"read", "readi"} => fd[p] # None
     /\ l \in Creating \cup {"create", "created", "full"} => op = "creat"
     /\ l \in {"open", "fdalloc"} => op \in {"open", "creat"}
     /\ l \in {"lookup", "dirlookup"} => op \in {"open", "link"}
     /\ l \in Linking \cup {"link", "count"} => op = "link"
     /\ l \in Unlinking \cup {"unlink", "find"} => op = "unlink"
     /\ pc[p] \in {"itest", "ifree", "inval"} =>
          /\ put[p] = Root => l \notin RootHeld
          /\ put[p] = ip[p] => l \notin IpHeld
          /\ put[p] = fd[p] => l # "readi"

\* The locks a process has: those of its call, and that of iput().
Holds(p, i) ==
  \/ i = Root /\ Where(p) \in RootHeld
  \/ i = ip[p] /\ Where(p) \in IpHeld
  \/ i = fd[p] /\ Where(p) = "readi"
  \/ i = put[p] /\ pc[p] \in {"itest", "ifree", "inval"}

LockInv == \A i \in Inum, p \in Proc : lock[i] = p <=> Holds(p, i)

\* Directory entries and references lead to inodes that are allocated, but for
\* the reference of an iput() that has freed the inode.
LiveInv ==
  /\ \A n \in Name : entry[n] # None => entry[n] \in alloc \ {Root}
  /\ \A p \in Proc : /\ fd[p] # None => fd[p] \in alloc
                     /\ ip[p] # None => ip[p] \in alloc
                     /\ pc[p] \in {"iput", "itest", "ifree"} => put[p] \in alloc

\* A locked inode has been read; iput() has seen an inode without links, and
\* then without other references.
FreeInv ==
  /\ \A i \in Inum : lock[i] # None => i \in valid
  /\ \A p \in Proc : /\ pc[p] \in {"itest", "ifree"} => nlink[put[p]] = 0
                     /\ pc[p] = "ifree" => ref[put[p]] = 1

\* The first half of CacheCoherent.
Coherent(i) ==
  ref[i] > 0 => \/ i \in alloc /\ nlink[i] = dlink[i]
                \/ \E p \in Proc : pc[p] = "inval" /\ put[p] = i

CacheInv == \A i \in valid : Coherent(i)

\* A new inode has no links and belongs to the call that creates it, and the
\* name is not in the directory.
NewInv ==
  \A p \in Proc : Where(p) \in Creating =>
    /\ dlink[ip[p]] = 0 /\ entry[call[p].path] = None
    /\ \A q \in Proc \ {p} : ip[q] # ip[p]

InodeInv ==
  /\ TypeOK /\ (\A p \in Proc : CallInv(p)) /\ LockInv /\ LiveInv /\ FreeInv /\ NewInv
  /\ CacheInv /\ RefsCounted /\ LinksCounted

-----------------------------------------------------------------------------
(* Counting *)

LEMMA NoneIs == None \notin Proc /\ None \notin Inum
BY InodeAssumption DEF Inum

One(b) == IF b THEN 1 ELSE 0

\* Two sets that differ in one element at most.
LEMMA CountOne ==
  ASSUME NEW U, IsFiniteSet(U), NEW S \in SUBSET U, NEW T \in SUBSET U, NEW x \in U,
         \A y \in U \ {x} : y \in S <=> y \in T
  PROVE  /\ Cardinality(S) \in Nat /\ Cardinality(T) \in Nat
         /\ Cardinality(T) + One(x \in S) = Cardinality(S) + One(x \in T)
<1>1. IsFiniteSet(S) /\ IsFiniteSet(T)  BY FS_Subset
<1>2. Cardinality(S) \in Nat /\ Cardinality(T) \in Nat  BY <1>1, FS_CardinalityType
<1>3. CASE x \in S <=> x \in T
  <2>1. S = T  BY <1>3
  <2> QED  BY <1>2, <2>1 DEF One
<1>4. CASE x \in S /\ x \notin T
  <2>1. T = S \ {x}  BY <1>4
  <2>2. Cardinality(T) = Cardinality(S) - 1  BY <1>1, <1>4, <2>1, FS_RemoveElement
  <2> QED  BY <1>2, <1>4, <2>2 DEF One
<1>5. CASE x \notin S /\ x \in T
  <2>1. S = T \ {x}  BY <1>5
  <2>2. Cardinality(S) = Cardinality(T) - 1  BY <1>1, <1>5, <2>1, FS_RemoveElement
  <2> QED  BY <1>2, <1>5, <2>2 DEF One
<1> QED  BY <1>3, <1>4, <1>5

\* A set with an element counts.
LEMMA CountSome ==
  ASSUME NEW U, IsFiniteSet(U), NEW S \in SUBSET U
  PROVE  /\ Cardinality(S) \in Nat
         /\ Cardinality(S) = 0 <=> S = {}
         /\ \A x, y \in S : x # y => Cardinality(S) >= 2
<1>1. IsFiniteSet(S)  BY FS_Subset
<1>2. Cardinality(S) \in Nat /\ (Cardinality(S) = 0 <=> S = {})
  BY <1>1, FS_CardinalityType, FS_EmptySet
<1>3. ASSUME NEW x \in S, NEW y \in S, x # y
      PROVE  Cardinality(S) >= 2
  <2>1. IsFiniteSet(S \ {x}) /\ Cardinality(S \ {x}) = Cardinality(S) - 1
    BY <1>1, FS_RemoveElement
  <2>2. Cardinality(S \ {x}) \in Nat /\ Cardinality(S \ {x}) # 0
    BY <1>3, <2>1, FS_CardinalityType, FS_EmptySet
  <2> QED  BY <1>2, <2>1, <2>2
<1> QED  BY <1>2, <1>3

\* The processes whose variable f is i.
With(f, i) == {p \in Proc : f[p] = i}

LEMMA PointersWith ==
  ASSUME NEW i
  PROVE  Pointers(i) = Cardinality(With(fd, i)) + Cardinality(With(ip, i))
           + Cardinality(With(dp, i)) + Cardinality(With(put, i))
           + (IF i = Root THEN Cardinality(Proc) ELSE 0)
BY DEF Pointers, With

LEMMA CountWith ==
  ASSUME NEW f, NEW g, NEW i, NEW p \in Proc, \A q \in Proc \ {p} : f[q] = g[q]
  PROVE  /\ Cardinality(With(f, i)) \in Nat /\ Cardinality(With(g, i)) \in Nat
         /\ Cardinality(With(g, i)) + One(f[p] = i) = Cardinality(With(f, i)) + One(g[p] = i)
<1> DEFINE S == With(f, i)
           T == With(g, i)
<1>1. S \in SUBSET Proc /\ T \in SUBSET Proc  BY DEF With
<1>2. \A q \in Proc \ {p} : q \in S <=> q \in T  BY DEF With
<1>3. (p \in S <=> f[p] = i) /\ (p \in T <=> g[p] = i)  BY DEF With
<1> HIDE DEF S, T
<1>4. /\ Cardinality(S) \in Nat /\ Cardinality(T) \in Nat
      /\ Cardinality(T) + One(p \in S) = Cardinality(S) + One(p \in T)
  BY <1>1, <1>2, CountOne, InodeAssumption
<1>5. One(p \in S) = One(f[p] = i) /\ One(p \in T) = One(g[p] = i)  BY <1>3 DEF One
<1> QED  BY <1>4, <1>5 DEF S, T

-----------------------------------------------------------------------------
(* What one process's step leaves alone *)

\* The variables of the other processes.
Others(p) ==
  \A q \in Proc \ {p} :
    /\ fd'[q] = fd[q] /\ ip'[q] = ip[q] /\ dp'[q] = dp[q] /\ put'[q] = put[q]
    /\ pc'[q] = pc[q] /\ after'[q] = after[q] /\ call'[q] = call[q]

\* The references of process p to inode i.
Own(p, i) == One(fd[p] = i) + One(ip[p] = i) + One(dp[p] = i) + One(put[p] = i)

\* ref stays right if the process that moves accounts for its own references.
LEMMA RefsFrame ==
  ASSUME RefsCounted, NEW p \in Proc, Others(p),
         ref \in [Inum -> Nat], ref' \in [Inum -> Nat],
         \A i \in Inum : ref'[i] + Own(p, i) = ref[i] + Own(p, i)'
  PROVE  RefsCounted'
<1> SUFFICES ASSUME NEW i \in Inum PROVE ref'[i] = Pointers(i)'  BY DEF RefsCounted
<1> DEFINE a == Cardinality(With(fd, i))  a1 == Cardinality(With(fd', i))
           b == Cardinality(With(ip, i))  b1 == Cardinality(With(ip', i))
           c == Cardinality(With(dp, i))  c1 == Cardinality(With(dp', i))
           d == Cardinality(With(put, i)) d1 == Cardinality(With(put', i))
           n == IF i = Root THEN Cardinality(Proc) ELSE 0
           u == One(fd[p] = i)   u1 == One(fd'[p] = i)
           v == One(ip[p] = i)   v1 == One(ip'[p] = i)
           w == One(dp[p] = i)   w1 == One(dp'[p] = i)
           x == One(put[p] = i)  x1 == One(put'[p] = i)
<1>1. a \in Nat /\ a1 \in Nat /\ a1 + u = a + u1
  <2>1. \A q \in Proc \ {p} : fd[q] = fd'[q]  BY DEF Others
  <2> QED  BY ONLY p \in Proc, <2>1, CountWith
<1>2. b \in Nat /\ b1 \in Nat /\ b1 + v = b + v1
  <2>1. \A q \in Proc \ {p} : ip[q] = ip'[q]  BY DEF Others
  <2> QED  BY ONLY p \in Proc, <2>1, CountWith
<1>3. c \in Nat /\ c1 \in Nat /\ c1 + w = c + w1
  <2>1. \A q \in Proc \ {p} : dp[q] = dp'[q]  BY DEF Others
  <2> QED  BY ONLY p \in Proc, <2>1, CountWith
<1>4. d \in Nat /\ d1 \in Nat /\ d1 + x = d + x1
  <2>1. \A q \in Proc \ {p} : put[q] = put'[q]  BY DEF Others
  <2> QED  BY ONLY p \in Proc, <2>1, CountWith
<1>5. n \in Nat  BY FS_CardinalityType, InodeAssumption
<1>6. ref[i] = a + b + c + d + n  BY PointersWith DEF RefsCounted
<1>7. Pointers(i)' = a1 + b1 + c1 + d1 + n  BY DEF Pointers, With
<1>8. ref[i] \in Nat /\ ref'[i] \in Nat  OBVIOUS
<1>9. ref'[i] + (u + v + w + x) = ref[i] + (u1 + v1 + w1 + x1)  BY DEF Own
<1>10. /\ u \in Nat /\ v \in Nat /\ w \in Nat /\ x \in Nat
       /\ u1 \in Nat /\ v1 \in Nat /\ w1 \in Nat /\ x1 \in Nat
  BY DEF One
<1> HIDE DEF a, a1, b, b1, c, c1, d, d1, n, u, u1, v, v1, w, w1, x, x1
<1> QED  BY <1>1, <1>2, <1>3, <1>4, <1>5, <1>6, <1>7, <1>8, <1>9, <1>10

\* The locks stay right if the process that moves accounts for its own.
LEMMA LockFrame ==
  ASSUME LockInv, NEW p \in Proc, Others(p),
         \A i \in Inum : lock'[i] = lock[i] \/ (lock[i] \in {p, None} /\ lock'[i] \in {p, None}),
         \A i \in Inum : lock'[i] = p <=> Holds(p, i)'
  PROVE  LockInv'
<1> SUFFICES ASSUME NEW i \in Inum, NEW q \in Proc PROVE lock'[i] = q <=> Holds(q, i)'
  BY DEF LockInv
<1>1. CASE q = p  BY <1>1
<1>2. CASE q # p
  <2>1. lock'[i] = q <=> lock[i] = q  BY <1>2, InodeAssumption
  <2>2. Holds(q, i)' <=> Holds(q, i)  BY <1>2 DEF Others, Holds, Where
  <2> QED  BY <2>1, <2>2 DEF LockInv
<1> QED  BY <1>1, <1>2

\* What is known of the others' calls stays if the entries that they have
\* locked do.
LEMMA CallFrame ==
  ASSUME \A q \in Proc : CallInv(q), NEW p \in Proc, Others(p), CallInv(p)',
         \A q \in Proc \ {p} : Where(q) \in {"victim", "erase"} =>
                                 entry'[call[q].path] = entry[call[q].path]
  PROVE  \A q \in Proc : CallInv(q)'
<1> SUFFICES ASSUME NEW q \in Proc, q # p PROVE CallInv(q)'  OBVIOUS
<1>1. CallInv(q)  OBVIOUS
<1>2. /\ fd'[q] = fd[q] /\ ip'[q] = ip[q] /\ dp'[q] = dp[q] /\ put'[q] = put[q]
      /\ pc'[q] = pc[q] /\ after'[q] = after[q] /\ call'[q] = call[q]
  BY DEF Others
<1>3. Where(q)' = Where(q)  BY <1>2 DEF Where
<1> QED  BY <1>1, <1>2, <1>3 DEF CallInv

\* While a process has the directory locked nobody else is where it is locked.
LEMMA DirectoryLocked ==
  ASSUME InodeInv, NEW p \in Proc, NEW q \in Proc, q # p, Where(p) \in RootHeld
  PROVE  Where(q) \notin RootHeld
<1>1. Root \in Inum  BY DEF InodeInv, TypeOK
<1>2. Holds(p, Root) /\ (Where(q) \in RootHeld => Holds(q, Root))  BY DEF Holds
<1>3. lock[Root] = p  BY <1>1, <1>2 DEF InodeInv, LockInv
<1> QED  BY <1>1, <1>2, <1>3 DEF InodeInv, LockInv

\* A valid entry of an inode with references agrees with the disk unless
\* another process has it locked.
LEMMA CoherentUnlocked ==
  ASSUME InodeInv, NEW i \in valid, ref[i] > 0,
         \A p \in Proc : lock[i] = p => pc[p] # "inval"
  PROVE  i \in alloc /\ nlink[i] = dlink[i]
<1>1. ASSUME NEW p \in Proc, pc[p] = "inval", put[p] = i
      PROVE  FALSE
  <2>1. i \in Inum /\ Holds(p, i)  BY <1>1 DEF Holds, InodeInv, TypeOK
  <2> QED  BY <1>1, <2>1 DEF InodeInv, LockInv
<1> QED  BY <1>1 DEF InodeInv, CacheInv, Coherent

\* Whatever points to an inode is counted.
LEMMA Referenced ==
  ASSUME InodeInv, NEW p \in Proc, NEW i \in Inum,
         fd[p] = i \/ ip[p] = i \/ dp[p] = i \/ put[p] = i
  PROVE  ref[i] > 0
<1> DEFINE a == Cardinality(With(fd, i))
           b == Cardinality(With(ip, i))
           c == Cardinality(With(dp, i))
           d == Cardinality(With(put, i))
           n == IF i = Root THEN Cardinality(Proc) ELSE 0
<1>1. ref[i] = a + b + c + d + n  BY PointersWith DEF InodeInv, RefsCounted
<1>2. ASSUME NEW f PROVE /\ Cardinality(With(f, i)) \in Nat
                         /\ f[p] = i => Cardinality(With(f, i)) > 0
  <2>1. With(f, i) \in SUBSET Proc  BY DEF With
  <2>2. /\ Cardinality(With(f, i)) \in Nat
        /\ Cardinality(With(f, i)) = 0 <=> With(f, i) = {}
    BY <2>1, CountSome, InodeAssumption
  <2> QED  BY <2>2 DEF With
<1>3. n \in Nat  BY FS_CardinalityType, InodeAssumption
<1>4. /\ a \in Nat /\ b \in Nat /\ c \in Nat /\ d \in Nat
      /\ a > 0 \/ b > 0 \/ c > 0 \/ d > 0
  BY <1>2
<1> HIDE DEF a, b, c, d, n
<1> QED  BY <1>1, <1>3, <1>4

\* An inode of which iput() has seen the last reference: nothing else leads to
\* it.
Alone(p, i) ==
  /\ i \in alloc \ {Root} /\ dlink[i] = 0 /\ nlink[i] = 0
  /\ \A n \in Name : entry[n] # i
  /\ \A q \in Proc : fd[q] # i /\ ip[q] # i /\ dp[q] # i /\ (q # p => put[q] # i)

LEMMA LastReference ==
  ASSUME InodeInv, NEW p \in Proc, put[p] \in Inum,
         ref[put[p]] = 1
  PROVE  /\ put[p] # Root
         /\ \A q \in Proc : /\ fd[q] # put[p] /\ ip[q] # put[p] /\ dp[q] # put[p]
                            /\ q # p => put[q] # put[p]
<1> DEFINE i == put[p]
           a == Cardinality(With(fd, i))
           b == Cardinality(With(ip, i))
           c == Cardinality(With(dp, i))
           d == Cardinality(With(put, i))
           n == IF i = Root THEN Cardinality(Proc) ELSE 0
<1>1. 1 = a + b + c + d + n  BY PointersWith DEF InodeInv, RefsCounted
<1>2. ASSUME NEW f
      PROVE  /\ Cardinality(With(f, i)) \in Nat
             /\ Cardinality(With(f, i)) = 0 <=> With(f, i) = {}
             /\ \A x, y \in With(f, i) : x # y => Cardinality(With(f, i)) >= 2
  <2>1. With(f, i) \in SUBSET Proc  BY DEF With
  <2> QED  BY <2>1, CountSome, InodeAssumption
<1>3. Cardinality(Proc) \in Nat /\ Cardinality(Proc) > 0
  <2>1. Cardinality(Proc) \in Nat /\ (Cardinality(Proc) = 0 <=> Proc = {})
    BY CountSome, InodeAssumption
  <2> QED  BY <2>1
<1>4. n \in Nat /\ (i = Root => n > 0)  BY <1>3
<1>5. d > 0 /\ d \in Nat
  <2>1. p \in With(put, i)  BY DEF With
  <2> QED  BY <1>2, <2>1
<1>6. a \in Nat /\ b \in Nat /\ c \in Nat  BY <1>2
<1>7. a = 0 /\ b = 0 /\ c = 0 /\ d = 1 /\ i # Root
  <2> HIDE DEF a, b, c, d, n, i
  <2> QED  BY <1>1, <1>4, <1>5, <1>6
<1>8. With(fd, i) = {} /\ With(ip, i) = {} /\ With(dp, i) = {}  BY <1>2, <1>7
<1>9. ASSUME NEW q \in Proc, q # p PROVE put[q] # i
  <2>1. p \in With(put, i) /\ (put[q] = i => q \in With(put, i))  BY DEF With
  <2> QED  BY <1>2, <1>7, <1>9, <2>1
<1> QED  BY <1>7, <1>8, <1>9 DEF With

\* Every entry counts as a link.
LEMMA Unlinked ==
  ASSUME InodeInv, NEW i \in alloc \ {Root}, dlink[i] = 0
  PROVE  \A n \in Name : entry[n] # i
<1> DEFINE E == {n \in Name : entry[n] = i}
<1>1. dlink[i] = Cardinality(E) + Cardinality(Pending(i))  BY DEF InodeInv, LinksCounted
<1>2. Cardinality(E) \in Nat /\ (Cardinality(E) = 0 <=> E = {})
  BY CountSome, InodeAssumption
<1>3. Cardinality(Pending(i)) \in Nat  BY CountSome, InodeAssumption DEF Pending
<1> HIDE DEF E
<1>4. E = {}  BY <1>1, <1>2, <1>3
<1> QED  BY <1>4 DEF E

LEMMA FreedAlone ==
  ASSUME InodeInv, NEW p \in Proc, pc[p] = "ifree"
  PROVE  Alone(p, put[p])
<1> DEFINE i == put[p]
<1>1. i \in Inum /\ Holds(p, i)  BY DEF InodeInv, CallInv, Holds, TypeOK, Iputs
<1>2. lock[i] = p  BY <1>1 DEF InodeInv, LockInv
<1>3. ref[i] = 1 /\ nlink[i] = 0 /\ i \in valid /\ i \in alloc
  BY <1>1, <1>2, InodeAssumption DEF InodeInv, FreeInv, LiveInv
<1>4. dlink[i] = 0  BY <1>2, <1>3, CoherentUnlocked DEF InodeInv, TypeOK
<1>5. /\ i # Root
      /\ \A q \in Proc : fd[q] # i /\ ip[q] # i /\ dp[q] # i /\ (q # p => put[q] # i)
  BY <1>1, <1>3, LastReference
<1>6. \A n \in Name : entry[n] # i  BY <1>3, <1>4, <1>5, Unlinked
<1> QED  BY <1>3, <1>4, <1>5, <1>6 DEF Alone

\* The calls that the link count of inode i is ahead for.
Ahead(p, i) == ip[p] = i /\ Where(p) \in Linking \cup {"drop"}

\* Pending(i), from where a process is.
LEMMA PendingLabels ==
  ASSUME NEW l, NEW a, NEW op, NEW x,
         x = IF l \in Iputs THEN a ELSE l,
         l \notin Iputs => a = "idle",
         x \in Linking => op = "link", x \in Unlinking => op = "unlink"
  PROVE  (\/ op = "link" /\ {l, a} \cap {"linkdir", "dirlink", "baddir", "bad", "undo"} # {}
          \/ op = "unlink" /\ {l, a} \cap {"drop"} # {})
         <=> x \in Linking \cup {"drop"}
<1>1. \A S : {l, a} \cap S # {} <=> l \in S \/ a \in S  OBVIOUS
<1>2. CASE l \in Iputs
  <2>1. x = a /\ l \notin {"linkdir", "dirlink", "baddir", "bad", "undo", "drop"}
    BY <1>2 DEF Iputs
  <2> QED  BY <1>1, <2>1 DEF Linking, Unlinking
<1>3. CASE l \notin Iputs
  <2>1. x = l /\ a = "idle"  BY <1>3
  <2> QED  BY <1>1, <2>1 DEF Linking, Unlinking
<1> QED  BY <1>2, <1>3

LEMMA PendingAhead ==
  ASSUME NEW p \in Proc, NEW i, CallInv(p)
  PROVE  p \in Pending(i) <=> Ahead(p, i)
BY PendingLabels DEF Pending, Ahead, CallInv, Where

LEMMA PendingAheadNext ==
  ASSUME NEW p \in Proc, NEW i, CallInv(p)'
  PROVE  p \in Pending(i)' <=> Ahead(p, i)'
BY PendingLabels DEF Pending, Ahead, CallInv, Where

\* How many calls are ahead changes with the process that moves ...
LEMMA PendingFrame ==
  ASSUME \A q \in Proc : CallInv(q), \A q \in Proc : CallInv(q)', NEW p \in Proc,
         Others(p), NEW i
  PROVE  /\ Cardinality(Pending(i)) \in Nat /\ Cardinality(Pending(i)') \in Nat
         /\ Cardinality(Pending(i)') + One(Ahead(p, i))
              = Cardinality(Pending(i)) + One(Ahead(p, i)')
<1> DEFINE S == Pending(i)
           T == Pending(i)'
<1>1. S \in SUBSET Proc /\ T \in SUBSET Proc  BY DEF Pending
<1>2. \A q \in Proc \ {p} : q \in S <=> q \in T  BY DEF Pending, Others
<1>3. (p \in S <=> Ahead(p, i)) /\ (p \in T <=> Ahead(p, i)')
  BY PendingAhead, PendingAheadNext
<1> HIDE DEF S, T
<1>4. /\ Cardinality(S) \in Nat /\ Cardinality(T) \in Nat
      /\ Cardinality(T) + One(p \in S) = Cardinality(S) + One(p \in T)
  BY <1>1, <1>2, CountOne, InodeAssumption
<1>5. One(p \in S) = One(Ahead(p, i)) /\ One(p \in T) = One(Ahead(p, i)')  BY <1>3 DEF One
<1> QED  BY <1>4, <1>5 DEF S, T

\* ... and the number of entries with the one that is written.
Names(e, i) == {n \in Name : e[n] = i}

LEMMA NamesFrame ==
  ASSUME NEW e, NEW f, NEW i, NEW n \in Name, \A m \in Name \ {n} : e[m] = f[m]
  PROVE  /\ Cardinality(Names(e, i)) \in Nat /\ Cardinality(Names(f, i)) \in Nat
         /\ Cardinality(Names(f, i)) + One(e[n] = i) = Cardinality(Names(e, i)) + One(f[n] = i)
<1> DEFINE S == Names(e, i)
           T == Names(f, i)
<1>1. S \in SUBSET Name /\ T \in SUBSET Name  BY DEF Names
<1>2. \A q \in Name \ {n} : q \in S <=> q \in T  BY DEF Names
<1>3. (n \in S <=> e[n] = i) /\ (n \in T <=> f[n] = i)  BY DEF Names
<1> HIDE DEF S, T
<1>4. /\ Cardinality(S) \in Nat /\ Cardinality(T) \in Nat
      /\ Cardinality(T) + One(n \in S) = Cardinality(S) + One(n \in T)
  BY <1>1, <1>2, CountOne, InodeAssumption
<1>5. One(n \in S) = One(e[n] = i) /\ One(n \in T) = One(f[n] = i)  BY <1>3 DEF One
<1> QED  BY <1>4, <1>5 DEF S, T

\* The links stay right if the process that moves accounts for its own.
LEMMA LinksFrame ==
  ASSUME InodeInv, TypeOK', \A q \in Proc : CallInv(q)', NEW p \in Proc, Others(p),
         entry' = entry,
         \A i \in alloc' \ {Root} :
           /\ i \in alloc => dlink'[i] + One(Ahead(p, i)) = dlink[i] + One(Ahead(p, i)')
           /\ i \notin alloc => dlink'[i] = 0 /\ ~ Ahead(p, i)'
  PROVE  LinksCounted'
<1> SUFFICES ASSUME NEW i \in alloc' \ {Root}
             PROVE  dlink'[i] = Cardinality(Names(entry, i)) + Cardinality(Pending(i)')
  BY DEF LinksCounted, Names
<1>1. CASE i \in alloc
  <2> DEFINE c == Cardinality(Pending(i))  c1 == Cardinality(Pending(i)')
             m == Cardinality(Names(entry, i))
             x == One(Ahead(p, i))         x1 == One(Ahead(p, i)')
  <2>1. c \in Nat /\ c1 \in Nat /\ c1 + x = c + x1  BY PendingFrame DEF InodeInv
  <2>2. m \in Nat
    <3>1. Names(entry, i) \in SUBSET Name  BY DEF Names
    <3> QED  BY <3>1, CountSome, InodeAssumption
  <2>3. dlink[i] = m + c  BY <1>1 DEF InodeInv, LinksCounted, Names
  <2>4. dlink'[i] + x = dlink[i] + x1  BY <1>1
  <2>5. x \in Nat /\ x1 \in Nat  BY DEF One
  <2>6. dlink[i] \in Nat /\ dlink'[i] \in Nat  BY <1>1 DEF InodeInv, TypeOK
  <2> HIDE DEF c, c1, m, x, x1
  <2>7. dlink'[i] = m + c1  BY <2>1, <2>2, <2>3, <2>4, <2>5, <2>6
  <2> QED  BY <2>7 DEF m, c1
<1>2. CASE i \notin alloc
  <2>1. i \in Inum  BY DEF TypeOK
  <2>2. Names(entry, i) = {}  BY <1>2, <2>1, NoneIs DEF InodeInv, LiveInv, Names
  <2>3. Pending(i)' = {}
    <3>1. ASSUME NEW q \in Proc \ {p} PROVE q \notin Pending(i)'
      <4>1. ip'[q] = ip[q] /\ ip[q] \in alloc \cup {None}  BY DEF Others, InodeInv, LiveInv
      <4> QED  BY <1>2, <2>1, <4>1, NoneIs DEF Pending
    <3>2. p \notin Pending(i)'  BY <1>2, PendingAheadNext
    <3>3. Pending(i)' \subseteq Proc  BY DEF Pending
    <3> QED  BY <3>1, <3>2, <3>3
  <2>4. Cardinality({}) = 0  BY FS_EmptySet
  <2> QED  BY <1>2, <2>2, <2>3, <2>4
<1> QED  BY <1>1, <1>2

\* The same with a directory entry that is written.
LEMMA EntryFrame ==
  ASSUME InodeInv, TypeOK', \A q \in Proc : CallInv(q)', NEW p \in Proc, Others(p),
         call[p].path \in Name, alloc' = alloc,
         \A m \in Name \ {call[p].path} : entry[m] = entry'[m],
         \A i \in alloc \ {Root} :
           dlink'[i] + One(Ahead(p, i)) + One(entry[call[p].path] = i)
             = dlink[i] + One(Ahead(p, i)') + One(entry'[call[p].path] = i)
  PROVE  LinksCounted'
<1> SUFFICES ASSUME NEW i \in alloc \ {Root}
             PROVE  dlink'[i] = Cardinality(Names(entry', i)) + Cardinality(Pending(i)')
  BY DEF LinksCounted, Names
<1> DEFINE n == call[p].path
           e == dlink[i]                      e1 == dlink'[i]
           c == Cardinality(Pending(i))       c1 == Cardinality(Pending(i)')
           m == Cardinality(Names(entry, i))  m1 == Cardinality(Names(entry', i))
           x == One(Ahead(p, i))              x1 == One(Ahead(p, i)')
           y == One(entry[n] = i)             y1 == One(entry'[n] = i)
<1>1. c \in Nat /\ c1 \in Nat /\ c1 + x = c + x1  BY PendingFrame DEF InodeInv
<1>2. m \in Nat /\ m1 \in Nat /\ m1 + y = m + y1
  <2>1. n \in Name /\ \A k \in Name \ {n} : entry[k] = entry'[k]  OBVIOUS
  <2> HIDE DEF n
  <2> QED  BY ONLY <2>1, NamesFrame
<1>3. e = m + c  BY DEF InodeInv, LinksCounted, Names
<1>4. e1 + x + y = e + x1 + y1  OBVIOUS
<1>5. x \in Nat /\ x1 \in Nat /\ y \in Nat /\ y1 \in Nat  BY DEF One
<1>6. e \in Nat /\ e1 \in Nat  BY DEF InodeInv, TypeOK
<1> HIDE DEF n, e, e1, c, c1, m, m1, x, x1, y, y1
<1>7. e1 = m1 + c1  BY ONLY <1>1, <1>2, <1>3, <1>4, <1>5, <1>6
<1> QED  BY <1>7 DEF e1, m1, c1

\* Valid entries stay coherent if the process that moves keeps those that it
\* touches so.
LEMMA CacheFrame ==
  ASSUME InodeInv, NEW p \in Proc, Others(p), pc[p] # "inval",
         \A i \in valid' : ref'[i] > 0 =>
           \/ /\ i \in valid /\ ref[i] > 0 /\ (i \in alloc => i \in alloc')
              /\ nlink'[i] = nlink[i] /\ (i \in alloc => dlink'[i] = dlink[i])
           \/ i \in alloc' /\ nlink'[i] = dlink'[i]
           \/ pc'[p] = "inval" /\ put'[p] = i
  PROVE  CacheInv'
<1> SUFFICES ASSUME NEW i \in valid', ref'[i] > 0
             PROVE  \/ i \in alloc' /\ nlink'[i] = dlink'[i]
                    \/ \E q \in Proc : pc'[q] = "inval" /\ put'[q] = i
  BY DEF CacheInv, Coherent
<1>1. CASE /\ i \in valid /\ ref[i] > 0 /\ (i \in alloc => i \in alloc')
           /\ nlink'[i] = nlink[i] /\ (i \in alloc => dlink'[i] = dlink[i])
  BY <1>1 DEF InodeInv, CacheInv, Coherent, Others
<1> QED  BY <1>1

\* What the others have seen in iput() stays: nobody else changes the counts of
\* an inode that they have locked, or gets a reference to one that is alone.
LEMMA FreeFrame ==
  ASSUME InodeInv, NEW p \in Proc, Others(p),
         \A i \in Inum : lock'[i] # None => i \in valid',
         \A i \in Inum : nlink'[i] = nlink[i] \/ lock[i] \in {None, p},
         \A i \in Inum : \/ ref'[i] = ref[i] \/ i = Root \/ i \notin alloc \/ put[p] = i
                         \/ \E n \in Name : entry[n] = i,
         pc'[p] \in {"itest", "ifree"} => nlink'[put'[p]] = 0,
         pc'[p] = "ifree" => ref'[put'[p]] = 1
  PROVE  FreeInv'
<1> SUFFICES ASSUME NEW q \in Proc, q # p
             PROVE  /\ pc[q] \in {"itest", "ifree"} => nlink'[put[q]] = 0
                    /\ pc[q] = "ifree" => ref'[put[q]] = 1
  BY DEF FreeInv, Others
<1>1. CallInv(q) /\ put[q] \in Inum \cup {None}  BY DEF InodeInv, TypeOK
<1>2. ASSUME pc[q] \in {"itest", "ifree"} PROVE nlink'[put[q]] = 0
  <2>1. put[q] \in Inum /\ Holds(q, put[q])  BY <1>1, <1>2 DEF CallInv, Holds, Iputs
  <2>2. lock[put[q]] = q  BY <2>1 DEF InodeInv, LockInv
  <2> QED  BY <1>2, <2>1, <2>2, InodeAssumption DEF InodeInv, FreeInv
<1>3. ASSUME pc[q] = "ifree" PROVE ref'[put[q]] = 1
  <2>1. Alone(q, put[q])  BY <1>3, FreedAlone
  <2>2. put[q] \in Inum  BY <1>1, <1>3 DEF CallInv, Iputs
  <2> QED  BY <1>3, <2>1, <2>2 DEF Alone, InodeInv, FreeInv
<1> QED  BY <1>2, <1>3

\* A new inode stays apart if nobody else writes its links or gets to it.
LEMMA NewFrame ==
  ASSUME InodeInv, NEW p \in Proc, Others(p),
         entry' = entry \/ Where(p) \in RootHeld,
         \A i \in alloc : dlink'[i] \in {dlink[i], 0} \/ ip[p] = i,
         \/ ip'[p] \in {ip[p], None, Root} \/ ip'[p] \notin alloc
         \/ \E n \in Name : entry[n] = ip'[p],
         Where(p)' \in Creating =>
           \/ /\ Where(p) \in Creating /\ ip'[p] = ip[p] /\ call'[p] = call[p]
              /\ dlink' = dlink /\ entry' = entry
           \/ /\ dlink'[ip'[p]] = 0 /\ entry'[call'[p].path] = None
              /\ ip'[p] \notin alloc \cup {None}
  PROVE  NewInv'
<1>1. TypeOK /\ LiveInv /\ NewInv /\ \A q \in Proc : CallInv(q)  BY DEF InodeInv
<1> SUFFICES ASSUME NEW q \in Proc, Where(q)' \in Creating
             PROVE  /\ dlink'[ip'[q]] = 0 /\ entry'[call'[q].path] = None
                    /\ \A r \in Proc \ {q} : ip'[r] # ip'[q]
  BY DEF NewInv
<1>2. CASE q = p
  <2>1. dlink'[ip'[p]] = 0 /\ entry'[call'[p].path] = None  BY <1>1, <1>2 DEF NewInv
  <2>2. ASSUME NEW r \in Proc \ {p} PROVE ip'[r] # ip'[p]
    <3>1. ip'[r] = ip[r] /\ ip[r] \in alloc \cup {None}  BY <1>1 DEF Others, LiveInv
    <3> QED  BY <1>1, <1>2, <3>1 DEF NewInv
  <2> QED  BY <1>2, <2>1, <2>2
<1>3. CASE q # p
  <2>1. ip'[q] = ip[q] /\ call'[q] = call[q] /\ Where(q)' = Where(q) /\ CallInv(q)
    BY <1>1, <1>3 DEF Others, Where
  <2>2. /\ dlink[ip[q]] = 0 /\ entry[call[q].path] = None
        /\ \A r \in Proc \ {q} : ip[r] # ip[q]
    BY <1>1, <2>1 DEF NewInv
  <2>3. ip[q] \in alloc \ {Root} /\ ip[q] # None
    BY <1>1, <2>1 DEF CallInv, LiveInv, HasIp
  <2>4. dlink'[ip[q]] = 0  BY <1>3, <2>2, <2>3
  <2>5. entry' = entry
    <3>1. Where(q) \in RootHeld  BY <2>1 DEF Creating, RootHeld
    <3> QED  BY <1>3, <3>1, DirectoryLocked
  <2>6. \A n \in Name : entry[n] # ip[q]  BY <2>2, <2>3, Unlinked
  <2>7. ip'[p] # ip[q]  BY <1>3, <2>2, <2>3, <2>6
  <2>8. \A r \in Proc \ {q} : ip'[r] # ip[q]  BY <2>2, <2>7 DEF Others
  <2> QED  BY <2>1, <2>2, <2>4, <2>5, <2>8
<1> QED  BY <1>2, <1>3

-----------------------------------------------------------------------------
(* Steps that leave the disk and the link counts alone *)

\* A locked inode has a reference.
LEMMA LockedReferenced ==
  ASSUME InodeInv, NEW i \in Inum, lock[i] # None
  PROVE  ref[i] > 0 /\ i \in valid
<1>1. PICK p \in Proc : lock[i] = p  BY DEF InodeInv, TypeOK
<1>2. Holds(p, i)  BY <1>1 DEF InodeInv, LockInv
<1>3. CallInv(p)  BY DEF InodeInv
<1>4. fd[p] = i \/ ip[p] = i \/ dp[p] = i \/ put[p] = i
  BY <1>2, <1>3 DEF Holds, CallInv, HasDp
<1> QED  BY <1>4, Referenced DEF InodeInv, FreeInv

\* What such a step of p may do: it takes a reference to the directory or to what
\* one of its entries leads to, or none, gives up locks, and moves references
\* and control so that its own are accounted for.
Quiet(p) ==
  /\ alloc' = alloc /\ dlink' = dlink /\ entry' = entry /\ nlink' = nlink
  /\ Others(p) /\ CallInv(p)'
  /\ \/ ref' = ref /\ valid' = valid
     \/ \E i \in Inum : iget(i) /\ (i = Root \/ \E n \in Name : entry[n] = i)
  /\ \A i \in Inum : /\ ref'[i] + Own(p, i) = ref[i] + Own(p, i)'
                     /\ lock'[i] = lock[i] \/ (lock[i] = p /\ lock'[i] = None)
                     /\ Holds(p, i)' <=> Holds(p, i) /\ lock'[i] = lock[i]
                     /\ Ahead(p, i)' <=> Ahead(p, i)
  /\ {fd'[p], ip'[p]} \subseteq alloc \cup {None}
  /\ pc'[p] = "iput" => put'[p] \in alloc
  /\ pc[p] # "inval" /\ pc'[p] \notin {"itest", "ifree"}
  /\ ip'[p] \in {ip[p], None, Root} \/ \E n \in Name : entry[n] = ip'[p]
  /\ Where(p)' \in Creating => Where(p) \in Creating /\ ip'[p] = ip[p] /\ call'[p] = call[p]

LEMMA QuietInv ==
  ASSUME InodeInv, TypeOK', NEW p \in Proc, Quiet(p)
  PROVE  InodeInv'
<1>1. Others(p) /\ CallInv(p)'  BY DEF Quiet
<1>2. \A q \in Proc : CallInv(q)'  BY <1>1, CallFrame DEF InodeInv, Quiet
<1>3. LockInv'
  <2>1. ASSUME NEW i \in Inum
        PROVE  /\ lock'[i] = lock[i] \/ (lock[i] \in {p, None} /\ lock'[i] \in {p, None})
               /\ lock'[i] = p <=> Holds(p, i)'
    <3>1. lock[i] = p <=> Holds(p, i)  BY DEF InodeInv, LockInv
    <3> QED  BY <3>1, NoneIs DEF Quiet
  <2> QED  BY <1>1, <2>1, LockFrame DEF InodeInv
<1>4. RefsCounted'
  <2>1. \A i \in Inum : ref'[i] + Own(p, i) = ref[i] + Own(p, i)'  BY DEF Quiet
  <2>2. ref \in [Inum -> Nat] /\ ref' \in [Inum -> Nat] /\ RefsCounted
    BY DEF InodeInv, TypeOK
  <2> QED  BY <1>1, <2>1, <2>2, RefsFrame
<1>5. LiveInv'  BY <1>1 DEF InodeInv, LiveInv, Quiet, Others
<1>6. ASSUME NEW i \in Inum
      PROVE  /\ i \in valid' => i \in valid
             /\ i \in valid /\ ref[i] > 0 => i \in valid'
             /\ i \in valid' /\ ref'[i] > 0 => ref[i] > 0
             /\ ref'[i] = ref[i] \/ i = Root \/ \E n \in Name : entry[n] = i
  <2>1. ref \in [Inum -> Nat]  BY DEF InodeInv, TypeOK
  <2>2. CASE ref' = ref /\ valid' = valid  BY <2>2
  <2>3. CASE \E j \in Inum : iget(j) /\ (j = Root \/ \E n \in Name : entry[n] = j)
    <3>1. PICK j \in Inum : iget(j) /\ (j = Root \/ \E n \in Name : entry[n] = j)
      BY <2>3
    <3> QED  BY <2>1, <3>1 DEF iget
  <2> QED  BY <2>2, <2>3 DEF Quiet
<1>7. FreeInv'
  <2>1. ASSUME NEW i \in Inum, lock'[i] # None PROVE i \in valid'
    <3>1. lock[i] # None  BY <2>1, NoneIs DEF Quiet
    <3> QED  BY <1>6, <3>1, LockedReferenced
  <2>2. \A i \in Inum : nlink'[i] = nlink[i]  BY DEF Quiet
  <2>3. pc'[p] \notin {"itest", "ifree"}  BY DEF Quiet
  <2> QED  BY <1>1, <1>6, <2>1, <2>2, <2>3, FreeFrame
<1>8. CacheInv'
  <2>1. ASSUME NEW i \in valid', ref'[i] > 0
        PROVE  i \in valid /\ ref[i] > 0 /\ (i \in alloc => i \in alloc')
                 /\ nlink'[i] = nlink[i] /\ dlink'[i] = dlink[i]
    <3>1. i \in Inum  BY DEF TypeOK
    <3> QED  BY <1>6, <2>1, <3>1 DEF Quiet
  <2>2. pc[p] # "inval"  BY DEF Quiet
  <2> QED  BY <1>1, <2>1, <2>2, CacheFrame
<1>9. LinksCounted'
  <2>1. ASSUME NEW i \in alloc' \ {Root}
        PROVE  dlink'[i] + One(Ahead(p, i)) = dlink[i] + One(Ahead(p, i)')
    <3>1. i \in Inum  BY DEF TypeOK
    <3> QED  BY <3>1 DEF Quiet, One
  <2> QED  BY <1>1, <1>2, <2>1, LinksFrame DEF Quiet
<1>10. NewInv'  BY <1>1, NewFrame DEF Quiet
<1> QED  BY <1>2, <1>3, <1>4, <1>5, <1>7, <1>8, <1>9, <1>10 DEF InodeInv

-----------------------------------------------------------------------------
(* Labels *)

LEMMA LockingIs ==
  /\ DOMAIN Locking = {"lookup", "create", "mknew", "open", "link", "linkdir", "bad",
                       "unlink", "victim", "read"}
  /\ Locking["lookup"] = "dirlookup" /\ Locking["create"] = "created"
  /\ Locking["mknew"] = "init" /\ Locking["open"] = "fdalloc" /\ Locking["link"] = "count"
  /\ Locking["linkdir"] = "dirlink" /\ Locking["bad"] = "undo" /\ Locking["unlink"] = "find"
  /\ Locking["victim"] = "erase" /\ Locking["read"] = "readi"
BY DEF Locking

LEMMA LabelsAre ==
  Labels = {"lookup", "create", "mknew", "open", "link", "linkdir", "bad", "unlink",
            "victim", "read", "dirlookup", "created", "init", "fdalloc", "count", "dirlink",
            "undo", "find", "erase", "readi", "iput", "itest", "ifree", "inval", "iref",
            "idle", "linkput", "baddir", "drop", "panic", "full"}
<1> DEFINE D == DOMAIN Locking
           R == {Locking[l] : l \in D}
<1>1. R = {"dirlookup", "created", "init", "fdalloc", "count", "dirlink", "undo", "find",
           "erase", "readi"}
  <2>1. \A x \in D : Locking[x] \in {"dirlookup", "created", "init", "fdalloc", "count",
                                     "dirlink", "undo", "find", "erase", "readi"}
    BY LockingIs
  <2>2. ASSUME NEW y \in {"dirlookup", "created", "init", "fdalloc", "count", "dirlink",
                          "undo", "find", "erase", "readi"}
        PROVE  \E x \in D : y = Locking[x]
    BY <2>2, LockingIs
  <2> QED  BY <2>1, <2>2
<1> HIDE DEF R
<1> QED  BY <1>1, LockingIs DEF Labels, Iputs, R

-----------------------------------------------------------------------------
(* Steps of one process *)

Calls == [op : {"none", "open", "creat", "link", "unlink"}, path : Path \cup {None}]

\* The part of TypeOK that is about the variables of the processes.
LocalType ==
  /\ pc \in [Proc -> Labels] /\ after \in [Proc -> Labels] /\ call \in [Proc -> Calls]
  /\ fd \in [Proc -> Inum \cup {None}] /\ ip \in [Proc -> Inum \cup {None}]
  /\ dp \in [Proc -> {Root, None}] /\ put \in [Proc -> Inum \cup {None}]

\* A quiet step of p that gets a reference to inode g, or none, and unlocks
\* inode j, or none.
Gets(g) == IF g = None THEN ref' = ref /\ valid' = valid ELSE iget(g)

Unlocks(j) == lock' = IF j = None THEN lock ELSE [lock EXCEPT ![j] = None]

LEMMA QuietMove ==
  ASSUME InodeInv, NEW p \in Proc, Others(p), LocalType', CallInv(p)',
         NEW g \in Inum \cup {None}, g \in {Root, None} \/ \E n \in Name : entry[n] = g, Gets(g),
         NEW j \in Inum \cup {None}, j # None => Holds(p, j), Unlocks(j),
         disk' = disk, nlink' = nlink,
         pc[p] # "inval", pc'[p] \notin {"itest", "ifree"},
         {fd'[p], ip'[p]} \subseteq alloc \cup {None}, pc'[p] = "iput" => put'[p] \in alloc,
         ip'[p] \in {ip[p], None, Root} \/ \E n \in Name : entry[n] = ip'[p],
         Where(p)' \in Creating => Where(p) \in Creating /\ ip'[p] = ip[p] /\ call'[p] = call[p],
         \A i \in Inum : /\ Own(p, i)' = Own(p, i) + One(i = g)
                         /\ Holds(p, i)' <=> Holds(p, i) /\ i # j
                         /\ Ahead(p, i)' <=> Ahead(p, i)
  PROVE  InodeInv'
<1>1. TypeOK /\ LockInv  BY DEF InodeInv
<1>2. alloc' = alloc /\ dlink' = dlink /\ entry' = entry  BY DEF disk
<1>3. ref' \in [Inum -> Nat] /\ valid' \subseteq Inum  BY <1>1 DEF TypeOK, Gets, iget
<1>4. lock' \in [Inum -> Proc \cup {None}]  BY <1>1 DEF TypeOK, Unlocks
<1>5. TypeOK'  BY <1>1, <1>2, <1>3, <1>4 DEF TypeOK, LocalType, Calls
<1>6. ASSUME NEW i \in Inum
      PROVE  ref'[i] + Own(p, i) = ref[i] + Own(p, i)'
  <2>1. ref \in [Inum -> Nat]  BY <1>1 DEF TypeOK
  <2>2. ref'[i] = ref[i] + One(i = g)  BY <2>1, NoneIs DEF Gets, iget, One
  <2>3. Own(p, i) \in Nat /\ One(i = g) \in Nat  BY DEF Own, One
  <2>4. Own(p, i)' = Own(p, i) + One(i = g)  OBVIOUS
  <2> QED  BY <2>1, <2>2, <2>3, <2>4
<1>7. ASSUME NEW i \in Inum
      PROVE  /\ lock'[i] = lock[i] \/ (lock[i] = p /\ lock'[i] = None)
             /\ Holds(p, i)' <=> Holds(p, i) /\ lock'[i] = lock[i]
  <2>1. lock \in [Inum -> Proc \cup {None}] /\ (lock[i] = p <=> Holds(p, i))
    BY <1>1 DEF TypeOK, LockInv
  <2> QED  BY <2>1, NoneIs DEF Unlocks
<1>8. \/ ref' = ref /\ valid' = valid
      \/ \E i \in Inum : iget(i) /\ (i = Root \/ \E n \in Name : entry[n] = i)
  BY NoneIs DEF Gets
<1>9. Quiet(p)  BY <1>2, <1>6, <1>7, <1>8 DEF Quiet
<1> QED  BY <1>5, <1>9, QuietInv

-----------------------------------------------------------------------------
(* The quiet actions *)

\* The rest of namei(), for open() and link().
LEMMA LookupInv ==
  ASSUME InodeInv, NEW p \in Proc, NEW l \in {"open", "link"}, call[p].op = l, Lookup(p, l),
         call' = call
  PROVE  InodeInv'
<1>1. /\ InodeInv /\ TypeOK /\ CallInv(p) /\ LiveInv /\ Root \in Inum
      /\ pc[p] = "dirlookup" /\ Where(p) = "dirlookup" /\ after[p] = "idle"
      /\ put[p] = None /\ ip[p] = None /\ dp[p] = Root /\ call[p].path \in Name
  BY DEF InodeInv, TypeOK, CallInv, Where, NoCall, Lookup, Put, PutDp, Goto, iunlock, disk,
     Iputs, RootHeld, IpHeld, HasDp, HasIp, Creating, Linking, Unlinking
<1>2. CASE entry[call[p].path] = None
  <2>1. Others(p)  BY <1>1, <1>2 DEF TypeOK, Others, Lookup, Put, PutDp, Goto, iunlock, disk
  <2>2. /\ pc'[p] = "iput" /\ after'[p] = "idle" /\ Where(p)' = "idle"
        /\ put'[p] = Root /\ ip'[p] = None /\ dp'[p] = None /\ fd'[p] = fd[p]
        /\ call'[p] = call[p]
        /\ entry' = entry
    BY <1>1, <1>2 DEF TypeOK, Where, Iputs, Lookup, Put, PutDp, Goto, iunlock, disk
  <2>3. LocalType'
    <3>1. "idle" \in Labels /\ "iput" \in Labels  BY LabelsAre
    <3> QED
      BY <1>1, <1>2, <3>1 DEF TypeOK, LocalType, Calls, NoCall, Lookup, Put, PutDp, Goto,
         iunlock, disk
  <2>4. CallInv(p)'
    BY <1>1, <1>2, <2>2, NoneIs DEF CallInv, NoCall, Iputs, RootHeld, IpHeld, HasDp, HasIp,
       Creating, Linking, Unlinking
  <2>5. Gets(None) /\ Unlocks(Root) /\ disk' = disk /\ nlink' = nlink
    BY <1>1, <1>2, NoneIs DEF TypeOK, Gets, Unlocks, Lookup, Put, PutDp, Goto, iunlock, disk
  <2>6. ASSUME NEW i \in Inum
        PROVE  /\ Own(p, i)' = Own(p, i) + One(i = None)
               /\ Holds(p, i)' <=> Holds(p, i) /\ i # Root
               /\ Ahead(p, i)' <=> Ahead(p, i)
    BY <1>1, <1>2, <2>2, <2>6, NoneIs DEF Own, One, Holds, Ahead, Iputs, RootHeld, IpHeld,
       HasDp, HasIp, Creating, Linking, Unlinking
  <2>7. /\ {fd'[p], ip'[p]} \subseteq alloc \cup {None}
        /\ put'[p] \in alloc
        /\ Where(p)' \notin Creating
        /\ ip'[p] \in {ip[p], None, Root}
        /\ None \in Inum \cup {None}
        /\ Root \in Inum /\ Holds(p, Root)
    BY <1>1, <1>2, <2>2, NoneIs DEF TypeOK, LiveInv, Holds, Iputs, RootHeld, IpHeld, HasDp,
       HasIp, Creating, Linking, Unlinking
  <2> QED  BY <1>1, <2>1, <2>2, <2>3, <2>4, <2>5, <2>6, <2>7, QuietMove
<1>3. CASE entry[call[p].path] # None
  <2>1. Others(p)  BY <1>1, <1>3 DEF TypeOK, Others, Lookup, Put, PutDp, Goto, iunlock, disk
  <2>2. /\ pc'[p] = "iput" /\ after'[p] = l /\ Where(p)' = l
        /\ put'[p] = Root /\ ip'[p] = entry[call[p].path] /\ dp'[p] = None /\ fd'[p] = fd[p]
        /\ call'[p] = call[p]
        /\ entry' = entry
    BY <1>1, <1>3 DEF TypeOK, Where, Iputs, Lookup, Put, PutDp, Goto, iunlock, disk
  <2>3. LocalType'
    <3>1. "iput" \in Labels /\ l \in Labels  BY LabelsAre
    <3> QED
      BY <1>1, <1>3, <3>1 DEF TypeOK, LocalType, Calls, NoCall, Lookup, Put, PutDp, Goto,
         iunlock, disk
  <2>4. CallInv(p)'
    BY <1>1, <1>3, <2>2, NoneIs DEF CallInv, NoCall, Iputs, RootHeld, IpHeld, HasDp, HasIp,
       Creating, Linking, Unlinking
  <2>5. Gets(entry[call[p].path]) /\ Unlocks(Root) /\ disk' = disk /\ nlink' = nlink
    BY <1>1, <1>3, NoneIs DEF TypeOK, Gets, Unlocks, Lookup, Put, PutDp, Goto, iunlock, disk
  <2>6. ASSUME NEW i \in Inum
        PROVE  /\ Own(p, i)' = Own(p, i) + One(i = entry[call[p].path])
               /\ Holds(p, i)' <=> Holds(p, i) /\ i # Root
               /\ Ahead(p, i)' <=> Ahead(p, i)
    BY <1>1, <1>3, <2>2, <2>6, NoneIs DEF Own, One, Holds, Ahead, Iputs, RootHeld, IpHeld,
       HasDp, HasIp, Creating, Linking, Unlinking
  <2>7. /\ {fd'[p], ip'[p]} \subseteq alloc \cup {None}
        /\ put'[p] \in alloc
        /\ Where(p)' \notin Creating
        /\ (\E n \in Name : entry[n] = ip'[p])
        /\ entry[call[p].path] \in Inum \cup {None}
        /\ Root \in Inum /\ Holds(p, Root)
    BY <1>1, <1>3, <2>2, NoneIs DEF TypeOK, LiveInv, Holds, Iputs, RootHeld, IpHeld, HasDp,
       HasIp, Creating, Linking, Unlinking
  <2> QED  BY <1>1, <2>1, <2>2, <2>3, <2>4, <2>5, <2>6, <2>7, QuietMove
<1> QED  BY <1>2, <1>3

\* open(), with and without O_CREATE, up to the first wait.
LEMMA OpenInv ==
  ASSUME InodeInv, NEW p \in Proc, sys_open(p)
  PROVE  InodeInv'
<1>1. /\ InodeInv /\ TypeOK /\ CallInv(p) /\ LiveInv /\ Root \in Inum
      /\ pc[p] = "idle" /\ Where(p) = "idle" /\ after[p] = "idle"
      /\ put[p] = None /\ ip[p] = None /\ dp[p] = None /\ call[p] = NoCall
      /\ UNCHANGED <<disk, nlink, lock, fd>> /\ fd[p] = None
  BY DEF InodeInv, TypeOK, CallInv, Where, NoCall, sys_open, namei, nameiparent, Put, Path,
     Goto, iunlock, disk, Iputs, RootHeld, IpHeld, HasDp, HasIp, Creating, Linking,
     Unlinking
<1>2. ASSUME NEW path \in Path, call' = [call EXCEPT ![p] = [op |-> "open", path |-> path]],
             namei(p, path, "open"), path = Slash
      PROVE  InodeInv'
  <2>1. Others(p)
    BY <1>1, <1>2 DEF TypeOK, Others, namei, nameiparent, Put, Path, Goto, iunlock, disk
  <2>2. /\ pc'[p] = "open" /\ after'[p] = "idle" /\ Where(p)' = "open"
        /\ put'[p] = None /\ ip'[p] = Root /\ dp'[p] = None /\ fd'[p] = fd[p]
        /\ call'[p] = [op |-> "open", path |-> path]
        /\ entry' = entry
    BY <1>1, <1>2 DEF TypeOK, Where, Iputs, namei, nameiparent, Put, Path, Goto, iunlock,
       disk
  <2>3. LocalType'
    <3>1. "idle" \in Labels /\ "open" \in Labels  BY LabelsAre
    <3> QED
      BY <1>1, <1>2, <3>1 DEF TypeOK, LocalType, Calls, NoCall, namei, nameiparent, Put,
         Path, Goto, iunlock, disk
  <2>4. CallInv(p)'
    BY <1>1, <1>2, <2>2, NoneIs DEF CallInv, NoCall, Path, Iputs, RootHeld, IpHeld, HasDp,
       HasIp, Creating, Linking, Unlinking
  <2>5. Gets(Root) /\ Unlocks(None) /\ disk' = disk /\ nlink' = nlink
    BY <1>1, <1>2, NoneIs DEF TypeOK, Gets, Unlocks, namei, nameiparent, Put, Path, Goto,
       iunlock, disk
  <2>6. ASSUME NEW i \in Inum
        PROVE  /\ Own(p, i)' = Own(p, i) + One(i = Root)
               /\ Holds(p, i)' <=> Holds(p, i) /\ i # None
               /\ Ahead(p, i)' <=> Ahead(p, i)
    BY <1>1, <1>2, <2>2, <2>6, NoneIs DEF Own, One, Holds, Ahead, Iputs, RootHeld, IpHeld,
       HasDp, HasIp, Creating, Linking, Unlinking
  <2>7. /\ {fd'[p], ip'[p]} \subseteq alloc \cup {None}
        /\ Where(p)' \notin Creating
        /\ ip'[p] \in {ip[p], None, Root}
        /\ Root \in Inum \cup {None}
    BY <1>1, <1>2, <2>2, NoneIs DEF TypeOK, LiveInv, Holds, Iputs, RootHeld, IpHeld, HasDp,
       HasIp, Creating, Linking, Unlinking
  <2> QED  BY <1>1, <2>1, <2>2, <2>3, <2>4, <2>5, <2>6, <2>7, QuietMove
<1>3. ASSUME NEW path \in Path, call' = [call EXCEPT ![p] = [op |-> "open", path |-> path]],
             namei(p, path, "open"), path # Slash
      PROVE  InodeInv'
  <2>1. Others(p)
    BY <1>1, <1>3 DEF TypeOK, Others, namei, nameiparent, Put, Path, Goto, iunlock, disk
  <2>2. /\ pc'[p] = "lookup" /\ after'[p] = "idle" /\ Where(p)' = "lookup"
        /\ put'[p] = None /\ ip'[p] = None /\ dp'[p] = Root /\ fd'[p] = fd[p]
        /\ call'[p] = [op |-> "open", path |-> path]
        /\ entry' = entry
    BY <1>1, <1>3 DEF TypeOK, Where, Iputs, namei, nameiparent, Put, Path, Goto, iunlock,
       disk
  <2>3. LocalType'
    <3>1. "idle" \in Labels /\ "lookup" \in Labels  BY LabelsAre
    <3> QED
      BY <1>1, <1>3, <3>1 DEF TypeOK, LocalType, Calls, NoCall, namei, nameiparent, Put,
         Path, Goto, iunlock, disk
  <2>4. CallInv(p)'
    BY <1>1, <1>3, <2>2, NoneIs DEF CallInv, NoCall, Path, Iputs, RootHeld, IpHeld, HasDp,
       HasIp, Creating, Linking, Unlinking
  <2>5. Gets(Root) /\ Unlocks(None) /\ disk' = disk /\ nlink' = nlink
    BY <1>1, <1>3, NoneIs DEF TypeOK, Gets, Unlocks, namei, nameiparent, Put, Path, Goto,
       iunlock, disk
  <2>6. ASSUME NEW i \in Inum
        PROVE  /\ Own(p, i)' = Own(p, i) + One(i = Root)
               /\ Holds(p, i)' <=> Holds(p, i) /\ i # None
               /\ Ahead(p, i)' <=> Ahead(p, i)
    BY <1>1, <1>3, <2>2, <2>6, NoneIs DEF Own, One, Holds, Ahead, Iputs, RootHeld, IpHeld,
       HasDp, HasIp, Creating, Linking, Unlinking
  <2>7. /\ {fd'[p], ip'[p]} \subseteq alloc \cup {None}
        /\ Where(p)' \notin Creating
        /\ ip'[p] \in {ip[p], None, Root}
        /\ Root \in Inum \cup {None}
    BY <1>1, <1>3, <2>2, NoneIs DEF TypeOK, LiveInv, Holds, Iputs, RootHeld, IpHeld, HasDp,
       HasIp, Creating, Linking, Unlinking
  <2> QED  BY <1>1, <2>1, <2>2, <2>3, <2>4, <2>5, <2>6, <2>7, QuietMove
<1>4. ASSUME NEW path \in Path, call' = [call EXCEPT ![p] = [op |-> "creat", path |-> path]],
             nameiparent(p, path, "create", "idle"), ip' = ip, path = Slash
      PROVE  InodeInv'
  <2>1. Others(p)
    BY <1>1, <1>4 DEF TypeOK, Others, namei, nameiparent, Put, Path, Goto, iunlock, disk
  <2>2. /\ pc'[p] = "iput" /\ after'[p] = "idle" /\ Where(p)' = "idle"
        /\ put'[p] = Root /\ ip'[p] = None /\ dp'[p] = None /\ fd'[p] = fd[p]
        /\ call'[p] = [op |-> "creat", path |-> path]
        /\ entry' = entry
    BY <1>1, <1>4 DEF TypeOK, Where, Iputs, namei, nameiparent, Put, Path, Goto, iunlock,
       disk
  <2>3. LocalType'
    <3>1. "idle" \in Labels /\ "iput" \in Labels  BY LabelsAre
    <3> QED
      BY <1>1, <1>4, <3>1 DEF TypeOK, LocalType, Calls, NoCall, namei, nameiparent, Put,
         Path, Goto, iunlock, disk
  <2>4. CallInv(p)'
    BY <1>1, <1>4, <2>2, NoneIs DEF CallInv, NoCall, Path, Iputs, RootHeld, IpHeld, HasDp,
       HasIp, Creating, Linking, Unlinking
  <2>5. Gets(Root) /\ Unlocks(None) /\ disk' = disk /\ nlink' = nlink
    BY <1>1, <1>4, NoneIs DEF TypeOK, Gets, Unlocks, namei, nameiparent, Put, Path, Goto,
       iunlock, disk
  <2>6. ASSUME NEW i \in Inum
        PROVE  /\ Own(p, i)' = Own(p, i) + One(i = Root)
               /\ Holds(p, i)' <=> Holds(p, i) /\ i # None
               /\ Ahead(p, i)' <=> Ahead(p, i)
    BY <1>1, <1>4, <2>2, <2>6, NoneIs DEF Own, One, Holds, Ahead, Iputs, RootHeld, IpHeld,
       HasDp, HasIp, Creating, Linking, Unlinking
  <2>7. /\ {fd'[p], ip'[p]} \subseteq alloc \cup {None}
        /\ put'[p] \in alloc
        /\ Where(p)' \notin Creating
        /\ ip'[p] \in {ip[p], None, Root}
        /\ Root \in Inum \cup {None}
    BY <1>1, <1>4, <2>2, NoneIs DEF TypeOK, LiveInv, Holds, Iputs, RootHeld, IpHeld, HasDp,
       HasIp, Creating, Linking, Unlinking
  <2> QED  BY <1>1, <2>1, <2>2, <2>3, <2>4, <2>5, <2>6, <2>7, QuietMove
<1>5. ASSUME NEW path \in Path, call' = [call EXCEPT ![p] = [op |-> "creat", path |-> path]],
             nameiparent(p, path, "create", "idle"), ip' = ip, path # Slash
      PROVE  InodeInv'
  <2>1. Others(p)
    BY <1>1, <1>5 DEF TypeOK, Others, namei, nameiparent, Put, Path, Goto, iunlock, disk
  <2>2. /\ pc'[p] = "create" /\ after'[p] = "idle" /\ Where(p)' = "create"
        /\ put'[p] = None /\ ip'[p] = None /\ dp'[p] = Root /\ fd'[p] = fd[p]
        /\ call'[p] = [op |-> "creat", path |-> path]
        /\ entry' = entry
    BY <1>1, <1>5 DEF TypeOK, Where, Iputs, namei, nameiparent, Put, Path, Goto, iunlock,
       disk
  <2>3. LocalType'
    <3>1. "create" \in Labels /\ "idle" \in Labels  BY LabelsAre
    <3> QED
      BY <1>1, <1>5, <3>1 DEF TypeOK, LocalType, Calls, NoCall, namei, nameiparent, Put,
         Path, Goto, iunlock, disk
  <2>4. CallInv(p)'
    BY <1>1, <1>5, <2>2, NoneIs DEF CallInv, NoCall, Path, Iputs, RootHeld, IpHeld, HasDp,
       HasIp, Creating, Linking, Unlinking
  <2>5. Gets(Root) /\ Unlocks(None) /\ disk' = disk /\ nlink' = nlink
    BY <1>1, <1>5, NoneIs DEF TypeOK, Gets, Unlocks, namei, nameiparent, Put, Path, Goto,
       iunlock, disk
  <2>6. ASSUME NEW i \in Inum
        PROVE  /\ Own(p, i)' = Own(p, i) + One(i = Root)
               /\ Holds(p, i)' <=> Holds(p, i) /\ i # None
               /\ Ahead(p, i)' <=> Ahead(p, i)
    BY <1>1, <1>5, <2>2, <2>6, NoneIs DEF Own, One, Holds, Ahead, Iputs, RootHeld, IpHeld,
       HasDp, HasIp, Creating, Linking, Unlinking
  <2>7. /\ {fd'[p], ip'[p]} \subseteq alloc \cup {None}
        /\ Where(p)' \notin Creating
        /\ ip'[p] \in {ip[p], None, Root}
        /\ Root \in Inum \cup {None}
    BY <1>1, <1>5, <2>2, NoneIs DEF TypeOK, LiveInv, Holds, Iputs, RootHeld, IpHeld, HasDp,
       HasIp, Creating, Linking, Unlinking
  <2> QED  BY <1>1, <2>1, <2>2, <2>3, <2>4, <2>5, <2>6, <2>7, QuietMove
<1> QED  BY <1>2, <1>3, <1>4, <1>5 DEF sys_open

\* link() up to the first wait.
LEMMA LinkInv ==
  ASSUME InodeInv, NEW p \in Proc, sys_link(p)
  PROVE  InodeInv'
<1>1. /\ InodeInv /\ TypeOK /\ CallInv(p) /\ LiveInv /\ Root \in Inum
      /\ pc[p] = "idle" /\ Where(p) = "idle" /\ after[p] = "idle"
      /\ put[p] = None /\ ip[p] = None /\ dp[p] = None /\ call[p] = NoCall
      /\ UNCHANGED <<disk, nlink, lock, fd>>
  BY DEF InodeInv, TypeOK, CallInv, Where, NoCall, sys_link, namei, nameiparent, Put, Path,
     Goto, iunlock, disk, Iputs, RootHeld, IpHeld, HasDp, HasIp, Creating, Linking,
     Unlinking
<1>2. ASSUME NEW path \in Path, call' = [call EXCEPT ![p] = [op |-> "link", path |-> path]],
             namei(p, path, "link"), path = Slash
      PROVE  InodeInv'
  <2>1. Others(p)
    BY <1>1, <1>2 DEF TypeOK, Others, namei, nameiparent, Put, Path, Goto, iunlock, disk
  <2>2. /\ pc'[p] = "link" /\ after'[p] = "idle" /\ Where(p)' = "link"
        /\ put'[p] = None /\ ip'[p] = Root /\ dp'[p] = None /\ fd'[p] = fd[p]
        /\ call'[p] = [op |-> "link", path |-> path]
        /\ entry' = entry
    BY <1>1, <1>2 DEF TypeOK, Where, Iputs, namei, nameiparent, Put, Path, Goto, iunlock,
       disk
  <2>3. LocalType'
    <3>1. "idle" \in Labels /\ "link" \in Labels  BY LabelsAre
    <3> QED
      BY <1>1, <1>2, <3>1 DEF TypeOK, LocalType, Calls, NoCall, namei, nameiparent, Put,
         Path, Goto, iunlock, disk
  <2>4. CallInv(p)'
    BY <1>1, <1>2, <2>2, NoneIs DEF CallInv, NoCall, Path, Iputs, RootHeld, IpHeld, HasDp,
       HasIp, Creating, Linking, Unlinking
  <2>5. Gets(Root) /\ Unlocks(None) /\ disk' = disk /\ nlink' = nlink
    BY <1>1, <1>2, NoneIs DEF TypeOK, Gets, Unlocks, namei, nameiparent, Put, Path, Goto,
       iunlock, disk
  <2>6. ASSUME NEW i \in Inum
        PROVE  /\ Own(p, i)' = Own(p, i) + One(i = Root)
               /\ Holds(p, i)' <=> Holds(p, i) /\ i # None
               /\ Ahead(p, i)' <=> Ahead(p, i)
    BY <1>1, <1>2, <2>2, <2>6, NoneIs DEF Own, One, Holds, Ahead, Iputs, RootHeld, IpHeld,
       HasDp, HasIp, Creating, Linking, Unlinking
  <2>7. /\ {fd'[p], ip'[p]} \subseteq alloc \cup {None}
        /\ Where(p)' \notin Creating
        /\ ip'[p] \in {ip[p], None, Root}
        /\ Root \in Inum \cup {None}
    BY <1>1, <1>2, <2>2, NoneIs DEF TypeOK, LiveInv, Holds, Iputs, RootHeld, IpHeld, HasDp,
       HasIp, Creating, Linking, Unlinking
  <2> QED  BY <1>1, <2>1, <2>2, <2>3, <2>4, <2>5, <2>6, <2>7, QuietMove
<1>3. ASSUME NEW path \in Path, call' = [call EXCEPT ![p] = [op |-> "link", path |-> path]],
             namei(p, path, "link"), path # Slash
      PROVE  InodeInv'
  <2>1. Others(p)
    BY <1>1, <1>3 DEF TypeOK, Others, namei, nameiparent, Put, Path, Goto, iunlock, disk
  <2>2. /\ pc'[p] = "lookup" /\ after'[p] = "idle" /\ Where(p)' = "lookup"
        /\ put'[p] = None /\ ip'[p] = None /\ dp'[p] = Root /\ fd'[p] = fd[p]
        /\ call'[p] = [op |-> "link", path |-> path]
        /\ entry' = entry
    BY <1>1, <1>3 DEF TypeOK, Where, Iputs, namei, nameiparent, Put, Path, Goto, iunlock,
       disk
  <2>3. LocalType'
    <3>1. "idle" \in Labels /\ "lookup" \in Labels  BY LabelsAre
    <3> QED
      BY <1>1, <1>3, <3>1 DEF TypeOK, LocalType, Calls, NoCall, namei, nameiparent, Put,
         Path, Goto, iunlock, disk
  <2>4. CallInv(p)'
    BY <1>1, <1>3, <2>2, NoneIs DEF CallInv, NoCall, Path, Iputs, RootHeld, IpHeld, HasDp,
       HasIp, Creating, Linking, Unlinking
  <2>5. Gets(Root) /\ Unlocks(None) /\ disk' = disk /\ nlink' = nlink
    BY <1>1, <1>3, NoneIs DEF TypeOK, Gets, Unlocks, namei, nameiparent, Put, Path, Goto,
       iunlock, disk
  <2>6. ASSUME NEW i \in Inum
        PROVE  /\ Own(p, i)' = Own(p, i) + One(i = Root)
               /\ Holds(p, i)' <=> Holds(p, i) /\ i # None
               /\ Ahead(p, i)' <=> Ahead(p, i)
    BY <1>1, <1>3, <2>2, <2>6, NoneIs DEF Own, One, Holds, Ahead, Iputs, RootHeld, IpHeld,
       HasDp, HasIp, Creating, Linking, Unlinking
  <2>7. /\ {fd'[p], ip'[p]} \subseteq alloc \cup {None}
        /\ Where(p)' \notin Creating
        /\ ip'[p] \in {ip[p], None, Root}
        /\ Root \in Inum \cup {None}
    BY <1>1, <1>3, <2>2, NoneIs DEF TypeOK, LiveInv, Holds, Iputs, RootHeld, IpHeld, HasDp,
       HasIp, Creating, Linking, Unlinking
  <2> QED  BY <1>1, <2>1, <2>2, <2>3, <2>4, <2>5, <2>6, <2>7, QuietMove
<1> QED  BY <1>2, <1>3 DEF sys_link

\* unlink() up to the first wait.
LEMMA UnlinkInv ==
  ASSUME InodeInv, NEW p \in Proc, sys_unlink(p)
  PROVE  InodeInv'
<1>1. /\ InodeInv /\ TypeOK /\ CallInv(p) /\ LiveInv /\ Root \in Inum
      /\ pc[p] = "idle" /\ Where(p) = "idle" /\ after[p] = "idle"
      /\ put[p] = None /\ ip[p] = None /\ dp[p] = None /\ call[p] = NoCall
      /\ UNCHANGED <<disk, nlink, lock, fd, ip>>
  BY DEF InodeInv, TypeOK, CallInv, Where, NoCall, sys_unlink, namei, nameiparent, Put,
     Path, Goto, iunlock, disk, Iputs, RootHeld, IpHeld, HasDp, HasIp, Creating, Linking,
     Unlinking
<1>2. ASSUME NEW path \in Path, call' = [call EXCEPT ![p] = [op |-> "unlink", path |-> path]],
             nameiparent(p, path, "unlink", "idle"), path = Slash
      PROVE  InodeInv'
  <2>1. Others(p)
    BY <1>1, <1>2 DEF TypeOK, Others, namei, nameiparent, Put, Path, Goto, iunlock, disk
  <2>2. /\ pc'[p] = "iput" /\ after'[p] = "idle" /\ Where(p)' = "idle"
        /\ put'[p] = Root /\ ip'[p] = None /\ dp'[p] = None /\ fd'[p] = fd[p]
        /\ call'[p] = [op |-> "unlink", path |-> path]
        /\ entry' = entry
    BY <1>1, <1>2 DEF TypeOK, Where, Iputs, namei, nameiparent, Put, Path, Goto, iunlock,
       disk
  <2>3. LocalType'
    <3>1. "idle" \in Labels /\ "iput" \in Labels  BY LabelsAre
    <3> QED
      BY <1>1, <1>2, <3>1 DEF TypeOK, LocalType, Calls, NoCall, namei, nameiparent, Put,
         Path, Goto, iunlock, disk
  <2>4. CallInv(p)'
    BY <1>1, <1>2, <2>2, NoneIs DEF CallInv, NoCall, Path, Iputs, RootHeld, IpHeld, HasDp,
       HasIp, Creating, Linking, Unlinking
  <2>5. Gets(Root) /\ Unlocks(None) /\ disk' = disk /\ nlink' = nlink
    BY <1>1, <1>2, NoneIs DEF TypeOK, Gets, Unlocks, namei, nameiparent, Put, Path, Goto,
       iunlock, disk
  <2>6. ASSUME NEW i \in Inum
        PROVE  /\ Own(p, i)' = Own(p, i) + One(i = Root)
               /\ Holds(p, i)' <=> Holds(p, i) /\ i # None
               /\ Ahead(p, i)' <=> Ahead(p, i)
    BY <1>1, <1>2, <2>2, <2>6, NoneIs DEF Own, One, Holds, Ahead, Iputs, RootHeld, IpHeld,
       HasDp, HasIp, Creating, Linking, Unlinking
  <2>7. /\ {fd'[p], ip'[p]} \subseteq alloc \cup {None}
        /\ put'[p] \in alloc
        /\ Where(p)' \notin Creating
        /\ ip'[p] \in {ip[p], None, Root}
        /\ Root \in Inum \cup {None}
    BY <1>1, <1>2, <2>2, NoneIs DEF TypeOK, LiveInv, Holds, Iputs, RootHeld, IpHeld, HasDp,
       HasIp, Creating, Linking, Unlinking
  <2> QED  BY <1>1, <2>1, <2>2, <2>3, <2>4, <2>5, <2>6, <2>7, QuietMove
<1>3. ASSUME NEW path \in Path, call' = [call EXCEPT ![p] = [op |-> "unlink", path |-> path]],
             nameiparent(p, path, "unlink", "idle"), path # Slash
      PROVE  InodeInv'
  <2>1. Others(p)
    BY <1>1, <1>3 DEF TypeOK, Others, namei, nameiparent, Put, Path, Goto, iunlock, disk
  <2>2. /\ pc'[p] = "unlink" /\ after'[p] = "idle" /\ Where(p)' = "unlink"
        /\ put'[p] = None /\ ip'[p] = None /\ dp'[p] = Root /\ fd'[p] = fd[p]
        /\ call'[p] = [op |-> "unlink", path |-> path]
        /\ entry' = entry
    BY <1>1, <1>3 DEF TypeOK, Where, Iputs, namei, nameiparent, Put, Path, Goto, iunlock,
       disk
  <2>3. LocalType'
    <3>1. "idle" \in Labels /\ "unlink" \in Labels  BY LabelsAre
    <3> QED
      BY <1>1, <1>3, <3>1 DEF TypeOK, LocalType, Calls, NoCall, namei, nameiparent, Put,
         Path, Goto, iunlock, disk
  <2>4. CallInv(p)'
    BY <1>1, <1>3, <2>2, NoneIs DEF CallInv, NoCall, Path, Iputs, RootHeld, IpHeld, HasDp,
       HasIp, Creating, Linking, Unlinking
  <2>5. Gets(Root) /\ Unlocks(None) /\ disk' = disk /\ nlink' = nlink
    BY <1>1, <1>3, NoneIs DEF TypeOK, Gets, Unlocks, namei, nameiparent, Put, Path, Goto,
       iunlock, disk
  <2>6. ASSUME NEW i \in Inum
        PROVE  /\ Own(p, i)' = Own(p, i) + One(i = Root)
               /\ Holds(p, i)' <=> Holds(p, i) /\ i # None
               /\ Ahead(p, i)' <=> Ahead(p, i)
    BY <1>1, <1>3, <2>2, <2>6, NoneIs DEF Own, One, Holds, Ahead, Iputs, RootHeld, IpHeld,
       HasDp, HasIp, Creating, Linking, Unlinking
  <2>7. /\ {fd'[p], ip'[p]} \subseteq alloc \cup {None}
        /\ Where(p)' \notin Creating
        /\ ip'[p] \in {ip[p], None, Root}
        /\ Root \in Inum \cup {None}
    BY <1>1, <1>3, <2>2, NoneIs DEF TypeOK, LiveInv, Holds, Iputs, RootHeld, IpHeld, HasDp,
       HasIp, Creating, Linking, Unlinking
  <2> QED  BY <1>1, <2>1, <2>2, <2>3, <2>4, <2>5, <2>6, <2>7, QuietMove
<1> QED  BY <1>2, <1>3 DEF sys_unlink

\* create() finds the file.
LEMMA CreateFoundInv ==
  ASSUME InodeInv, NEW p \in Proc, create(p), entry[call[p].path] # None
  PROVE  InodeInv'
<1>1. /\ InodeInv /\ TypeOK /\ CallInv(p) /\ LiveInv /\ Root \in Inum
      /\ pc[p] = "created" /\ Where(p) = "created" /\ after[p] = "idle"
      /\ put[p] = None /\ ip[p] = None /\ dp[p] = Root /\ call[p].path \in Name
      /\ entry[call[p].path] \in Inum \cup {None}
      /\ entry[call[p].path] # None => entry[call[p].path] \in alloc \ {Root}
      /\ iget(entry[call[p].path]) /\ ip' = [ip EXCEPT ![p] = entry[call[p].path]]
      /\ iunlock(Root) /\ PutDp(p, "open") /\ UNCHANGED <<disk, nlink, fd, call>>
  BY DEF InodeInv, LiveInv, TypeOK, CallInv, Where, NoCall, create, Iputs, RootHeld, IpHeld,
     HasDp, HasIp, Creating, Linking, Unlinking
<1>2. Others(p)  BY <1>1 DEF TypeOK, Others, Put, PutDp, Goto, iunlock, disk
<1>3. /\ pc'[p] = "iput" /\ after'[p] = "open" /\ Where(p)' = "open"
      /\ put'[p] = Root /\ ip'[p] = entry[call[p].path] /\ dp'[p] = None /\ fd'[p] = fd[p]
      /\ call'[p] = call[p]
      /\ entry' = entry
  BY <1>1 DEF TypeOK, Where, Iputs, Put, PutDp, Goto, iunlock, disk
<1>4. LocalType'
  <2>1. "iput" \in Labels /\ "open" \in Labels  BY LabelsAre
  <2>2. pc' \in [Proc -> Labels] /\ after' \in [Proc -> Labels] /\ call' \in [Proc -> Calls]
    BY <1>1, <2>1 DEF TypeOK, Calls, Put, PutDp, Goto, iunlock, disk
  <2>3. /\ fd' \in [Proc -> Inum \cup {None}] /\ ip' \in [Proc -> Inum \cup {None}]
        /\ dp' \in [Proc -> {Root, None}] /\ put' \in [Proc -> Inum \cup {None}]
    BY <1>1 DEF TypeOK, Put, PutDp, Goto, iunlock, disk
  <2> QED  BY <2>2, <2>3 DEF LocalType
<1>5. CallInv(p)'
  BY <1>1, <1>3, NoneIs DEF CallInv, NoCall, Iputs, RootHeld, IpHeld, HasDp, HasIp,
     Creating, Linking, Unlinking
<1>6. Gets(entry[call[p].path]) /\ Unlocks(Root) /\ disk' = disk /\ nlink' = nlink
  BY <1>1, NoneIs DEF TypeOK, Gets, Unlocks, Put, PutDp, Goto, iunlock, disk
<1>7. ASSUME NEW i \in Inum
      PROVE  /\ Own(p, i)' = Own(p, i) + One(i = entry[call[p].path])
             /\ Holds(p, i)' <=> Holds(p, i) /\ i # Root
             /\ Ahead(p, i)' <=> Ahead(p, i)
  BY <1>1, <1>3, <1>7, NoneIs DEF Own, One, Holds, Ahead, Iputs, RootHeld, IpHeld, HasDp,
     HasIp, Creating, Linking, Unlinking
<1>8. /\ {fd'[p], ip'[p]} \subseteq alloc \cup {None}
      /\ put'[p] \in alloc
      /\ Where(p)' \notin Creating
      /\ (\E n \in Name : entry[n] = ip'[p])
      /\ entry[call[p].path] \in Inum \cup {None}
      /\ Root \in Inum /\ Holds(p, Root)
  BY <1>1, <1>3, NoneIs DEF TypeOK, LiveInv, Holds, Iputs, RootHeld, IpHeld, HasDp, HasIp,
     Creating, Linking, Unlinking
<1> QED  BY <1>1, <1>2, <1>3, <1>4, <1>5, <1>6, <1>7, <1>8, QuietMove

\* ialloc() has no inode left.
LEMMA CreateFullInv ==
  ASSUME InodeInv, NEW p \in Proc, create(p), entry[call[p].path] = None, Free = {}
  PROVE  InodeInv'
<1>1. /\ InodeInv /\ TypeOK /\ CallInv(p) /\ LiveInv /\ Root \in Inum
      /\ pc[p] = "created" /\ Where(p) = "created" /\ after[p] = "idle"
      /\ put[p] = None /\ ip[p] = None /\ dp[p] = Root /\ call[p].path \in Name
      /\ entry[call[p].path] \in Inum \cup {None}
      /\ entry[call[p].path] # None => entry[call[p].path] \in alloc \ {Root}
  BY DEF InodeInv, LiveInv, TypeOK, CallInv, Where, NoCall, create, FirstFree, Free, Goto,
     iunlock, disk, Iputs, RootHeld, IpHeld, HasDp, HasIp, Creating, Linking, Unlinking
<1>2. Others(p)  BY <1>1 DEF TypeOK, Others, create, FirstFree, Free, Goto, iunlock, disk
<1>3. /\ pc'[p] = "full" /\ after'[p] = "idle" /\ Where(p)' = "full"
      /\ put'[p] = None /\ ip'[p] = None /\ dp'[p] = Root /\ fd'[p] = fd[p]
      /\ call'[p] = call[p]
      /\ entry' = entry
  BY <1>1 DEF TypeOK, Where, Iputs, create, FirstFree, Free, Goto, iunlock, disk
<1>4. LocalType'
  <2>1. "full" \in Labels /\ "idle" \in Labels  BY LabelsAre
  <2> QED
    BY <1>1, <2>1 DEF TypeOK, LocalType, Calls, NoCall, create, FirstFree, Free, Goto,
       iunlock, disk
<1>5. CallInv(p)'
  BY <1>1, <1>3, NoneIs DEF CallInv, NoCall, Iputs, RootHeld, IpHeld, HasDp, HasIp,
     Creating, Linking, Unlinking
<1>6. Gets(None) /\ Unlocks(None) /\ disk' = disk /\ nlink' = nlink
  BY <1>1, NoneIs DEF TypeOK, Gets, Unlocks, create, FirstFree, Free, Goto, iunlock, disk
<1>7. ASSUME NEW i \in Inum
      PROVE  /\ Own(p, i)' = Own(p, i) + One(i = None)
             /\ Holds(p, i)' <=> Holds(p, i) /\ i # None
             /\ Ahead(p, i)' <=> Ahead(p, i)
  BY <1>1, <1>3, <1>7, NoneIs DEF Own, One, Holds, Ahead, Iputs, RootHeld, IpHeld, HasDp,
     HasIp, Creating, Linking, Unlinking
<1>8. /\ {fd'[p], ip'[p]} \subseteq alloc \cup {None}
      /\ Where(p)' \notin Creating
      /\ ip'[p] \in {ip[p], None, Root}
      /\ None \in Inum \cup {None}
  BY <1>1, <1>3, NoneIs DEF TypeOK, LiveInv, Holds, Iputs, RootHeld, IpHeld, HasDp, HasIp,
     Creating, Linking, Unlinking
<1> QED  BY <1>1, <1>2, <1>3, <1>4, <1>5, <1>6, <1>7, <1>8, QuietMove

\* The end of open(), with a descriptor or without.
LEMMA FdallocInv ==
  ASSUME InodeInv, NEW p \in Proc, fdalloc(p)
  PROVE  InodeInv'
<1>1. /\ InodeInv /\ TypeOK /\ CallInv(p) /\ LiveInv /\ Root \in Inum
      /\ pc[p] = "fdalloc" /\ Where(p) = "fdalloc" /\ after[p] = "idle"
      /\ put[p] = None /\ dp[p] = None /\ ip[p] \in Inum /\ fd[p] = None
      /\ iunlock(ip[p]) /\ UNCHANGED <<disk, ref, valid, nlink, dp>>
  BY DEF InodeInv, TypeOK, CallInv, Where, NoCall, fdalloc, Iputs, RootHeld, IpHeld, HasDp,
     HasIp, Creating, Linking, Unlinking
<1>2. CASE fd' = [fd EXCEPT ![p] = ip[p]] /\ ip' = [ip EXCEPT ![p] = None]
           /\ call' = [call EXCEPT ![p] = NoCall]
           /\ Goto(p, "idle") /\ UNCHANGED <<put, after>>
  <2>1. Others(p)  BY <1>1, <1>2 DEF TypeOK, Others, Put, PutIp, Goto, iunlock, disk
  <2>2. /\ pc'[p] = "idle" /\ after'[p] = "idle" /\ Where(p)' = "idle"
        /\ put'[p] = None /\ ip'[p] = None /\ dp'[p] = None /\ fd'[p] = ip[p]
        /\ call'[p] = NoCall
        /\ entry' = entry
    BY <1>1, <1>2 DEF TypeOK, Where, Iputs, Put, PutIp, Goto, iunlock, disk
  <2>3. LocalType'
    <3>1. "idle" \in Labels  BY LabelsAre
    <3> QED
      BY <1>1, <1>2, <3>1 DEF TypeOK, LocalType, Calls, NoCall, Put, PutIp, Goto, iunlock,
         disk
  <2>4. CallInv(p)'
    BY <1>1, <1>2, <2>2, NoneIs DEF CallInv, NoCall, Iputs, RootHeld, IpHeld, HasDp, HasIp,
       Creating, Linking, Unlinking
  <2>5. Gets(None) /\ Unlocks(ip[p]) /\ disk' = disk /\ nlink' = nlink
    BY <1>1, <1>2, NoneIs DEF TypeOK, Gets, Unlocks, Put, PutIp, Goto, iunlock, disk
  <2>6. ASSUME NEW i \in Inum
        PROVE  /\ Own(p, i)' = Own(p, i) + One(i = None)
               /\ Holds(p, i)' <=> Holds(p, i) /\ i # ip[p]
               /\ Ahead(p, i)' <=> Ahead(p, i)
    BY <1>1, <1>2, <2>2, <2>6, NoneIs DEF Own, One, Holds, Ahead, Iputs, RootHeld, IpHeld,
       HasDp, HasIp, Creating, Linking, Unlinking
  <2>7. /\ {fd'[p], ip'[p]} \subseteq alloc \cup {None}
        /\ Where(p)' \notin Creating
        /\ ip'[p] \in {ip[p], None, Root}
        /\ None \in Inum \cup {None}
        /\ ip[p] \in Inum /\ Holds(p, ip[p])
    BY <1>1, <1>2, <2>2, NoneIs DEF TypeOK, LiveInv, Holds, Iputs, RootHeld, IpHeld, HasDp,
       HasIp, Creating, Linking, Unlinking
  <2> QED  BY <1>1, <2>1, <2>2, <2>3, <2>4, <2>5, <2>6, <2>7, QuietMove
<1>3. CASE PutIp(p, "idle") /\ UNCHANGED <<fd, call>>
  <2>1. Others(p)  BY <1>1, <1>3 DEF TypeOK, Others, Put, PutIp, Goto, iunlock, disk
  <2>2. /\ pc'[p] = "iput" /\ after'[p] = "idle" /\ Where(p)' = "idle"
        /\ put'[p] = ip[p] /\ ip'[p] = None /\ dp'[p] = None /\ fd'[p] = fd[p]
        /\ call'[p] = call[p]
        /\ entry' = entry
    BY <1>1, <1>3 DEF TypeOK, Where, Iputs, Put, PutIp, Goto, iunlock, disk
  <2>3. LocalType'
    <3>1. "idle" \in Labels /\ "iput" \in Labels  BY LabelsAre
    <3> QED
      BY <1>1, <1>3, <3>1 DEF TypeOK, LocalType, Calls, NoCall, Put, PutIp, Goto, iunlock,
         disk
  <2>4. CallInv(p)'
    BY <1>1, <1>3, <2>2, NoneIs DEF CallInv, NoCall, Iputs, RootHeld, IpHeld, HasDp, HasIp,
       Creating, Linking, Unlinking
  <2>5. Gets(None) /\ Unlocks(ip[p]) /\ disk' = disk /\ nlink' = nlink
    BY <1>1, <1>3, NoneIs DEF TypeOK, Gets, Unlocks, Put, PutIp, Goto, iunlock, disk
  <2>6. ASSUME NEW i \in Inum
        PROVE  /\ Own(p, i)' = Own(p, i) + One(i = None)
               /\ Holds(p, i)' <=> Holds(p, i) /\ i # ip[p]
               /\ Ahead(p, i)' <=> Ahead(p, i)
    BY <1>1, <1>3, <2>2, <2>6, NoneIs DEF Own, One, Holds, Ahead, Iputs, RootHeld, IpHeld,
       HasDp, HasIp, Creating, Linking, Unlinking
  <2>7. /\ {fd'[p], ip'[p]} \subseteq alloc \cup {None}
        /\ put'[p] \in alloc
        /\ Where(p)' \notin Creating
        /\ ip'[p] \in {ip[p], None, Root}
        /\ None \in Inum \cup {None}
        /\ ip[p] \in Inum /\ Holds(p, ip[p])
    BY <1>1, <1>3, <2>2, NoneIs DEF TypeOK, LiveInv, Holds, Iputs, RootHeld, IpHeld, HasDp,
       HasIp, Creating, Linking, Unlinking
  <2> QED  BY <1>1, <2>1, <2>2, <2>3, <2>4, <2>5, <2>6, <2>7, QuietMove
<1> QED  BY <1>2, <1>3 DEF fdalloc

\* A read begins ...
LEMMA ReadInv ==
  ASSUME InodeInv, NEW p \in Proc, fileread(p), pc[p] = "idle"
  PROVE  InodeInv'
<1>1. /\ InodeInv /\ TypeOK /\ CallInv(p) /\ LiveInv /\ Root \in Inum
      /\ pc[p] = "idle" /\ Where(p) = "idle" /\ after[p] = "idle"
      /\ put[p] = None /\ ip[p] = None /\ dp[p] = None /\ fd[p] \in Inum /\ call[p] = NoCall
  BY DEF InodeInv, TypeOK, CallInv, Where, NoCall, fileread, Goto, iunlock, disk, Iputs,
     RootHeld, IpHeld, HasDp, HasIp, Creating, Linking, Unlinking
<1>2. Others(p)  BY <1>1 DEF TypeOK, Others, fileread, Goto, iunlock, disk
<1>3. /\ pc'[p] = "read" /\ after'[p] = "idle" /\ Where(p)' = "read"
      /\ put'[p] = None /\ ip'[p] = None /\ dp'[p] = None /\ fd'[p] = fd[p]
      /\ call'[p] = call[p]
      /\ entry' = entry
  BY <1>1 DEF TypeOK, Where, Iputs, fileread, Goto, iunlock, disk
<1>4. LocalType'
  <2>1. "idle" \in Labels /\ "read" \in Labels  BY LabelsAre
  <2> QED  BY <1>1, <2>1 DEF TypeOK, LocalType, Calls, NoCall, fileread, Goto, iunlock, disk
<1>5. CallInv(p)'
  BY <1>1, <1>3, NoneIs DEF CallInv, NoCall, Iputs, RootHeld, IpHeld, HasDp, HasIp,
     Creating, Linking, Unlinking
<1>6. Gets(None) /\ Unlocks(None) /\ disk' = disk /\ nlink' = nlink
  BY <1>1, NoneIs DEF TypeOK, Gets, Unlocks, fileread, Goto, iunlock, disk
<1>7. ASSUME NEW i \in Inum
      PROVE  /\ Own(p, i)' = Own(p, i) + One(i = None)
             /\ Holds(p, i)' <=> Holds(p, i) /\ i # None
             /\ Ahead(p, i)' <=> Ahead(p, i)
  BY <1>1, <1>3, <1>7, NoneIs DEF Own, One, Holds, Ahead, Iputs, RootHeld, IpHeld, HasDp,
     HasIp, Creating, Linking, Unlinking
<1>8. /\ {fd'[p], ip'[p]} \subseteq alloc \cup {None}
      /\ Where(p)' \notin Creating
      /\ ip'[p] \in {ip[p], None, Root}
      /\ None \in Inum \cup {None}
  BY <1>1, <1>3, NoneIs DEF TypeOK, LiveInv, Holds, Iputs, RootHeld, IpHeld, HasDp, HasIp,
     Creating, Linking, Unlinking
<1> QED  BY <1>1, <1>2, <1>3, <1>4, <1>5, <1>6, <1>7, <1>8, QuietMove

\* ... and ends.
LEMMA ReadiInv ==
  ASSUME InodeInv, NEW p \in Proc, fileread(p), pc[p] = "readi"
  PROVE  InodeInv'
<1>1. /\ InodeInv /\ TypeOK /\ CallInv(p) /\ LiveInv /\ Root \in Inum
      /\ pc[p] = "readi" /\ Where(p) = "readi" /\ after[p] = "idle"
      /\ put[p] = None /\ ip[p] = None /\ dp[p] = None /\ fd[p] \in Inum
  BY DEF InodeInv, TypeOK, CallInv, Where, NoCall, fileread, Goto, iunlock, disk, Iputs,
     RootHeld, IpHeld, HasDp, HasIp, Creating, Linking, Unlinking
<1>2. Others(p)  BY <1>1 DEF TypeOK, Others, fileread, Goto, iunlock, disk
<1>3. /\ pc'[p] = "idle" /\ after'[p] = "idle" /\ Where(p)' = "idle"
      /\ put'[p] = None /\ ip'[p] = None /\ dp'[p] = None /\ fd'[p] = fd[p]
      /\ call'[p] = call[p]
      /\ entry' = entry
  BY <1>1 DEF TypeOK, Where, Iputs, fileread, Goto, iunlock, disk
<1>4. LocalType'
  <2>1. "idle" \in Labels  BY LabelsAre
  <2> QED  BY <1>1, <2>1 DEF TypeOK, LocalType, Calls, NoCall, fileread, Goto, iunlock, disk
<1>5. CallInv(p)'
  BY <1>1, <1>3, NoneIs DEF CallInv, NoCall, Iputs, RootHeld, IpHeld, HasDp, HasIp,
     Creating, Linking, Unlinking
<1>6. Gets(None) /\ Unlocks(fd[p]) /\ disk' = disk /\ nlink' = nlink
  BY <1>1, NoneIs DEF TypeOK, Gets, Unlocks, fileread, Goto, iunlock, disk
<1>7. ASSUME NEW i \in Inum
      PROVE  /\ Own(p, i)' = Own(p, i) + One(i = None)
             /\ Holds(p, i)' <=> Holds(p, i) /\ i # fd[p]
             /\ Ahead(p, i)' <=> Ahead(p, i)
  BY <1>1, <1>3, <1>7, NoneIs DEF Own, One, Holds, Ahead, Iputs, RootHeld, IpHeld, HasDp,
     HasIp, Creating, Linking, Unlinking
<1>8. /\ {fd'[p], ip'[p]} \subseteq alloc \cup {None}
      /\ Where(p)' \notin Creating
      /\ ip'[p] \in {ip[p], None, Root}
      /\ None \in Inum \cup {None}
      /\ fd[p] \in Inum /\ Holds(p, fd[p])
  BY <1>1, <1>3, NoneIs DEF TypeOK, LiveInv, Holds, Iputs, RootHeld, IpHeld, HasDp, HasIp,
     Creating, Linking, Unlinking
<1> QED  BY <1>1, <1>2, <1>3, <1>4, <1>5, <1>6, <1>7, <1>8, QuietMove

\* close().
LEMMA CloseInv ==
  ASSUME InodeInv, NEW p \in Proc, fileclose(p)
  PROVE  InodeInv'
<1>1. /\ InodeInv /\ TypeOK /\ CallInv(p) /\ LiveInv /\ Root \in Inum
      /\ pc[p] = "idle" /\ Where(p) = "idle" /\ after[p] = "idle"
      /\ put[p] = None /\ ip[p] = None /\ dp[p] = None /\ fd[p] \in Inum /\ call[p] = NoCall
  BY DEF InodeInv, TypeOK, CallInv, Where, NoCall, fileclose, Put, icache, Goto, iunlock,
     disk, Iputs, RootHeld, IpHeld, HasDp, HasIp, Creating, Linking, Unlinking
<1>2. Others(p)  BY <1>1 DEF TypeOK, Others, fileclose, Put, icache, Goto, iunlock, disk
<1>3. /\ pc'[p] = "iput" /\ after'[p] = "idle" /\ Where(p)' = "idle"
      /\ put'[p] = fd[p] /\ ip'[p] = None /\ dp'[p] = None /\ fd'[p] = None
      /\ call'[p] = call[p]
      /\ entry' = entry
  BY <1>1 DEF TypeOK, Where, Iputs, fileclose, Put, icache, Goto, iunlock, disk
<1>4. LocalType'
  <2>1. "idle" \in Labels /\ "iput" \in Labels  BY LabelsAre
  <2> QED
    BY <1>1, <2>1 DEF TypeOK, LocalType, Calls, NoCall, fileclose, Put, icache, Goto,
       iunlock, disk
<1>5. CallInv(p)'
  BY <1>1, <1>3, NoneIs DEF CallInv, NoCall, Iputs, RootHeld, IpHeld, HasDp, HasIp,
     Creating, Linking, Unlinking
<1>6. Gets(None) /\ Unlocks(None) /\ disk' = disk /\ nlink' = nlink
  BY <1>1, NoneIs DEF TypeOK, Gets, Unlocks, fileclose, Put, icache, Goto, iunlock, disk
<1>7. ASSUME NEW i \in Inum
      PROVE  /\ Own(p, i)' = Own(p, i) + One(i = None)
             /\ Holds(p, i)' <=> Holds(p, i) /\ i # None
             /\ Ahead(p, i)' <=> Ahead(p, i)
  BY <1>1, <1>3, <1>7, NoneIs DEF Own, One, Holds, Ahead, Iputs, RootHeld, IpHeld, HasDp,
     HasIp, Creating, Linking, Unlinking
<1>8. /\ {fd'[p], ip'[p]} \subseteq alloc \cup {None}
      /\ put'[p] \in alloc
      /\ Where(p)' \notin Creating
      /\ ip'[p] \in {ip[p], None, Root}
      /\ None \in Inum \cup {None}
  BY <1>1, <1>3, NoneIs DEF TypeOK, LiveInv, Holds, Iputs, RootHeld, IpHeld, HasDp, HasIp,
     Creating, Linking, Unlinking
<1> QED  BY <1>1, <1>2, <1>3, <1>4, <1>5, <1>6, <1>7, <1>8, QuietMove

\* link() of a directory.
LEMMA LinkDirInv ==
  ASSUME InodeInv, NEW p \in Proc, LinkCount(p), ip[p] = Root
  PROVE  InodeInv'
<1>1. /\ InodeInv /\ TypeOK /\ CallInv(p) /\ LiveInv /\ Root \in Inum
      /\ pc[p] = "count" /\ Where(p) = "count" /\ after[p] = "idle"
      /\ put[p] = None /\ ip[p] = Root /\ dp[p] = None
  BY DEF InodeInv, TypeOK, CallInv, Where, NoCall, LinkCount, Put, PutIp, Goto, iunlock,
     disk, Iputs, RootHeld, IpHeld, HasDp, HasIp, Creating, Linking, Unlinking
<1>2. Others(p)  BY <1>1 DEF TypeOK, Others, LinkCount, Put, PutIp, Goto, iunlock, disk
<1>3. /\ pc'[p] = "iput" /\ after'[p] = "idle" /\ Where(p)' = "idle"
      /\ put'[p] = Root /\ ip'[p] = None /\ dp'[p] = None /\ fd'[p] = fd[p]
      /\ call'[p] = call[p]
      /\ entry' = entry
  BY <1>1 DEF TypeOK, Where, Iputs, LinkCount, Put, PutIp, Goto, iunlock, disk
<1>4. LocalType'
  <2>1. "idle" \in Labels /\ "iput" \in Labels  BY LabelsAre
  <2> QED
    BY <1>1, <2>1 DEF TypeOK, LocalType, Calls, NoCall, LinkCount, Put, PutIp, Goto,
       iunlock, disk
<1>5. CallInv(p)'
  BY <1>1, <1>3, NoneIs DEF CallInv, NoCall, Iputs, RootHeld, IpHeld, HasDp, HasIp,
     Creating, Linking, Unlinking
<1>6. Gets(None) /\ Unlocks(Root) /\ disk' = disk /\ nlink' = nlink
  BY <1>1, NoneIs DEF TypeOK, Gets, Unlocks, LinkCount, Put, PutIp, Goto, iunlock, disk
<1>7. ASSUME NEW i \in Inum
      PROVE  /\ Own(p, i)' = Own(p, i) + One(i = None)
             /\ Holds(p, i)' <=> Holds(p, i) /\ i # Root
             /\ Ahead(p, i)' <=> Ahead(p, i)
  BY <1>1, <1>3, <1>7, NoneIs DEF Own, One, Holds, Ahead, Iputs, RootHeld, IpHeld, HasDp,
     HasIp, Creating, Linking, Unlinking
<1>8. /\ {fd'[p], ip'[p]} \subseteq alloc \cup {None}
      /\ put'[p] \in alloc
      /\ Where(p)' \notin Creating
      /\ ip'[p] \in {ip[p], None, Root}
      /\ None \in Inum \cup {None}
      /\ Root \in Inum /\ Holds(p, Root)
  BY <1>1, <1>3, NoneIs DEF TypeOK, LiveInv, Holds, Iputs, RootHeld, IpHeld, HasDp, HasIp,
     Creating, Linking, Unlinking
<1> QED  BY <1>1, <1>2, <1>3, <1>4, <1>5, <1>6, <1>7, <1>8, QuietMove

\* dirlink() finds the name.
LEMMA DirlinkFoundInv ==
  ASSUME InodeInv, NEW p \in Proc, dirlink(p), entry[call[p].path] # None
  PROVE  InodeInv'
<1>1. /\ InodeInv /\ TypeOK /\ CallInv(p) /\ LiveInv /\ Root \in Inum
      /\ pc[p] = "dirlink" /\ Where(p) = "dirlink" /\ after[p] = "idle"
      /\ put[p] = None /\ dp[p] = Root /\ ip[p] \in Inum /\ call[p].path \in Name
      /\ entry[call[p].path] \in Inum \cup {None}
      /\ entry[call[p].path] # None => entry[call[p].path] \in alloc \ {Root}
  BY DEF InodeInv, LiveInv, TypeOK, CallInv, Where, NoCall, dirlink, Put, Goto, iunlock,
     disk, Iputs, RootHeld, IpHeld, HasDp, HasIp, Creating, Linking, Unlinking
<1>2. Others(p)  BY <1>1 DEF TypeOK, Others, dirlink, Put, Goto, iunlock, disk
<1>3. /\ pc'[p] = "iput" /\ after'[p] = "baddir" /\ Where(p)' = "baddir"
      /\ put'[p] = entry[call[p].path] /\ ip'[p] = ip[p] /\ dp'[p] = Root /\ fd'[p] = fd[p]
      /\ call'[p] = call[p]
      /\ entry' = entry
  BY <1>1 DEF TypeOK, Where, Iputs, dirlink, Put, Goto, iunlock, disk
<1>4. LocalType'
  <2>1. "baddir" \in Labels /\ "iput" \in Labels  BY LabelsAre
  <2>2. pc' \in [Proc -> Labels] /\ after' \in [Proc -> Labels] /\ call' \in [Proc -> Calls]
    BY <1>1, <2>1 DEF TypeOK, Calls, dirlink, Put, Goto, iunlock, disk
  <2>3. /\ fd' \in [Proc -> Inum \cup {None}] /\ ip' \in [Proc -> Inum \cup {None}]
        /\ dp' \in [Proc -> {Root, None}] /\ put' \in [Proc -> Inum \cup {None}]
    BY <1>1 DEF TypeOK, dirlink, Put, Goto, iunlock, disk
  <2> QED  BY <2>2, <2>3 DEF LocalType
<1>5. CallInv(p)'
  BY <1>1, <1>3, NoneIs DEF CallInv, NoCall, Iputs, RootHeld, IpHeld, HasDp, HasIp,
     Creating, Linking, Unlinking
<1>6. Gets(entry[call[p].path]) /\ Unlocks(None) /\ disk' = disk /\ nlink' = nlink
  BY <1>1, NoneIs DEF TypeOK, Gets, Unlocks, dirlink, Put, Goto, iunlock, disk
<1>7. ASSUME NEW i \in Inum
      PROVE  /\ Own(p, i)' = Own(p, i) + One(i = entry[call[p].path])
             /\ Holds(p, i)' <=> Holds(p, i) /\ i # None
             /\ Ahead(p, i)' <=> Ahead(p, i)
  BY <1>1, <1>3, <1>7, NoneIs DEF Own, One, Holds, Ahead, Iputs, RootHeld, IpHeld, HasDp,
     HasIp, Creating, Linking, Unlinking
<1>8. /\ {fd'[p], ip'[p]} \subseteq alloc \cup {None}
      /\ put'[p] \in alloc
      /\ Where(p)' \notin Creating
      /\ ip'[p] \in {ip[p], None, Root}
      /\ entry[call[p].path] \in Inum \cup {None}
      /\ (\E n \in Name : entry[n] = entry[call[p].path])
  BY <1>1, <1>3, NoneIs DEF TypeOK, LiveInv, Holds, Iputs, RootHeld, IpHeld, HasDp, HasIp,
     Creating, Linking, Unlinking
<1> QED  BY <1>1, <1>2, <1>3, <1>4, <1>5, <1>6, <1>7, <1>8, QuietMove

\* The end of link().
LEMMA LinkPutInv ==
  ASSUME InodeInv, NEW p \in Proc, LinkPut(p)
  PROVE  InodeInv'
<1>1. /\ InodeInv /\ TypeOK /\ CallInv(p) /\ LiveInv /\ Root \in Inum
      /\ pc[p] = "linkput" /\ Where(p) = "linkput" /\ after[p] = "idle"
      /\ put[p] = None /\ dp[p] = None /\ ip[p] \in Inum
  BY DEF InodeInv, TypeOK, CallInv, Where, NoCall, LinkPut, Put, PutIp, icache, Goto,
     iunlock, disk, Iputs, RootHeld, IpHeld, HasDp, HasIp, Creating, Linking, Unlinking
<1>2. Others(p)
  BY <1>1 DEF TypeOK, Others, LinkPut, Put, PutIp, icache, Goto, iunlock, disk
<1>3. /\ pc'[p] = "iput" /\ after'[p] = "idle" /\ Where(p)' = "idle"
      /\ put'[p] = ip[p] /\ ip'[p] = None /\ dp'[p] = None /\ fd'[p] = fd[p]
      /\ call'[p] = call[p]
      /\ entry' = entry
  BY <1>1 DEF TypeOK, Where, Iputs, LinkPut, Put, PutIp, icache, Goto, iunlock, disk
<1>4. LocalType'
  <2>1. "idle" \in Labels /\ "iput" \in Labels  BY LabelsAre
  <2> QED
    BY <1>1, <2>1 DEF TypeOK, LocalType, Calls, NoCall, LinkPut, Put, PutIp, icache, Goto,
       iunlock, disk
<1>5. CallInv(p)'
  BY <1>1, <1>3, NoneIs DEF CallInv, NoCall, Iputs, RootHeld, IpHeld, HasDp, HasIp,
     Creating, Linking, Unlinking
<1>6. Gets(None) /\ Unlocks(None) /\ disk' = disk /\ nlink' = nlink
  BY <1>1, NoneIs DEF TypeOK, Gets, Unlocks, LinkPut, Put, PutIp, icache, Goto, iunlock,
     disk
<1>7. ASSUME NEW i \in Inum
      PROVE  /\ Own(p, i)' = Own(p, i) + One(i = None)
             /\ Holds(p, i)' <=> Holds(p, i) /\ i # None
             /\ Ahead(p, i)' <=> Ahead(p, i)
  BY <1>1, <1>3, <1>7, NoneIs DEF Own, One, Holds, Ahead, Iputs, RootHeld, IpHeld, HasDp,
     HasIp, Creating, Linking, Unlinking
<1>8. /\ {fd'[p], ip'[p]} \subseteq alloc \cup {None}
      /\ put'[p] \in alloc
      /\ Where(p)' \notin Creating
      /\ ip'[p] \in {ip[p], None, Root}
      /\ None \in Inum \cup {None}
  BY <1>1, <1>3, NoneIs DEF TypeOK, LiveInv, Holds, Iputs, RootHeld, IpHeld, HasDp, HasIp,
     Creating, Linking, Unlinking
<1> QED  BY <1>1, <1>2, <1>3, <1>4, <1>5, <1>6, <1>7, <1>8, QuietMove

\* dirlink() has failed.
LEMMA LinkFailedInv ==
  ASSUME InodeInv, NEW p \in Proc, LinkFailed(p)
  PROVE  InodeInv'
<1>1. /\ InodeInv /\ TypeOK /\ CallInv(p) /\ LiveInv /\ Root \in Inum
      /\ pc[p] = "baddir" /\ Where(p) = "baddir" /\ after[p] = "idle"
      /\ put[p] = None /\ dp[p] = Root /\ ip[p] \in Inum
  BY DEF InodeInv, TypeOK, CallInv, Where, NoCall, LinkFailed, Put, PutDp, Goto, iunlock,
     disk, Iputs, RootHeld, IpHeld, HasDp, HasIp, Creating, Linking, Unlinking
<1>2. Others(p)  BY <1>1 DEF TypeOK, Others, LinkFailed, Put, PutDp, Goto, iunlock, disk
<1>3. /\ pc'[p] = "iput" /\ after'[p] = "bad" /\ Where(p)' = "bad"
      /\ put'[p] = Root /\ ip'[p] = ip[p] /\ dp'[p] = None /\ fd'[p] = fd[p]
      /\ call'[p] = call[p]
      /\ entry' = entry
  BY <1>1 DEF TypeOK, Where, Iputs, LinkFailed, Put, PutDp, Goto, iunlock, disk
<1>4. LocalType'
  <2>1. "bad" \in Labels /\ "iput" \in Labels  BY LabelsAre
  <2> QED
    BY <1>1, <2>1 DEF TypeOK, LocalType, Calls, NoCall, LinkFailed, Put, PutDp, Goto,
       iunlock, disk
<1>5. CallInv(p)'
  BY <1>1, <1>3, NoneIs DEF CallInv, NoCall, Iputs, RootHeld, IpHeld, HasDp, HasIp,
     Creating, Linking, Unlinking
<1>6. Gets(None) /\ Unlocks(Root) /\ disk' = disk /\ nlink' = nlink
  BY <1>1, NoneIs DEF TypeOK, Gets, Unlocks, LinkFailed, Put, PutDp, Goto, iunlock, disk
<1>7. ASSUME NEW i \in Inum
      PROVE  /\ Own(p, i)' = Own(p, i) + One(i = None)
             /\ Holds(p, i)' <=> Holds(p, i) /\ i # Root
             /\ Ahead(p, i)' <=> Ahead(p, i)
  BY <1>1, <1>3, <1>7, NoneIs DEF Own, One, Holds, Ahead, Iputs, RootHeld, IpHeld, HasDp,
     HasIp, Creating, Linking, Unlinking
<1>8. /\ {fd'[p], ip'[p]} \subseteq alloc \cup {None}
      /\ put'[p] \in alloc
      /\ Where(p)' \notin Creating
      /\ ip'[p] \in {ip[p], None, Root}
      /\ None \in Inum \cup {None}
      /\ Root \in Inum /\ Holds(p, Root)
  BY <1>1, <1>3, NoneIs DEF TypeOK, LiveInv, Holds, Iputs, RootHeld, IpHeld, HasDp, HasIp,
     Creating, Linking, Unlinking
<1> QED  BY <1>1, <1>2, <1>3, <1>4, <1>5, <1>6, <1>7, <1>8, QuietMove

\* unlink() looks the name up.
LEMMA UnlinkFindInv ==
  ASSUME InodeInv, NEW p \in Proc, UnlinkFind(p)
  PROVE  InodeInv'
<1>1. /\ InodeInv /\ TypeOK /\ CallInv(p) /\ LiveInv /\ Root \in Inum
      /\ pc[p] = "find" /\ Where(p) = "find" /\ after[p] = "idle"
      /\ put[p] = None /\ ip[p] = None /\ dp[p] = Root /\ call[p].path \in Name
      /\ entry[call[p].path] \in Inum \cup {None}
      /\ entry[call[p].path] # None => entry[call[p].path] \in alloc \ {Root}
  BY DEF InodeInv, LiveInv, TypeOK, CallInv, Where, NoCall, UnlinkFind, Put, PutDp, Goto,
     iunlock, disk, Iputs, RootHeld, IpHeld, HasDp, HasIp, Creating, Linking, Unlinking
<1>2. CASE entry[call[p].path] = None
  <2>1. Others(p)
    BY <1>1, <1>2 DEF TypeOK, Others, UnlinkFind, Put, PutDp, Goto, iunlock, disk
  <2>2. /\ pc'[p] = "iput" /\ after'[p] = "idle" /\ Where(p)' = "idle"
        /\ put'[p] = Root /\ ip'[p] = None /\ dp'[p] = None /\ fd'[p] = fd[p]
        /\ call'[p] = call[p]
        /\ entry' = entry
    BY <1>1, <1>2 DEF TypeOK, Where, Iputs, UnlinkFind, Put, PutDp, Goto, iunlock, disk
  <2>3. LocalType'
    <3>1. "idle" \in Labels /\ "iput" \in Labels  BY LabelsAre
    <3>2. pc' \in [Proc -> Labels] /\ after' \in [Proc -> Labels] /\ call' \in [Proc -> Calls]
      BY <1>1, <1>2, <3>1 DEF TypeOK, Calls, UnlinkFind, Put, PutDp, Goto, iunlock, disk
    <3>3. /\ fd' \in [Proc -> Inum \cup {None}] /\ ip' \in [Proc -> Inum \cup {None}]
          /\ dp' \in [Proc -> {Root, None}] /\ put' \in [Proc -> Inum \cup {None}]
      BY <1>1, <1>2 DEF TypeOK, UnlinkFind, Put, PutDp, Goto, iunlock, disk
    <3> QED  BY <3>2, <3>3 DEF LocalType
  <2>4. CallInv(p)'
    BY <1>1, <1>2, <2>2, NoneIs DEF CallInv, NoCall, Iputs, RootHeld, IpHeld, HasDp, HasIp,
       Creating, Linking, Unlinking
  <2>5. Gets(None) /\ Unlocks(Root) /\ disk' = disk /\ nlink' = nlink
    BY <1>1, <1>2, NoneIs DEF TypeOK, Gets, Unlocks, UnlinkFind, Put, PutDp, Goto, iunlock,
       disk
  <2>6. ASSUME NEW i \in Inum
        PROVE  /\ Own(p, i)' = Own(p, i) + One(i = None)
               /\ Holds(p, i)' <=> Holds(p, i) /\ i # Root
               /\ Ahead(p, i)' <=> Ahead(p, i)
    BY <1>1, <1>2, <2>2, <2>6, NoneIs DEF Own, One, Holds, Ahead, Iputs, RootHeld, IpHeld,
       HasDp, HasIp, Creating, Linking, Unlinking
  <2>7. /\ {fd'[p], ip'[p]} \subseteq alloc \cup {None}
        /\ put'[p] \in alloc
        /\ Where(p)' \notin Creating
        /\ ip'[p] \in {ip[p], None, Root}
        /\ None \in Inum \cup {None}
        /\ Root \in Inum /\ Holds(p, Root)
    BY <1>1, <1>2, <2>2, NoneIs DEF TypeOK, LiveInv, Holds, Iputs, RootHeld, IpHeld, HasDp,
       HasIp, Creating, Linking, Unlinking
  <2> QED  BY <1>1, <2>1, <2>2, <2>3, <2>4, <2>5, <2>6, <2>7, QuietMove
<1>3. CASE entry[call[p].path] # None
  <2>1. Others(p)
    BY <1>1, <1>3 DEF TypeOK, Others, UnlinkFind, Put, PutDp, Goto, iunlock, disk
  <2>2. /\ pc'[p] = "victim" /\ after'[p] = "idle" /\ Where(p)' = "victim"
        /\ put'[p] = None /\ ip'[p] = entry[call[p].path] /\ dp'[p] = Root /\ fd'[p] = fd[p]
        /\ call'[p] = call[p]
        /\ entry' = entry
    BY <1>1, <1>3 DEF TypeOK, Where, Iputs, UnlinkFind, Put, PutDp, Goto, iunlock, disk
  <2>3. LocalType'
    <3>1. "idle" \in Labels /\ "victim" \in Labels  BY LabelsAre
    <3>2. pc' \in [Proc -> Labels] /\ after' \in [Proc -> Labels] /\ call' \in [Proc -> Calls]
      BY <1>1, <1>3, <3>1 DEF TypeOK, Calls, UnlinkFind, Put, PutDp, Goto, iunlock, disk
    <3>3. /\ fd' \in [Proc -> Inum \cup {None}] /\ ip' \in [Proc -> Inum \cup {None}]
          /\ dp' \in [Proc -> {Root, None}] /\ put' \in [Proc -> Inum \cup {None}]
      BY <1>1, <1>3 DEF TypeOK, UnlinkFind, Put, PutDp, Goto, iunlock, disk
    <3> QED  BY <3>2, <3>3 DEF LocalType
  <2>4. CallInv(p)'
    BY <1>1, <1>3, <2>2, NoneIs DEF CallInv, NoCall, Iputs, RootHeld, IpHeld, HasDp, HasIp,
       Creating, Linking, Unlinking
  <2>5. Gets(entry[call[p].path]) /\ Unlocks(None) /\ disk' = disk /\ nlink' = nlink
    BY <1>1, <1>3, NoneIs DEF TypeOK, Gets, Unlocks, UnlinkFind, Put, PutDp, Goto, iunlock,
       disk
  <2>6. ASSUME NEW i \in Inum
        PROVE  /\ Own(p, i)' = Own(p, i) + One(i = entry[call[p].path])
               /\ Holds(p, i)' <=> Holds(p, i) /\ i # None
               /\ Ahead(p, i)' <=> Ahead(p, i)
    BY <1>1, <1>3, <2>2, <2>6, NoneIs DEF Own, One, Holds, Ahead, Iputs, RootHeld, IpHeld,
       HasDp, HasIp, Creating, Linking, Unlinking
  <2>7. /\ {fd'[p], ip'[p]} \subseteq alloc \cup {None}
        /\ Where(p)' \notin Creating
        /\ (\E n \in Name : entry[n] = ip'[p])
        /\ entry[call[p].path] \in Inum \cup {None}
    BY <1>1, <1>3, <2>2, NoneIs DEF TypeOK, LiveInv, Holds, Iputs, RootHeld, IpHeld, HasDp,
       HasIp, Creating, Linking, Unlinking
  <2> QED  BY <1>1, <2>1, <2>2, <2>3, <2>4, <2>5, <2>6, <2>7, QuietMove
<1> QED  BY <1>2, <1>3

\* iput() of an inode that has links or is not valid.
LEMMA IputLinkedInv ==
  ASSUME InodeInv, NEW p \in Proc, iput(p), ~(put[p] \in valid /\ nlink[put[p]] = 0)
  PROVE  InodeInv'
<1>1. /\ InodeInv /\ TypeOK /\ CallInv(p) /\ LiveInv /\ Root \in Inum
      /\ pc[p] = "iput" /\ Where(p) = after[p] /\ put[p] \in Inum
  BY DEF InodeInv, TypeOK, CallInv, Where, NoCall, iput, Goto, iunlock, disk, Iputs,
     RootHeld, IpHeld, HasDp, HasIp, Creating, Linking, Unlinking
<1>2. Others(p)  BY <1>1 DEF TypeOK, Others, iput, Goto, iunlock, disk
<1>3. /\ pc'[p] = "iref" /\ after'[p] = after[p] /\ Where(p)' = after[p]
      /\ put'[p] = put[p] /\ ip'[p] = ip[p] /\ dp'[p] = dp[p] /\ fd'[p] = fd[p]
      /\ call'[p] = call[p]
      /\ entry' = entry
  BY <1>1 DEF TypeOK, Where, Iputs, iput, Goto, iunlock, disk
<1>4. LocalType'
  <2>1. "iref" \in Labels  BY LabelsAre
  <2> QED  BY <1>1, <2>1 DEF TypeOK, LocalType, Calls, NoCall, iput, Goto, iunlock, disk
<1>5. CallInv(p)'
  BY <1>1, <1>3, NoneIs DEF CallInv, NoCall, Iputs, RootHeld, IpHeld, HasDp, HasIp,
     Creating, Linking, Unlinking
<1>6. Gets(None) /\ Unlocks(None) /\ disk' = disk /\ nlink' = nlink
  BY <1>1, NoneIs DEF TypeOK, Gets, Unlocks, iput, Goto, iunlock, disk
<1>7. ASSUME NEW i \in Inum
      PROVE  /\ Own(p, i)' = Own(p, i) + One(i = None)
             /\ Holds(p, i)' <=> Holds(p, i) /\ i # None
             /\ Ahead(p, i)' <=> Ahead(p, i)
  BY <1>1, <1>3, <1>7, NoneIs DEF Own, One, Holds, Ahead, Iputs, RootHeld, IpHeld, HasDp,
     HasIp, Creating, Linking, Unlinking
<1>8. /\ {fd'[p], ip'[p]} \subseteq alloc \cup {None}
      /\ (Where(p)' \in Creating => Where(p) \in Creating /\ ip'[p] = ip[p] /\ call'[p] = call[p])
      /\ ip'[p] \in {ip[p], None, Root}
      /\ None \in Inum \cup {None}
  BY <1>1, <1>3, NoneIs DEF TypeOK, LiveInv, Holds, Iputs, RootHeld, IpHeld, HasDp, HasIp,
     Creating, Linking, Unlinking
<1> QED  BY <1>1, <1>2, <1>3, <1>4, <1>5, <1>6, <1>7, <1>8, QuietMove

\* iput() finds other references.
LEMMA IputTestSharedInv ==
  ASSUME InodeInv, NEW p \in Proc, IputTest(p), ~LastRef(put[p])
  PROVE  InodeInv'
<1>1. /\ InodeInv /\ TypeOK /\ CallInv(p) /\ LiveInv /\ Root \in Inum
      /\ pc[p] = "itest" /\ Where(p) = after[p] /\ put[p] \in Inum
  BY DEF InodeInv, TypeOK, CallInv, Where, NoCall, IputTest, Goto, iunlock, disk, Iputs,
     RootHeld, IpHeld, HasDp, HasIp, Creating, Linking, Unlinking
<1>2. Others(p)  BY <1>1 DEF TypeOK, Others, IputTest, Goto, iunlock, disk
<1>3. /\ pc'[p] = "iref" /\ after'[p] = after[p] /\ Where(p)' = after[p]
      /\ put'[p] = put[p] /\ ip'[p] = ip[p] /\ dp'[p] = dp[p] /\ fd'[p] = fd[p]
      /\ call'[p] = call[p]
      /\ entry' = entry
  BY <1>1 DEF TypeOK, Where, Iputs, IputTest, Goto, iunlock, disk
<1>4. LocalType'
  <2>1. "iref" \in Labels  BY LabelsAre
  <2> QED  BY <1>1, <2>1 DEF TypeOK, LocalType, Calls, NoCall, IputTest, Goto, iunlock, disk
<1>5. CallInv(p)'
  BY <1>1, <1>3, NoneIs DEF CallInv, NoCall, Iputs, RootHeld, IpHeld, HasDp, HasIp,
     Creating, Linking, Unlinking
<1>6. Gets(None) /\ Unlocks(put[p]) /\ disk' = disk /\ nlink' = nlink
  BY <1>1, NoneIs DEF TypeOK, Gets, Unlocks, IputTest, Goto, iunlock, disk
<1>7. ASSUME NEW i \in Inum
      PROVE  /\ Own(p, i)' = Own(p, i) + One(i = None)
             /\ Holds(p, i)' <=> Holds(p, i) /\ i # put[p]
             /\ Ahead(p, i)' <=> Ahead(p, i)
  BY <1>1, <1>3, <1>7, NoneIs DEF CallInv, Own, One, Holds, Ahead, Iputs, RootHeld, IpHeld,
     HasDp, HasIp, Creating, Linking, Unlinking
<1>8. /\ {fd'[p], ip'[p]} \subseteq alloc \cup {None}
      /\ (Where(p)' \in Creating => Where(p) \in Creating /\ ip'[p] = ip[p] /\ call'[p] = call[p])
      /\ ip'[p] \in {ip[p], None, Root}
      /\ None \in Inum \cup {None}
      /\ put[p] \in Inum /\ Holds(p, put[p])
  BY <1>1, <1>3, NoneIs DEF TypeOK, LiveInv, Holds, Iputs, RootHeld, IpHeld, HasDp, HasIp,
     Creating, Linking, Unlinking
<1> QED  BY <1>1, <1>2, <1>3, <1>4, <1>5, <1>6, <1>7, <1>8, QuietMove

-----------------------------------------------------------------------------
(* Steps that change links *)

\* A step of p that sets the link counts of inodes it has locked, writes the
\* directory, gets a reference to the directory or none, and unlocks inode j
\* or none: all of the invariant but LinksCounted.
LEMMA LinkMove ==
  ASSUME InodeInv, NEW p \in Proc, Others(p), LocalType', CallInv(p)',
         NEW g \in {Root, None}, Gets(g),
         NEW j \in Inum \cup {None}, j # None => Holds(p, j), Unlocks(j),
         alloc' = alloc,
         \/ nlink' = nlink /\ dlink' = dlink
         \/ ip[p] \in alloc /\ Holds(p, ip[p]) /\ \E n \in Nat : SetLinks(ip[p], n),
         \/ entry' = entry
         \/ /\ Where(p) \in RootHeld
            /\ \E v \in (alloc \ {Root}) \cup {None} : entry' = [entry EXCEPT ![call[p].path] = v],
         pc[p] \notin Iputs, pc'[p] \notin {"itest", "ifree"},
         fd'[p] = fd[p], ip'[p] \in {ip[p], None}, pc'[p] = "iput" => put'[p] \in alloc,
         Where(p)' \notin Creating,
         \A i \in Inum : /\ Own(p, i)' = Own(p, i) + One(i = g)
                         /\ Holds(p, i)' <=> Holds(p, i) /\ i # j
  PROVE  /\ TypeOK' /\ (\A q \in Proc : CallInv(q)') /\ LockInv' /\ LiveInv' /\ FreeInv'
         /\ CacheInv' /\ RefsCounted' /\ NewInv'
<1>1. TypeOK /\ LockInv /\ LiveInv  BY DEF InodeInv
<1>2. /\ nlink' \in [Inum -> Nat] /\ dlink' \in [Inum -> Nat]
      /\ \A i \in Inum : i # ip[p] => nlink'[i] = nlink[i] /\ dlink'[i] = dlink[i]
  <2>1. nlink \in [Inum -> Nat] /\ dlink \in [Inum -> Nat]  BY <1>1 DEF TypeOK
  <2>2. CASE nlink' = nlink /\ dlink' = dlink  BY <2>1, <2>2
  <2>3. CASE \E n \in Nat : SetLinks(ip[p], n)  BY <2>1, <2>3 DEF SetLinks
  <2> QED  BY <2>2, <2>3
<1>3. ASSUME NEW i \in Inum
      PROVE  \/ nlink'[i] = nlink[i] /\ dlink'[i] = dlink[i]
             \/ i = ip[p] /\ Holds(p, i) /\ i \in alloc /\ nlink'[i] = dlink'[i]
  <2>1. nlink \in [Inum -> Nat] /\ dlink \in [Inum -> Nat]  BY <1>1 DEF TypeOK
  <2> QED  BY <1>2, <2>1 DEF SetLinks
<1>4. /\ entry' \in [Name -> Inum \cup {None}]
      /\ \A n \in Name : entry'[n] # None => entry'[n] \in alloc \ {Root}
      /\ entry' = entry \/ Where(p) \in RootHeld
  <2>1. /\ entry \in [Name -> Inum \cup {None}] /\ alloc \subseteq Inum
        /\ \A n \in Name : entry[n] # None => entry[n] \in alloc \ {Root}
    BY <1>1 DEF TypeOK, LiveInv
  <2>2. CASE entry' = entry  BY <2>1, <2>2
  <2>3. CASE /\ Where(p) \in RootHeld
             /\ \E v \in (alloc \ {Root}) \cup {None} : entry' = [entry EXCEPT ![call[p].path] = v]
    BY <2>1, <2>3
  <2> QED  BY <2>2, <2>3
<1>5. ref' \in [Inum -> Nat] /\ valid' \subseteq Inum /\ Root \in Inum
  BY <1>1 DEF TypeOK, Gets, iget
<1>6. lock' \in [Inum -> Proc \cup {None}]  BY <1>1 DEF TypeOK, Unlocks
<1>7. TypeOK'  BY <1>1, <1>2, <1>4, <1>5, <1>6 DEF TypeOK, LocalType, Calls
<1>8. \A q \in Proc : CallInv(q)'
  <2>1. ASSUME NEW q \in Proc \ {p}, Where(q) \in {"victim", "erase"}
        PROVE  entry'[call[q].path] = entry[call[q].path]
    BY <1>4, <2>1, DirectoryLocked DEF RootHeld
  <2> QED  BY <2>1, CallFrame DEF InodeInv
<1>9. LockInv'
  <2>1. ASSUME NEW i \in Inum
        PROVE  /\ lock'[i] = lock[i] \/ (lock[i] \in {p, None} /\ lock'[i] \in {p, None})
               /\ lock'[i] = p <=> Holds(p, i)'
    <3>1. lock \in [Inum -> Proc \cup {None}] /\ (lock[i] = p <=> Holds(p, i))
      BY <1>1 DEF TypeOK, LockInv
    <3>2. CASE j = None  BY <3>1, <3>2, NoneIs DEF Unlocks
    <3>3. CASE j # None
      <4>1. lock[j] = p  BY <1>1, <3>3 DEF LockInv
      <4> QED  BY <3>1, <3>3, <4>1, NoneIs DEF Unlocks
    <3> QED  BY <3>2, <3>3
  <2> QED  BY <1>1, <2>1, LockFrame
<1>10. RefsCounted'
  <2>1. ASSUME NEW i \in Inum PROVE ref'[i] + Own(p, i) = ref[i] + Own(p, i)'
    <3>1. ref \in [Inum -> Nat]  BY <1>1 DEF TypeOK
    <3>2. ref'[i] = ref[i] + One(i = g)  BY <1>5, <3>1, NoneIs DEF Gets, iget, One
    <3>3. Own(p, i) \in Nat /\ One(i = g) \in Nat  BY DEF Own, One
    <3>4. Own(p, i)' = Own(p, i) + One(i = g)  OBVIOUS
    <3> QED  BY <3>1, <3>2, <3>3, <3>4
  <2>2. ref \in [Inum -> Nat] /\ RefsCounted  BY DEF InodeInv, TypeOK
  <2> QED  BY <1>5, <2>1, <2>2, RefsFrame
<1>11. LiveInv'
  <2>1. pc'[p] \notin {"itest", "ifree"} /\ alloc' = alloc  OBVIOUS
  <2>2. \A n \in Name : entry'[n] # None => entry'[n] \in alloc' \ {Root}  BY <1>4, <2>1
  <2>3. /\ fd'[p] # None => fd'[p] \in alloc'
        /\ ip'[p] # None => ip'[p] \in alloc'
        /\ pc'[p] \in {"iput", "itest", "ifree"} => put'[p] \in alloc'
    BY <1>1, <2>1 DEF LiveInv
  <2>4. ASSUME NEW q \in Proc, q # p
        PROVE  /\ fd'[q] # None => fd'[q] \in alloc'
               /\ ip'[q] # None => ip'[q] \in alloc'
               /\ pc'[q] \in {"iput", "itest", "ifree"} => put'[q] \in alloc'
    BY <1>1, <2>1, <2>4 DEF LiveInv, Others
  <2> QED  BY <2>2, <2>3, <2>4 DEF LiveInv
<1>12. ASSUME NEW i \in Inum
      PROVE  /\ i \in valid' => i \in valid
             /\ i \in valid /\ ref[i] > 0 => i \in valid'
             /\ i \in valid' /\ ref'[i] > 0 => ref[i] > 0
             /\ ref'[i] = ref[i] \/ i = Root
  <2>1. ref \in [Inum -> Nat]  BY <1>1 DEF TypeOK
  <2> QED  BY <1>5, <2>1 DEF Gets, iget
<1>13. FreeInv'
  <2>1. ASSUME NEW i \in Inum, lock'[i] # None PROVE i \in valid'
    <3>1. lock[i] # None  BY <1>1, <2>1 DEF Unlocks, TypeOK
    <3> QED  BY <1>12, <3>1, LockedReferenced
  <2>2. ASSUME NEW i \in Inum PROVE nlink'[i] = nlink[i] \/ lock[i] \in {None, p}
    BY <1>1, <1>3 DEF LockInv
  <2>3. pc'[p] \notin {"itest", "ifree"}  OBVIOUS
  <2> QED  BY <1>12, <2>1, <2>2, <2>3, FreeFrame
<1>14. CacheInv'
  <2>1. ASSUME NEW i \in valid', ref'[i] > 0
        PROVE  \/ /\ i \in valid /\ ref[i] > 0 /\ (i \in alloc => i \in alloc')
                  /\ nlink'[i] = nlink[i] /\ (i \in alloc => dlink'[i] = dlink[i])
               \/ i \in alloc' /\ nlink'[i] = dlink'[i]
    <3>1. i \in Inum  BY <1>5
    <3> QED  BY <1>3, <1>12, <2>1, <3>1
  <2>2. pc[p] # "inval"  BY DEF Iputs
  <2> QED  BY <2>1, <2>2, CacheFrame
<1>15. NewInv'
  <2>1. \A i \in alloc : dlink'[i] \in {dlink[i], 0} \/ ip[p] = i  BY <1>1, <1>2 DEF TypeOK
  <2> QED  BY <1>4, <2>1, NewFrame
<1> QED  BY <1>7, <1>8, <1>9, <1>10, <1>11, <1>13, <1>14, <1>15

\* A call that has the inode in ip locked has a copy that agrees with the disk.
LEMMA Agrees ==
  ASSUME InodeInv, NEW p \in Proc, Where(p) \in IpHeld, pc[p] \notin Iputs
  PROVE  ip[p] \in Inum /\ ip[p] \in alloc /\ Holds(p, ip[p]) /\ nlink[ip[p]] = dlink[ip[p]]
<1>1. CallInv(p) /\ TypeOK /\ LockInv  BY DEF InodeInv
<1>2. ip[p] \in Inum  BY <1>1 DEF CallInv, TypeOK, HasIp
<1>3. Holds(p, ip[p]) /\ lock[ip[p]] = p  BY <1>1, <1>2 DEF Holds, LockInv
<1>4. ref[ip[p]] > 0 /\ ip[p] \in valid  BY <1>2, <1>3, LockedReferenced, NoneIs
<1>5. \A q \in Proc : lock[ip[p]] = q => pc[q] # "inval"  BY <1>3 DEF Iputs
<1> QED  BY <1>2, <1>3, <1>4, <1>5, CoherentUnlocked

\* A call that the count is ahead for is counted.
LEMMA AheadCounted ==
  ASSUME InodeInv, NEW p \in Proc, NEW i \in alloc \ {Root}, Ahead(p, i)
  PROVE  dlink[i] # 0
<1> DEFINE E == {n \in Name : entry[n] = i}
           P == Pending(i)
<1>1. dlink[i] = Cardinality(E) + Cardinality(P)  BY DEF InodeInv, LinksCounted
<1>2. Cardinality(E) \in Nat  BY CountSome, InodeAssumption
<1>3. Cardinality(P) \in Nat /\ (Cardinality(P) = 0 <=> P = {})
  BY CountSome, InodeAssumption DEF Pending
<1>4. p \in P  BY PendingAhead DEF InodeInv
<1> HIDE DEF E, P
<1> QED  BY <1>1, <1>2, <1>3, <1>4

\* create() writes the new inode and its name.
LEMMA CreateInitInv ==
  ASSUME InodeInv, NEW p \in Proc, CreateInit(p)
  PROVE  InodeInv'
<1>1. /\ InodeInv /\ TypeOK /\ CallInv(p) /\ LiveInv /\ Root \in Inum
      /\ pc[p] = "init" /\ Where(p) = "init" /\ after[p] = "idle"
      /\ put[p] = None /\ dp[p] = Root /\ ip[p] \in Inum \ {Root}
      /\ call[p].path \in Name
  <2>1. InodeInv /\ TypeOK /\ CallInv(p) /\ LiveInv /\ Root \in Inum
    BY DEF InodeInv, TypeOK
  <2>2. ip[p] \in Inum \cup {None}  BY <2>1 DEF TypeOK
  <2> QED
    BY <2>1, <2>2 DEF CallInv, Where, NoCall, CreateInit, Iputs, RootHeld, IpHeld, HasDp,
       HasIp, Creating, Linking, Unlinking
<1>2. /\ ip[p] \in alloc /\ Holds(p, ip[p]) /\ dlink[ip[p]] = 0 /\ entry[call[p].path] = None
  BY <1>1, Agrees DEF IpHeld, Iputs, InodeInv, NewInv, Creating
<1>3. Others(p)
  BY <1>1 DEF TypeOK, Others, CreateInit, SetLinks, Put, PutDp, Goto, iunlock, disk
<1>4. /\ pc'[p] = "iput" /\ after'[p] = "fdalloc" /\ Where(p)' = "fdalloc"
      /\ put'[p] = Root /\ ip'[p] = ip[p] /\ dp'[p] = None /\ fd'[p] = fd[p]
      /\ call'[p] = call[p]
      /\ alloc' = alloc /\ entry' = [entry EXCEPT ![call[p].path] = ip[p]]
      /\ nlink' = [nlink EXCEPT ![ip[p]] = 1]
      /\ dlink' = [dlink EXCEPT ![ip[p]] = 1]
  BY <1>1 DEF TypeOK, Where, Iputs, CreateInit, SetLinks, Put, PutDp, Goto, iunlock, disk
<1>5. LocalType'
  <2>1. "fdalloc" \in Labels /\ "iput" \in Labels  BY LabelsAre
  <2>2. pc' \in [Proc -> Labels] /\ after' \in [Proc -> Labels]
    BY <1>1, <2>1 DEF TypeOK, CreateInit, SetLinks, Put, PutDp, Goto, iunlock, disk
  <2>4. call' \in [Proc -> Calls]  BY <1>1 DEF TypeOK, Calls, CreateInit
  <2>3. /\ fd' \in [Proc -> Inum \cup {None}] /\ ip' \in [Proc -> Inum \cup {None}]
        /\ dp' \in [Proc -> {Root, None}] /\ put' \in [Proc -> Inum \cup {None}]
    BY <1>1 DEF TypeOK, CreateInit, SetLinks, Put, PutDp, Goto, iunlock, disk
  <2> QED  BY <2>2, <2>3, <2>4 DEF LocalType
<1>6. CallInv(p)'
  BY <1>1, <1>4, NoneIs DEF CallInv, NoCall, Iputs, RootHeld, IpHeld, HasDp, HasIp,
     Creating, Linking, Unlinking
<1>7. Gets(None) /\ Unlocks(Root)
  BY <1>1, NoneIs DEF TypeOK, Gets, Unlocks, CreateInit, SetLinks, Put, PutDp, Goto,
     iunlock, disk
<1>8. ASSUME NEW i \in Inum
      PROVE  /\ Own(p, i)' = Own(p, i) + One(i = None)
             /\ Holds(p, i)' <=> Holds(p, i) /\ i # Root
  BY <1>1, <1>4, <1>8, NoneIs DEF Own, One, Holds, Iputs, RootHeld, IpHeld, HasDp, HasIp,
     Creating, Linking, Unlinking
<1>9. /\ Root \in Inum /\ Holds(p, Root) /\ pc[p] \notin Iputs /\ Where(p)' \notin Creating
      /\ pc'[p] = "iput" => put'[p] \in alloc
      /\ ip[p] \in alloc /\ Holds(p, ip[p]) 
      /\ 1 \in Nat /\ SetLinks(ip[p], 1)
      /\ Where(p) \in RootHeld /\ ip[p] \in (alloc \ {Root}) \cup {None}
  BY <1>1, <1>2, <1>4, NoneIs DEF TypeOK, SetLinks, Holds, Iputs, RootHeld, IpHeld, HasDp,
     HasIp, Creating, Linking, Unlinking
<1>10. /\ TypeOK' /\ (\A q \in Proc : CallInv(q)') /\ LockInv' /\ LiveInv' /\ FreeInv'
      /\ CacheInv' /\ RefsCounted' /\ NewInv'
  BY <1>1, <1>3, <1>4, <1>5, <1>6, <1>7, <1>8, <1>9, LinkMove
<1>11. LinksCounted'
  <2>1. ASSUME NEW i \in alloc \ {Root}
        PROVE  dlink'[i] + One(Ahead(p, i)) + One(entry[call[p].path] = i)
                 = dlink[i] + One(Ahead(p, i)') + One(entry'[call[p].path] = i)
    <3>1. dlink[i] \in Nat /\ i \in Inum  BY <1>1 DEF TypeOK
    <3> QED
      BY <1>1, <1>2, <1>4, <3>1, NoneIs DEF TypeOK, One, Ahead, Iputs, RootHeld, IpHeld,
         HasDp, HasIp, Creating, Linking, Unlinking
  <2>2. InodeInv /\ call[p].path \in Name /\ alloc' = alloc
        /\ \A m \in Name \ {call[p].path} : entry[m] = entry'[m]
    BY <1>1, <1>4 DEF TypeOK
  <2> QED  BY ONLY p \in Proc, <1>3, <1>10, <2>1, <2>2, EntryFrame
<1> QED  BY <1>10, <1>11 DEF InodeInv

\* link() of a file counts the link first.
LEMMA LinkCountInv ==
  ASSUME InodeInv, NEW p \in Proc, LinkCount(p), ip[p] # Root
  PROVE  InodeInv'
<1>1. /\ InodeInv /\ TypeOK /\ CallInv(p) /\ LiveInv /\ Root \in Inum
      /\ pc[p] = "count" /\ Where(p) = "count" /\ after[p] = "idle"
      /\ put[p] = None /\ dp[p] = None /\ ip[p] \in Inum \ {Root}
      /\ iunlock(ip[p]) /\ SetLinks(ip[p], nlink[ip[p]] + 1)
      /\ call[p].op = "link" /\ UNCHANGED <<alloc, entry, fd>>
  <2>1. InodeInv /\ TypeOK /\ CallInv(p) /\ LiveInv /\ Root \in Inum
    BY DEF InodeInv, TypeOK
  <2>2. ip[p] \in Inum \cup {None}  BY <2>1 DEF TypeOK
  <2> QED
    BY <2>1, <2>2 DEF CallInv, Where, NoCall, LinkCount, Iputs, RootHeld, IpHeld, HasDp,
       HasIp, Creating, Linking, Unlinking
<1>2. /\ ip[p] \in alloc /\ Holds(p, ip[p]) /\ nlink[ip[p]] = dlink[ip[p]]
      /\ dlink[ip[p]] \in Nat
  BY <1>1, Agrees DEF TypeOK, IpHeld, Iputs
<1>3. ASSUME NEW path \in Path, call' = [call EXCEPT ![p].path = path],
             nameiparent(p, path, "linkdir", "bad"), ip' = ip, path = Slash PROVE InodeInv'
  <2>1. Others(p)
    BY <1>1, <1>3 DEF TypeOK, Others, nameiparent, Put, Path, SetLinks, Goto, iunlock, disk
  <2>2. /\ pc'[p] = "iput" /\ after'[p] = "bad" /\ Where(p)' = "bad"
        /\ put'[p] = Root /\ ip'[p] = ip[p] /\ dp'[p] = None /\ fd'[p] = fd[p]
        /\ call'[p] = [op |-> "link", path |-> path]
        /\ alloc' = alloc /\ entry' = entry
        /\ nlink' = [nlink EXCEPT ![ip[p]] = nlink[ip[p]] + 1]
        /\ dlink' = [dlink EXCEPT ![ip[p]] = nlink[ip[p]] + 1]
    BY <1>1, <1>3 DEF TypeOK, Where, Iputs, nameiparent, Put, Path, SetLinks, Goto, iunlock,
       disk
  <2>3. LocalType'
    <3>1. "bad" \in Labels /\ "iput" \in Labels  BY LabelsAre
    <3>2. pc' \in [Proc -> Labels] /\ after' \in [Proc -> Labels]
      BY <1>1, <1>3, <3>1 DEF TypeOK, nameiparent, Put, Path, SetLinks, Goto, iunlock, disk
    <3>4. call' \in [Proc -> Calls]  BY <1>1, <1>3 DEF TypeOK, Calls
    <3>3. /\ fd' \in [Proc -> Inum \cup {None}] /\ ip' \in [Proc -> Inum \cup {None}]
          /\ dp' \in [Proc -> {Root, None}] /\ put' \in [Proc -> Inum \cup {None}]
      BY <1>1, <1>3 DEF TypeOK, nameiparent, Put, Path, SetLinks, Goto, iunlock, disk
    <3> QED  BY <3>2, <3>3, <3>4 DEF LocalType
  <2>4. CallInv(p)'
    BY <1>1, <1>3, <2>2, NoneIs DEF CallInv, NoCall, Path, Iputs, RootHeld, IpHeld, HasDp,
       HasIp, Creating, Linking, Unlinking
  <2>5. Gets(Root) /\ Unlocks(ip[p])
    BY <1>1, <1>3, NoneIs DEF TypeOK, Gets, Unlocks, nameiparent, Put, Path, SetLinks, Goto,
       iunlock, disk
  <2>6. ASSUME NEW i \in Inum
        PROVE  /\ Own(p, i)' = Own(p, i) + One(i = Root)
               /\ Holds(p, i)' <=> Holds(p, i) /\ i # ip[p]
    BY <1>1, <1>3, <2>2, <2>6, NoneIs DEF Own, One, Holds, Iputs, RootHeld, IpHeld, HasDp,
       HasIp, Creating, Linking, Unlinking
  <2>7. /\ ip[p] \in Inum /\ Holds(p, ip[p]) /\ pc[p] \notin Iputs /\ Where(p)' \notin Creating
        /\ pc'[p] = "iput" => put'[p] \in alloc
        /\ ip[p] \in alloc /\ Holds(p, ip[p]) 
        /\ nlink[ip[p]] + 1 \in Nat /\ SetLinks(ip[p], nlink[ip[p]] + 1)
        /\ entry' = entry
    BY <1>1, <1>2, <1>3, <2>2, NoneIs DEF TypeOK, SetLinks, Holds, Iputs, RootHeld, IpHeld,
       HasDp, HasIp, Creating, Linking, Unlinking
  <2>8. /\ TypeOK' /\ (\A q \in Proc : CallInv(q)') /\ LockInv' /\ LiveInv' /\ FreeInv'
        /\ CacheInv' /\ RefsCounted' /\ NewInv'
    BY <1>1, <2>1, <2>2, <2>3, <2>4, <2>5, <2>6, <2>7, LinkMove
  <2>9. LinksCounted'
    <3>1. ASSUME NEW i \in alloc' \ {Root}
          PROVE  dlink'[i] + One(Ahead(p, i)) = dlink[i] + One(Ahead(p, i)')
      <4>1. dlink[i] \in Nat /\ i \in Inum  BY <1>1, <2>2 DEF TypeOK
      <4> QED
        BY <1>1, <1>2, <1>3, <2>2, <4>1, NoneIs DEF TypeOK, One, Ahead, Iputs, RootHeld,
           IpHeld, HasDp, HasIp, Creating, Linking, Unlinking
    <3> QED  BY <2>1, <2>2, <2>8, <3>1, LinksFrame
  <2> QED  BY <2>8, <2>9 DEF InodeInv
<1>4. ASSUME NEW path \in Path, call' = [call EXCEPT ![p].path = path],
             nameiparent(p, path, "linkdir", "bad"), ip' = ip, path # Slash PROVE InodeInv'
  <2>1. Others(p)
    BY <1>1, <1>4 DEF TypeOK, Others, nameiparent, Put, Path, SetLinks, Goto, iunlock, disk
  <2>2. /\ pc'[p] = "linkdir" /\ after'[p] = "idle" /\ Where(p)' = "linkdir"
        /\ put'[p] = None /\ ip'[p] = ip[p] /\ dp'[p] = Root /\ fd'[p] = fd[p]
        /\ call'[p] = [op |-> "link", path |-> path]
        /\ alloc' = alloc /\ entry' = entry
        /\ nlink' = [nlink EXCEPT ![ip[p]] = nlink[ip[p]] + 1]
        /\ dlink' = [dlink EXCEPT ![ip[p]] = nlink[ip[p]] + 1]
    BY <1>1, <1>4 DEF TypeOK, Where, Iputs, nameiparent, Put, Path, SetLinks, Goto, iunlock,
       disk
  <2>3. LocalType'
    <3>1. "idle" \in Labels /\ "linkdir" \in Labels  BY LabelsAre
    <3>2. pc' \in [Proc -> Labels] /\ after' \in [Proc -> Labels]
      BY <1>1, <1>4, <3>1 DEF TypeOK, nameiparent, Put, Path, SetLinks, Goto, iunlock, disk
    <3>4. call' \in [Proc -> Calls]  BY <1>1, <1>4 DEF TypeOK, Calls
    <3>3. /\ fd' \in [Proc -> Inum \cup {None}] /\ ip' \in [Proc -> Inum \cup {None}]
          /\ dp' \in [Proc -> {Root, None}] /\ put' \in [Proc -> Inum \cup {None}]
      BY <1>1, <1>4 DEF TypeOK, nameiparent, Put, Path, SetLinks, Goto, iunlock, disk
    <3> QED  BY <3>2, <3>3, <3>4 DEF LocalType
  <2>4. CallInv(p)'
    BY <1>1, <1>4, <2>2, NoneIs DEF CallInv, NoCall, Path, Iputs, RootHeld, IpHeld, HasDp,
       HasIp, Creating, Linking, Unlinking
  <2>5. Gets(Root) /\ Unlocks(ip[p])
    BY <1>1, <1>4, NoneIs DEF TypeOK, Gets, Unlocks, nameiparent, Put, Path, SetLinks, Goto,
       iunlock, disk
  <2>6. ASSUME NEW i \in Inum
        PROVE  /\ Own(p, i)' = Own(p, i) + One(i = Root)
               /\ Holds(p, i)' <=> Holds(p, i) /\ i # ip[p]
    BY <1>1, <1>4, <2>2, <2>6, NoneIs DEF Own, One, Holds, Iputs, RootHeld, IpHeld, HasDp,
       HasIp, Creating, Linking, Unlinking
  <2>7. /\ ip[p] \in Inum /\ Holds(p, ip[p]) /\ pc[p] \notin Iputs /\ Where(p)' \notin Creating
        /\ pc'[p] = "iput" => put'[p] \in alloc
        /\ ip[p] \in alloc /\ Holds(p, ip[p]) 
        /\ nlink[ip[p]] + 1 \in Nat /\ SetLinks(ip[p], nlink[ip[p]] + 1)
        /\ entry' = entry
    BY <1>1, <1>2, <1>4, <2>2, NoneIs DEF TypeOK, SetLinks, Holds, Iputs, RootHeld, IpHeld,
       HasDp, HasIp, Creating, Linking, Unlinking
  <2>8. /\ TypeOK' /\ (\A q \in Proc : CallInv(q)') /\ LockInv' /\ LiveInv' /\ FreeInv'
        /\ CacheInv' /\ RefsCounted' /\ NewInv'
    BY <1>1, <2>1, <2>2, <2>3, <2>4, <2>5, <2>6, <2>7, LinkMove
  <2>9. LinksCounted'
    <3>1. ASSUME NEW i \in alloc' \ {Root}
          PROVE  dlink'[i] + One(Ahead(p, i)) = dlink[i] + One(Ahead(p, i)')
      <4>1. dlink[i] \in Nat /\ i \in Inum  BY <1>1, <2>2 DEF TypeOK
      <4> QED
        BY <1>1, <1>2, <1>4, <2>2, <4>1, NoneIs DEF TypeOK, One, Ahead, Iputs, RootHeld,
           IpHeld, HasDp, HasIp, Creating, Linking, Unlinking
    <3> QED  BY <2>1, <2>2, <2>8, <3>1, LinksFrame
  <2> QED  BY <2>8, <2>9 DEF InodeInv
<1> QED  BY <1>3, <1>4 DEF LinkCount

\* dirlink() writes the name.
LEMMA DirlinkNewInv ==
  ASSUME InodeInv, NEW p \in Proc, dirlink(p), entry[call[p].path] = None
  PROVE  InodeInv'
<1>1. /\ InodeInv /\ TypeOK /\ CallInv(p) /\ LiveInv /\ Root \in Inum
      /\ pc[p] = "dirlink" /\ Where(p) = "dirlink" /\ after[p] = "idle"
      /\ put[p] = None /\ dp[p] = Root /\ ip[p] \in Inum \ {Root}
      /\ call[p].path \in Name /\ entry[call[p].path] = None
      /\ entry' = [entry EXCEPT ![call[p].path] = ip[p]] /\ iunlock(Root) /\ PutDp(p, "linkput")
      /\ UNCHANGED <<alloc, dlink, ref, valid, nlink, fd, call, ip>>
  <2>1. InodeInv /\ TypeOK /\ CallInv(p) /\ LiveInv /\ Root \in Inum
    BY DEF InodeInv, TypeOK
  <2>2. ip[p] \in Inum \cup {None}  BY <2>1 DEF TypeOK
  <2> QED
    BY <2>1, <2>2 DEF CallInv, Where, NoCall, dirlink, Iputs, RootHeld, IpHeld, HasDp,
       HasIp, Creating, Linking, Unlinking
<1>2. ip[p] \in alloc  BY <1>1, NoneIs DEF LiveInv
<1>3. Others(p)  BY <1>1 DEF TypeOK, Others, Put, PutDp, Goto, iunlock, disk
<1>4. /\ pc'[p] = "iput" /\ after'[p] = "linkput" /\ Where(p)' = "linkput"
      /\ put'[p] = Root /\ ip'[p] = ip[p] /\ dp'[p] = None /\ fd'[p] = fd[p]
      /\ call'[p] = call[p]
      /\ alloc' = alloc /\ entry' = [entry EXCEPT ![call[p].path] = ip[p]]
      /\ nlink' = nlink /\ dlink' = dlink
  BY <1>1 DEF TypeOK, Where, Iputs, Put, PutDp, Goto, iunlock, disk
<1>5. LocalType'
  <2>1. "iput" \in Labels /\ "linkput" \in Labels  BY LabelsAre
  <2>2. pc' \in [Proc -> Labels] /\ after' \in [Proc -> Labels]
    BY <1>1, <2>1 DEF TypeOK, Put, PutDp, Goto, iunlock, disk
  <2>4. call' \in [Proc -> Calls]  BY <1>1 DEF TypeOK, Calls, Put
  <2>3. /\ fd' \in [Proc -> Inum \cup {None}] /\ ip' \in [Proc -> Inum \cup {None}]
        /\ dp' \in [Proc -> {Root, None}] /\ put' \in [Proc -> Inum \cup {None}]
    BY <1>1 DEF TypeOK, Put, PutDp, Goto, iunlock, disk
  <2> QED  BY <2>2, <2>3, <2>4 DEF LocalType
<1>6. CallInv(p)'
  BY <1>1, <1>4, NoneIs DEF CallInv, NoCall, Iputs, RootHeld, IpHeld, HasDp, HasIp,
     Creating, Linking, Unlinking
<1>7. Gets(None) /\ Unlocks(Root)
  BY <1>1, NoneIs DEF TypeOK, Gets, Unlocks, Put, PutDp, Goto, iunlock, disk
<1>8. ASSUME NEW i \in Inum
      PROVE  /\ Own(p, i)' = Own(p, i) + One(i = None)
             /\ Holds(p, i)' <=> Holds(p, i) /\ i # Root
  BY <1>1, <1>4, <1>8, NoneIs DEF Own, One, Holds, Iputs, RootHeld, IpHeld, HasDp, HasIp,
     Creating, Linking, Unlinking
<1>9. /\ Root \in Inum /\ Holds(p, Root) /\ pc[p] \notin Iputs /\ Where(p)' \notin Creating
      /\ pc'[p] = "iput" => put'[p] \in alloc
      /\ nlink' = nlink /\ dlink' = dlink
      /\ Where(p) \in RootHeld /\ ip[p] \in (alloc \ {Root}) \cup {None}
  BY <1>1, <1>2, <1>4, NoneIs DEF TypeOK, Holds, Iputs, RootHeld, IpHeld, HasDp, HasIp,
     Creating, Linking, Unlinking
<1>10. /\ TypeOK' /\ (\A q \in Proc : CallInv(q)') /\ LockInv' /\ LiveInv' /\ FreeInv'
      /\ CacheInv' /\ RefsCounted' /\ NewInv'
  BY <1>1, <1>3, <1>4, <1>5, <1>6, <1>7, <1>8, <1>9, LinkMove
<1>11. LinksCounted'
  <2>1. ASSUME NEW i \in alloc \ {Root}
        PROVE  dlink'[i] + One(Ahead(p, i)) + One(entry[call[p].path] = i)
                 = dlink[i] + One(Ahead(p, i)') + One(entry'[call[p].path] = i)
    <3>1. dlink[i] \in Nat /\ i \in Inum  BY <1>1 DEF TypeOK
    <3> QED
      BY <1>1, <1>2, <1>4, <3>1, NoneIs DEF TypeOK, One, Ahead, Iputs, RootHeld, IpHeld,
         HasDp, HasIp, Creating, Linking, Unlinking
  <2>2. InodeInv /\ call[p].path \in Name /\ alloc' = alloc
        /\ \A m \in Name \ {call[p].path} : entry[m] = entry'[m]
    BY <1>1, <1>4 DEF TypeOK
  <2> QED  BY ONLY p \in Proc, <1>3, <1>10, <2>1, <2>2, EntryFrame
<1> QED  BY <1>10, <1>11 DEF InodeInv

\* A link that has failed is not counted any more.
LEMMA LinkUndoInv ==
  ASSUME InodeInv, NEW p \in Proc, LinkUndo(p)
  PROVE  InodeInv'
<1>1. /\ InodeInv /\ TypeOK /\ CallInv(p) /\ LiveInv /\ Root \in Inum
      /\ pc[p] = "undo" /\ Where(p) = "undo" /\ after[p] = "idle"
      /\ put[p] = None /\ dp[p] = None /\ ip[p] \in Inum \ {Root}
  <2>1. InodeInv /\ TypeOK /\ CallInv(p) /\ LiveInv /\ Root \in Inum
    BY DEF InodeInv, TypeOK
  <2>2. ip[p] \in Inum \cup {None}  BY <2>1 DEF TypeOK
  <2> QED
    BY <2>1, <2>2 DEF CallInv, Where, NoCall, LinkUndo, Iputs, RootHeld, IpHeld, HasDp,
       HasIp, Creating, Linking, Unlinking
<1>2. /\ ip[p] \in alloc /\ Holds(p, ip[p]) /\ nlink[ip[p]] = dlink[ip[p]]
      /\ dlink[ip[p]] \in Nat \ {0}
      /\ nlink[ip[p]] - 1 \in Nat
  <2>1. ip[p] \in alloc /\ Holds(p, ip[p]) /\ nlink[ip[p]] = dlink[ip[p]] /\ dlink[ip[p]] \in Nat
    BY <1>1, Agrees DEF TypeOK, IpHeld, Iputs
  <2>2. dlink[ip[p]] # 0  BY <1>1, <2>1, AheadCounted DEF Ahead, Linking
  <2> QED  BY <2>1, <2>2
<1>3. Others(p)
  BY <1>1 DEF TypeOK, Others, LinkUndo, SetLinks, Put, PutIp, Goto, iunlock, disk
<1>4. /\ pc'[p] = "iput" /\ after'[p] = "idle" /\ Where(p)' = "idle"
      /\ put'[p] = ip[p] /\ ip'[p] = None /\ dp'[p] = None /\ fd'[p] = fd[p]
      /\ call'[p] = call[p]
      /\ alloc' = alloc /\ entry' = entry
      /\ nlink' = [nlink EXCEPT ![ip[p]] = nlink[ip[p]] - 1]
      /\ dlink' = [dlink EXCEPT ![ip[p]] = nlink[ip[p]] - 1]
  BY <1>1 DEF TypeOK, Where, Iputs, LinkUndo, SetLinks, Put, PutIp, Goto, iunlock, disk
<1>5. LocalType'
  <2>1. "idle" \in Labels /\ "iput" \in Labels  BY LabelsAre
  <2>2. pc' \in [Proc -> Labels] /\ after' \in [Proc -> Labels]
    BY <1>1, <2>1 DEF TypeOK, LinkUndo, SetLinks, Put, PutIp, Goto, iunlock, disk
  <2>4. call' \in [Proc -> Calls]  BY <1>1 DEF TypeOK, Calls, LinkUndo
  <2>3. /\ fd' \in [Proc -> Inum \cup {None}] /\ ip' \in [Proc -> Inum \cup {None}]
        /\ dp' \in [Proc -> {Root, None}] /\ put' \in [Proc -> Inum \cup {None}]
    BY <1>1 DEF TypeOK, LinkUndo, SetLinks, Put, PutIp, Goto, iunlock, disk
  <2> QED  BY <2>2, <2>3, <2>4 DEF LocalType
<1>6. CallInv(p)'
  BY <1>1, <1>4, NoneIs DEF CallInv, NoCall, Iputs, RootHeld, IpHeld, HasDp, HasIp,
     Creating, Linking, Unlinking
<1>7. Gets(None) /\ Unlocks(ip[p])
  BY <1>1, NoneIs DEF TypeOK, Gets, Unlocks, LinkUndo, SetLinks, Put, PutIp, Goto, iunlock,
     disk
<1>8. ASSUME NEW i \in Inum
      PROVE  /\ Own(p, i)' = Own(p, i) + One(i = None)
             /\ Holds(p, i)' <=> Holds(p, i) /\ i # ip[p]
  BY <1>1, <1>4, <1>8, NoneIs DEF Own, One, Holds, Iputs, RootHeld, IpHeld, HasDp, HasIp,
     Creating, Linking, Unlinking
<1>9. /\ ip[p] \in Inum /\ Holds(p, ip[p]) /\ pc[p] \notin Iputs /\ Where(p)' \notin Creating
      /\ pc'[p] = "iput" => put'[p] \in alloc
      /\ ip[p] \in alloc /\ Holds(p, ip[p]) 
      /\ nlink[ip[p]] - 1 \in Nat /\ SetLinks(ip[p], nlink[ip[p]] - 1)
      /\ entry' = entry
  BY <1>1, <1>2, <1>4, NoneIs DEF TypeOK, SetLinks, Holds, Iputs, RootHeld, IpHeld, HasDp,
     HasIp, Creating, Linking, Unlinking
<1>10. /\ TypeOK' /\ (\A q \in Proc : CallInv(q)') /\ LockInv' /\ LiveInv' /\ FreeInv'
      /\ CacheInv' /\ RefsCounted' /\ NewInv'
  BY <1>1, <1>3, <1>4, <1>5, <1>6, <1>7, <1>8, <1>9, LinkMove
<1>11. LinksCounted'
  <2>1. ASSUME NEW i \in alloc' \ {Root}
        PROVE  dlink'[i] + One(Ahead(p, i)) = dlink[i] + One(Ahead(p, i)')
    <3>1. dlink[i] \in Nat /\ i \in Inum  BY <1>1, <1>4 DEF TypeOK
    <3> QED
      BY <1>1, <1>2, <1>4, <3>1, NoneIs DEF TypeOK, One, Ahead, Iputs, RootHeld, IpHeld,
         HasDp, HasIp, Creating, Linking, Unlinking
  <2> QED  BY <1>3, <1>4, <1>10, <2>1, LinksFrame
<1> QED  BY <1>10, <1>11 DEF InodeInv

\* unlink() erases the name; the count is not 0.
LEMMA UnlinkEraseInv ==
  ASSUME InodeInv, NEW p \in Proc, UnlinkErase(p)
  PROVE  InodeInv'
<1>1. /\ InodeInv /\ TypeOK /\ CallInv(p) /\ LiveInv /\ Root \in Inum
      /\ pc[p] = "erase" /\ Where(p) = "erase" /\ after[p] = "idle"
      /\ put[p] = None /\ dp[p] = Root /\ ip[p] \in Inum \ {Root}
      /\ call[p].path \in Name /\ entry[call[p].path] = ip[p]
  <2>1. InodeInv /\ TypeOK /\ CallInv(p) /\ LiveInv /\ Root \in Inum
    BY DEF InodeInv, TypeOK
  <2>2. ip[p] \in Inum \cup {None}  BY <2>1 DEF TypeOK
  <2> QED
    BY <2>1, <2>2 DEF CallInv, Where, NoCall, UnlinkErase, Iputs, RootHeld, IpHeld, HasDp,
       HasIp, Creating, Linking, Unlinking
<1>2. /\ ip[p] \in alloc /\ Holds(p, ip[p]) /\ nlink[ip[p]] = dlink[ip[p]]
      /\ dlink[ip[p]] \in Nat \ {0}
      /\ entry' = [entry EXCEPT ![call[p].path] = None] /\ iunlock(Root) /\ PutDp(p, "drop")
      /\ UNCHANGED <<alloc, dlink, ref, valid, nlink, fd, call, ip>>
  <2>1. ip[p] \in alloc /\ Holds(p, ip[p]) /\ nlink[ip[p]] = dlink[ip[p]] /\ dlink[ip[p]] \in Nat
    BY <1>1, Agrees DEF TypeOK, IpHeld, Iputs
  <2>2. dlink[ip[p]] # 0  BY <1>1, <2>1, Unlinked
  <2> QED  BY <2>1, <2>2 DEF UnlinkErase
<1>3. Others(p)  BY <1>1, <1>2 DEF TypeOK, Others, Put, PutDp, Goto, iunlock, disk
<1>4. /\ pc'[p] = "iput" /\ after'[p] = "drop" /\ Where(p)' = "drop"
      /\ put'[p] = Root /\ ip'[p] = ip[p] /\ dp'[p] = None /\ fd'[p] = fd[p]
      /\ call'[p] = call[p]
      /\ alloc' = alloc /\ entry' = [entry EXCEPT ![call[p].path] = None]
      /\ nlink' = nlink /\ dlink' = dlink
  BY <1>1, <1>2 DEF TypeOK, Where, Iputs, Put, PutDp, Goto, iunlock, disk
<1>5. LocalType'
  <2>1. "drop" \in Labels /\ "iput" \in Labels  BY LabelsAre
  <2>2. pc' \in [Proc -> Labels] /\ after' \in [Proc -> Labels]
    BY <1>1, <1>2, <2>1 DEF TypeOK, Put, PutDp, Goto, iunlock, disk
  <2>4. call' \in [Proc -> Calls]  BY <1>1, <1>2 DEF TypeOK, Calls, Put
  <2>3. /\ fd' \in [Proc -> Inum \cup {None}] /\ ip' \in [Proc -> Inum \cup {None}]
        /\ dp' \in [Proc -> {Root, None}] /\ put' \in [Proc -> Inum \cup {None}]
    BY <1>1, <1>2 DEF TypeOK, Put, PutDp, Goto, iunlock, disk
  <2> QED  BY <2>2, <2>3, <2>4 DEF LocalType
<1>6. CallInv(p)'
  BY <1>1, <1>2, <1>4, NoneIs DEF CallInv, NoCall, Iputs, RootHeld, IpHeld, HasDp, HasIp,
     Creating, Linking, Unlinking
<1>7. Gets(None) /\ Unlocks(Root)
  BY <1>1, <1>2, NoneIs DEF TypeOK, Gets, Unlocks, Put, PutDp, Goto, iunlock, disk
<1>8. ASSUME NEW i \in Inum
      PROVE  /\ Own(p, i)' = Own(p, i) + One(i = None)
             /\ Holds(p, i)' <=> Holds(p, i) /\ i # Root
  BY <1>1, <1>2, <1>4, <1>8, NoneIs DEF Own, One, Holds, Iputs, RootHeld, IpHeld, HasDp,
     HasIp, Creating, Linking, Unlinking
<1>9. /\ Root \in Inum /\ Holds(p, Root) /\ pc[p] \notin Iputs /\ Where(p)' \notin Creating
      /\ pc'[p] = "iput" => put'[p] \in alloc
      /\ nlink' = nlink /\ dlink' = dlink
      /\ Where(p) \in RootHeld /\ None \in (alloc \ {Root}) \cup {None}
  BY <1>1, <1>2, <1>4, NoneIs DEF TypeOK, Holds, Iputs, RootHeld, IpHeld, HasDp, HasIp,
     Creating, Linking, Unlinking
<1>10. /\ TypeOK' /\ (\A q \in Proc : CallInv(q)') /\ LockInv' /\ LiveInv' /\ FreeInv'
      /\ CacheInv' /\ RefsCounted' /\ NewInv'
  BY <1>1, <1>3, <1>4, <1>5, <1>6, <1>7, <1>8, <1>9, LinkMove
<1>11. LinksCounted'
  <2>1. ASSUME NEW i \in alloc \ {Root}
        PROVE  dlink'[i] + One(Ahead(p, i)) + One(entry[call[p].path] = i)
                 = dlink[i] + One(Ahead(p, i)') + One(entry'[call[p].path] = i)
    <3>1. dlink[i] \in Nat /\ i \in Inum  BY <1>1 DEF TypeOK
    <3> QED
      BY <1>1, <1>2, <1>4, <3>1, NoneIs DEF TypeOK, One, Ahead, Iputs, RootHeld, IpHeld,
         HasDp, HasIp, Creating, Linking, Unlinking
  <2>2. InodeInv /\ call[p].path \in Name /\ alloc' = alloc
        /\ \A m \in Name \ {call[p].path} : entry[m] = entry'[m]
    BY <1>1, <1>4 DEF TypeOK
  <2> QED  BY ONLY p \in Proc, <1>3, <1>10, <2>1, <2>2, EntryFrame
<1> QED  BY <1>10, <1>11 DEF InodeInv

\* unlink() drops the link.
LEMMA UnlinkDropInv ==
  ASSUME InodeInv, NEW p \in Proc, UnlinkDrop(p)
  PROVE  InodeInv'
<1>1. /\ InodeInv /\ TypeOK /\ CallInv(p) /\ LiveInv /\ Root \in Inum
      /\ pc[p] = "drop" /\ Where(p) = "drop" /\ after[p] = "idle"
      /\ put[p] = None /\ dp[p] = None /\ ip[p] \in Inum \ {Root}
  <2>1. InodeInv /\ TypeOK /\ CallInv(p) /\ LiveInv /\ Root \in Inum
    BY DEF InodeInv, TypeOK
  <2>2. ip[p] \in Inum \cup {None}  BY <2>1 DEF TypeOK
  <2> QED
    BY <2>1, <2>2 DEF CallInv, Where, NoCall, UnlinkDrop, Iputs, RootHeld, IpHeld, HasDp,
       HasIp, Creating, Linking, Unlinking
<1>2. /\ ip[p] \in alloc /\ Holds(p, ip[p]) /\ nlink[ip[p]] = dlink[ip[p]]
      /\ dlink[ip[p]] \in Nat \ {0}
      /\ nlink[ip[p]] - 1 \in Nat
  <2>1. ip[p] \in alloc /\ Holds(p, ip[p]) /\ nlink[ip[p]] = dlink[ip[p]] /\ dlink[ip[p]] \in Nat
    BY <1>1, Agrees DEF TypeOK, IpHeld, Iputs
  <2>2. dlink[ip[p]] # 0  BY <1>1, <2>1, AheadCounted DEF Ahead, Linking
  <2> QED  BY <2>1, <2>2
<1>3. Others(p)
  BY <1>1 DEF TypeOK, Others, UnlinkDrop, SetLinks, Put, PutIp, Goto, iunlock, disk
<1>4. /\ pc'[p] = "iput" /\ after'[p] = "idle" /\ Where(p)' = "idle"
      /\ put'[p] = ip[p] /\ ip'[p] = None /\ dp'[p] = None /\ fd'[p] = fd[p]
      /\ call'[p] = call[p]
      /\ alloc' = alloc /\ entry' = entry
      /\ nlink' = [nlink EXCEPT ![ip[p]] = nlink[ip[p]] - 1]
      /\ dlink' = [dlink EXCEPT ![ip[p]] = nlink[ip[p]] - 1]
  BY <1>1 DEF TypeOK, Where, Iputs, UnlinkDrop, SetLinks, Put, PutIp, Goto, iunlock, disk
<1>5. LocalType'
  <2>1. "idle" \in Labels /\ "iput" \in Labels  BY LabelsAre
  <2>2. pc' \in [Proc -> Labels] /\ after' \in [Proc -> Labels]
    BY <1>1, <2>1 DEF TypeOK, UnlinkDrop, SetLinks, Put, PutIp, Goto, iunlock, disk
  <2>4. call' \in [Proc -> Calls]  BY <1>1 DEF TypeOK, Calls, UnlinkDrop
  <2>3. /\ fd' \in [Proc -> Inum \cup {None}] /\ ip' \in [Proc -> Inum \cup {None}]
        /\ dp' \in [Proc -> {Root, None}] /\ put' \in [Proc -> Inum \cup {None}]
    BY <1>1 DEF TypeOK, UnlinkDrop, SetLinks, Put, PutIp, Goto, iunlock, disk
  <2> QED  BY <2>2, <2>3, <2>4 DEF LocalType
<1>6. CallInv(p)'
  BY <1>1, <1>4, NoneIs DEF CallInv, NoCall, Iputs, RootHeld, IpHeld, HasDp, HasIp,
     Creating, Linking, Unlinking
<1>7. Gets(None) /\ Unlocks(ip[p])
  BY <1>1, NoneIs DEF TypeOK, Gets, Unlocks, UnlinkDrop, SetLinks, Put, PutIp, Goto,
     iunlock, disk
<1>8. ASSUME NEW i \in Inum
      PROVE  /\ Own(p, i)' = Own(p, i) + One(i = None)
             /\ Holds(p, i)' <=> Holds(p, i) /\ i # ip[p]
  BY <1>1, <1>4, <1>8, NoneIs DEF Own, One, Holds, Iputs, RootHeld, IpHeld, HasDp, HasIp,
     Creating, Linking, Unlinking
<1>9. /\ ip[p] \in Inum /\ Holds(p, ip[p]) /\ pc[p] \notin Iputs /\ Where(p)' \notin Creating
      /\ pc'[p] = "iput" => put'[p] \in alloc
      /\ ip[p] \in alloc /\ Holds(p, ip[p]) 
      /\ nlink[ip[p]] - 1 \in Nat /\ SetLinks(ip[p], nlink[ip[p]] - 1)
      /\ entry' = entry
  BY <1>1, <1>2, <1>4, NoneIs DEF TypeOK, SetLinks, Holds, Iputs, RootHeld, IpHeld, HasDp,
     HasIp, Creating, Linking, Unlinking
<1>10. /\ TypeOK' /\ (\A q \in Proc : CallInv(q)') /\ LockInv' /\ LiveInv' /\ FreeInv'
      /\ CacheInv' /\ RefsCounted' /\ NewInv'
  BY <1>1, <1>3, <1>4, <1>5, <1>6, <1>7, <1>8, <1>9, LinkMove
<1>11. LinksCounted'
  <2>1. ASSUME NEW i \in alloc' \ {Root}
        PROVE  dlink'[i] + One(Ahead(p, i)) = dlink[i] + One(Ahead(p, i)')
    <3>1. dlink[i] \in Nat /\ i \in Inum  BY <1>1, <1>4 DEF TypeOK
    <3> QED
      BY <1>1, <1>2, <1>4, <3>1, NoneIs DEF TypeOK, One, Ahead, Iputs, RootHeld, IpHeld,
         HasDp, HasIp, Creating, Linking, Unlinking
  <2> QED  BY <1>3, <1>4, <1>10, <2>1, LinksFrame
<1> QED  BY <1>10, <1>11 DEF InodeInv

-----------------------------------------------------------------------------
(* Steps that lock inodes *)

\* A step of p that leaves the disk and the references alone and takes locks.
LEMMA LockMove ==
  ASSUME InodeInv, TypeOK', NEW p \in Proc, Others(p), CallInv(p)',
         disk' = disk, ref' = ref, fd'[p] = fd[p], ip'[p] = ip[p], dp'[p] = dp[p],
         put'[p] = put[p], call'[p] = call[p],
         \A i \in Inum : /\ lock'[i] = lock[i] \/ (lock[i] = None /\ lock'[i] = p)
                         /\ lock'[i] = p <=> Holds(p, i)'
                         /\ lock'[i] # None => i \in valid'
                         /\ nlink'[i] = nlink[i] \/ lock[i] = None
                         /\ i \in valid' => \/ i \in valid /\ nlink'[i] = nlink[i]
                                            \/ i \in alloc /\ nlink'[i] = dlink[i],
         Where(p)' \in Linking \cup {"drop"} <=> Where(p) \in Linking \cup {"drop"},
         Where(p)' \in Creating => Where(p) \in Creating,
         pc[p] # "inval", pc'[p] \in {"iput", "itest", "ifree"} => put[p] \in alloc,
         pc'[p] \in {"itest", "ifree"} => nlink'[put[p]] = 0,
         pc'[p] = "ifree" => ref[put[p]] = 1
  PROVE  InodeInv'
<1>1. alloc' = alloc /\ dlink' = dlink /\ entry' = entry  BY DEF disk
<1>2. \A q \in Proc : CallInv(q)'  BY <1>1, CallFrame DEF InodeInv
<1>3. LockInv'  BY LockFrame DEF InodeInv
<1>4. RefsCounted'
  <2>1. ASSUME NEW i \in Inum PROVE ref'[i] + Own(p, i) = ref[i] + Own(p, i)'  BY DEF Own
  <2>2. ref \in [Inum -> Nat] /\ ref' \in [Inum -> Nat] /\ RefsCounted
    BY DEF InodeInv, TypeOK
  <2> QED  BY <2>1, <2>2, RefsFrame
<1>5. LiveInv'  BY <1>1 DEF InodeInv, LiveInv, Others
<1>6. FreeInv'
  <2>1. /\ \A i \in Inum : lock'[i] # None => i \in valid'
        /\ \A i \in Inum : nlink'[i] = nlink[i] \/ lock[i] \in {None, p}
        /\ \A i \in Inum : ref'[i] = ref[i]
        /\ pc'[p] \in {"itest", "ifree"} => nlink'[put'[p]] = 0
        /\ pc'[p] = "ifree" => ref'[put'[p]] = 1
    OBVIOUS
  <2> QED  BY <2>1, FreeFrame
<1>7. CacheInv'
  <2>1. ASSUME NEW i \in valid', ref'[i] > 0
        PROVE  \/ /\ i \in valid /\ ref[i] > 0 /\ (i \in alloc => i \in alloc')
                  /\ nlink'[i] = nlink[i] /\ (i \in alloc => dlink'[i] = dlink[i])
               \/ i \in alloc' /\ nlink'[i] = dlink'[i]
    <3>1. i \in Inum  BY DEF TypeOK
    <3> QED  BY <1>1, <2>1, <3>1
  <2> QED  BY <2>1, CacheFrame
<1>8. LinksCounted'
  <2>1. \A i : Ahead(p, i)' <=> Ahead(p, i)  BY DEF Ahead
  <2>2. \A i \in Inum : One(Ahead(p, i)') = One(Ahead(p, i))  BY <2>1 DEF One
  <2>3. alloc' \subseteq Inum  BY DEF TypeOK
  <2> QED  BY <1>1, <1>2, <2>2, <2>3, LinksFrame
<1>9. NewInv'  BY <1>1, NewFrame
<1> QED  BY <1>2, <1>3, <1>4, <1>5, <1>6, <1>7, <1>8, <1>9 DEF InodeInv

\* ilock(): the caller has a reference and the inode is allocated, so that it
\* does not panic.
LEMMA IlockInv ==
  ASSUME InodeInv, NEW p \in Proc, ilock(p)
  PROVE  InodeInv'
<1> DEFINE i == Target(p)
           l == Locking[pc[p]]
<1>1. TypeOK /\ CallInv(p) /\ LiveInv /\ LockInv /\ FreeInv  BY DEF InodeInv
<1>2. /\ pc[p] \in {"lookup", "create", "mknew", "open", "link", "linkdir", "bad", "unlink",
                    "victim", "read"}
      /\ Where(p) = pc[p] /\ put[p] = None /\ after[p] = "idle"
  BY <1>1, LockingIs DEF ilock, CallInv, Where, Iputs
<1>3. i \in Inum /\ i \in alloc
  <2>1. CASE pc[p] \in {"lookup", "create", "linkdir", "unlink"}
    BY <1>1, <1>2, <2>1 DEF Target, CallInv, HasDp, TypeOK
  <2>2. CASE pc[p] = "read"  BY <1>1, <1>2, <2>2 DEF Target, CallInv, LiveInv, TypeOK
  <2>3. CASE pc[p] \in {"mknew", "open", "link", "bad", "victim"}
    BY <1>1, <1>2, <2>3 DEF Target, CallInv, LiveInv, TypeOK, HasIp, Creating, Linking,
       Unlinking
  <2> QED  BY <1>2, <2>1, <2>2, <2>3
<1>4. ref[i] > 0
  <2>1. fd[p] = i \/ ip[p] = i \/ dp[p] = i  BY DEF Target
  <2> HIDE DEF i
  <2> QED  BY <1>3, <2>1, Referenced
<1>5. /\ lock[i] = None /\ lock' = [lock EXCEPT ![i] = p] /\ valid' = valid \cup {i}
      /\ nlink' = IF i \in valid THEN nlink ELSE [nlink EXCEPT ![i] = dlink[i]]
      /\ pc' = [pc EXCEPT ![p] = l]
      /\ UNCHANGED <<disk, ref, fd, call, ip, dp, put, after>>
  <2>1. ~ (ref[i] < 1 \/ i \notin valid \cup alloc)  BY <1>1, <1>3, <1>4 DEF TypeOK
  <2> QED  BY <2>1 DEF ilock, Goto
<1> HIDE DEF i
<1>6. l \in {"dirlookup", "created", "init", "fdalloc", "count", "dirlink", "undo", "find",
             "erase", "readi"}
  BY <1>2, LockingIs
<1>7. /\ Others(p) /\ pc'[p] = l /\ Where(p)' = l
      /\ fd'[p] = fd[p] /\ ip'[p] = ip[p] /\ dp'[p] = dp[p] /\ put'[p] = put[p]
      /\ call'[p] = call[p] /\ after'[p] = after[p] /\ entry' = entry
  BY <1>1, <1>5, <1>6 DEF TypeOK, Others, Where, Iputs, disk
<1>8. TypeOK'
  <2>1. l \in Labels  BY <1>6, LabelsAre
  <2> QED  BY <1>1, <1>3, <1>5, <2>1 DEF TypeOK, disk
<1>9. CallInv(p)'
  BY <1>1, <1>2, <1>7, LockingIs
     DEF CallInv, Iputs, RootHeld, IpHeld, HasDp, HasIp, Creating, Linking, Unlinking
<1>10. ASSUME NEW x \in Inum PROVE Holds(p, x)' <=> Holds(p, x) \/ x = i
  BY <1>1, <1>2, <1>7, LockingIs
     DEF Holds, i, Target, CallInv, Iputs, RootHeld, IpHeld, HasDp, HasIp, Creating, Linking,
         Unlinking
<1>11. ASSUME NEW x \in Inum
       PROVE  /\ lock'[x] = lock[x] \/ (lock[x] = None /\ lock'[x] = p)
              /\ lock'[x] = p <=> Holds(p, x)'
              /\ lock'[x] # None => x \in valid'
              /\ nlink'[x] = nlink[x] \/ lock[x] = None
              /\ x \in valid' => \/ x \in valid /\ nlink'[x] = nlink[x]
                                 \/ x \in alloc /\ nlink'[x] = dlink[x]
  <2>1. lock[x] = p <=> Holds(p, x)  BY <1>1 DEF LockInv
  <2>2. lock[x] # None => x \in valid  BY <1>1 DEF FreeInv
  <2>3. CASE x = i  BY <1>1, <1>3, <1>5, <1>10, <2>1, <2>2, <2>3, NoneIs DEF TypeOK
  <2>4. CASE x # i  BY <1>1, <1>3, <1>5, <1>10, <2>1, <2>2, <2>4, NoneIs DEF TypeOK
  <2> QED  BY <2>3, <2>4
<1>12. /\ Where(p)' \in Linking \cup {"drop"} <=> Where(p) \in Linking \cup {"drop"}
       /\ Where(p)' \in Creating => Where(p) \in Creating
       /\ pc[p] # "inval" /\ pc'[p] \notin {"iput", "itest", "ifree"}
  BY <1>2, <1>7, LockingIs DEF Linking, Creating
<1>13. disk' = disk /\ ref' = ref  BY <1>5
<1> QED  BY <1>7, <1>8, <1>9, <1>11, <1>12, <1>13, LockMove

\* iput() locks an inode without links.
LEMMA IputUnlinkedInv ==
  ASSUME InodeInv, NEW p \in Proc, iput(p), put[p] \in valid, nlink[put[p]] = 0
  PROVE  InodeInv'
<1>1. TypeOK /\ CallInv(p) /\ LiveInv /\ LockInv /\ FreeInv  BY DEF InodeInv
<1>2. /\ pc[p] = "iput" /\ Where(p) = after[p] /\ put[p] \in Inum /\ put[p] \in alloc
      /\ lock[put[p]] = None /\ ~ Holds(p, put[p])
  <2>1. pc[p] = "iput" /\ lock[put[p]] = None  BY DEF iput
  <2>2. Where(p) = after[p] /\ put[p] \in Inum /\ put[p] \in alloc
    BY <1>1, <2>1 DEF CallInv, Where, TypeOK, Iputs, LiveInv
  <2>3. ~ Holds(p, put[p])  BY <1>1, <2>1, <2>2, NoneIs DEF LockInv
  <2> QED  BY <2>1, <2>2, <2>3
<1>3. /\ lock' = [lock EXCEPT ![put[p]] = p] /\ pc' = [pc EXCEPT ![p] = "itest"]
      /\ UNCHANGED <<disk, ref, valid, nlink, fd, call, ip, dp, put, after>>
  BY DEF iput, Goto
<1>4. /\ Others(p) /\ pc'[p] = "itest" /\ Where(p)' = Where(p)
      /\ fd'[p] = fd[p] /\ ip'[p] = ip[p] /\ dp'[p] = dp[p] /\ put'[p] = put[p]
      /\ call'[p] = call[p] /\ after'[p] = after[p] /\ entry' = entry
  BY <1>1, <1>2, <1>3 DEF TypeOK, Others, Where, Iputs, disk
<1>5. TypeOK'
  <2>1. "itest" \in Labels  BY LabelsAre
  <2> QED  BY <1>1, <1>2, <1>3, <2>1 DEF TypeOK, disk
<1>6. CallInv(p)'  BY <1>1, <1>2, <1>4 DEF CallInv, Iputs, Holds
<1>7. ASSUME NEW x \in Inum
      PROVE  /\ lock'[x] = lock[x] \/ (lock[x] = None /\ lock'[x] = p)
             /\ lock'[x] = p <=> Holds(p, x)'
             /\ lock'[x] # None => x \in valid'
             /\ nlink'[x] = nlink[x]
             /\ x \in valid' => x \in valid /\ nlink'[x] = nlink[x]
  <2>1. lock[x] = p <=> Holds(p, x)  BY <1>1 DEF LockInv
  <2>2. lock[x] # None => x \in valid  BY <1>1 DEF FreeInv
  <2>3. Holds(p, x)' <=> Holds(p, x) \/ x = put[p]  BY <1>2, <1>4 DEF Holds
  <2> QED  BY <1>1, <1>2, <1>3, <2>1, <2>2, <2>3, NoneIs DEF TypeOK
<1>8. disk' = disk /\ ref' = ref /\ nlink'[put[p]] = 0  BY <1>3
<1> QED  BY <1>2, <1>4, <1>5, <1>6, <1>7, <1>8, LockMove

\* iput() finds no other reference.
LEMMA IputTestLastInv ==
  ASSUME InodeInv, NEW p \in Proc, IputTest(p), LastRef(put[p])
  PROVE  InodeInv'
<1>1. TypeOK /\ CallInv(p) /\ LiveInv /\ LockInv /\ FreeInv  BY DEF InodeInv
<1>2. /\ pc[p] = "itest" /\ Where(p) = after[p] /\ put[p] \in Inum /\ put[p] \in alloc
      /\ nlink[put[p]] = 0 /\ ref[put[p]] = 1
  <2>1. pc[p] = "itest" /\ ref[put[p]] = 1  BY DEF IputTest, LastRef
  <2> QED  BY <1>1, <2>1 DEF CallInv, Where, TypeOK, Iputs, LiveInv, FreeInv
<1>3. pc' = [pc EXCEPT ![p] = "ifree"]
      /\ UNCHANGED <<disk, ref, valid, nlink, lock, fd, call, ip, dp, put, after>>
  BY DEF IputTest, Goto
<1>4. /\ Others(p) /\ pc'[p] = "ifree" /\ Where(p)' = Where(p)
      /\ fd'[p] = fd[p] /\ ip'[p] = ip[p] /\ dp'[p] = dp[p] /\ put'[p] = put[p]
      /\ call'[p] = call[p] /\ after'[p] = after[p] /\ entry' = entry
  BY <1>1, <1>2, <1>3 DEF TypeOK, Others, Where, Iputs, disk
<1>5. TypeOK'
  <2>1. "ifree" \in Labels  BY LabelsAre
  <2> QED  BY <1>1, <1>2, <1>3, <2>1 DEF TypeOK, disk
<1>6. CallInv(p)'  BY <1>1, <1>2, <1>4 DEF CallInv, Iputs
<1>7. ASSUME NEW x \in Inum
      PROVE  /\ lock'[x] = lock[x] /\ (lock'[x] = p <=> Holds(p, x)')
             /\ lock'[x] # None => x \in valid'
             /\ nlink'[x] = nlink[x]
             /\ x \in valid' => x \in valid /\ nlink'[x] = nlink[x]
  <2>1. lock[x] = p <=> Holds(p, x)  BY <1>1 DEF LockInv
  <2>2. lock[x] # None => x \in valid  BY <1>1 DEF FreeInv
  <2>3. Holds(p, x)' <=> Holds(p, x)  BY <1>2, <1>4 DEF Holds
  <2> QED  BY <1>3, <2>1, <2>2, <2>3
<1>8. disk' = disk /\ ref' = ref /\ nlink'[put[p]] = 0 /\ ref[put[p]] = 1  BY <1>2, <1>3
<1> QED  BY <1>2, <1>4, <1>5, <1>6, <1>7, <1>8, LockMove

-----------------------------------------------------------------------------
(* Steps that free and allocate inodes *)

\* iput() frees the inode.
LEMMA IputFreeInv ==
  ASSUME InodeInv, NEW p \in Proc, IputFree(p)
  PROVE  InodeInv'
<1> DEFINE i == put[p]
<1>1. TypeOK /\ CallInv(p) /\ LiveInv /\ LockInv /\ FreeInv  BY DEF InodeInv
<1>2. pc[p] = "ifree" /\ Alone(p, i)  BY FreedAlone DEF IputFree
<1>3. Where(p) = after[p] /\ i \in Inum  BY <1>1, <1>2 DEF Where, Iputs, Alone, TypeOK
<1>4. /\ alloc' = alloc \ {i} /\ dlink' = dlink /\ entry' = entry
      /\ pc' = [pc EXCEPT ![p] = "inval"]
      /\ UNCHANGED <<ref, valid, nlink, lock, fd, call, ip, dp, put, after>>
  <2>1. nlink[i] = 0 /\ dlink[i] = 0 /\ dlink \in [Inum -> Nat]
    BY <1>1, <1>2 DEF Alone, TypeOK
  <2>2. [dlink EXCEPT ![i] = nlink[i]] = dlink  BY <1>3, <2>1
  <2> QED  BY <2>2 DEF IputFree, Goto, icache
<1>5. /\ Others(p) /\ pc'[p] = "inval" /\ Where(p)' = Where(p)
      /\ fd'[p] = fd[p] /\ ip'[p] = ip[p] /\ dp'[p] = dp[p] /\ put'[p] = put[p]
      /\ call'[p] = call[p] /\ after'[p] = after[p]
  BY <1>1, <1>2, <1>3, <1>4 DEF TypeOK, Others, Where, Iputs
<1> HIDE DEF i
<1>6. TypeOK'
  <2>1. "inval" \in Labels  BY LabelsAre
  <2> QED  BY <1>1, <1>2, <1>4, <2>1 DEF TypeOK, Alone
<1>7. CallInv(p)'  BY <1>1, <1>2, <1>4, <1>5 DEF CallInv, Iputs
<1>8. \A q \in Proc : CallInv(q)'  BY <1>4, <1>5, <1>7, CallFrame DEF InodeInv
<1>9. LockInv'
  <2>1. ASSUME NEW x \in Inum PROVE lock'[x] = lock[x] /\ (lock'[x] = p <=> Holds(p, x)')
    <3>1. Holds(p, x)' <=> Holds(p, x)  BY <1>2, <1>5 DEF Holds
    <3> QED  BY <1>1, <1>4, <3>1 DEF LockInv
  <2> QED  BY <1>1, <1>5, <2>1, LockFrame
<1>10. RefsCounted'
  <2>1. ASSUME NEW x \in Inum PROVE ref'[x] + Own(p, x) = ref[x] + Own(p, x)'
    BY <1>4, <1>5 DEF Own
  <2>2. ref \in [Inum -> Nat] /\ ref' \in [Inum -> Nat] /\ RefsCounted
    BY <1>1, <1>6 DEF InodeInv, TypeOK
  <2> QED  BY <1>5, <2>1, <2>2, RefsFrame
<1>11. LiveInv'
  <2>1. \A n \in Name : entry'[n] # None => entry'[n] \in alloc' \ {Root}
    BY <1>1, <1>2, <1>4 DEF LiveInv, Alone
  <2>2. ASSUME NEW q \in Proc
        PROVE  /\ fd'[q] # None => fd'[q] \in alloc'
               /\ ip'[q] # None => ip'[q] \in alloc'
               /\ pc'[q] \in {"iput", "itest", "ifree"} => put'[q] \in alloc'
    <3>1. fd[q] # i /\ ip[q] # i /\ (q # p => put[q] # i)  BY <1>2 DEF Alone
    <3> QED  BY <1>1, <1>4, <1>5, <3>1 DEF LiveInv, Others
  <2> QED  BY <2>1, <2>2 DEF LiveInv
<1>12. FreeInv'
  <2>1. ASSUME NEW x \in Inum
        PROVE  /\ lock'[x] # None => x \in valid'
               /\ nlink'[x] = nlink[x] /\ ref'[x] = ref[x]
    BY <1>1, <1>4 DEF FreeInv
  <2> QED  BY <1>5, <2>1, FreeFrame
<1>13. CacheInv'
  <2>1. ASSUME NEW x \in valid', ref'[x] > 0
        PROVE  \/ /\ x \in valid /\ ref[x] > 0 /\ (x \in alloc => x \in alloc')
                  /\ nlink'[x] = nlink[x] /\ (x \in alloc => dlink'[x] = dlink[x])
               \/ pc'[p] = "inval" /\ put'[p] = x
    BY <1>4, <1>5, <2>1 DEF i
  <2> QED  BY <1>2, <1>5, <2>1, CacheFrame
<1>14. LinksCounted'
  <2>1. ASSUME NEW x \in alloc' \ {Root}
        PROVE  x \in alloc /\ dlink'[x] + One(Ahead(p, x)) = dlink[x] + One(Ahead(p, x)')
    BY <1>4, <1>5 DEF Ahead
  <2> QED  BY <1>4, <1>5, <1>6, <1>8, <2>1, LinksFrame
<1>15. NewInv'  BY <1>4, <1>5, NewFrame
<1> QED
  BY <1>6, <1>8, <1>9, <1>10, <1>11, <1>12, <1>13, <1>14, <1>15 DEF InodeInv

\* iput() drops the copy of the inode that it has freed.
LEMMA IputInvalidInv ==
  ASSUME InodeInv, NEW p \in Proc, IputInvalid(p)
  PROVE  InodeInv'
<1> DEFINE i == put[p]
<1>1. TypeOK /\ CallInv(p) /\ LiveInv /\ LockInv /\ FreeInv  BY DEF InodeInv
<1>2. pc[p] = "inval" /\ Where(p) = after[p] /\ i \in Inum
  BY <1>1 DEF IputInvalid, CallInv, Where, Iputs, TypeOK
<1>3. /\ valid' = valid \ {i} /\ lock' = [lock EXCEPT ![i] = None]
      /\ pc' = [pc EXCEPT ![p] = "iref"]
      /\ UNCHANGED <<alloc, dlink, entry, ref, nlink, fd, call, ip, dp, put, after>>
  BY DEF IputInvalid, Invalidate, iunlock, Goto, disk
<1>4. /\ Others(p) /\ pc'[p] = "iref" /\ Where(p)' = Where(p)
      /\ fd'[p] = fd[p] /\ ip'[p] = ip[p] /\ dp'[p] = dp[p] /\ put'[p] = put[p]
      /\ call'[p] = call[p] /\ after'[p] = after[p]
  BY <1>1, <1>2, <1>3 DEF TypeOK, Others, Where, Iputs
<1>5. TypeOK'
  <2>1. "iref" \in Labels  BY LabelsAre
  <2> QED  BY <1>1, <1>3, <2>1 DEF TypeOK
<1>6. CallInv(p)'  BY <1>1, <1>2, <1>3, <1>4 DEF CallInv, Iputs
<1>7. \A q \in Proc : CallInv(q)'  BY <1>3, <1>4, <1>6, CallFrame DEF InodeInv
<1>8. LockInv'
  <2>1. lock[i] = p  BY <1>1, <1>2 DEF LockInv, Holds
  <2>2. ASSUME NEW x \in Inum
        PROVE  /\ lock'[x] = lock[x] \/ (lock[x] \in {p, None} /\ lock'[x] \in {p, None})
               /\ lock'[x] = p <=> Holds(p, x)'
    <3>1. lock[x] = p <=> Holds(p, x)  BY <1>1 DEF LockInv
    <3>2. Holds(p, x)' <=> Holds(p, x) /\ x # i
      BY <1>1, <1>2, <1>4 DEF Holds, CallInv
    <3>3. lock'[x] = IF x = i THEN None ELSE lock[x]  BY <1>1, <1>2, <1>3 DEF TypeOK
    <3> QED  BY <2>1, <3>1, <3>2, <3>3, NoneIs
  <2> QED  BY <1>1, <1>4, <2>2, LockFrame
<1>9. RefsCounted'
  <2>1. ASSUME NEW x \in Inum PROVE ref'[x] + Own(p, x) = ref[x] + Own(p, x)'
    BY <1>3, <1>4 DEF Own
  <2>2. ref \in [Inum -> Nat] /\ ref' \in [Inum -> Nat] /\ RefsCounted
    BY <1>1, <1>5 DEF InodeInv, TypeOK
  <2> QED  BY <1>4, <2>1, <2>2, RefsFrame
<1>10. LiveInv'  BY <1>1, <1>3, <1>4 DEF LiveInv, Others
<1>11. FreeInv'
  <2>1. ASSUME NEW x \in Inum
        PROVE  /\ lock'[x] # None => x \in valid'
               /\ nlink'[x] = nlink[x] /\ ref'[x] = ref[x]
    BY <1>1, <1>2, <1>3 DEF FreeInv, TypeOK
  <2> QED  BY <1>4, <2>1, FreeFrame
<1>12. CacheInv'
  <2> SUFFICES ASSUME NEW x \in valid', ref'[x] > 0
               PROVE  \/ x \in alloc' /\ nlink'[x] = dlink'[x]
                      \/ \E q \in Proc : pc'[q] = "inval" /\ put'[q] = x
    BY DEF CacheInv, Coherent
  <2>1. x \in valid /\ x # i /\ ref[x] > 0  BY <1>3
  <2>2. \/ x \in alloc /\ nlink[x] = dlink[x]
        \/ \E q \in Proc : pc[q] = "inval" /\ put[q] = x
    BY <2>1 DEF InodeInv, CacheInv, Coherent
  <2> QED  BY <1>3, <1>4, <2>1, <2>2 DEF Others
<1>13. LinksCounted'
  <2>1. ASSUME NEW x \in alloc' \ {Root}
        PROVE  x \in alloc /\ dlink'[x] + One(Ahead(p, x)) = dlink[x] + One(Ahead(p, x)')
    BY <1>3, <1>4 DEF Ahead
  <2> QED  BY <1>3, <1>4, <1>5, <1>7, <2>1, LinksFrame
<1>14. NewInv'  BY <1>3, <1>4, NewFrame
<1> QED
  BY <1>5, <1>7, <1>8, <1>9, <1>10, <1>11, <1>12, <1>13, <1>14 DEF InodeInv

\* iput() drops the reference.
LEMMA IputRefInv ==
  ASSUME InodeInv, NEW p \in Proc, IputRef(p)
  PROVE  InodeInv'
<1> DEFINE i == put[p]
<1>1. TypeOK /\ CallInv(p) /\ LiveInv /\ LockInv /\ FreeInv  BY DEF InodeInv
<1>2. pc[p] = "iref" /\ Where(p) = after[p] /\ i \in Inum
  BY <1>1 DEF IputRef, CallInv, Where, Iputs, TypeOK
<1>3. ref[i] > 0  BY <1>2, Referenced
<1>4. /\ ref' = [ref EXCEPT ![i] = @ - 1] /\ pc' = [pc EXCEPT ![p] = after[p]]
      /\ put' = [put EXCEPT ![p] = None] /\ after' = [after EXCEPT ![p] = "idle"]
      /\ call' = IF after[p] = "idle" THEN [call EXCEPT ![p] = NoCall] ELSE call
      /\ UNCHANGED <<alloc, dlink, entry, valid, nlink, lock, fd, ip, dp>>
  BY DEF IputRef, Goto, disk
<1>5. after[p] \notin Iputs \cup {"panic"}  BY <1>1, <1>2 DEF CallInv
<1>6. /\ Others(p) /\ pc'[p] = after[p] /\ Where(p)' = Where(p)
      /\ fd'[p] = fd[p] /\ ip'[p] = ip[p] /\ dp'[p] = dp[p] /\ put'[p] = None
      /\ call'[p] = (IF after[p] = "idle" THEN NoCall ELSE call[p]) /\ after'[p] = "idle"
  BY <1>1, <1>2, <1>4, <1>5 DEF TypeOK, Others, Where, Iputs
<1> HIDE DEF i
<1>7. TypeOK'
  <2>1. "idle" \in Labels  BY LabelsAre
  <2>2. ref' \in [Inum -> Nat]
    <3>1. ref \in [Inum -> Nat]  BY <1>1 DEF TypeOK
    <3>2. ref[i] - 1 \in Nat  BY <1>2, <1>3, <3>1
    <3> QED  BY <1>2, <1>4, <3>1, <3>2
  <2>3. call' \in [Proc -> Calls]  BY <1>1, <1>4 DEF TypeOK, Calls, NoCall
  <2> QED  BY <1>1, <1>4, <2>1, <2>2, <2>3 DEF TypeOK, Calls
<1>8. CallInv(p)'
  BY <1>1, <1>2, <1>4, <1>5, <1>6
     DEF CallInv, NoCall, Iputs, HasDp, RootHeld, HasIp, IpHeld, Creating, Linking, Unlinking
<1>9. \A q \in Proc : CallInv(q)'  BY <1>4, <1>6, <1>8, CallFrame DEF InodeInv
<1>10. LockInv'
  <2>1. ASSUME NEW x \in Inum PROVE lock'[x] = lock[x] /\ (lock'[x] = p <=> Holds(p, x)')
    <3>1. Holds(p, x)' <=> Holds(p, x)  BY <1>2, <1>5, <1>6 DEF Holds, Iputs
    <3> QED  BY <1>1, <1>4, <3>1 DEF LockInv
  <2> QED  BY <1>1, <1>6, <2>1, LockFrame
<1>11. RefsCounted'
  <2>1. ASSUME NEW x \in Inum PROVE ref'[x] + Own(p, x) = ref[x] + Own(p, x)'
    <3>1. ref \in [Inum -> Nat]  BY <1>1 DEF TypeOK
    <3>2. ref'[x] = ref[x] - One(x = i)  BY <1>2, <1>4, <3>1 DEF One
    <3>3. Own(p, x)' \in Nat /\ Own(p, x) = Own(p, x)' + One(x = i) /\ One(x = i) \in Nat
      BY <1>6, NoneIs DEF Own, One, i
    <3> QED  BY <3>1, <3>2, <3>3
  <2>2. ref \in [Inum -> Nat] /\ ref' \in [Inum -> Nat] /\ RefsCounted
    BY <1>1, <1>7 DEF InodeInv, TypeOK
  <2> QED  BY <1>6, <2>1, <2>2, RefsFrame
<1>12. LiveInv'  BY <1>1, <1>4, <1>5, <1>6 DEF LiveInv, Others, Iputs
<1>13. FreeInv'
  <2>1. ASSUME NEW x \in Inum
        PROVE  /\ lock'[x] # None => x \in valid'
               /\ nlink'[x] = nlink[x] /\ (ref'[x] = ref[x] \/ put[p] = x)
    BY <1>1, <1>4 DEF FreeInv, TypeOK, i
  <2>2. pc'[p] \notin {"itest", "ifree"}  BY <1>5, <1>6 DEF Iputs
  <2> QED  BY <1>6, <2>1, <2>2, FreeFrame
<1>14. CacheInv'
  <2>1. ASSUME NEW x \in valid', ref'[x] > 0
        PROVE  /\ x \in valid /\ ref[x] > 0 /\ (x \in alloc => x \in alloc')
               /\ nlink'[x] = nlink[x] /\ (x \in alloc => dlink'[x] = dlink[x])
    <3>1. x \in Inum /\ ref \in [Inum -> Nat]  BY <1>1, <1>4 DEF TypeOK
    <3> QED  BY <1>2, <1>3, <1>4, <2>1, <3>1
  <2>2. pc[p] # "inval"  BY <1>2
  <2> QED  BY <1>6, <2>1, <2>2, CacheFrame
<1>15. LinksCounted'
  <2>1. ASSUME NEW x \in alloc' \ {Root}
        PROVE  x \in alloc /\ dlink'[x] + One(Ahead(p, x)) = dlink[x] + One(Ahead(p, x)')
    BY <1>4, <1>6 DEF Ahead
  <2> QED  BY <1>4, <1>6, <1>7, <1>9, <2>1, LinksFrame
<1>16. NewInv'
  <2>1. Where(p)' \in Creating => call'[p] = call[p]  BY <1>2, <1>6 DEF Creating
  <2> QED  BY <1>4, <1>6, <2>1, NewFrame
<1> QED
  BY <1>7, <1>9, <1>10, <1>11, <1>12, <1>13, <1>14, <1>15, <1>16 DEF InodeInv

\* create() allocates an inode; its cache entry may be that of the same number
\* which iput() has freed and still has a reference to.
LEMMA CreateNewInv ==
  ASSUME InodeInv, NEW p \in Proc, create(p), entry[call[p].path] = None, Free # {}
  PROVE  InodeInv'
<1>1. TypeOK /\ CallInv(p) /\ LiveInv /\ LockInv /\ FreeInv /\ Root \in Inum
  BY DEF InodeInv, TypeOK
<1>2. PICK i \in Inum : /\ FirstFree(i) /\ iget(i) /\ ip' = [ip EXCEPT ![p] = i]
                        /\ alloc' = alloc \cup {i} /\ dlink' = [dlink EXCEPT ![i] = 0]
                        /\ pc' = [pc EXCEPT ![p] = "mknew"]
                        /\ UNCHANGED <<entry, lock, dp, put, after, nlink, fd, call>>
  BY DEF create, Goto
<1>3. pc[p] = "created"  BY DEF create
<1>4. /\ Where(p) = "created" /\ after[p] = "idle" /\ put[p] = None /\ ip[p] = None
      /\ dp[p] = Root
  BY <1>1, <1>3
     DEF CallInv, Where, Iputs, HasDp, RootHeld, HasIp, IpHeld, Creating, Linking, Unlinking
<1>5. i \notin alloc /\ i # Root /\ i # None
  BY <1>1, <1>2, NoneIs DEF FirstFree, Free, TypeOK
<1>6. /\ Others(p) /\ pc'[p] = "mknew" /\ Where(p)' = "mknew"
      /\ fd'[p] = fd[p] /\ ip'[p] = i /\ dp'[p] = Root /\ put'[p] = None
      /\ call'[p] = call[p] /\ after'[p] = "idle"
  BY <1>1, <1>2, <1>4 DEF TypeOK, Others, Where, Iputs
<1>7. TypeOK'
  <2>1. "mknew" \in Labels  BY LabelsAre
  <2>2. ref' \in [Inum -> Nat] /\ valid' \subseteq Inum  BY <1>1, <1>2 DEF TypeOK, iget
  <2> QED  BY <1>1, <1>2, <2>1, <2>2 DEF TypeOK
<1>8. CallInv(p)'
  BY <1>1, <1>2, <1>3, <1>4, <1>5, <1>6
     DEF CallInv, Iputs, HasDp, RootHeld, HasIp, IpHeld, Creating, Linking, Unlinking
<1>9. \A q \in Proc : CallInv(q)'  BY <1>2, <1>6, <1>8, CallFrame DEF InodeInv
<1>10. LockInv'
  <2>1. ASSUME NEW x \in Inum PROVE lock'[x] = lock[x] /\ (lock'[x] = p <=> Holds(p, x)')
    <3>1. Holds(p, x)' <=> Holds(p, x)
      BY <1>3, <1>4, <1>6 DEF Holds, RootHeld, IpHeld
    <3> QED  BY <1>1, <1>2, <3>1 DEF LockInv
  <2> QED  BY <1>1, <1>6, <2>1, LockFrame
<1>11. RefsCounted'
  <2>1. ASSUME NEW x \in Inum PROVE ref'[x] + Own(p, x) = ref[x] + Own(p, x)'
    <3>1. ref \in [Inum -> Nat]  BY <1>1 DEF TypeOK
    <3>2. ref'[x] = ref[x] + One(x = i)  BY <1>2, <3>1 DEF iget, One
    <3>3. Own(p, x) \in Nat /\ Own(p, x)' = Own(p, x) + One(x = i) /\ One(x = i) \in Nat
      BY <1>4, <1>6, NoneIs DEF Own, One
    <3> QED  BY <3>1, <3>2, <3>3
  <2>2. ref \in [Inum -> Nat] /\ ref' \in [Inum -> Nat] /\ RefsCounted
    BY <1>1, <1>7 DEF InodeInv, TypeOK
  <2> QED  BY <1>6, <2>1, <2>2, RefsFrame
<1>12. LiveInv'  BY <1>1, <1>2, <1>6 DEF LiveInv, Others
<1>13. ASSUME NEW x \in Inum
       PROVE  /\ x \in valid' => x \in valid
              /\ x \in valid /\ ref[x] > 0 => x \in valid'
              /\ x \in valid' /\ ref'[x] > 0 => ref[x] > 0
              /\ ref'[x] = ref[x] \/ x = i
  <2>1. ref \in [Inum -> Nat]  BY <1>1 DEF TypeOK
  <2> QED  BY <1>2, <2>1 DEF iget
<1>14. FreeInv'
  <2>1. ASSUME NEW x \in Inum
        PROVE  /\ lock'[x] # None => x \in valid'
               /\ nlink'[x] = nlink[x] /\ (ref'[x] = ref[x] \/ x \notin alloc)
    BY <1>2, <1>5, <1>13, LockedReferenced
  <2> QED  BY <1>6, <2>1, FreeFrame
<1>15. CacheInv'
  <2>1. ASSUME NEW x \in valid', ref'[x] > 0
        PROVE  /\ x \in valid /\ ref[x] > 0 /\ (x \in alloc => x \in alloc')
               /\ nlink'[x] = nlink[x] /\ (x \in alloc => dlink'[x] = dlink[x])
    <3>1. x \in Inum  BY <1>7 DEF TypeOK
    <3>2. x \in alloc => dlink'[x] = dlink[x]  BY <1>1, <1>2, <1>5, <3>1 DEF TypeOK
    <3> QED  BY <1>2, <1>13, <2>1, <3>1, <3>2
  <2>2. pc[p] # "inval"  BY <1>3
  <2> QED  BY <1>6, <2>1, <2>2, CacheFrame
<1>16. \A x : ~ Ahead(p, x) /\ ~ Ahead(p, x)'  BY <1>4, <1>6 DEF Ahead, Linking
<1>17. LinksCounted'
  <2>1. ASSUME NEW x \in alloc' \ {Root}
        PROVE  /\ x \in alloc => dlink'[x] + One(Ahead(p, x)) = dlink[x] + One(Ahead(p, x)')
               /\ x \notin alloc => dlink'[x] = 0 /\ ~ Ahead(p, x)'
    <3>1. x \in alloc => dlink'[x] = dlink[x]  BY <1>1, <1>2, <1>5 DEF TypeOK
    <3>2. x \notin alloc => dlink'[x] = 0  BY <1>1, <1>2 DEF TypeOK
    <3> QED  BY <1>16, <3>1, <3>2 DEF One
  <2> QED  BY <1>2, <1>6, <1>7, <1>9, <2>1, LinksFrame
<1>18. NewInv'
  <2>1. \A x \in alloc : dlink'[x] = dlink[x]  BY <1>1, <1>2, <1>5 DEF TypeOK
  <2>2. dlink'[i] = 0 /\ entry'[call'[p].path] = None  BY <1>1, <1>2, <1>6 DEF TypeOK
  <2> QED  BY <1>2, <1>5, <1>6, <2>1, <2>2, NewFrame
<1> QED
  BY <1>7, <1>9, <1>10, <1>11, <1>12, <1>14, <1>15, <1>17, <1>18 DEF InodeInv

-----------------------------------------------------------------------------
(* The theorems *)

LEMMA InodeInit ==
  ASSUME Init
  PROVE  InodeInv
<1>1. Root \in Inum  BY InodeAssumption DEF Root, Inum
<1>2. TypeOK
  <2>1. "idle" \in Labels  BY LabelsAre
  <2>2. Cardinality(Proc) \in Nat  BY FS_CardinalityType, InodeAssumption
  <2> QED  BY <1>1, <2>1, <2>2 DEF Init, TypeOK, NoCall
<1>3. \A p \in Proc : Where(p) = "idle"  BY DEF Init, Where, Iputs
<1>4. \A p \in Proc : CallInv(p)
  BY <1>3 DEF Init, CallInv, NoCall, Iputs, RootHeld, IpHeld, HasDp, HasIp, Creating,
     Linking,
              Unlinking
<1>5. LockInv  BY <1>3, NoneIs DEF Init, LockInv, Holds, RootHeld, IpHeld
<1>6. LiveInv /\ FreeInv /\ NewInv /\ CacheInv
  BY <1>3 DEF Init, LiveInv, FreeInv, NewInv, CacheInv, Creating
<1>7. RefsCounted
  <2> SUFFICES ASSUME NEW i \in Inum PROVE ref[i] = Pointers(i)  BY DEF RefsCounted
  <2>1. ASSUME NEW f, \A p \in Proc : f[p] = None PROVE Cardinality(With(f, i)) = 0
    <3>1. With(f, i) = {}  BY <2>1, NoneIs DEF With
    <3> QED  BY <3>1, FS_EmptySet
  <2>2. /\ Cardinality(With(fd, i)) = 0 /\ Cardinality(With(ip, i)) = 0
        /\ Cardinality(With(dp, i)) = 0 /\ Cardinality(With(put, i)) = 0
    BY <2>1 DEF Init
  <2>3. Cardinality(Proc) \in Nat  BY FS_CardinalityType, InodeAssumption
  <2> QED  BY <2>2, <2>3, PointersWith DEF Init
<1>8. LinksCounted  BY DEF Init, LinksCounted
<1> QED  BY <1>2, <1>4, <1>5, <1>6, <1>7, <1>8 DEF InodeInv

LEMMA InodeStep ==
  ASSUME InodeInv, [Next]_vars
  PROVE  InodeInv'
<1>1. ASSUME NEW p \in Proc, ilock(p) PROVE InodeInv'  BY <1>1, IlockInv
<1>2. ASSUME NEW p \in Proc, iput(p) PROVE InodeInv'
  BY <1>2, IputLinkedInv, IputUnlinkedInv
<1>3. ASSUME NEW p \in Proc, IputTest(p) PROVE InodeInv'
  BY <1>3, IputTestSharedInv, IputTestLastInv
<1>4. ASSUME NEW p \in Proc, IputFree(p) PROVE InodeInv'  BY <1>4, IputFreeInv
<1>5. ASSUME NEW p \in Proc, IputInvalid(p) PROVE InodeInv'  BY <1>5, IputInvalidInv
<1>6. ASSUME NEW p \in Proc, IputRef(p) PROVE InodeInv'  BY <1>6, IputRefInv
<1>7. ASSUME NEW p \in Proc, sys_open(p) PROVE InodeInv'  BY <1>7, OpenInv
<1>8. ASSUME NEW p \in Proc, OpenLookup(p) \/ LinkLookup(p) PROVE InodeInv'
  BY <1>8, LookupInv DEF OpenLookup, LinkLookup
<1>9. ASSUME NEW p \in Proc, create(p) PROVE InodeInv'
  BY <1>9, CreateFoundInv, CreateFullInv, CreateNewInv
<1>10. ASSUME NEW p \in Proc, CreateInit(p) PROVE InodeInv'  BY <1>10, CreateInitInv
<1>11. ASSUME NEW p \in Proc, fdalloc(p) PROVE InodeInv'  BY <1>11, FdallocInv
<1>12. ASSUME NEW p \in Proc, fileread(p) PROVE InodeInv'
  BY <1>12, ReadInv, ReadiInv DEF fileread
<1>13. ASSUME NEW p \in Proc, fileclose(p) PROVE InodeInv'  BY <1>13, CloseInv
<1>14. ASSUME NEW p \in Proc, sys_link(p) PROVE InodeInv'  BY <1>14, LinkInv
<1>15. ASSUME NEW p \in Proc, LinkCount(p) PROVE InodeInv'
  BY <1>15, LinkDirInv, LinkCountInv
<1>16. ASSUME NEW p \in Proc, dirlink(p) PROVE InodeInv'
  BY <1>16, DirlinkFoundInv, DirlinkNewInv
<1>17. ASSUME NEW p \in Proc, LinkPut(p) PROVE InodeInv'  BY <1>17, LinkPutInv
<1>18. ASSUME NEW p \in Proc, LinkFailed(p) PROVE InodeInv'  BY <1>18, LinkFailedInv
<1>19. ASSUME NEW p \in Proc, LinkUndo(p) PROVE InodeInv'  BY <1>19, LinkUndoInv
<1>20. ASSUME NEW p \in Proc, sys_unlink(p) PROVE InodeInv'  BY <1>20, UnlinkInv
<1>21. ASSUME NEW p \in Proc, UnlinkFind(p) PROVE InodeInv'  BY <1>21, UnlinkFindInv
<1>22. ASSUME NEW p \in Proc, UnlinkErase(p) PROVE InodeInv'  BY <1>22, UnlinkEraseInv
<1>23. ASSUME NEW p \in Proc, UnlinkDrop(p) PROVE InodeInv'  BY <1>23, UnlinkDropInv
<1>24. CASE UNCHANGED vars
  <2>1. TypeOK'  BY <1>24 DEF vars, InodeInv, TypeOK
  <2>2. \A p \in Proc : CallInv(p)'  BY <1>24 DEF vars, InodeInv, CallInv, Where
  <2>3. LockInv' /\ NewInv'  BY <1>24 DEF vars, InodeInv, LockInv, Holds, NewInv, Where
  <2>4. LiveInv' /\ FreeInv' /\ CacheInv'
    BY <1>24 DEF vars, InodeInv, LiveInv, FreeInv, CacheInv, Coherent
  <2>5. RefsCounted'  BY <1>24 DEF vars, InodeInv, RefsCounted, Pointers
  <2>6. LinksCounted'  BY <1>24 DEF vars, InodeInv, LinksCounted, Pending
  <2> QED  BY <2>1, <2>2, <2>3, <2>4, <2>5, <2>6 DEF InodeInv
<1> QED
  BY <1>1, <1>2, <1>3, <1>4, <1>5, <1>6, <1>7, <1>8, <1>9, <1>10, <1>11, <1>12, <1>13,
     <1>14,
     <1>15, <1>16, <1>17, <1>18, <1>19, <1>20, <1>21, <1>22, <1>23, <1>24 DEF Next

\* The references that a call holds at each place, the locks it has, what the
\* link counts are ahead by and what iput() has seen: on every path through
\* open(), link(), unlink(), read() and close(), whatever the others do.
THEOREM InodeInvariant == Spec => []InodeInv
<1>1. Init => InodeInv  BY InodeInit
<1>2. InodeInv /\ [Next]_vars => InodeInv'  BY InodeStep
<1> QED  BY <1>1, <1>2, PTL DEF Spec

\* Every variable keeps its type; iput() never takes a count below 0.
THEOREM InodeTypeCorrect == Spec => []TypeOK
<1>1. InodeInv => TypeOK  BY DEF InodeInv
<1> QED  BY <1>1, InodeInvariant, PTL

\* ip->ref is the number of pointers to the inode, on every path through the
\* system calls, also the failing ones.
THEOREM ReferencesAreCounted == Spec => []RefsCounted
<1>1. InodeInv => RefsCounted  BY DEF InodeInv
<1> QED  BY <1>1, InodeInvariant, PTL

\* The link count on disk is the number of entries, up to the calls that are
\* between the two updates.
THEOREM LinksAreCounted == Spec => []LinksCounted
<1>1. InodeInv => LinksCounted  BY DEF InodeInv
<1> QED  BY <1>1, InodeInvariant, PTL

\* A valid cache entry agrees with the disk, and ilock() and sys_unlink() do not
\* panic.
THEOREM CacheIsCoherent == Spec => []CacheCoherent
<1>1. ASSUME InodeInv PROVE CacheCoherent
  <2>1. CacheInv /\ \A p \in Proc : CallInv(p)  BY <1>1 DEF InodeInv
  <2>2. \A p \in Proc : pc[p] # "panic"  BY <2>1 DEF CallInv, Where, Iputs
  <2> QED  BY <2>1, <2>2 DEF CacheCoherent, CacheInv, Coherent
<1> QED  BY <1>1, InodeInvariant, PTL

\* iput() frees an inode only if nothing but its own reference leads to it.
THEOREM FreesUnused == Spec => FreedUnused
<1>1. ASSUME InodeInv, [Next]_vars
      PROVE  [\A i \in alloc \ alloc' : /\ \A n \in Name : entry[n] # i
                                        /\ \A p \in Proc : fd[p] # i /\ ip[p] # i
                                        /\ Pointers(i) = 1]_vars
  <2>1. SUFFICES ASSUME NEW i \in alloc \ alloc'
                 PROVE  /\ \A n \in Name : entry[n] # i
                        /\ \A p \in Proc : fd[p] # i /\ ip[p] # i
                        /\ Pointers(i) = 1
    OBVIOUS
  <2>2. PICK p \in Proc : IputFree(p)
    BY <1>1, <2>1 DEF vars, Next, ilock, iput, IputTest, IputInvalid, IputRef, sys_open,
      OpenLookup, LinkLookup, Lookup, create, CreateInit, fdalloc, fileread, fileclose, sys_link,
      LinkCount, dirlink, LinkPut, LinkFailed, LinkUndo, sys_unlink, UnlinkFind, UnlinkErase,
      UnlinkDrop, disk
  <2>3. pc[p] = "ifree" /\ i = put[p]  BY <2>1, <2>2 DEF IputFree
  <2>4. Alone(p, i) /\ ref[i] = 1 /\ i \in Inum
    BY <1>1, <2>1, <2>3, FreedAlone DEF InodeInv, FreeInv, TypeOK
  <2>5. Pointers(i) = 1  BY <1>1, <2>4 DEF InodeInv, RefsCounted
  <2> QED  BY <2>4, <2>5 DEF Alone
<1> QED  BY <1>1, InodeInvariant, PTL DEF Spec, FreedUnused

=============================================================================
