---------------------------- MODULE FileProofs ----------------------------
(***************************************************************************)
(* Proofs about Files and Blocks.                                          *)
(*                                                                         *)
(* The counts of Files (FileRefs, ObjectsOwned) need an invariant about    *)
(* every call in progress: what it holds by its program counter, what it   *)
(* has still to give back, and what fork() and exit() have left half done. *)
(* The contents of Blocks need one about the places of block numbers: none *)
(* is in two of them, a file of t words has those that t words need, and   *)
(* what a transaction has logged and may still log stays within its share. *)
(***************************************************************************)
EXTENDS Files, Blocks, FiniteSetTheorems, SequenceTheorems, WellFoundedInduction, TLAPS

\* What a call may have still to give back.
Item ==
  {<<"file", f>> : f \in File} \cup {<<"pipe", g, w>> : g \in Page, w \in BOOLEAN}
    \cup {<<"inode", ip>> : ip \in Inode} \cup {<<"locked", ip>> : ip \in Inode}
    \cup {<<"fd", fd>> : fd \in Fd}

\* A call gives back one thing, or two different ones; closing a file, which may
\* add its pipe end or inode, is never done while such an object is waiting.
Shape(s) ==
  \/ s = <<>>
  \/ \E x \in Item : s = <<x>>
  \/ \E x, y \in Item : s = <<x, y>> /\ x # y /\ y[1] \in {"file", "locked", "fd"}

Label == {"user", "undo", "exit", "open", "opened", "pipe2", "page", "fork", "read"}

FilesTypeOK ==
  /\ ref \in [File -> Int] /\ type \in [File -> {"NONE", "PIPE", "INODE"}]
  /\ writable \in [File -> BOOLEAN] /\ obj \in [File -> Page \cup Inode \cup {None}]
  /\ off \in [File -> Nat] /\ got \in [File -> Seq(Nat)]
  /\ ofile \in [Process -> [Fd -> File \cup {None}]]
  /\ live \subseteq Process
  /\ readopen \subseteq Page /\ writeopen \subseteq Page /\ taken \subseteq Page
  /\ iref \in [Inode -> Int] /\ ilocked \in [Inode -> Process \cup {None}]
  /\ pc \in [Process -> Label]
  /\ f0 \in [Process -> File \cup Process \cup {None}]
  /\ f1 \in [Process -> File \cup Inode \cup {None}]
  /\ idx \in [Process -> Nat]
  /\ DOMAIN todo = Process

TodoInv(p) ==
  /\ Shape(todo[p])
  /\ todo[p] # <<>> => pc[p] \in {"undo", "exit"}
  /\ \A ip \in Inode : Owes(p, <<"locked", ip>>) => ilocked[ip] = p

\* A file just allocated, which its caller alone uses.
Fresh(f) == f \in File /\ type[f] = "NONE" /\ ref[f] = 1

Has(p, f) == \E fd \in Fd : ofile[p][fd] = f

\* What a call in progress holds.
CallInv(p) ==
  /\ pc[p] # "user" => p \in live
  /\ pc[p] = "open" => f1[p] \in Inode /\ ilocked[f1[p]] = p
  /\ pc[p] = "opened" => f1[p] \in Inode /\ Fresh(f0[p]) /\ Has(p, f0[p])
  /\ pc[p] = "pipe2" => Fresh(f0[p])
  /\ pc[p] = "page" => Fresh(f0[p]) /\ Fresh(f1[p]) /\ f0[p] # f1[p]
  /\ pc[p] = "fork" => f0[p] \in Process \ live /\ idx[p] <= NOFILE
  /\ pc[p] = "read" =>
       /\ f0[p] \in File /\ Has(p, f0[p])
       /\ type[f0[p]] = "INODE" /\ ilocked[obj[f0[p]]] = p /\ idx[p] = off[f0[p]]

\* A descriptor names a file that is filled in, except while open() fills it in
\* and while exit() has closed it but not yet cleared the descriptor.
NamedInv ==
  \A p \in Process, fd \in Fd :
    ofile[p][fd] # None /\ ~Owes(p, <<"fd", fd>>)
      => \/ type[ofile[p][fd]] # "NONE"
         \/ pc[p] = "opened" /\ f0[p] = ofile[p][fd]

\* A process that does not exist has the descriptors fork() has copied so far,
\* and one parent at most.
ChildInv ==
  /\ \A c \in Process \ live, fd \in Fd :
       ofile[c][fd] # None => \E p \in Process : pc[p] = "fork" /\ f0[p] = c /\ fd < idx[p]
  /\ \A p, q \in Process : pc[p] = "fork" /\ pc[q] = "fork" /\ f0[p] = f0[q] => p = q

EntryInv ==
  \A f \in File :
    /\ ref[f] = 0 => type[f] = "NONE"
    /\ type[f] = "PIPE" => obj[f] \in Page
    /\ type[f] = "INODE" => obj[f] \in Inode
    /\ type[f] = "NONE" => off[f] = 0
    /\ Len(got[f]) = off[f] /\ \A k \in 1 .. off[f] : got[f][k] = k - 1

\* FileRefs and ObjectsOwned for one file, one end of a pipe and one inode.
RefCounted(f) ==
  ref[f] = Cardinality(Named(f)) + Cardinality(Pending(<<"file", f>>))
           + Cardinality(Holding(f))
IsOpen(g, w) == g \in (IF w THEN writeopen ELSE readopen)
Ends(g, w) == {f \in FilesOf("PIPE", g) : writable[f] = w}
EndCounted(g, w) ==
  Cardinality(Ends(g, w)) + Cardinality(Pending(<<"pipe", g, w>>))
    = IF IsOpen(g, w) THEN 1 ELSE 0
InodeCounted(ip) ==
  iref[ip] = Cardinality(FilesOf("INODE", ip)) + Cardinality(Pending(<<"inode", ip>>))
             + Cardinality(Pending(<<"locked", ip>>)) + Cardinality(Opening(ip))

RefsInv == \A f \in File : RefCounted(f)
EndsInv == (\A g \in Page, w \in BOOLEAN : EndCounted(g, w)) /\ taken = readopen \cup writeopen
InodesInv == \A ip \in Inode : InodeCounted(ip)

FilesInv ==
  /\ FilesTypeOK /\ (\A p \in Process : TodoInv(p) /\ CallInv(p))
  /\ NamedInv /\ ChildInv /\ EntryInv /\ RefsInv /\ EndsInv /\ InodesInv

-----------------------------------------------------------------------------
(* Counting *)

One(b) == IF b THEN 1 ELSE 0

\* Two sets that differ in one element at most.
LEMMA CountOne ==
  ASSUME NEW U, IsFiniteSet(U), NEW S \in SUBSET U, NEW T \in SUBSET U, NEW x \in U,
         \A y \in U \ {x} : y \in S <=> y \in T
  PROVE  /\ Cardinality(S) \in Nat /\ Cardinality(T) \in Nat
         /\ Cardinality(T) + One(x \in S) = Cardinality(S) + One(x \in T)
<1>1. IsFiniteSet(S) /\ IsFiniteSet(T)  BY FS_Subset
<1>2. Cardinality(S) \in Nat /\ Cardinality(T) \in Nat  BY <1>1, FS_CardinalityType
<1>3. CASE x \in S <=> x \in T
  <2>1. S = T  BY <1>3
  <2> QED  BY <1>2, <2>1 DEF One
<1>4. CASE x \in S /\ x \notin T
  <2>1. T = S \ {x}  BY <1>4
  <2>2. Cardinality(T) = Cardinality(S) - 1  BY <1>1, <1>4, <2>1, FS_RemoveElement
  <2> QED  BY <1>2, <1>4, <2>2 DEF One
<1>5. CASE x \notin S /\ x \in T
  <2>1. S = T \ {x}  BY <1>5
  <2>2. Cardinality(S) = Cardinality(T) - 1  BY <1>1, <1>5, <2>1, FS_RemoveElement
  <2> QED  BY <1>2, <1>5, <2>2 DEF One
<1> QED  BY <1>3, <1>4, <1>5

\* A set with an element counts.
LEMMA CountSome ==
  ASSUME NEW U, IsFiniteSet(U), NEW S \in SUBSET U
  PROVE  /\ Cardinality(S) \in Nat
         /\ Cardinality(S) = 0 <=> S = {}
         /\ \A x, y \in S : x # y => Cardinality(S) >= 2
<1>1. IsFiniteSet(S)  BY FS_Subset
<1>2. Cardinality(S) \in Nat /\ (Cardinality(S) = 0 <=> S = {})
  BY <1>1, FS_CardinalityType, FS_EmptySet
<1>3. ASSUME NEW x \in S, NEW y \in S, x # y
      PROVE  Cardinality(S) >= 2
  <2>1. IsFiniteSet(S \ {x}) /\ Cardinality(S \ {x}) = Cardinality(S) - 1
    BY <1>1, FS_RemoveElement
  <2>2. Cardinality(S \ {x}) \in Nat /\ Cardinality(S \ {x}) # 0
    BY <1>3, <2>1, FS_CardinalityType, FS_EmptySet
  <2> QED  BY <1>2, <2>1, <2>2
<1> QED  BY <1>2, <1>3

\* Min is the least element.
LEMMA MinOfNat ==
  ASSUME NEW S \in SUBSET Nat, S # {}
  PROVE  Min(S) \in S /\ \A y \in S : Min(S) <= y
<1> DEFINE R == {ss \in Nat \X Nat : ss[1] < ss[2]}
<1>1. IsWellFoundedOn(R, Nat)  BY NatLessThanWellFounded, Zenon DEF OpToRel
<1>2. \A x, y \in Nat : y < x => <<y, x>> \in R  OBVIOUS
<1> HIDE DEF R
<1>3. PICK x \in S : \A y \in S : ~(<<y, x>> \in R)  BY <1>1, WFMin, Zenon
<1>4. ASSUME NEW y \in S PROVE x <= y
  <2>1. x \in Nat /\ y \in Nat /\ ~(<<y, x>> \in R)  BY <1>3
  <2>2. ~(y < x)  BY <1>2, <2>1, Zenon
  <2> QED  BY <2>1, <2>2
<1> QED  BY <1>4 DEF Min

LEMMA Finite ==
  IsFiniteSet(Process) /\ IsFiniteSet(File) /\ IsFiniteSet(Process \X Fd)
<1>1. IsFiniteSet(Process) /\ NFILE \in Nat /\ NOFILE \in Nat  BY FilesAssumption
<1>2. IsFiniteSet(File) /\ IsFiniteSet(Fd)  BY <1>1, FS_Interval DEF File, Fd
<1> QED  BY <1>1, <1>2, FS_Product

-----------------------------------------------------------------------------
(* What a call owes *)

In(s, z) == \E k \in DOMAIN s : s[k] = z

LEMMA InSeq ==
  /\ \A z : ~In(<<>>, z)
  /\ \A x, z : In(<<x>>, z) <=> z = x
  /\ \A x, y, z : In(<<x, y>>, z) <=> z = x \/ z = y
<1>1. \A z : ~In(<<>>, z)  BY DEF In
<1>2. ASSUME NEW x, NEW z PROVE In(<<x>>, z) <=> z = x
  <2>1. DOMAIN <<x>> = {1} /\ <<x>>[1] = x  OBVIOUS
  <2> QED  BY <2>1 DEF In
<1>3. ASSUME NEW x, NEW y, NEW z PROVE In(<<x, y>>, z) <=> z = x \/ z = y
  <2>1. DOMAIN <<x, y>> = {1, 2} /\ <<x, y>>[1] = x /\ <<x, y>>[2] = y  OBVIOUS
  <2> QED  BY <2>1 DEF In
<1> QED  BY <1>1, <1>2, <1>3

LEMMA OwesIn == ASSUME NEW p, NEW z PROVE Owes(p, z) <=> In(todo[p], z)
BY DEF Owes, In

\* The two kinds of objects that closing a file may add are not those that may
\* wait behind it.
LEMMA ItemKinds ==
  ASSUME NEW x \in Item, NEW y \in Item, x[1] \in {"pipe", "inode"},
         y[1] \in {"file", "locked", "fd"}
  PROVE  x # y
OBVIOUS

LEMMA Joined ==
  ASSUME NEW o, NEW y
  PROVE  <<o>> \o <<>> = <<o>> /\ <<o>> \o <<y>> = <<o, y>>
<1> DEFINE S == {o, y}
<1>1. <<o>> \in Seq(S) /\ <<y>> \in Seq(S) /\ <<>> \in Seq(S) /\ <<o, y>> \in Seq(S)  OBVIOUS
<1>2. <<o>> \o <<>> = <<o>>  BY <1>1, ConcatEmptySeq
<1>3. /\ <<o>> \o <<y>> \in Seq(S) /\ Len(<<o>> \o <<y>>) = 2
      /\ (<<o>> \o <<y>>)[1] = o /\ (<<o>> \o <<y>>)[2] = y
  BY <1>1, ConcatProperties
<1>4. Len(<<o, y>>) = 2 /\ <<o, y>>[1] = o /\ <<o, y>>[2] = y  OBVIOUS
<1>5. ASSUME NEW s \in Seq(S), NEW t \in Seq(S), Len(s) = 2, Len(t) = 2,
             s[1] = t[1], s[2] = t[2]
      PROVE  s = t
  <2>1. \A k \in 1 .. Len(s) : s[k] = t[k]  BY <1>5
  <2> QED  BY <1>5, <2>1, SeqEqual
<1>6. <<o>> \o <<y>> = <<o, y>>  BY <1>1, <1>3, <1>4, <1>5
<1> QED  BY <1>2, <1>6

\* Doing the first thing.
LEMMA UndoTail ==
  ASSUME NEW s, Shape(s), s # <<>>
  PROVE  /\ Head(s) \in Item /\ In(s, Head(s)) /\ Shape(Tail(s)) /\ <<>> \o Tail(s) = Tail(s)
         /\ \A z : In(Tail(s), z) <=> In(s, z) /\ z # Head(s)
<1>1. CASE \E x \in Item : s = <<x>>
  <2>1. PICK x \in Item : s = <<x>>  BY <1>1
  <2>2. Head(s) = x /\ Tail(s) = <<>>  BY <2>1
  <2>3. <<>> \o Tail(s) = Tail(s)  BY <2>2
  <2> QED  BY <2>1, <2>2, <2>3, InSeq DEF Shape
<1>2. CASE \E x, y \in Item : s = <<x, y>> /\ x # y /\ y[1] \in {"file", "locked", "fd"}
  <2>1. PICK x \in Item, y \in Item : s = <<x, y>> /\ x # y  BY <1>2
  <2>2. Head(s) = x /\ Tail(s) = <<y>>  BY <2>1
  <2>3. <<>> \o Tail(s) = Tail(s)  BY <2>2
  <2> QED  BY <2>1, <2>2, <2>3, InSeq DEF Shape
<1> QED  BY <1>1, <1>2 DEF Shape

\* Doing the first thing, closing a file, which adds o.
LEMMA UndoAdd ==
  ASSUME NEW s, Shape(s), s # <<>>, Head(s)[1] = "file",
         NEW o \in Item, o[1] \in {"pipe", "inode"}
  PROVE  /\ Shape(<<o>> \o Tail(s)) /\ ~In(s, o)
         /\ \A z : In(<<o>> \o Tail(s), z) <=> z = o \/ (In(s, z) /\ z # Head(s))
<1>1. CASE \E x \in Item : s = <<x>>
  <2>1. PICK x \in Item : s = <<x>>  BY <1>1
  <2>2. Head(s) = x /\ Tail(s) = <<>> /\ o # x  BY <2>1
  <2>3. <<o>> \o Tail(s) = <<o>>  BY <2>2, Joined
  <2> QED  BY <2>1, <2>2, <2>3, InSeq DEF Shape
<1>2. CASE \E x, y \in Item : s = <<x, y>> /\ x # y /\ y[1] \in {"file", "locked", "fd"}
  <2>1. PICK x \in Item, y \in Item :
          s = <<x, y>> /\ x # y /\ y[1] \in {"file", "locked", "fd"}
    BY <1>2
  <2>2. Head(s) = x /\ Tail(s) = <<y>> /\ o # x  BY <2>1
  <2>3. o # y  BY <2>1, ItemKinds
  <2>4. <<o>> \o Tail(s) = <<o, y>>  BY <2>2, Joined
  <2>5. Shape(<<o, y>>)  BY <2>1, <2>3 DEF Shape
  <2>6. \A z : In(<<o, y>>, z) <=> z = o \/ z = y  BY InSeq
  <2>7. \A z : In(s, z) <=> z = x \/ z = y  BY <2>1, InSeq
  <2> QED  BY <2>1, <2>2, <2>3, <2>4, <2>5, <2>6, <2>7, Zenon
<1> QED  BY <1>1, <1>2 DEF Shape

-----------------------------------------------------------------------------
(* Counting who uses what *)

Names(q, d, f) == ofile[q][d] = f /\ ~Owes(q, <<"fd", d>>)
Holds(q, f) ==
  \/ pc[q] \in {"pipe2", "page"} /\ f0[q] = f
  \/ pc[q] = "page" /\ f1[q] = f
Opens(q, ip) == pc[q] \in {"open", "opened"} /\ f1[q] = ip

\* A step of p leaves the other processes' variables alone.
Others(p) ==
  \A q \in Process \ {p} :
    /\ pc'[q] = pc[q] /\ f0'[q] = f0[q] /\ f1'[q] = f1[q] /\ idx'[q] = idx[q]
    /\ todo'[q] = todo[q]

LEMMA OthersKeep ==
  ASSUME NEW p, Others(p), NEW q \in Process \ {p}
  PROVE  /\ \A z : Owes(q, z)' <=> Owes(q, z)
         /\ \A z : Holds(q, z)' <=> Holds(q, z)
         /\ \A z : Opens(q, z)' <=> Opens(q, z)
BY DEF Others, Owes, Holds, Opens

LEMMA CountPending ==
  ASSUME NEW p \in Process, Others(p), NEW z
  PROVE  /\ Cardinality(Pending(z)) \in Nat /\ Cardinality(Pending(z)') \in Nat
         /\ Cardinality(Pending(z)') + One(Owes(p, z))
              = Cardinality(Pending(z)) + One(Owes(p, z)')
<1> DEFINE S == Pending(z)
           T == Pending(z)'
<1>1. S \in SUBSET Process /\ T \in SUBSET Process  BY DEF Pending
<1>2. \A q \in Process \ {p} : q \in S <=> q \in T  BY OthersKeep DEF Pending
<1>3. (p \in S <=> Owes(p, z)) /\ (p \in T <=> Owes(p, z)')  BY DEF Pending
<1> HIDE DEF S, T
<1>4. /\ Cardinality(S) \in Nat /\ Cardinality(T) \in Nat
      /\ Cardinality(T) + One(p \in S) = Cardinality(S) + One(p \in T)
  BY <1>1, <1>2, CountOne, Finite
<1>5. One(p \in S) = One(Owes(p, z)) /\ One(p \in T) = One(Owes(p, z)')  BY <1>3 DEF One
<1> QED  BY <1>4, <1>5 DEF S, T

LEMMA CountHolding ==
  ASSUME NEW p \in Process, Others(p), NEW f
  PROVE  /\ Cardinality(Holding(f)) \in Nat /\ Cardinality(Holding(f)') \in Nat
         /\ Cardinality(Holding(f)') + One(Holds(p, f))
              = Cardinality(Holding(f)) + One(Holds(p, f)')
<1> DEFINE S == Holding(f)
           T == Holding(f)'
<1>1. S \in SUBSET Process /\ T \in SUBSET Process  BY DEF Holding
<1>2. \A q \in Process \ {p} : q \in S <=> q \in T  BY OthersKeep DEF Holding, Holds
<1>3. (p \in S <=> Holds(p, f)) /\ (p \in T <=> Holds(p, f)')  BY DEF Holding, Holds
<1> HIDE DEF S, T
<1>4. /\ Cardinality(S) \in Nat /\ Cardinality(T) \in Nat
      /\ Cardinality(T) + One(p \in S) = Cardinality(S) + One(p \in T)
  BY <1>1, <1>2, CountOne, Finite
<1>5. One(p \in S) = One(Holds(p, f)) /\ One(p \in T) = One(Holds(p, f)')  BY <1>3 DEF One
<1> QED  BY <1>4, <1>5 DEF S, T

LEMMA CountOpening ==
  ASSUME NEW p \in Process, Others(p), NEW ip
  PROVE  /\ Cardinality(Opening(ip)) \in Nat /\ Cardinality(Opening(ip)') \in Nat
         /\ Cardinality(Opening(ip)') + One(Opens(p, ip))
              = Cardinality(Opening(ip)) + One(Opens(p, ip)')
<1> DEFINE S == Opening(ip)
           T == Opening(ip)'
<1>1. S \in SUBSET Process /\ T \in SUBSET Process  BY DEF Opening
<1>2. \A q \in Process \ {p} : q \in S <=> q \in T  BY OthersKeep DEF Opening, Opens
<1>3. (p \in S <=> Opens(p, ip)) /\ (p \in T <=> Opens(p, ip)')  BY DEF Opening, Opens
<1> HIDE DEF S, T
<1>4. /\ Cardinality(S) \in Nat /\ Cardinality(T) \in Nat
      /\ Cardinality(T) + One(p \in S) = Cardinality(S) + One(p \in T)
  BY <1>1, <1>2, CountOne, Finite
<1>5. One(p \in S) = One(Opens(p, ip)) /\ One(p \in T) = One(Opens(p, ip)')
  BY <1>3 DEF One
<1> QED  BY <1>4, <1>5 DEF S, T

LEMMA CountNamed ==
  ASSUME NEW c \in Process, NEW d \in Fd, NEW f,
         \A q \in Process, e \in Fd : q # c \/ e # d => (Names(q, e, f) <=> Names(q, e, f)')
  PROVE  /\ Cardinality(Named(f)) \in Nat /\ Cardinality(Named(f)') \in Nat
         /\ Cardinality(Named(f)') + One(Names(c, d, f))
              = Cardinality(Named(f)) + One(Names(c, d, f)')
<1> DEFINE S == Named(f)
           T == Named(f)'
           U == Process \X Fd
           x == <<c, d>>
<1>1. S \in SUBSET U /\ T \in SUBSET U /\ x \in U  BY DEF Named
<1>2. ASSUME NEW u \in U \ {x} PROVE u \in S <=> u \in T
  <2>1. PICK q \in Process, e \in Fd : u = <<q, e>>  OBVIOUS
  <2>2. q # c \/ e # d  BY <1>2, <2>1
  <2>3. u[1] = q /\ u[2] = e  BY <2>1
  <2> QED  BY <2>2, <2>3 DEF Named, Names
<1>3. (x \in S <=> Names(c, d, f)) /\ (x \in T <=> Names(c, d, f)')  BY DEF Named, Names
<1>4. IsFiniteSet(U)  BY Finite
<1> HIDE DEF S, T, U, x
<1>5. /\ Cardinality(S) \in Nat /\ Cardinality(T) \in Nat
      /\ Cardinality(T) + One(x \in S) = Cardinality(S) + One(x \in T)
  BY <1>1, <1>2, <1>4, CountOne
<1>6. One(x \in S) = One(Names(c, d, f)) /\ One(x \in T) = One(Names(c, d, f)')
  BY <1>3 DEF One
<1> QED  BY <1>5, <1>6 DEF S, T

\* The uses of a file by one descriptor and by one process in a call.
Uses(c, d, p, f) == One(Names(c, d, f)) + One(Owes(p, <<"file", f>>)) + One(Holds(p, f))

LEMMA OneInt == \A b : One(b) \in {0, 1}
BY DEF One

\* A file's count stays right if it changes with the uses of one descriptor and
\* of the process that moves.
LEMMA RefStep ==
  ASSUME NEW f \in File, NEW p \in Process, NEW c \in Process, NEW d \in Fd,
         Others(p), RefCounted(f), ref'[f] \in Int,
         \A q \in Process, e \in Fd : q # c \/ e # d => (Names(q, e, f) <=> Names(q, e, f)'),
         ref'[f] + Uses(c, d, p, f) = ref[f] + Uses(c, d, p, f)'
  PROVE  RefCounted(f)'
<1> DEFINE z == <<"file", f>>
           n == Cardinality(Named(f))
           n1 == Cardinality(Named(f)')
           k == Cardinality(Pending(z))
           k1 == Cardinality(Pending(z)')
           h == Cardinality(Holding(f))
           h1 == Cardinality(Holding(f)')
           a == One(Names(c, d, f))
           a1 == One(Names(c, d, f)')
           b == One(Owes(p, z))
           b1 == One(Owes(p, z)')
           e == One(Holds(p, f))
           e1 == One(Holds(p, f)')
<1>1. n \in Nat /\ n1 \in Nat /\ n1 + a = n + a1  BY CountNamed
<1>2. k \in Nat /\ k1 \in Nat /\ k1 + b = k + b1  BY CountPending
<1>3. h \in Nat /\ h1 \in Nat /\ h1 + e = h + e1  BY CountHolding
<1>4. a \in {0, 1} /\ a1 \in {0, 1} /\ b \in {0, 1} /\ b1 \in {0, 1}
      /\ e \in {0, 1} /\ e1 \in {0, 1}
  BY OneInt
<1>5. ref[f] = n + k + h  BY DEF RefCounted
<1>6. ref'[f] + (a + b + e) = ref[f] + (a1 + b1 + e1)  BY DEF Uses
<1> HIDE DEF n, n1, k, k1, h, h1, a, a1, b, b1, e, e1
<1>7. ref'[f] = n1 + k1 + h1  BY <1>1, <1>2, <1>3, <1>4, <1>5, <1>6
<1> QED  BY <1>7 DEF RefCounted, n1, k1, h1

\* A file that is filled in is in use.
Filled == \A f \in File : type[f] # "NONE" => ref[f] > 0

LEMMA RefNat ==
  ASSUME NEW f, RefCounted(f)
  PROVE  ref[f] \in Nat
<1>1. Named(f) \in SUBSET (Process \X Fd) /\ Pending(<<"file", f>>) \in SUBSET Process
      /\ Holding(f) \in SUBSET Process
  BY DEF Named, Pending, Holding
<1>2. /\ Cardinality(Named(f)) \in Nat /\ Cardinality(Pending(<<"file", f>>)) \in Nat
      /\ Cardinality(Holding(f)) \in Nat
  BY <1>1, CountSome, Finite
<1> QED  BY <1>2 DEF RefCounted

LEMMA FilledIs == RefsInv /\ EntryInv => Filled
BY RefNat DEF RefsInv, EntryInv, Filled

LEMMA FilledNext == (RefsInv /\ EntryInv)' => Filled'
BY FilledIs, PTL

IsEnd(f, g, w) == type[f] = "PIPE" /\ obj[f] = g /\ writable[f] = w
IsFile(f, ip) == type[f] = "INODE" /\ obj[f] = ip

\* One open end stays one if the step moves it between one file and p's call.
LEMMA EndStep ==
  ASSUME NEW g, NEW w, NEW p \in Process, NEW h \in File,
         Others(p), EndCounted(g, w), Filled, Filled',
         \A f \in File \ {h} : IsEnd(f, g, w) <=> IsEnd(f, g, w)',
         One(IsOpen(g, w)') + One(IsEnd(h, g, w)) + One(Owes(p, <<"pipe", g, w>>))
           = One(IsOpen(g, w)) + One(IsEnd(h, g, w)') + One(Owes(p, <<"pipe", g, w>>)')
  PROVE  EndCounted(g, w)'
<1> DEFINE z == <<"pipe", g, w>>
           S == Ends(g, w)
           T == Ends(g, w)'
           n == Cardinality(S)
           n1 == Cardinality(T)
           k == Cardinality(Pending(z))
           k1 == Cardinality(Pending(z)')
           a == One(IsEnd(h, g, w))
           a1 == One(IsEnd(h, g, w)')
           b == One(Owes(p, z))
           b1 == One(Owes(p, z)')
           o == One(IsOpen(g, w))
           o1 == One(IsOpen(g, w)')
<1>1. S = {f \in File : IsEnd(f, g, w)} /\ T = {f \in File : IsEnd(f, g, w)'}
  BY DEF Ends, FilesOf, IsEnd, Filled
<1>2. S \in SUBSET File /\ T \in SUBSET File /\ (h \in S <=> IsEnd(h, g, w))
      /\ (h \in T <=> IsEnd(h, g, w)') /\ \A f \in File \ {h} : f \in S <=> f \in T
  BY <1>1
<1>3. n \in Nat /\ n1 \in Nat /\ n1 + One(h \in S) = n + One(h \in T)
  <2> HIDE DEF S, T
  <2> QED  BY <1>2, CountOne, Finite
<1>4. One(h \in S) = a /\ One(h \in T) = a1  BY <1>2 DEF One
<1>5. k \in Nat /\ k1 \in Nat /\ k1 + b = k + b1  BY CountPending
<1>6. a \in {0, 1} /\ a1 \in {0, 1} /\ b \in {0, 1} /\ b1 \in {0, 1}
      /\ o \in {0, 1} /\ o1 \in {0, 1}
  BY OneInt
<1>7. n + k = o  BY DEF EndCounted, One
<1>8. o1 + a + b = o + a1 + b1  OBVIOUS
<1>9. n1 + k1 = o1
  <2> HIDE DEF n, n1, k, k1, a, a1, b, b1, o, o1
  <2> QED  BY <1>3, <1>4, <1>5, <1>6, <1>7, <1>8
<1> QED  BY <1>9 DEF EndCounted, One

\* What a process and one file hold of an inode.
Refers(h, p, ip) ==
  One(IsFile(h, ip)) + One(Owes(p, <<"inode", ip>>)) + One(Owes(p, <<"locked", ip>>))
    + One(Opens(p, ip))

LEMMA InodeStep ==
  ASSUME NEW ip, NEW p \in Process, NEW h \in File,
         Others(p), InodeCounted(ip), Filled, Filled', iref'[ip] \in Int,
         \A f \in File \ {h} : IsFile(f, ip) <=> IsFile(f, ip)',
         iref'[ip] + Refers(h, p, ip) = iref[ip] + Refers(h, p, ip)'
  PROVE  InodeCounted(ip)'
<1> DEFINE y == <<"inode", ip>>
           z == <<"locked", ip>>
           S == FilesOf("INODE", ip)
           T == FilesOf("INODE", ip)'
           n == Cardinality(S)
           n1 == Cardinality(T)
           j == Cardinality(Pending(y))
           j1 == Cardinality(Pending(y)')
           k == Cardinality(Pending(z))
           k1 == Cardinality(Pending(z)')
           m == Cardinality(Opening(ip))
           m1 == Cardinality(Opening(ip)')
           a == One(IsFile(h, ip))
           a1 == One(IsFile(h, ip)')
           b == One(Owes(p, y))
           b1 == One(Owes(p, y)')
           c == One(Owes(p, z))
           c1 == One(Owes(p, z)')
           o == One(Opens(p, ip))
           o1 == One(Opens(p, ip)')
<1>1. S = {f \in File : IsFile(f, ip)} /\ T = {f \in File : IsFile(f, ip)'}
  BY DEF FilesOf, IsFile, Filled
<1>2. S \in SUBSET File /\ T \in SUBSET File /\ (h \in S <=> IsFile(h, ip))
      /\ (h \in T <=> IsFile(h, ip)') /\ \A f \in File \ {h} : f \in S <=> f \in T
  BY <1>1
<1>3. n \in Nat /\ n1 \in Nat /\ n1 + One(h \in S) = n + One(h \in T)
  <2> HIDE DEF S, T
  <2> QED  BY <1>2, CountOne, Finite
<1>4. One(h \in S) = a /\ One(h \in T) = a1  BY <1>2 DEF One
<1>5. j \in Nat /\ j1 \in Nat /\ j1 + b = j + b1  BY CountPending
<1>6. k \in Nat /\ k1 \in Nat /\ k1 + c = k + c1  BY CountPending
<1>7. m \in Nat /\ m1 \in Nat /\ m1 + o = m + o1  BY CountOpening
<1>8. a \in {0, 1} /\ a1 \in {0, 1} /\ b \in {0, 1} /\ b1 \in {0, 1}
      /\ c \in {0, 1} /\ c1 \in {0, 1} /\ o \in {0, 1} /\ o1 \in {0, 1}
  BY OneInt
<1>9. iref[ip] = n + j + k + m  BY DEF InodeCounted
<1>10. iref'[ip] + (a + b + c + o) = iref[ip] + (a1 + b1 + c1 + o1)  BY DEF Refers
<1>11. iref'[ip] = n1 + j1 + k1 + m1
  <2> HIDE DEF n, n1, j, j1, k, k1, m, m1, a, a1, b, b1, c, c1, o, o1
  <2> QED  BY <1>3, <1>4, <1>5, <1>6, <1>7, <1>8, <1>9, <1>10
<1> QED  BY <1>11 DEF InodeCounted

\* Nobody else uses a file with count 1, and nobody one with count 0.
LEMMA Sole ==
  ASSUME NEW f, RefCounted(f), ref[f] <= 1
  PROVE  /\ \A q \in Process, d \in Fd, p \in Process :
              Names(q, d, f) => ref[f] = 1 /\ ~Owes(p, <<"file", f>>) /\ ~Holds(p, f)
         /\ \A q \in Process, d \in Fd, p \in Process, e \in Fd :
              Names(q, d, f) /\ Names(p, e, f) => p = q /\ d = e
         /\ \A p, q \in Process : Owes(p, <<"file", f>>) => ref[f] = 1 /\ ~Holds(q, f)
         /\ \A p, q \in Process : Owes(p, <<"file", f>>) /\ Owes(q, <<"file", f>>) => p = q
         /\ \A p, q \in Process : Holds(p, f) /\ Holds(q, f) => ref[f] = 1 /\ p = q
<1> DEFINE n == Cardinality(Named(f))
           k == Cardinality(Pending(<<"file", f>>))
           h == Cardinality(Holding(f))
<1>1. Named(f) \in SUBSET (Process \X Fd) /\ Pending(<<"file", f>>) \in SUBSET Process
      /\ Holding(f) \in SUBSET Process
  BY DEF Named, Pending, Holding
<1>2. n \in Nat /\ (n = 0 <=> Named(f) = {}) /\ (\A x, y \in Named(f) : x # y => n >= 2)
  BY <1>1, CountSome, Finite
<1>3. k \in Nat /\ (k = 0 <=> Pending(<<"file", f>>) = {})
      /\ (\A x, y \in Pending(<<"file", f>>) : x # y => k >= 2)
  BY <1>1, CountSome, Finite
<1>4. h \in Nat /\ (h = 0 <=> Holding(f) = {}) /\ (\A x, y \in Holding(f) : x # y => h >= 2)
  BY <1>1, CountSome, Finite
<1>5. ref[f] = n + k + h  BY DEF RefCounted
<1>6. \A q \in Process, d \in Fd : Names(q, d, f) <=> <<q, d>> \in Named(f)
  BY DEF Names, Named
<1>7. \A p \in Process : (Owes(p, <<"file", f>>) <=> p \in Pending(<<"file", f>>))
                         /\ (Holds(p, f) <=> p \in Holding(f))
  BY DEF Pending, Holding, Holds
<1> DEFINE N == Named(f)
           K == Pending(<<"file", f>>)
           H == Holding(f)
<1> HIDE DEF n, k, h, N, K, H
<1>8. /\ N # {} => ref[f] = 1 /\ K = {} /\ H = {}
      /\ K # {} => ref[f] = 1 /\ H = {}
      /\ H # {} => ref[f] = 1
      /\ \A x, y \in N : x = y
      /\ \A x, y \in K : x = y
      /\ \A x, y \in H : x = y
  BY <1>2, <1>3, <1>4, <1>5 DEF N, K, H
<1> QED  BY <1>6, <1>7, <1>8 DEF N, K, H

\* A file that somebody uses has a count.
LEMMA Used ==
  ASSUME NEW f, RefCounted(f), NEW p \in Process, NEW d \in Fd,
         Names(p, d, f) \/ Owes(p, <<"file", f>>) \/ Holds(p, f)
  PROVE  ref[f] \in Nat /\ ref[f] # 0
<1>1. ref[f] \in Nat  BY RefNat
<1>2. ASSUME ref[f] = 0 PROVE FALSE
  <2>1. ref[f] <= 1  BY <1>2
  <2> QED  BY <1>2, <2>1, Sole
<1> QED  BY <1>1, <1>2

-----------------------------------------------------------------------------
(* What a step of one process leaves alone *)

\* A call that is not giving things back owes nothing.
LEMMA Quiet ==
  ASSUME FilesInv, NEW p \in Process, pc[p] \notin {"undo", "exit"}
  PROVE  /\ todo[p] = <<>> /\ \A z : ~Owes(p, z)
         /\ \A d, f : Names(p, d, f) <=> ofile[p][d] = f
<1>1. todo[p] = <<>>  BY DEF FilesInv, TodoInv
<1>2. \A z : ~Owes(p, z)  BY <1>1, OwesIn, InSeq
<1> QED  BY <1>1, <1>2 DEF Names

\* The files of a process that is not opening or giving back are filled in.
LEMMA NamedTyped ==
  ASSUME FilesInv, NEW p \in Process, pc[p] \notin {"undo", "exit", "opened"}
  PROVE  \A d \in Fd : ofile[p][d] # None => type[ofile[p][d]] # "NONE"
<1>1. \A z : ~Owes(p, z)  BY Quiet
<1> QED  BY <1>1 DEF FilesInv, NamedInv

\* The files a call has allocated and not yet filled in.
Mine(q, f) == (pc[q] = "opened" /\ f0[q] = f) \/ Holds(q, f)

LEMMA MineFresh ==
  ASSUME FilesInv, NEW q \in Process, NEW f, Mine(q, f)
  PROVE  Fresh(f) /\ (Holds(q, f) \/ \E d \in Fd : Names(q, d, f))
<1>1. CallInv(q)  BY DEF FilesInv
<1>2. CASE pc[q] = "opened" /\ f0[q] = f
  <2>1. Fresh(f) /\ Has(q, f)  BY <1>1, <1>2 DEF CallInv
  <2> QED  BY <1>2, <2>1, Quiet DEF Has
<1>3. CASE Holds(q, f)  BY <1>1, <1>3 DEF CallInv, Holds
<1> QED  BY <1>2, <1>3 DEF Mine

\* Nobody else uses them.
LEMMA FreshAlone ==
  ASSUME FilesInv, NEW p \in Process, NEW q \in Process, p # q, NEW f, Mine(q, f)
  PROVE  /\ \A d \in Fd : ~Names(p, d, f)
         /\ ~Owes(p, <<"file", f>>) /\ ~Mine(p, f) /\ ref[f] = 1 /\ f \in File
<1>1. Fresh(f) /\ (Holds(q, f) \/ \E d \in Fd : Names(q, d, f))  BY MineFresh
<1>2. f \in File /\ ref[f] = 1 /\ RefCounted(f)  BY <1>1 DEF Fresh, FilesInv, RefsInv
<1>3. /\ \A d \in Fd : ~Names(p, d, f)
      /\ ~Owes(p, <<"file", f>>) /\ ~Holds(p, f)
  BY <1>1, <1>2, Sole
<1>4. ~Mine(p, f)  BY <1>3, MineFresh
<1> QED  BY <1>2, <1>3, <1>4

LEMMA CallOthers ==
  ASSUME FilesInv, NEW p \in Process, NEW q \in Process \ {p}, Others(p),
         q \in live => q \in live',
         pc[q] = "fork" => f0[q] \notin live',
         q \in live => ofile'[q] = ofile[q],
         \A f \in File : Mine(q, f) => type'[f] = type[f] /\ ref'[f] = ref[f],
         pc[q] = "read" => /\ type'[f0[q]] = type[f0[q]] /\ obj'[f0[q]] = obj[f0[q]]
                           /\ off'[f0[q]] = off[f0[q]],
         \A ip \in Inode : ilocked[ip] = q => ilocked'[ip] = q
  PROVE  CallInv(q)' /\ TodoInv(q)'
<1>1. CallInv(q) /\ TodoInv(q) /\ EntryInv  BY DEF FilesInv
<1>2. /\ pc'[q] = pc[q] /\ f0'[q] = f0[q] /\ f1'[q] = f1[q] /\ idx'[q] = idx[q]
      /\ todo'[q] = todo[q]
  BY DEF Others
<1>3. TodoInv(q)'  BY <1>1, <1>2, OthersKeep DEF TodoInv
<1>4. pc[q] # "user" => q \in live /\ q \in live' /\ ofile'[q] = ofile[q]
  BY <1>1 DEF CallInv
<1>5. pc[q] = "open" => f1[q] \in Inode /\ ilocked'[f1[q]] = q  BY <1>1 DEF CallInv
<1>6. ASSUME NEW f, Mine(q, f) PROVE Fresh(f)'
  BY <1>6, MineFresh DEF Fresh
<1>7. pc[q] = "opened" => f1[q] \in Inode /\ Fresh(f0[q]) /\ Has(q, f0[q]) /\ Mine(q, f0[q])
  BY <1>1 DEF CallInv, Mine
<1>8. ASSUME pc[q] = "opened" PROVE f1[q] \in Inode /\ Fresh(f0[q])' /\ Has(q, f0[q])'
  <2>1. Fresh(f0[q])'  BY <1>2, <1>6, <1>7, <1>8 DEF Fresh, Mine
  <2>2. Has(q, f0[q])'  BY <1>2, <1>4, <1>7, <1>8 DEF Has
  <2> QED  BY <1>7, <1>8, <2>1, <2>2
<1>9. pc[q] \in {"pipe2", "page"} => Fresh(f0[q])'
  BY <1>2, <1>6 DEF Mine, Holds, Fresh
<1>10. pc[q] = "page" => Fresh(f1[q])' /\ f0[q] # f1[q]
  BY <1>1, <1>2, <1>6 DEF Mine, Holds, Fresh, CallInv
<1>11. pc[q] = "fork" => f0[q] \in Process \ live' /\ idx[q] <= NOFILE
  BY <1>1 DEF CallInv
<1>12. ASSUME pc[q] = "read"
       PROVE  /\ f0[q] \in File /\ Has(q, f0[q])' /\ type'[f0[q]] = "INODE"
              /\ ilocked'[obj'[f0[q]]] = q /\ idx[q] = off'[f0[q]]
  <2>1. /\ f0[q] \in File /\ Has(q, f0[q]) /\ type[f0[q]] = "INODE"
        /\ ilocked[obj[f0[q]]] = q /\ idx[q] = off[f0[q]]
    BY <1>1, <1>12 DEF CallInv
  <2>2. obj[f0[q]] \in Inode  BY <1>1, <2>1 DEF EntryInv
  <2>3. Has(q, f0[q])'  BY <1>2, <1>4, <1>12, <2>1 DEF Has
  <2> QED  BY <1>12, <2>1, <2>2, <2>3
<1>13. CallInv(q)'
  BY <1>2, <1>4, <1>5, <1>8, <1>9, <1>10, <1>11, <1>12 DEF CallInv
<1> QED  BY <1>3, <1>13

\* The parts of the invariant put together after a step of p.
LEMMA StepInv ==
  ASSUME FilesInv, NEW p \in Process, Others(p), FilesTypeOK', TodoInv(p)', CallInv(p)',
         \A q \in Process \ {p} :
           /\ q \in live => q \in live' /\ ofile'[q] = ofile[q]
           /\ pc[q] = "fork" => f0[q] \notin live'
           /\ \A f \in File : Mine(q, f) => type'[f] = type[f] /\ ref'[f] = ref[f]
           /\ pc[q] = "read" => /\ type'[f0[q]] = type[f0[q]] /\ obj'[f0[q]] = obj[f0[q]]
                                /\ off'[f0[q]] = off[f0[q]]
           /\ \A ip \in Inode : ilocked[ip] = q => ilocked'[ip] = q,
         NamedInv', ChildInv', EntryInv', RefsInv', EndsInv', InodesInv'
  PROVE  FilesInv'
<1>1. \A q \in Process \ {p} : CallInv(q)' /\ TodoInv(q)'  BY CallOthers
<1> QED  BY <1>1 DEF FilesInv

\* If no file in use loses its type, the descriptors of p are the only question.
LEMMA NamedOthers ==
  ASSUME FilesInv, NEW p \in Process, Others(p), FilesTypeOK,
         \A q \in Process \ {p} : ofile'[q] = ofile[q],
         \A q \in Process, d \in Fd, f \in File :
           Names(q, d, f) /\ type[f] # "NONE" => type'[f] # "NONE",
         \A d \in Fd : ofile'[p][d] # None /\ ~Owes(p, <<"fd", d>>)' =>
           \/ type'[ofile'[p][d]] # "NONE"
           \/ pc'[p] = "opened" /\ f0'[p] = ofile'[p][d]
  PROVE  NamedInv'
<1> SUFFICES ASSUME NEW q \in Process, NEW d \in Fd,
                    ofile'[q][d] # None, ~Owes(q, <<"fd", d>>)'
             PROVE  \/ type'[ofile'[q][d]] # "NONE"
                    \/ pc'[q] = "opened" /\ f0'[q] = ofile'[q][d]
  BY DEF NamedInv
<1>1. CASE q = p  BY <1>1
<1>2. CASE q # p
  <2>1. ofile'[q] = ofile[q] /\ ~Owes(q, <<"fd", d>>) /\ pc'[q] = pc[q] /\ f0'[q] = f0[q]
    BY <1>2, OthersKeep DEF Others
  <2>2. \/ type[ofile[q][d]] # "NONE"
        \/ pc[q] = "opened" /\ f0[q] = ofile[q][d]
    BY <2>1 DEF FilesInv, NamedInv
  <2>3. ofile[q][d] \in File /\ Names(q, d, ofile[q][d])
    BY <2>1 DEF FilesTypeOK, Names
  <2> QED  BY <2>1, <2>2, <2>3
<1> QED  BY <1>1, <1>2

\* No process starts or ends a fork().
LEMMA ChildSame ==
  ASSUME FilesInv, NEW p \in Process, Others(p), live' = live, pc[p] # "fork",
         pc'[p] # "fork", \A c \in Process \ live : ofile'[c] = ofile[c]
  PROVE  ChildInv'
<1>1. \A q \in Process : pc'[q] = "fork" <=> pc[q] = "fork"  BY DEF Others
<1>2. \A q \in Process : pc[q] = "fork" => f0'[q] = f0[q] /\ idx'[q] = idx[q]
  BY DEF Others
<1>3. ChildInv  BY DEF FilesInv
<1>4. \A c \in Process \ live', fd \in Fd :
        ofile'[c][fd] # None
          => \E q \in Process : pc'[q] = "fork" /\ f0'[q] = c /\ fd < idx'[q]
  BY <1>1, <1>2, <1>3 DEF ChildInv
<1>5. \A q, r \in Process :
        pc'[q] = "fork" /\ pc'[r] = "fork" /\ f0'[q] = f0'[r] => q = r
  BY <1>1, <1>2, <1>3 DEF ChildInv
<1> QED  BY <1>4, <1>5 DEF ChildInv

LEMMA EntrySame ==
  ASSUME EntryInv, UNCHANGED <<ref, type, obj, off, got>>
  PROVE  EntryInv'
BY DEF EntryInv

\* The ends of pipes and the inodes are not concerned.
LEMMA EndsSame ==
  ASSUME FilesInv, NEW p \in Process, Others(p), RefsInv', EntryInv',
         UNCHANGED <<readopen, writeopen, taken>>,
         \A f \in File, g \in Page, w \in BOOLEAN : IsEnd(f, g, w) <=> IsEnd(f, g, w)',
         \A g \in Page, w \in BOOLEAN : Owes(p, <<"pipe", g, w>>)' <=> Owes(p, <<"pipe", g, w>>)
  PROVE  EndsInv'
<1>1. Filled /\ Filled'  BY FilledIs, FilledNext DEF FilesInv
<1>2. 0 \in File  BY FilesAssumption DEF File
<1>3. ASSUME NEW g \in Page, NEW w \in BOOLEAN PROVE EndCounted(g, w)'
  <2>1. IsOpen(g, w)' <=> IsOpen(g, w)  BY DEF IsOpen
  <2>2. One(IsOpen(g, w)') + One(IsEnd(0, g, w)) + One(Owes(p, <<"pipe", g, w>>))
         = One(IsOpen(g, w)) + One(IsEnd(0, g, w)') + One(Owes(p, <<"pipe", g, w>>)')
    BY <1>2, <2>1 DEF One
  <2>3. EndCounted(g, w)  BY DEF FilesInv, EndsInv
  <2> QED  BY <1>1, <1>2, <2>2, <2>3, EndStep
<1> QED  BY <1>3 DEF FilesInv, EndsInv

LEMMA InodesSame ==
  ASSUME FilesInv, NEW p \in Process, Others(p), FilesTypeOK, RefsInv', EntryInv',
         iref' = iref,
         \A f \in File, ip \in Inode : IsFile(f, ip) <=> IsFile(f, ip)',
         \A ip \in Inode : /\ Owes(p, <<"inode", ip>>)' <=> Owes(p, <<"inode", ip>>)
                           /\ Owes(p, <<"locked", ip>>)' <=> Owes(p, <<"locked", ip>>)
                           /\ Opens(p, ip)' <=> Opens(p, ip)
  PROVE  InodesInv'
<1>1. Filled /\ Filled'  BY FilledIs, FilledNext DEF FilesInv
<1>2. 0 \in File  BY FilesAssumption DEF File
<1>3. ASSUME NEW ip \in Inode PROVE InodeCounted(ip)'
  <2>1. Refers(0, p, ip)' = Refers(0, p, ip)  BY <1>2 DEF Refers, One
  <2>2. InodeCounted(ip) /\ iref[ip] \in Int  BY DEF FilesInv, InodesInv, FilesTypeOK
  <2>3. iref'[ip] + Refers(0, p, ip) = iref[ip] + Refers(0, p, ip)'  BY <2>1, <2>2
  <2> QED  BY <1>1, <1>2, <2>2, <2>3, InodeStep
<1> QED  BY <1>3 DEF InodesInv

LEMMA RefsSame ==
  ASSUME FilesInv, NEW p \in Process, Others(p), ref' = ref,
         \A q \in Process, d \in Fd, f \in File : Names(q, d, f) <=> Names(q, d, f)',
         \A f \in File : /\ Owes(p, <<"file", f>>)' <=> Owes(p, <<"file", f>>)
                         /\ Holds(p, f)' <=> Holds(p, f)
  PROVE  RefsInv'
<1>1. 0 \in Fd  BY FilesAssumption DEF Fd
<1>2. ASSUME NEW f \in File PROVE RefCounted(f)'
  <2>1. Uses(p, 0, p, f)' = Uses(p, 0, p, f)  BY <1>1 DEF Uses, One
  <2>2. RefCounted(f) /\ ref[f] \in Int  BY RefNat DEF FilesInv, RefsInv
  <2>3. ref'[f] + Uses(p, 0, p, f) = ref[f] + Uses(p, 0, p, f)'  BY <2>1, <2>2
  <2> QED  BY <1>1, <2>2, <2>3, RefStep
<1> QED  BY <1>2 DEF RefsInv

\* The files and the pipes are not concerned either.
LEMMA TableSame ==
  ASSUME FilesInv, NEW p \in Process, Others(p), UNCHANGED <<ftable, got>>
  PROVE  /\ EntryInv'
         /\ \A f \in File, g \in Page, w \in BOOLEAN : IsEnd(f, g, w) <=> IsEnd(f, g, w)'
         /\ \A f \in File, ip \in Inode : IsFile(f, ip) <=> IsFile(f, ip)'
         /\ \A q \in Process \ {p} :
              /\ \A f \in File : Mine(q, f) => type'[f] = type[f] /\ ref'[f] = ref[f]
              /\ pc[q] = "read" => /\ type'[f0[q]] = type[f0[q]] /\ obj'[f0[q]] = obj[f0[q]]
                                   /\ off'[f0[q]] = off[f0[q]]
BY EntrySame DEF FilesInv, ftable, IsEnd, IsFile

\* fork() of another process goes on.
LEMMA LiveSame ==
  ASSUME FilesInv, NEW p \in Process, Others(p), live' = live
  PROVE  \A q \in Process \ {p} : pc[q] = "fork" => f0[q] \notin live'
BY DEF FilesInv, CallInv

LEMMA FdallocIs ==
  ASSUME NEW p, fdalloc(p) # -1
  PROVE  fdalloc(p) \in Fd /\ ofile[p][fdalloc(p)] = None
<1>1. FreeFds(p) # {} /\ fdalloc(p) = Min(FreeFds(p))  BY DEF fdalloc
<1>2. FreeFds(p) \in SUBSET Nat  BY DEF FreeFds, Fd
<1>3. fdalloc(p) \in FreeFds(p)  BY <1>1, <1>2, MinOfNat
<1> QED  BY <1>3 DEF FreeFds

-----------------------------------------------------------------------------
(* dup, close, and what calls give back *)

LEMMA DupInv ==
  ASSUME FilesInv, NEW p \in Process, sys_dup(p)
  PROVE  FilesInv'
<1> USE DEF AtUser, locals, pipes
<1>1. FilesTypeOK /\ EntryInv /\ p \in live /\ pc[p] = "user"  BY DEF FilesInv, sys_dup
<1>2. PICK fd \in Fd, f \in File, d \in Fd :
        /\ ofile[p][fd] = f /\ ofile[p][d] = None
        /\ ofile' = [ofile EXCEPT ![p][d] = f] /\ ref' = [ref EXCEPT ![f] = @ + 1]
  <2>1. PICK fd \in argfd(p) :
          /\ fdalloc(p) # -1
          /\ ofile' = [ofile EXCEPT ![p][fdalloc(p)] = ofile[p][fd]]
          /\ ref' = [ref EXCEPT ![ofile[p][fd]] = @ + 1]
    BY DEF sys_dup
  <2>2. fd \in Fd /\ ofile[p][fd] \in File  BY <1>1 DEF argfd, FilesTypeOK
  <2>3. fdalloc(p) \in Fd /\ ofile[p][fdalloc(p)] = None  BY <2>1, FdallocIs
  <2> QED  BY <2>1, <2>2, <2>3
<1>3. UNCHANGED <<type, writable, obj, off, live, pipes, iref, ilocked, locals, todo, got>>
  BY DEF sys_dup
<1>4. Others(p)  BY <1>3 DEF Others
<1>5. (\A z : ~Owes(p, z)) /\ (\A e, g : Names(p, e, g) <=> ofile[p][e] = g)  BY <1>1, Quiet
<1>6. \A z : Owes(p, z)' <=> Owes(p, z)  BY <1>3 DEF Owes
<1>7. \A e \in Fd : ofile'[p][e] = IF e = d THEN f ELSE ofile[p][e]
  BY <1>1, <1>2 DEF FilesTypeOK
<1>8. \A q \in Process \ {p} : ofile'[q] = ofile[q]  BY <1>1, <1>2 DEF FilesTypeOK
<1>9. ref[f] \in Nat /\ ref[f] # 0
  <2>1. RefCounted(f) /\ Names(p, fd, f)  BY <1>2, <1>5 DEF FilesInv, RefsInv
  <2> QED  BY <2>1, Used
<1>10. \A g \in File : ref'[g] = IF g = f THEN ref[f] + 1 ELSE ref[g]
  BY <1>1, <1>2 DEF FilesTypeOK
<1>11. FilesTypeOK'
  <2>1. ofile' \in [Process -> [Fd -> File \cup {None}]]  BY <1>1, <1>2 DEF FilesTypeOK
  <2>2. ref' \in [File -> Int]  BY <1>1, <1>2 DEF FilesTypeOK
  <2> QED  BY <1>1, <1>3, <2>1, <2>2 DEF FilesTypeOK
<1>12. CallInv(p)' /\ TodoInv(p)'
  <2>1. TodoInv(p)  BY DEF FilesInv
  <2> QED  BY <1>1, <1>3, <1>6, <2>1 DEF CallInv, TodoInv
<1>13. \A q \in Process \ {p}, g \in File : Mine(q, g) => g # f
  BY <1>2, <1>5, FreshAlone
<1>14. None \notin File /\ f # None  BY FilesAssumption
<1>15. NamedInv'
  <2>1. ASSUME NEW e \in Fd, ofile'[p][e] # None, ~Owes(p, <<"fd", e>>)'
        PROVE  type'[ofile'[p][e]] # "NONE"
    <3>1. PICK x \in Fd : ofile[p][x] = ofile'[p][e]  BY <1>2, <1>7
    <3>2. type[ofile[p][x]] # "NONE"  BY <1>1, <1>5, <2>1, <3>1 DEF FilesInv, NamedInv
    <3> QED  BY <1>3, <3>1, <3>2
  <2> QED  BY <1>1, <1>3, <1>4, <1>8, <2>1, NamedOthers
<1>16. ChildInv'  BY <1>1, <1>3, <1>4, <1>8, ChildSame
<1>17. EntryInv'  BY <1>1, <1>3, <1>9, <1>10 DEF EntryInv
<1>18. RefsInv'
  <2>1. ASSUME NEW g \in File PROVE RefCounted(g)'
    <3>1. \A q \in Process, e \in Fd : q # p \/ e # d => (Names(q, e, g) <=> Names(q, e, g)')
      BY <1>4, <1>6, <1>7, <1>8, OthersKeep DEF Names
    <3>2. (Names(p, d, g)' <=> g = f) /\ ~Names(p, d, g)
      BY <1>2, <1>5, <1>6, <1>7, <1>14 DEF Names
    <3>3. Holds(p, g)' <=> Holds(p, g)  BY <1>3 DEF Holds
    <3>4. RefCounted(g) /\ ref[g] \in Nat  BY RefNat DEF FilesInv, RefsInv
    <3>5. ref'[g] + Uses(p, d, p, g) = ref[g] + Uses(p, d, p, g)'
      BY <1>6, <1>10, <3>2, <3>3, <3>4 DEF Uses, One
    <3>6. ref'[g] \in Int  BY <1>11 DEF FilesTypeOK
    <3> QED  BY <1>4, <3>1, <3>4, <3>5, <3>6, RefStep
  <2> QED  BY <2>1 DEF RefsInv
<1>19. \A ip : Opens(p, ip)' <=> Opens(p, ip)  BY <1>3 DEF Opens
<1>20. EndsInv'  BY <1>3, <1>4, <1>6, <1>17, <1>18, EndsSame DEF IsEnd
<1>21. InodesInv'  BY <1>1, <1>3, <1>4, <1>6, <1>17, <1>18, <1>19, InodesSame DEF IsFile
<1>22. \A q \in Process \ {p} : pc[q] = "fork" => f0[q] \notin live'
  BY <1>3, <1>4, LiveSame
<1> QED
  BY <1>3, <1>4, <1>8, <1>10, <1>11, <1>12, <1>13, <1>15, <1>16, <1>17, <1>18, <1>20, <1>21,
     <1>22, StepInv

\* A step that touches neither the table nor the objects.
LEMMA LightMove ==
  ASSUME FilesInv, NEW p \in Process, Others(p), FilesTypeOK', TodoInv(p)', CallInv(p)',
         UNCHANGED <<ftable, got, readopen, writeopen, taken, iref>>,
         \A q \in Process \ {p} :
           /\ ofile'[q] = ofile[q] /\ (q \in live => q \in live')
           /\ pc[q] = "fork" => f0[q] \notin live',
         \A q \in Process \ {p}, ip \in Inode : ilocked[ip] = q => ilocked'[ip] = q,
         \A g \in Page, w \in BOOLEAN : Owes(p, <<"pipe", g, w>>)' <=> Owes(p, <<"pipe", g, w>>),
         \A ip \in Inode : /\ Owes(p, <<"inode", ip>>)' <=> Owes(p, <<"inode", ip>>)
                           /\ One(Owes(p, <<"locked", ip>>)') + One(Opens(p, ip)')
                              = One(Owes(p, <<"locked", ip>>)) + One(Opens(p, ip)),
         NamedInv', ChildInv', RefsInv'
  PROVE  FilesInv'
<1>1. EntryInv'  BY EntrySame DEF FilesInv, ftable
<1>2. \A f \in File, g \in Page, w \in BOOLEAN : IsEnd(f, g, w) <=> IsEnd(f, g, w)'
  BY TableSame, Zenon
<1>3. EndsInv'  BY <1>1, <1>2, EndsSame
<1>4. Filled /\ Filled'  BY <1>1, FilledIs, FilledNext DEF FilesInv
<1>5. \A f \in File, ip \in Inode : IsFile(f, ip) <=> IsFile(f, ip)'  BY TableSame, Zenon
<1>6. 0 \in File  BY FilesAssumption DEF File
<1>7. ASSUME NEW ip \in Inode PROVE InodeCounted(ip)'
  <2>1. Refers(0, p, ip)' = Refers(0, p, ip)
    <3>1. One(IsFile(0, ip)') = One(IsFile(0, ip)) /\ One(IsFile(0, ip)) \in {0, 1}
      BY <1>5, <1>6, OneInt DEF One
    <3>2. One(Owes(p, <<"inode", ip>>)') = One(Owes(p, <<"inode", ip>>))
          /\ One(Owes(p, <<"inode", ip>>)) \in {0, 1}
      BY OneInt DEF One
    <3>3. One(Owes(p, <<"locked", ip>>)) \in {0, 1} /\ One(Owes(p, <<"locked", ip>>)') \in {0, 1}
          /\ One(Opens(p, ip)) \in {0, 1} /\ One(Opens(p, ip)') \in {0, 1}
      BY OneInt
    <3> QED  BY <3>1, <3>2, <3>3 DEF Refers
  <2>2. InodeCounted(ip) /\ iref[ip] \in Int  BY DEF FilesInv, InodesInv, FilesTypeOK
  <2>3. iref'[ip] + Refers(0, p, ip) = iref[ip] + Refers(0, p, ip)'  BY <2>1, <2>2
  <2> QED  BY <1>4, <1>5, <1>6, <2>2, <2>3, InodeStep
<1>8. InodesInv'  BY <1>7 DEF InodesInv
<1>9. \A q \in Process \ {p} :
         /\ \A f \in File : Mine(q, f) => type'[f] = type[f] /\ ref'[f] = ref[f]
         /\ pc[q] = "read" => /\ type'[f0[q]] = type[f0[q]] /\ obj'[f0[q]] = obj[f0[q]]
                              /\ off'[f0[q]] = off[f0[q]]
  BY TableSame, Zenon
<1> QED  BY <1>1, <1>3, <1>8, <1>9, StepInv

LEMMA LightStep ==
  ASSUME FilesInv, NEW p \in Process, Others(p), FilesTypeOK', TodoInv(p)', CallInv(p)',
         UNCHANGED <<ftable, got, live, readopen, writeopen, taken, iref>>,
         \A q \in Process \ {p} : ofile'[q] = ofile[q],
         \A q \in Process \ {p}, ip \in Inode : ilocked[ip] = q => ilocked'[ip] = q,
         \A g \in Page, w \in BOOLEAN : Owes(p, <<"pipe", g, w>>)' <=> Owes(p, <<"pipe", g, w>>),
         \A ip \in Inode : /\ Owes(p, <<"inode", ip>>)' <=> Owes(p, <<"inode", ip>>)
                           /\ One(Owes(p, <<"locked", ip>>)') + One(Opens(p, ip)')
                              = One(Owes(p, <<"locked", ip>>)) + One(Opens(p, ip)),
         NamedInv', ChildInv', RefsInv'
  PROVE  FilesInv'
<1>1. \A q \in Process \ {p} : pc[q] = "fork" => f0[q] \notin live'  BY LiveSame
<1> QED  BY <1>1, LightMove

\* A step of p that moves no reference: calls start and end.
LEMMA QuietMove ==
  ASSUME FilesInv, NEW p \in Process, Others(p), FilesTypeOK', CallInv(p)',
         UNCHANGED <<ftable, got, readopen, writeopen, taken, iref, ofile, todo>>,
         pc[p] \notin {"open", "opened", "pipe2", "page"},
         pc'[p] \notin {"open", "opened", "pipe2", "page"},
         todo[p] # <<>> => pc'[p] \in {"undo", "exit"},
         \A q \in Process \ {p} : (q \in live => q \in live')
                                  /\ (pc[q] = "fork" => f0[q] \notin live'),
         \A ip \in Inode : Owes(p, <<"locked", ip>>) => ilocked'[ip] = p,
         \A q \in Process \ {p}, ip \in Inode : ilocked[ip] = q => ilocked'[ip] = q,
         ChildInv'
  PROVE  FilesInv'
<1>1. FilesTypeOK /\ TodoInv(p) /\ NamedInv  BY DEF FilesInv
<1>2. \A z : Owes(p, z)' <=> Owes(p, z)  BY DEF Owes
<1>3. TodoInv(p)'  BY <1>1, <1>2 DEF TodoInv
<1>4. /\ \A f \in File : ~Holds(p, f) /\ ~Holds(p, f)'
      /\ \A ip \in Inode : ~Opens(p, ip) /\ ~Opens(p, ip)'
  BY DEF Holds, Opens
<1>5. \A q \in Process, d \in Fd, f \in File : Names(q, d, f) <=> Names(q, d, f)'
  BY DEF Names, Owes
<1>6. RefsInv'  BY <1>2, <1>4, <1>5, RefsSame DEF ftable
<1>7. NamedInv'
  <2>1. \A d \in Fd : ofile'[p][d] # None /\ ~Owes(p, <<"fd", d>>)'
                        => type'[ofile'[p][d]] # "NONE"
    BY <1>1, <1>2 DEF NamedInv, ftable
  <2> QED  BY <1>1, <2>1, NamedOthers DEF ftable
<1>8. \A ip \in Inode : One(Owes(p, <<"locked", ip>>)') + One(Opens(p, ip)')
                        = One(Owes(p, <<"locked", ip>>)) + One(Opens(p, ip))
  BY <1>2, <1>4 DEF One
<1> QED  BY <1>2, <1>3, <1>6, <1>7, <1>8, LightMove

\* The uses of p move from a descriptor to what it owes: close() and exit().
LEMMA GiveBack ==
  ASSUME FilesInv, NEW p \in Process, Others(p), ref' = ref, NEW d \in Fd, NEW f \in File,
         \A q \in Process \ {p} : ofile'[q] = ofile[q],
         \A e \in Fd \ {d}, g \in File : Names(p, e, g) <=> Names(p, e, g)',
         Names(p, d, f), \A g \in File : ~Names(p, d, g)',
         \A g \in File : ~Owes(p, <<"file", g>>) /\ (Owes(p, <<"file", g>>)' <=> g = f)
                         /\ ~Holds(p, g) /\ ~Holds(p, g)'
  PROVE  RefsInv'
<1>1. ASSUME NEW g \in File PROVE RefCounted(g)'
  <2>1. ASSUME NEW q \in Process, NEW e \in Fd, q # p \/ e # d
        PROVE  Names(q, e, g) <=> Names(q, e, g)'
    <3>1. CASE q = p  BY <2>1, <3>1
    <3>2. CASE q # p  BY <3>2, OthersKeep DEF Names
    <3> QED  BY <3>1, <3>2
  <2>2. Names(p, d, g) <=> g = f  BY DEF Names
  <2>3. RefCounted(g) /\ ref[g] \in Nat  BY RefNat DEF FilesInv, RefsInv
  <2>4. Uses(p, d, p, g)' = Uses(p, d, p, g)  BY <2>2 DEF Uses, One
  <2>5. Uses(p, d, p, g) \in Int  BY DEF Uses, One
  <2>6. ref'[g] + Uses(p, d, p, g) = ref[g] + Uses(p, d, p, g)'  BY <2>3, <2>4, <2>5
  <2> QED  BY <2>1, <2>3, <2>6, RefStep
<1> QED  BY <1>1 DEF RefsInv

LEMMA CloseInv ==
  ASSUME FilesInv, NEW p \in Process, sys_close(p)
  PROVE  FilesInv'
<1> USE DEF AtUser, Undo, Goto
<1>1. FilesTypeOK /\ p \in live /\ pc[p] = "user"  BY DEF FilesInv, sys_close
<1>2. PICK d \in Fd, f \in File :
        /\ ofile[p][d] = f /\ ofile' = [ofile EXCEPT ![p][d] = None]
        /\ pc' = [pc EXCEPT ![p] = "undo"] /\ todo' = [todo EXCEPT ![p] = <<<<"file", f>>>>]
  <2>1. PICK d \in argfd(p) :
          /\ ofile' = [ofile EXCEPT ![p][d] = None]
          /\ pc' = [pc EXCEPT ![p] = "undo"]
          /\ todo' = [todo EXCEPT ![p] = <<<<"file", ofile[p][d]>>>>]
    BY DEF sys_close
  <2>2. d \in Fd /\ ofile[p][d] \in File  BY <1>1 DEF argfd, FilesTypeOK
  <2> QED  BY <2>1, <2>2
<1>3. UNCHANGED <<ref, type, writable, obj, off>> /\ UNCHANGED <<readopen, writeopen, taken>>
      /\ UNCHANGED <<live, iref, ilocked, f0, f1, idx, got>>
  BY DEF sys_close, ftable, pipes
<1>4. todo'[p] = <<<<"file", f>>>> /\ pc'[p] = "undo"  BY <1>1, <1>2 DEF FilesTypeOK
<1>5. Others(p)  BY <1>1, <1>2, <1>3 DEF Others, FilesTypeOK
<1>6. (\A z : ~Owes(p, z)) /\ (\A e, g : Names(p, e, g) <=> ofile[p][e] = g)  BY <1>1, Quiet
<1>7. \A z : Owes(p, z)' <=> z = <<"file", f>>
  <2>1. ASSUME NEW z PROVE Owes(p, z)' <=> z = <<"file", f>>
    <3>1. Owes(p, z)' <=> In(todo'[p], z)  BY DEF Owes, In
    <3> QED  BY <1>4, <3>1, InSeq
  <2> QED  BY <2>1
<1>8. \A e \in Fd : ofile'[p][e] = IF e = d THEN None ELSE ofile[p][e]
  BY <1>1, <1>2 DEF FilesTypeOK
<1>9. \A q \in Process \ {p} : ofile'[q] = ofile[q]  BY <1>1, <1>2 DEF FilesTypeOK
<1>10. FilesTypeOK'
  <2>1. ofile' \in [Process -> [Fd -> File \cup {None}]]  BY <1>1, <1>2 DEF FilesTypeOK
  <2>2. pc' \in [Process -> Label]  BY <1>1, <1>2 DEF FilesTypeOK, Label
  <2>3. DOMAIN todo' = Process  BY <1>1, <1>2 DEF FilesTypeOK
  <2> QED  BY <1>1, <1>3, <2>1, <2>2, <2>3 DEF FilesTypeOK
<1>11. TodoInv(p)'
  <2>1. <<"file", f>> \in Item  BY DEF Item
  <2>2. Shape(<<<<"file", f>>>>)  BY <2>1 DEF Shape
  <2>3. \A ip : <<"locked", ip>> # <<"file", f>>  OBVIOUS
  <2> QED  BY <1>4, <1>7, <2>2, <2>3 DEF TodoInv
<1>12. CallInv(p)'  BY <1>1, <1>3, <1>4 DEF CallInv
<1>13. None \notin File  BY FilesAssumption
<1>14. \A e : <<"fd", e>> # <<"file", f>>  OBVIOUS
<1>15. NamedInv'
  <2>1. ASSUME NEW e \in Fd, ofile'[p][e] # None
        PROVE  type'[ofile'[p][e]] # "NONE"
    <3>1. ofile'[p][e] = ofile[p][e]  BY <1>8, <2>1
    <3>2. type[ofile[p][e]] # "NONE"  BY <1>1, <1>6, <2>1, <3>1 DEF FilesInv, NamedInv
    <3> QED  BY <1>3, <3>1, <3>2
  <2> QED  BY <1>1, <1>3, <1>5, <1>9, <2>1, NamedOthers
<1>16. ChildInv'  BY <1>1, <1>3, <1>4, <1>5, <1>9, ChildSame
<1>17. RefsInv'
  <2>1. \A e \in Fd \ {d}, g \in File : Names(p, e, g) <=> Names(p, e, g)'
    BY <1>6, <1>7, <1>8, <1>14 DEF Names
  <2>2. Names(p, d, f) /\ \A g \in File : ~Names(p, d, g)'
    BY <1>2, <1>6, <1>8, <1>13 DEF Names
  <2>3. \A g \in File : Owes(p, <<"file", g>>)' <=> g = f  BY <1>7
  <2>4. \A g \in File : ~Holds(p, g) /\ ~Holds(p, g)'  BY <1>1, <1>4 DEF Holds
  <2> QED  BY <1>3, <1>5, <1>6, <1>9, <2>1, <2>2, <2>3, <2>4, GiveBack
<1>18. /\ \A g, w : <<"pipe", g, w>> # <<"file", f>>
       /\ \A ip : <<"inode", ip>> # <<"file", f>> /\ <<"locked", ip>> # <<"file", f>>
  OBVIOUS
<1>19. \A ip \in Inode : ~Opens(p, ip) /\ ~Opens(p, ip)'  BY <1>1, <1>4 DEF Opens
<1>20. \A ip \in Inode : One(Owes(p, <<"locked", ip>>)') + One(Opens(p, ip)')
                         = One(Owes(p, <<"locked", ip>>)) + One(Opens(p, ip))
  BY <1>6, <1>7, <1>18, <1>19 DEF One
<1> QED
  BY <1>3, <1>5, <1>6, <1>7, <1>9, <1>10, <1>11, <1>12, <1>15, <1>16, <1>17, <1>18, <1>20,
     LightStep DEF ftable

\* The next descriptor that exit() closes.
LEMMA ExitFdInv ==
  ASSUME FilesInv, NEW p \in Process, ExitFd(p)
  PROVE  FilesInv'
<1>1. FilesTypeOK /\ CallInv(p) /\ pc[p] = "exit" /\ todo[p] = <<>> /\ p \in live
  BY DEF FilesInv, ExitFd, CallInv
<1>2. PICK d \in Fd, f \in File :
        /\ ofile[p][d] = f
        /\ todo' = [todo EXCEPT ![p] = <<<<"file", f>>, <<"fd", d>>>>]
  <2>1. argfd(p) \in SUBSET Nat /\ argfd(p) # {}  BY DEF argfd, Fd, ExitFd
  <2>2. Min(argfd(p)) \in argfd(p)  BY <2>1, MinOfNat
  <2>3. Min(argfd(p)) \in Fd /\ ofile[p][Min(argfd(p))] \in File
    BY <1>1, <2>2 DEF argfd, FilesTypeOK
  <2>4. todo' = [todo EXCEPT ![p] = <<<<"file", ofile[p][Min(argfd(p))]>>, <<"fd", Min(argfd(p))>>>>]
    BY DEF ExitFd
  <2> QED  BY <2>3, <2>4
<1>3. UNCHANGED <<ref, type, writable, obj, off>> /\ UNCHANGED <<readopen, writeopen, taken>>
      /\ UNCHANGED <<live, ofile, iref, ilocked, pc, f0, f1, idx, got>>
  BY DEF ExitFd, ftable, pipes, locals
<1>4. todo'[p] = <<<<"file", f>>, <<"fd", d>>>>  BY <1>1, <1>2 DEF FilesTypeOK
<1>5. Others(p)  BY <1>1, <1>2, <1>3 DEF Others, FilesTypeOK
<1>6. \A z : ~Owes(p, z)  BY <1>1, OwesIn, InSeq
<1>7. \A z : Owes(p, z)' <=> z = <<"file", f>> \/ z = <<"fd", d>>
  <2>1. ASSUME NEW z PROVE Owes(p, z)' <=> z = <<"file", f>> \/ z = <<"fd", d>>
    <3>1. Owes(p, z)' <=> In(todo'[p], z)  BY DEF Owes, In
    <3> QED  BY <1>4, <3>1, InSeq
  <2> QED  BY <2>1
<1>8. FilesTypeOK'
  <2>1. DOMAIN todo' = Process  BY <1>1, <1>2 DEF FilesTypeOK
  <2> QED  BY <1>1, <1>3, <2>1 DEF FilesTypeOK
<1>9. /\ \A e : <<"fd", e>> # <<"file", f>> /\ <<"file", e>> # <<"fd", d>>
      /\ \A g, w : <<"pipe", g, w>> # <<"file", f>> /\ <<"pipe", g, w>> # <<"fd", d>>
      /\ \A ip : <<"inode", ip>> # <<"file", f>> /\ <<"locked", ip>> # <<"file", f>>
                 /\ <<"inode", ip>> # <<"fd", d>> /\ <<"locked", ip>> # <<"fd", d>>
  OBVIOUS
<1>10. TodoInv(p)'
  <2>1. <<"file", f>> \in Item /\ <<"fd", d>> \in Item /\ <<"fd", d>>[1] = "fd"  BY DEF Item
  <2>2. Shape(<<<<"file", f>>, <<"fd", d>>>>)  BY <1>9, <2>1 DEF Shape
  <2> QED  BY <1>1, <1>3, <1>4, <1>7, <1>9, <2>2 DEF TodoInv
<1>11. CallInv(p)'  BY <1>1, <1>3 DEF CallInv
<1>12. None \notin File  BY FilesAssumption
<1>13. NamedInv'
  <2>1. ASSUME NEW e \in Fd, ofile'[p][e] # None
        PROVE  type'[ofile'[p][e]] # "NONE"
    BY <1>1, <1>3, <1>6, <2>1 DEF FilesInv, NamedInv
  <2> QED  BY <1>1, <1>3, <1>5, <2>1, NamedOthers
<1>14. ChildInv'  BY <1>1, <1>3, <1>5, ChildSame
<1>15. RefsInv'
  <2>1. \A e \in Fd \ {d}, g \in File : Names(p, e, g) <=> Names(p, e, g)'
    BY <1>3, <1>6, <1>7, <1>9 DEF Names
  <2>2. Names(p, d, f) /\ \A g \in File : ~Names(p, d, g)'
    BY <1>2, <1>6, <1>7 DEF Names
  <2>3. \A g \in File : Owes(p, <<"file", g>>)' <=> g = f  BY <1>7, <1>9
  <2>4. \A g \in File : ~Holds(p, g) /\ ~Holds(p, g)'  BY <1>1, <1>3 DEF Holds
  <2> QED  BY <1>3, <1>5, <1>6, <2>1, <2>2, <2>3, <2>4, GiveBack
<1>16. \A ip \in Inode : ~Opens(p, ip) /\ ~Opens(p, ip)'  BY <1>1, <1>3 DEF Opens
<1>17. \A ip \in Inode : One(Owes(p, <<"locked", ip>>)') + One(Opens(p, ip)')
                         = One(Owes(p, <<"locked", ip>>)) + One(Opens(p, ip))
  BY <1>6, <1>7, <1>9, <1>16 DEF One
<1> QED
  BY <1>3, <1>5, <1>6, <1>7, <1>8, <1>9, <1>10, <1>11, <1>13, <1>14, <1>15, <1>17,
     LightStep DEF ftable

LEMMA ItemIs ==
  ASSUME NEW x \in Item
  PROVE  /\ x[1] = "file" => \E f \in File : x = <<"file", f>>
         /\ x[1] = "pipe" => \E g \in Page, w \in BOOLEAN : x = <<"pipe", g, w>>
         /\ x[1] = "inode" => \E ip \in Inode : x = <<"inode", ip>>
         /\ x[1] = "locked" => \E ip \in Inode : x = <<"locked", ip>>
         /\ x[1] = "fd" => \E d \in Fd : x = <<"fd", d>>
BY DEF Item

LEMMA KindsDiffer ==
  /\ \A f, g, w : <<"file", f>> # <<"pipe", g, w>>
  /\ \A f, ip : <<"file", f>> # <<"inode", ip>> /\ <<"file", f>> # <<"locked", ip>>
  /\ \A f, d : <<"file", f>> # <<"fd", d>>
  /\ \A g, w, ip : <<"pipe", g, w>> # <<"inode", ip>> /\ <<"pipe", g, w>> # <<"locked", ip>>
  /\ \A g, w, d : <<"pipe", g, w>> # <<"fd", d>>
  /\ \A ip, jp : <<"inode", ip>> # <<"locked", jp>>
  /\ \A ip, d : <<"inode", ip>> # <<"fd", d>> /\ <<"locked", ip>> # <<"fd", d>>
OBVIOUS

\* The first thing is given back.
LEMMA UndoNext ==
  ASSUME FilesInv, NEW p \in Process, pc[p] \in {"undo", "exit"}, todo[p] # <<>>,
         todo' = [todo EXCEPT ![p] = Tail(@)], UNCHANGED <<live, pc, f0, f1, idx>>,
         \A ip \in Inode : Owes(p, <<"locked", ip>>) /\ <<"locked", ip>> # Head(todo[p])
                             => ilocked'[ip] = p
  PROVE  /\ Others(p) /\ DOMAIN todo' = Process /\ TodoInv(p)' /\ CallInv(p)'
         /\ Owes(p, Head(todo[p]))
         /\ \A z : Owes(p, z)' <=> Owes(p, z) /\ z # Head(todo[p])
<1>1. DOMAIN todo = Process /\ TodoInv(p) /\ CallInv(p)  BY DEF FilesInv, FilesTypeOK
<1>2. todo'[p] = Tail(todo[p]) /\ DOMAIN todo' = Process
      /\ \A q \in Process \ {p} : todo'[q] = todo[q]
  BY <1>1
<1>3. Shape(todo[p])  BY <1>1 DEF TodoInv
<1>4. /\ In(todo[p], Head(todo[p])) /\ Shape(Tail(todo[p]))
      /\ \A z : In(Tail(todo[p]), z) <=> In(todo[p], z) /\ z # Head(todo[p])
  BY <1>3, UndoTail
<1>5. \A z : Owes(p, z)' <=> Owes(p, z) /\ z # Head(todo[p])
  BY <1>2, <1>4 DEF Owes, In
<1>6. Owes(p, Head(todo[p]))  BY <1>4, OwesIn
<1>7. Others(p)  BY <1>2 DEF Others
<1>8. TodoInv(p)'  BY <1>2, <1>4, <1>5 DEF TodoInv
<1>9. CallInv(p)'  BY <1>1 DEF CallInv
<1> QED  BY <1>2, <1>5, <1>6, <1>7, <1>8, <1>9

\* An end of a pipe or an inode is given back: the files do not change.
LEMMA UndoObject ==
  ASSUME FilesInv, NEW p \in Process, pc[p] \in {"undo", "exit"}, todo[p] # <<>>,
         Head(todo[p])[1] \in {"pipe", "inode", "locked"},
         todo' = [todo EXCEPT ![p] = Tail(@)], UNCHANGED <<live, pc, f0, f1, idx>>,
         UNCHANGED <<ftable, ofile, got>>,
         \A ip \in Inode : Owes(p, <<"locked", ip>>) /\ <<"locked", ip>> # Head(todo[p])
                             => ilocked'[ip] = p,
         \A q \in Process \ {p}, ip \in Inode : ilocked[ip] = q => ilocked'[ip] = q,
         readopen' \subseteq Page, writeopen' \subseteq Page, taken' \subseteq Page,
         iref' \in [Inode -> Int], ilocked' \in [Inode -> Process \cup {None}],
         RefsInv' => EndsInv', RefsInv' => InodesInv'
  PROVE  FilesInv'
<1>1. /\ Others(p) /\ DOMAIN todo' = Process /\ TodoInv(p)' /\ CallInv(p)'
      /\ Owes(p, Head(todo[p]))
      /\ \A z : Owes(p, z)' <=> Owes(p, z) /\ z # Head(todo[p])
  BY UndoNext
<1>2. FilesTypeOK  BY DEF FilesInv
<1>3. FilesTypeOK'  BY <1>1, <1>2 DEF FilesTypeOK, ftable
<1>4. /\ \A f : Owes(p, <<"file", f>>)' <=> Owes(p, <<"file", f>>)
      /\ \A d : Owes(p, <<"fd", d>>)' <=> Owes(p, <<"fd", d>>)
  <2>1. \A f : <<"file", f>> # Head(todo[p])  OBVIOUS
  <2>2. \A d : <<"fd", d>> # Head(todo[p])  OBVIOUS
  <2> QED  BY <1>1, <2>1, <2>2
<1>5. \A q \in Process, d \in Fd, f \in File : Names(q, d, f) <=> Names(q, d, f)'
  <2>1. ASSUME NEW q \in Process, NEW d \in Fd, NEW f \in File
        PROVE  Names(q, d, f) <=> Names(q, d, f)'
    <3>1. CASE q = p  BY <1>4, <3>1 DEF Names
    <3>2. CASE q # p  BY <1>1, <3>2, OthersKeep DEF Names
    <3> QED  BY <3>1, <3>2
  <2> QED  BY <2>1
<1>6. \A f \in File : Holds(p, f)' <=> Holds(p, f)  BY DEF Holds
<1>7. RefsInv'  BY <1>1, <1>4, <1>5, <1>6, RefsSame DEF ftable
<1>8. NamedInv'
  <2>1. NamedInv  BY DEF FilesInv
  <2>2. UNCHANGED type  BY DEF ftable
  <2>3. \A q \in Process, d \in Fd : Owes(q, <<"fd", d>>)' <=> Owes(q, <<"fd", d>>)
    <3>1. ASSUME NEW q \in Process, NEW d \in Fd
          PROVE  Owes(q, <<"fd", d>>)' <=> Owes(q, <<"fd", d>>)
      <4>1. CASE q = p  BY <1>4, <4>1
      <4>2. CASE q # p  BY <1>1, <4>2, OthersKeep
      <4> QED  BY <4>1, <4>2
    <3> QED  BY <3>1
  <2> QED  BY <2>1, <2>2, <2>3 DEF NamedInv
<1>9. ChildInv'  BY <1>1, ChildSame
<1>10. EntryInv'  BY EntrySame DEF FilesInv, ftable
<1>11. \A q \in Process \ {p} : pc[q] = "fork" => f0[q] \notin live'  BY <1>1, LiveSame
<1>12. \A q \in Process \ {p} :
         /\ \A f \in File : Mine(q, f) => type'[f] = type[f] /\ ref'[f] = ref[f]
         /\ pc[q] = "read" => /\ type'[f0[q]] = type[f0[q]] /\ obj'[f0[q]] = obj[f0[q]]
                              /\ off'[f0[q]] = off[f0[q]]
  BY <1>1, TableSame, Zenon
<1> QED  BY <1>1, <1>3, <1>7, <1>8, <1>9, <1>10, <1>11, <1>12, StepInv

LEMMA IputInv ==
  ASSUME FilesInv, NEW p \in Process, pc[p] \in {"undo", "exit"}, todo[p] # <<>>,
         UNCHANGED <<live, pc, f0, f1, idx>>, NEW ip \in Inode,
         Head(todo[p]) = <<"inode", ip>>, iput(p, ip)
  PROVE  FilesInv'
<1>1. FilesTypeOK /\ EntryInv /\ TodoInv(p)  BY DEF FilesInv
<1>2. /\ iref' = [iref EXCEPT ![ip] = @ - 1] /\ todo' = [todo EXCEPT ![p] = Tail(@)]
      /\ UNCHANGED <<ftable, ofile, got>> /\ UNCHANGED <<readopen, writeopen, taken>>
      /\ UNCHANGED ilocked
  BY DEF iput, pipes
<1>3. \A jp \in Inode : Owes(p, <<"locked", jp>>) => ilocked'[jp] = p
  BY <1>1, <1>2 DEF TodoInv
<1>4. /\ Others(p) /\ Owes(p, <<"inode", ip>>)
      /\ \A z : Owes(p, z)' <=> Owes(p, z) /\ z # <<"inode", ip>>
  BY <1>2, <1>3, UndoNext
<1>5. EntryInv'  BY <1>1, <1>2, EntrySame DEF ftable
<1>6. iref' \in [Inode -> Int] /\ \A jp \in Inode : iref'[jp] = IF jp = ip THEN iref[jp] - 1 ELSE iref[jp]
  BY <1>1, <1>2 DEF FilesTypeOK
<1>7. ASSUME RefsInv' PROVE EndsInv'
  <2>1. \A g \in Page, w \in BOOLEAN : Owes(p, <<"pipe", g, w>>)' <=> Owes(p, <<"pipe", g, w>>)
    BY <1>4, KindsDiffer
  <2>2. \A f \in File, g \in Page, w \in BOOLEAN : IsEnd(f, g, w) <=> IsEnd(f, g, w)'
    BY <1>2 DEF IsEnd, ftable
  <2> QED  BY <1>2, <1>4, <1>5, <1>7, <2>1, <2>2, EndsSame
<1>8. ASSUME RefsInv' PROVE InodesInv'
  <2>1. Filled /\ Filled'  BY <1>5, <1>8, FilledIs, FilledNext DEF FilesInv
  <2>2. 0 \in File  BY FilesAssumption DEF File
  <2>3. ASSUME NEW jp \in Inode PROVE InodeCounted(jp)'
    <3>1. \A f \in File : IsFile(f, jp) <=> IsFile(f, jp)'  BY <1>2 DEF IsFile, ftable
    <3>2. Opens(p, jp) <=> Opens(p, jp)'  BY DEF Opens
    <3>3. Owes(p, <<"locked", jp>>)' <=> Owes(p, <<"locked", jp>>)  BY <1>4, KindsDiffer
    <3>4. Owes(p, <<"inode", jp>>)' <=> Owes(p, <<"inode", jp>>) /\ jp # ip  BY <1>4
    <3>5. InodeCounted(jp) /\ iref[jp] \in Int  BY <1>1 DEF FilesInv, InodesInv, FilesTypeOK
    <3>6. iref'[jp] + Refers(0, p, jp) = iref[jp] + Refers(0, p, jp)'
      <4>1. One(IsFile(0, jp)') = One(IsFile(0, jp)) /\ One(IsFile(0, jp)) \in {0, 1}
        BY <2>2, <3>1 DEF One
      <4>2. One(Owes(p, <<"locked", jp>>)') = One(Owes(p, <<"locked", jp>>))
            /\ One(Owes(p, <<"locked", jp>>)) \in {0, 1}
        BY <3>3 DEF One
      <4>3. One(Opens(p, jp)') = One(Opens(p, jp)) /\ One(Opens(p, jp)) \in {0, 1}
        BY <3>2 DEF One
      <4>4. iref'[jp] = iref[jp] - One(jp = ip) /\ One(jp = ip) \in {0, 1}
        BY <1>6, <3>5 DEF One
      <4>5. One(Owes(p, <<"inode", jp>>)) = One(Owes(p, <<"inode", jp>>)') + One(jp = ip)
            /\ One(Owes(p, <<"inode", jp>>)') \in {0, 1}
        BY <1>4, <3>4 DEF One
      <4> QED  BY <3>5, <4>1, <4>2, <4>3, <4>4, <4>5 DEF Refers
    <3>7. iref'[jp] \in Int  BY <1>6
    <3> QED  BY <1>4, <2>1, <2>2, <3>1, <3>5, <3>6, <3>7, InodeStep
  <2> QED  BY <2>3 DEF InodesInv
<1>9. Head(todo[p])[1] = "inode"  OBVIOUS
<1>10. readopen' \subseteq Page /\ writeopen' \subseteq Page /\ taken' \subseteq Page
       /\ ilocked' \in [Inode -> Process \cup {None}]
  BY <1>1, <1>2 DEF FilesTypeOK
<1>11. \A q \in Process \ {p}, jp \in Inode : ilocked[jp] = q => ilocked'[jp] = q  BY <1>2
<1> QED  BY <1>2, <1>3, <1>6, <1>7, <1>8, <1>9, <1>10, <1>11, UndoObject

LEMMA IunlockputInv ==
  ASSUME FilesInv, NEW p \in Process, pc[p] \in {"undo", "exit"}, todo[p] # <<>>,
         UNCHANGED <<live, pc, f0, f1, idx>>, NEW ip \in Inode,
         Head(todo[p]) = <<"locked", ip>>, iunlockput(p, ip)
  PROVE  FilesInv'
<1>1. FilesTypeOK /\ EntryInv /\ TodoInv(p)  BY DEF FilesInv
<1>2. /\ iref' = [iref EXCEPT ![ip] = @ - 1] /\ todo' = [todo EXCEPT ![p] = Tail(@)]
      /\ UNCHANGED <<ftable, ofile, got>> /\ UNCHANGED <<readopen, writeopen, taken>>
      /\ ilocked' = [ilocked EXCEPT ![ip] = None]
  BY DEF iunlockput, pipes
<1>3. \A jp \in Inode : Owes(p, <<"locked", jp>>) /\ <<"locked", jp>> # <<"locked", ip>>
                          => ilocked'[jp] = p
  BY <1>1, <1>2 DEF TodoInv, FilesTypeOK
<1>4. /\ Others(p) /\ Owes(p, <<"locked", ip>>)
      /\ \A z : Owes(p, z)' <=> Owes(p, z) /\ z # <<"locked", ip>>
  BY <1>2, <1>3, UndoNext
<1>5. EntryInv'  BY <1>1, <1>2, EntrySame DEF ftable
<1>6. iref' \in [Inode -> Int] /\ \A jp \in Inode : iref'[jp] = IF jp = ip THEN iref[jp] - 1 ELSE iref[jp]
  BY <1>1, <1>2 DEF FilesTypeOK
<1>7. ASSUME RefsInv' PROVE EndsInv'
  <2>1. \A g \in Page, w \in BOOLEAN : Owes(p, <<"pipe", g, w>>)' <=> Owes(p, <<"pipe", g, w>>)
    BY <1>4, KindsDiffer
  <2>2. \A f \in File, g \in Page, w \in BOOLEAN : IsEnd(f, g, w) <=> IsEnd(f, g, w)'
    BY <1>2 DEF IsEnd, ftable
  <2> QED  BY <1>2, <1>4, <1>5, <1>7, <2>1, <2>2, EndsSame
<1>8. ASSUME RefsInv' PROVE InodesInv'
  <2>1. Filled /\ Filled'  BY <1>5, <1>8, FilledIs, FilledNext DEF FilesInv
  <2>2. 0 \in File  BY FilesAssumption DEF File
  <2>3. ASSUME NEW jp \in Inode PROVE InodeCounted(jp)'
    <3>1. \A f \in File : IsFile(f, jp) <=> IsFile(f, jp)'  BY <1>2 DEF IsFile, ftable
    <3>2. Opens(p, jp) <=> Opens(p, jp)'  BY DEF Opens
    <3>3. Owes(p, <<"inode", jp>>)' <=> Owes(p, <<"inode", jp>>)  BY <1>4, KindsDiffer
    <3>4. Owes(p, <<"locked", jp>>)' <=> Owes(p, <<"locked", jp>>) /\ jp # ip  BY <1>4
    <3>5. InodeCounted(jp) /\ iref[jp] \in Int  BY <1>1 DEF FilesInv, InodesInv, FilesTypeOK
    <3>6. iref'[jp] + Refers(0, p, jp) = iref[jp] + Refers(0, p, jp)'
      <4>1. One(IsFile(0, jp)') = One(IsFile(0, jp)) /\ One(IsFile(0, jp)) \in {0, 1}
        BY <2>2, <3>1 DEF One
      <4>2. One(Owes(p, <<"inode", jp>>)') = One(Owes(p, <<"inode", jp>>))
            /\ One(Owes(p, <<"inode", jp>>)) \in {0, 1}
        BY <3>3 DEF One
      <4>3. One(Opens(p, jp)') = One(Opens(p, jp)) /\ One(Opens(p, jp)) \in {0, 1}
        BY <3>2 DEF One
      <4>4. iref'[jp] = iref[jp] - One(jp = ip) /\ One(jp = ip) \in {0, 1}
        BY <1>6, <3>5 DEF One
      <4>5. One(Owes(p, <<"locked", jp>>)) = One(Owes(p, <<"locked", jp>>)') + One(jp = ip)
            /\ One(Owes(p, <<"locked", jp>>)') \in {0, 1}
        BY <1>4, <3>4 DEF One
      <4> QED  BY <3>5, <4>1, <4>2, <4>3, <4>4, <4>5 DEF Refers
    <3>7. iref'[jp] \in Int  BY <1>6
    <3> QED  BY <1>4, <2>1, <2>2, <3>1, <3>5, <3>6, <3>7, InodeStep
  <2> QED  BY <2>3 DEF InodesInv
<1>9. \A q \in Process \ {p}, jp \in Inode : ilocked[jp] = q => ilocked'[jp] = q
  BY <1>1, <1>2, <1>4 DEF TodoInv, FilesTypeOK
<1>10. ilocked' \in [Inode -> Process \cup {None}]  BY <1>1, <1>2 DEF FilesTypeOK
<1>11. Head(todo[p])[1] = "locked"  OBVIOUS
<1>12. readopen' \subseteq Page /\ writeopen' \subseteq Page /\ taken' \subseteq Page
  BY <1>1, <1>2 DEF FilesTypeOK
<1> QED  BY <1>2, <1>3, <1>6, <1>7, <1>8, <1>9, <1>10, <1>11, <1>12, UndoObject

LEMMA PipecloseInv ==
  ASSUME FilesInv, NEW p \in Process, pc[p] \in {"undo", "exit"}, todo[p] # <<>>,
         UNCHANGED <<live, pc, f0, f1, idx>>, NEW g \in Page, NEW w \in BOOLEAN,
         Head(todo[p]) = <<"pipe", g, w>>, pipeclose(p, g, w)
  PROVE  FilesInv'
<1>1. FilesTypeOK /\ EntryInv /\ TodoInv(p) /\ EndsInv  BY DEF FilesInv
<1>2. /\ todo' = [todo EXCEPT ![p] = Tail(@)] /\ UNCHANGED <<ftable, ofile, got>>
      /\ UNCHANGED <<iref, ilocked>>
      /\ readopen' = (IF w THEN readopen ELSE readopen \ {g})
      /\ writeopen' = (IF w THEN writeopen \ {g} ELSE writeopen)
      /\ taken' = IF g \in readopen' \cup writeopen' THEN taken ELSE taken \ {g}
  BY DEF pipeclose
<1>3. \A jp \in Inode : Owes(p, <<"locked", jp>>) => ilocked'[jp] = p
  BY <1>1, <1>2 DEF TodoInv
<1>4. /\ Others(p) /\ Owes(p, <<"pipe", g, w>>)
      /\ \A z : Owes(p, z)' <=> Owes(p, z) /\ z # <<"pipe", g, w>>
  BY <1>2, <1>3, UndoNext
<1>5. EntryInv'  BY <1>1, <1>2, EntrySame DEF ftable
<1>6. taken' = readopen' \cup writeopen'  BY <1>1, <1>2 DEF EndsInv
<1>7. IsOpen(g, w)
  <2>1. EndCounted(g, w)  BY <1>1 DEF EndsInv
  <2>2. Ends(g, w) \in SUBSET File /\ Pending(<<"pipe", g, w>>) \in SUBSET Process
        /\ p \in Pending(<<"pipe", g, w>>)
    BY <1>4 DEF Ends, FilesOf, Pending
  <2>3. Cardinality(Ends(g, w)) \in Nat /\ Cardinality(Pending(<<"pipe", g, w>>)) \in Nat
        /\ Cardinality(Pending(<<"pipe", g, w>>)) # 0
    BY <2>2, CountSome, Finite
  <2> QED  BY <2>1, <2>3 DEF EndCounted
<1>8. ASSUME NEW h \in Page, NEW v \in BOOLEAN
      PROVE  IsOpen(h, v)' <=> IsOpen(h, v) /\ ~(h = g /\ v = w)
  BY <1>2 DEF IsOpen
<1>9. ASSUME RefsInv' PROVE EndsInv'
  <2>1. Filled /\ Filled'  BY <1>5, <1>9, FilledIs, FilledNext DEF FilesInv
  <2>2. 0 \in File  BY FilesAssumption DEF File
  <2>3. ASSUME NEW h \in Page, NEW v \in BOOLEAN PROVE EndCounted(h, v)'
    <3>1. \A f \in File : IsEnd(f, h, v) <=> IsEnd(f, h, v)'  BY <1>2 DEF IsEnd, ftable
    <3>2. Owes(p, <<"pipe", h, v>>)' <=> Owes(p, <<"pipe", h, v>>) /\ ~(h = g /\ v = w)
      BY <1>4
    <3>3. One(IsOpen(h, v)') + One(IsEnd(0, h, v)) + One(Owes(p, <<"pipe", h, v>>))
            = One(IsOpen(h, v)) + One(IsEnd(0, h, v)') + One(Owes(p, <<"pipe", h, v>>)')
      BY <1>4, <1>7, <1>8, <2>2, <3>1, <3>2 DEF One
    <3>4. EndCounted(h, v)  BY <1>1 DEF EndsInv
    <3> QED  BY <1>4, <2>1, <2>2, <3>1, <3>3, <3>4, EndStep
  <2> QED  BY <1>6, <2>3 DEF EndsInv
<1>10. ASSUME RefsInv' PROVE InodesInv'
  <2>1. \A ip \in Inode : /\ Owes(p, <<"inode", ip>>)' <=> Owes(p, <<"inode", ip>>)
                          /\ Owes(p, <<"locked", ip>>)' <=> Owes(p, <<"locked", ip>>)
    BY <1>4, KindsDiffer
  <2>2. \A f \in File, ip \in Inode : IsFile(f, ip) <=> IsFile(f, ip)'
    BY <1>2 DEF IsFile, ftable
  <2>3. \A ip \in Inode : Opens(p, ip)' <=> Opens(p, ip)  BY DEF Opens
  <2> QED  BY <1>1, <1>2, <1>4, <1>5, <1>10, <2>1, <2>2, <2>3, InodesSame
<1>11. readopen' \subseteq Page /\ writeopen' \subseteq Page /\ taken' \subseteq Page
  BY <1>1, <1>2 DEF FilesTypeOK
<1>12. Head(todo[p])[1] = "pipe"  OBVIOUS
<1>13. iref' \in [Inode -> Int] /\ ilocked' \in [Inode -> Process \cup {None}]
  BY <1>1, <1>2 DEF FilesTypeOK
<1>14. \A q \in Process \ {p}, jp \in Inode : ilocked[jp] = q => ilocked'[jp] = q  BY <1>2
<1> QED  BY <1>2, <1>3, <1>9, <1>10, <1>11, <1>12, <1>13, <1>14, UndoObject

\* exit() clears a descriptor whose file it has closed.
LEMMA ClearFdInv ==
  ASSUME FilesInv, NEW p \in Process, pc[p] \in {"undo", "exit"}, todo[p] # <<>>,
         UNCHANGED <<live, pc, f0, f1, idx>>, NEW d \in Fd,
         Head(todo[p]) = <<"fd", d>>, ClearFd(p, d)
  PROVE  FilesInv'
<1>1. FilesTypeOK /\ TodoInv(p) /\ CallInv(p) /\ NamedInv  BY DEF FilesInv
<1>2. /\ todo' = [todo EXCEPT ![p] = Tail(@)] /\ ofile' = [ofile EXCEPT ![p][d] = None]
      /\ UNCHANGED <<ftable, got>> /\ UNCHANGED <<iref, ilocked>>
      /\ UNCHANGED <<readopen, writeopen, taken>>
  BY DEF ClearFd, pipes
<1>3. \A jp \in Inode : Owes(p, <<"locked", jp>>) => ilocked'[jp] = p
  BY <1>1, <1>2 DEF TodoInv
<1>4. /\ Others(p) /\ DOMAIN todo' = Process /\ TodoInv(p)' /\ CallInv(p)'
      /\ Owes(p, <<"fd", d>>) /\ \A z : Owes(p, z)' <=> Owes(p, z) /\ z # <<"fd", d>>
  BY <1>2, <1>3, UndoNext
<1>5. \A e \in Fd : ofile'[p][e] = IF e = d THEN None ELSE ofile[p][e]
  BY <1>1, <1>2 DEF FilesTypeOK
<1>6. \A q \in Process \ {p} : ofile'[q] = ofile[q]  BY <1>1, <1>2 DEF FilesTypeOK
<1>7. FilesTypeOK'
  <2>1. ofile' \in [Process -> [Fd -> File \cup {None}]]  BY <1>1, <1>2 DEF FilesTypeOK
  <2> QED  BY <1>1, <1>2, <1>4, <2>1 DEF FilesTypeOK, ftable
<1>8. None \notin File  BY FilesAssumption
<1>9. p \in live  BY <1>1 DEF CallInv
<1>10. NamedInv'
  <2>1. ASSUME NEW e \in Fd, ofile'[p][e] # None, ~Owes(p, <<"fd", e>>)'
        PROVE  type'[ofile'[p][e]] # "NONE"
    <3>1. e # d /\ ofile'[p][e] = ofile[p][e]  BY <1>5, <2>1
    <3>2. ~Owes(p, <<"fd", e>>)  BY <1>4, <2>1, <3>1
    <3>3. type[ofile[p][e]] # "NONE"  BY <1>1, <2>1, <3>1, <3>2 DEF NamedInv
    <3> QED  BY <1>2, <3>1, <3>3 DEF ftable
  <2> QED  BY <1>1, <1>2, <1>4, <1>6, <2>1, NamedOthers DEF ftable
<1>11. ChildInv'  BY <1>4, <1>6, <1>9, ChildSame
<1>12. RefsInv'
  <2>1. ASSUME NEW q \in Process, NEW e \in Fd, NEW f \in File
        PROVE  Names(q, e, f) <=> Names(q, e, f)'
    <3>1. CASE q # p  BY <1>4, <1>6, <3>1, OthersKeep DEF Names
    <3>2. CASE q = p /\ e # d  BY <1>4, <1>5, <3>2 DEF Names
    <3>3. CASE q = p /\ e = d  BY <1>4, <1>5, <1>8, <3>3 DEF Names
    <3> QED  BY <3>1, <3>2, <3>3
  <2>2. \A f \in File : Owes(p, <<"file", f>>)' <=> Owes(p, <<"file", f>>)
    BY <1>4, KindsDiffer
  <2>3. \A f \in File : Holds(p, f)' <=> Holds(p, f)  BY DEF Holds
  <2> QED  BY <1>2, <1>4, <2>1, <2>2, <2>3, RefsSame DEF ftable
<1>13. \A h \in Page, w \in BOOLEAN : Owes(p, <<"pipe", h, w>>)' <=> Owes(p, <<"pipe", h, w>>)
  BY <1>4, KindsDiffer
<1>14. \A ip \in Inode : /\ Owes(p, <<"inode", ip>>)' <=> Owes(p, <<"inode", ip>>)
                         /\ Owes(p, <<"locked", ip>>)' <=> Owes(p, <<"locked", ip>>)
                         /\ Opens(p, ip)' <=> Opens(p, ip)
  BY <1>4, KindsDiffer DEF Opens
<1>15. \A ip \in Inode : One(Owes(p, <<"locked", ip>>)') + One(Opens(p, ip)')
                         = One(Owes(p, <<"locked", ip>>)) + One(Opens(p, ip))
  BY <1>14 DEF One
<1> QED
  BY <1>2, <1>4, <1>6, <1>7, <1>10, <1>11, <1>12, <1>13, <1>14, <1>15, LightStep

\* fileclose() of a file that others use.
LEMMA FilecloseSharedInv ==
  ASSUME FilesInv, NEW p \in Process, pc[p] \in {"undo", "exit"}, todo[p] # <<>>,
         UNCHANGED <<live, pc, f0, f1, idx>>, NEW f \in File,
         Head(todo[p]) = <<"file", f>>, fileclose(p, f), ref[f] # 1
  PROVE  FilesInv'
<1>1. FilesTypeOK /\ TodoInv(p) /\ CallInv(p) /\ NamedInv /\ EntryInv  BY DEF FilesInv
<1>2. todo' = [todo EXCEPT ![p] = Tail(@)]
  <2>1. todo' = [todo EXCEPT ![p] = <<>> \o Tail(todo[p])]  BY DEF fileclose
  <2>2. <<>> \o Tail(todo[p]) = Tail(todo[p])  BY <1>1, UndoTail DEF TodoInv
  <2> QED  BY <2>1, <2>2
<1>3. /\ ref' = [ref EXCEPT ![f] = @ - 1]
      /\ UNCHANGED <<type, writable, obj, off, got, ofile, iref, ilocked>>
      /\ UNCHANGED <<readopen, writeopen, taken>>
  BY DEF fileclose, pipes
<1>4. \A jp \in Inode : Owes(p, <<"locked", jp>>) => ilocked'[jp] = p
  BY <1>1, <1>3 DEF TodoInv
<1>5. /\ Others(p) /\ DOMAIN todo' = Process /\ TodoInv(p)' /\ CallInv(p)'
      /\ Owes(p, <<"file", f>>) /\ \A z : Owes(p, z)' <=> Owes(p, z) /\ z # <<"file", f>>
  BY <1>2, <1>4, UndoNext
<1>6. ref[f] \in Nat /\ ref[f] # 0
  <2>1. RefCounted(f) /\ 0 \in Fd  BY FilesAssumption DEF FilesInv, RefsInv, Fd
  <2> QED  BY <1>5, <2>1, Used
<1>7. ref' \in [File -> Int] /\ \A g \in File : ref'[g] = IF g = f THEN ref[f] - 1 ELSE ref[g]
  BY <1>1, <1>3 DEF FilesTypeOK
<1>8. FilesTypeOK'  BY <1>1, <1>3, <1>5, <1>7 DEF FilesTypeOK
<1>9. EntryInv'  BY <1>1, <1>3, <1>6, <1>7 DEF EntryInv
<1>10. ASSUME NEW q \in Process, NEW e \in Fd
       PROVE  Owes(q, <<"fd", e>>)' <=> Owes(q, <<"fd", e>>)
  <2>1. CASE q = p  BY <1>5, <2>1, KindsDiffer
  <2>2. CASE q # p  BY <1>5, <2>2, OthersKeep
  <2> QED  BY <2>1, <2>2
<1>11. NamedInv'  BY <1>1, <1>3, <1>10 DEF NamedInv
<1>12. ChildInv'  BY <1>3, <1>5, ChildSame
<1>13. RefsInv'
  <2>1. 0 \in Fd  BY FilesAssumption DEF Fd
  <2>2. ASSUME NEW g \in File PROVE RefCounted(g)'
    <3>1. \A q \in Process, e \in Fd : Names(q, e, g) <=> Names(q, e, g)'
      BY <1>3, <1>10 DEF Names
    <3>2. Holds(p, g)' <=> Holds(p, g)  BY DEF Holds
    <3>3. Owes(p, <<"file", g>>)' <=> Owes(p, <<"file", g>>) /\ g # f  BY <1>5
    <3>4. RefCounted(g) /\ ref[g] \in Nat /\ ref'[g] \in Int
      BY <1>7, RefNat DEF FilesInv, RefsInv
    <3>5. ref'[g] + Uses(p, 0, p, g) = ref[g] + Uses(p, 0, p, g)'
      <4>1. One(Names(p, 0, g)') = One(Names(p, 0, g)) /\ One(Names(p, 0, g)) \in {0, 1}
        BY <2>1, <3>1 DEF One
      <4>2. One(Holds(p, g)') = One(Holds(p, g)) /\ One(Holds(p, g)) \in {0, 1}
        BY <3>2 DEF One
      <4>3. ref'[g] = ref[g] - One(g = f) /\ One(g = f) \in {0, 1}
        BY <1>7, <3>4 DEF One
      <4>4. One(Owes(p, <<"file", g>>)) = One(Owes(p, <<"file", g>>)') + One(g = f)
            /\ One(Owes(p, <<"file", g>>)') \in {0, 1}
        BY <1>5, <3>3 DEF One
      <4> QED  BY <3>4, <4>1, <4>2, <4>3, <4>4 DEF Uses
    <3> QED  BY <1>5, <2>1, <3>1, <3>4, <3>5, RefStep
  <2> QED  BY <2>2 DEF RefsInv
<1>14. EndsInv'
  <2>1. \A g \in Page, w \in BOOLEAN : Owes(p, <<"pipe", g, w>>)' <=> Owes(p, <<"pipe", g, w>>)
    BY <1>5, KindsDiffer
  <2>2. \A h \in File, g \in Page, w \in BOOLEAN : IsEnd(h, g, w) <=> IsEnd(h, g, w)'
    BY <1>3 DEF IsEnd
  <2> QED  BY <1>3, <1>5, <1>9, <1>13, <2>1, <2>2, EndsSame
<1>15. InodesInv'
  <2>1. \A ip \in Inode : /\ Owes(p, <<"inode", ip>>)' <=> Owes(p, <<"inode", ip>>)
                          /\ Owes(p, <<"locked", ip>>)' <=> Owes(p, <<"locked", ip>>)
                          /\ Opens(p, ip)' <=> Opens(p, ip)
    BY <1>5, KindsDiffer DEF Opens
  <2>2. \A h \in File, ip \in Inode : IsFile(h, ip) <=> IsFile(h, ip)'  BY <1>3 DEF IsFile
  <2> QED  BY <1>1, <1>3, <1>5, <1>9, <1>13, <2>1, <2>2, InodesSame
<1>16. \A q \in Process \ {p}, g \in File : Mine(q, g) => g # f
  BY <1>5, FreshAlone
<1>17. \A q \in Process \ {p} : pc[q] = "fork" => f0[q] \notin live'  BY <1>5, LiveSame
<1> QED
  BY <1>3, <1>5, <1>7, <1>8, <1>9, <1>11, <1>12, <1>13, <1>14, <1>15, <1>16, <1>17, StepInv

\* The last fileclose(): the entry is free, and p owes what the file held.
LEMMA FilecloseLastInv ==
  ASSUME FilesInv, NEW p \in Process, pc[p] \in {"undo", "exit"}, todo[p] # <<>>,
         UNCHANGED <<live, pc, f0, f1, idx>>, NEW f \in File,
         Head(todo[p]) = <<"file", f>>, fileclose(p, f), ref[f] = 1
  PROVE  FilesInv'
<1>1. FilesTypeOK /\ TodoInv(p) /\ CallInv(p) /\ NamedInv /\ EntryInv /\ Shape(todo[p])
  BY DEF FilesInv, TodoInv
<1>2. /\ ref' = [ref EXCEPT ![f] = @ - 1] /\ type' = [type EXCEPT ![f] = "NONE"]
      /\ writable' = [writable EXCEPT ![f] = FALSE] /\ obj' = [obj EXCEPT ![f] = None]
      /\ off' = [off EXCEPT ![f] = 0] /\ got' = [got EXCEPT ![f] = <<>>]
      /\ UNCHANGED <<ofile, iref, ilocked>> /\ UNCHANGED <<readopen, writeopen, taken>>
  BY DEF fileclose, pipes
<1>3. todo' = [todo EXCEPT ![p] = Owned(f) \o Tail(todo[p])]  BY DEF fileclose
<1>4. Others(p) /\ DOMAIN todo' = Process /\ todo'[p] = Owned(f) \o Tail(todo[p])
  BY <1>1, <1>3 DEF Others, FilesTypeOK
<1>5. Owes(p, <<"file", f>>)  BY <1>1, UndoTail, OwesIn
<1>6. /\ \A q \in Process, d \in Fd : ~Names(q, d, f)
      /\ \A q \in Process : ~Holds(q, f) /\ (q # p => ~Owes(q, <<"file", f>>))
  <2>1. RefCounted(f) /\ ref[f] <= 1  BY DEF FilesInv, RefsInv
  <2> QED  BY <1>5, <2>1, Sole
<1> DEFINE Adds(z) == \/ type[f] = "PIPE" /\ z = <<"pipe", obj[f], writable[f]>>
                      \/ type[f] = "INODE" /\ z = <<"inode", obj[f]>>
<1>7. /\ Shape(todo'[p]) /\ \A z : Adds(z) => ~Owes(p, z)
      /\ \A z : In(todo'[p], z) <=> Adds(z) \/ (Owes(p, z) /\ z # <<"file", f>>)
  <2>1. CASE type[f] = "NONE"
    <3>1. Owned(f) = <<>>  BY <2>1 DEF Owned
    <3>2. todo'[p] = Tail(todo[p])  BY <1>1, <1>4, <3>1, UndoTail
    <3>3. \A z : ~Adds(z)  BY <2>1
    <3>4. /\ Shape(Tail(todo[p]))
          /\ \A z : In(Tail(todo[p]), z) <=> In(todo[p], z) /\ z # <<"file", f>>
      BY <1>1, UndoTail
    <3> HIDE DEF Adds
    <3> QED  BY <3>2, <3>3, <3>4, OwesIn
  <2>2. CASE type[f] = "PIPE"
    <3>1. Owned(f) = <<<<"pipe", obj[f], writable[f]>>>>  BY <2>2 DEF Owned
    <3>2. obj[f] \in Page /\ writable[f] \in BOOLEAN
      BY <1>1, <2>2 DEF EntryInv, FilesTypeOK
    <3>3. PICK o \in Item : o = <<"pipe", obj[f], writable[f]>>
      <4>1. <<"pipe", obj[f], writable[f]>> \in Item  BY <3>2 DEF Item
      <4> QED  BY <4>1
    <3>4. o[1] = "pipe" /\ Head(todo[p])[1] = "file"  BY <3>3
    <3>5. /\ Shape(<<o>> \o Tail(todo[p])) /\ ~In(todo[p], o)
          /\ \A z : In(<<o>> \o Tail(todo[p]), z) <=> z = o \/ (In(todo[p], z) /\ z # <<"file", f>>)
      BY <1>1, <3>4, UndoAdd
    <3>6. todo'[p] = <<o>> \o Tail(todo[p])  BY <1>4, <3>1, <3>3
    <3>7. \A z : Adds(z) <=> z = o  BY <2>2, <3>3
    <3> HIDE DEF Adds
    <3> QED  BY <3>5, <3>6, <3>7, OwesIn
  <2>3. CASE type[f] = "INODE"
    <3>1. Owned(f) = <<<<"inode", obj[f]>>>>  BY <2>3 DEF Owned
    <3>2. obj[f] \in Inode  BY <1>1, <2>3 DEF EntryInv
    <3>3. PICK o \in Item : o = <<"inode", obj[f]>>
      <4>1. <<"inode", obj[f]>> \in Item  BY <3>2 DEF Item
      <4> QED  BY <4>1
    <3>4. o[1] = "inode" /\ Head(todo[p])[1] = "file"  BY <3>3
    <3>5. /\ Shape(<<o>> \o Tail(todo[p])) /\ ~In(todo[p], o)
          /\ \A z : In(<<o>> \o Tail(todo[p]), z) <=> z = o \/ (In(todo[p], z) /\ z # <<"file", f>>)
      BY <1>1, <3>4, UndoAdd
    <3>6. todo'[p] = <<o>> \o Tail(todo[p])  BY <1>4, <3>1, <3>3
    <3>7. \A z : Adds(z) <=> z = o  BY <2>3, <3>3
    <3> HIDE DEF Adds
    <3> QED  BY <3>5, <3>6, <3>7, OwesIn
  <2> QED  BY <1>1, <2>1, <2>2, <2>3 DEF FilesTypeOK
<1>8. \A z : Owes(p, z)' <=> In(todo'[p], z)  BY DEF Owes, In
<1>9. /\ \A d : Owes(p, <<"fd", d>>)' <=> Owes(p, <<"fd", d>>)
      /\ \A ip : Owes(p, <<"locked", ip>>)' <=> Owes(p, <<"locked", ip>>)
      /\ \A g : Owes(p, <<"file", g>>)' <=> Owes(p, <<"file", g>>) /\ g # f
      /\ \A g, w : /\ Owes(p, <<"pipe", g, w>>)' <=> IsEnd(f, g, w) \/ Owes(p, <<"pipe", g, w>>)
                   /\ IsEnd(f, g, w) => ~Owes(p, <<"pipe", g, w>>)
      /\ \A ip : /\ Owes(p, <<"inode", ip>>)' <=> IsFile(f, ip) \/ Owes(p, <<"inode", ip>>)
                 /\ IsFile(f, ip) => ~Owes(p, <<"inode", ip>>)
  <2>1. /\ \A d : ~Adds(<<"fd", d>>) /\ ~Adds(<<"locked", d>>) /\ ~Adds(<<"file", d>>)
        /\ \A g, w : Adds(<<"pipe", g, w>>) <=> IsEnd(f, g, w)
        /\ \A ip : Adds(<<"inode", ip>>) <=> IsFile(f, ip)
    BY KindsDiffer DEF IsEnd, IsFile
  <2> HIDE DEF Adds
  <2>2. \A g : <<"file", g>> = <<"file", f>> <=> g = f  OBVIOUS
  <2> QED  BY <1>7, <1>8, <2>1, <2>2, KindsDiffer, Zenon
<1> HIDE DEF Adds
<1>10. TodoInv(p)'  BY <1>1, <1>2, <1>7, <1>9 DEF TodoInv
<1>11. CallInv(p)'  BY <1>1 DEF CallInv
<1>12. \A g \in File \ {f} : /\ ref'[g] = ref[g] /\ type'[g] = type[g] /\ obj'[g] = obj[g]
                             /\ writable'[g] = writable[g] /\ off'[g] = off[g] /\ got'[g] = got[g]
  BY <1>1, <1>2 DEF FilesTypeOK
<1>13. ref'[f] = 0 /\ type'[f] = "NONE" /\ off'[f] = 0 /\ got'[f] = <<>>
  BY <1>1, <1>2 DEF FilesTypeOK
<1>14. FilesTypeOK'
  <2>1. ref' \in [File -> Int] /\ type' \in [File -> {"NONE", "PIPE", "INODE"}]
    BY <1>1, <1>2 DEF FilesTypeOK
  <2>2. writable' \in [File -> BOOLEAN] /\ obj' \in [File -> Page \cup Inode \cup {None}]
        /\ off' \in [File -> Nat]
    BY <1>1, <1>2 DEF FilesTypeOK
  <2>3. got' \in [File -> Seq(Nat)]  BY <1>1, <1>2 DEF FilesTypeOK
  <2> QED  BY <1>1, <1>2, <1>4, <2>1, <2>2, <2>3 DEF FilesTypeOK
<1>15. EntryInv'
  <2>1. ASSUME NEW g \in File
        PROVE  /\ ref'[g] = 0 => type'[g] = "NONE"
               /\ type'[g] = "PIPE" => obj'[g] \in Page
               /\ type'[g] = "INODE" => obj'[g] \in Inode
               /\ type'[g] = "NONE" => off'[g] = 0
               /\ Len(got'[g]) = off'[g] /\ \A k \in 1 .. off'[g] : got'[g][k] = k - 1
    <3>1. CASE g = f
      <4>1. Len(got'[g]) = 0 /\ off'[g] = 0 /\ type'[g] = "NONE"  BY <1>13, <3>1
      <4> QED  BY <4>1
    <3>2. CASE g # f
      <4>1. /\ ref[g] = 0 => type[g] = "NONE"
            /\ type[g] = "PIPE" => obj[g] \in Page
            /\ type[g] = "INODE" => obj[g] \in Inode
            /\ type[g] = "NONE" => off[g] = 0
            /\ Len(got[g]) = off[g] /\ \A k \in 1 .. off[g] : got[g][k] = k - 1
        BY <1>1 DEF EntryInv
      <4>2. /\ ref'[g] = ref[g] /\ type'[g] = type[g] /\ obj'[g] = obj[g]
            /\ off'[g] = off[g] /\ got'[g] = got[g]
        BY <1>12, <3>2
      <4> QED  BY <4>1, <4>2
    <3> QED  BY <3>1, <3>2
  <2> QED  BY <2>1 DEF EntryInv
<1>16. ASSUME NEW q \in Process, NEW e \in Fd
       PROVE  Owes(q, <<"fd", e>>)' <=> Owes(q, <<"fd", e>>)
  <2>1. CASE q = p  BY <1>9, <2>1
  <2>2. CASE q # p  BY <1>4, <2>2, OthersKeep
  <2> QED  BY <2>1, <2>2
<1>17. NamedInv'
  <2>1. ASSUME NEW q \in Process, NEW d \in Fd, ofile'[q][d] # None, ~Owes(q, <<"fd", d>>)'
        PROVE  \/ type'[ofile'[q][d]] # "NONE"
               \/ pc'[q] = "opened" /\ f0'[q] = ofile'[q][d]
    <3>1. ofile'[q][d] = ofile[q][d] /\ ~Owes(q, <<"fd", d>>)  BY <1>2, <1>16, <2>1
    <3>2. ofile[q][d] \in File /\ Names(q, d, ofile[q][d])
      BY <1>1, <2>1, <3>1 DEF Names, FilesTypeOK
    <3>3. ofile[q][d] # f  BY <1>6, <3>2
    <3> QED  BY <1>1, <1>12, <2>1, <3>1, <3>2, <3>3 DEF NamedInv
  <2> QED  BY <2>1 DEF NamedInv
<1>18. ChildInv'  BY <1>2, <1>4, ChildSame
<1>19. RefsInv'
  <2>1. 0 \in Fd  BY FilesAssumption DEF Fd
  <2>2. ASSUME NEW g \in File PROVE RefCounted(g)'
    <3>1. \A q \in Process, e \in Fd : Names(q, e, g) <=> Names(q, e, g)'
      BY <1>2, <1>16 DEF Names
    <3>2. Holds(p, g)' <=> Holds(p, g)  BY DEF Holds
    <3>3. RefCounted(g) /\ ref[g] \in Nat  BY RefNat DEF FilesInv, RefsInv
    <3>4. ref'[g] \in Int /\ ref'[g] = IF g = f THEN ref[g] - 1 ELSE ref[g]
      BY <1>12, <1>13, <3>3
    <3>5. ref'[g] + Uses(p, 0, p, g) = ref[g] + Uses(p, 0, p, g)'
      <4>1. Owes(p, <<"file", g>>)' <=> Owes(p, <<"file", g>>) /\ g # f  BY <1>9, Zenon
      <4>2. One(Names(p, 0, g)') = One(Names(p, 0, g)) /\ One(Holds(p, g)') = One(Holds(p, g))
        BY <2>1, <3>1, <3>2 DEF One
      <4>3. One(Owes(p, <<"file", g>>)) = One(Owes(p, <<"file", g>>)') + One(g = f)
        BY <1>5, <4>1 DEF One
      <4>4. ref[g] = ref'[g] + One(g = f)  BY <3>3, <3>4 DEF One
      <4>5. One(Names(p, 0, g)) \in Int /\ One(Holds(p, g)) \in Int
            /\ One(Owes(p, <<"file", g>>)') \in Int /\ One(g = f) \in Int
        BY DEF One
      <4>6. \A a, b, c, d, r \in Int : r + (a + (b + d) + c) = (r + d) + (a + b + c)  OBVIOUS
      <4> QED  BY <3>4, <4>2, <4>3, <4>4, <4>5, <4>6 DEF Uses
    <3> QED  BY <1>4, <2>1, <3>1, <3>3, <3>4, <3>5, RefStep
  <2> QED  BY <2>2 DEF RefsInv
<1>20. Filled /\ Filled'  BY <1>15, <1>19, FilledIs, FilledNext DEF FilesInv
<1>21. EndsInv'
  <2>1. ASSUME NEW g \in Page, NEW w \in BOOLEAN PROVE EndCounted(g, w)'
    <3>1. \A h \in File \ {f} : IsEnd(h, g, w) <=> IsEnd(h, g, w)'  BY <1>12 DEF IsEnd
    <3>2. ~IsEnd(f, g, w)'  BY <1>13 DEF IsEnd
    <3>3. IsOpen(g, w)' <=> IsOpen(g, w)  BY <1>2 DEF IsOpen
    <3>4. One(IsOpen(g, w)') + One(IsEnd(f, g, w)) + One(Owes(p, <<"pipe", g, w>>))
            = One(IsOpen(g, w)) + One(IsEnd(f, g, w)') + One(Owes(p, <<"pipe", g, w>>)')
      BY <1>9, <3>2, <3>3 DEF One
    <3>5. EndCounted(g, w)  BY DEF FilesInv, EndsInv
    <3> QED  BY <1>4, <1>20, <3>1, <3>4, <3>5, EndStep
  <2> QED  BY <1>2, <2>1 DEF FilesInv, EndsInv
<1>22. InodesInv'
  <2>1. ASSUME NEW ip \in Inode PROVE InodeCounted(ip)'
    <3>1. \A h \in File \ {f} : IsFile(h, ip) <=> IsFile(h, ip)'  BY <1>12 DEF IsFile
    <3>2. ~IsFile(f, ip)'  BY <1>13 DEF IsFile
    <3>3. Opens(p, ip)' <=> Opens(p, ip)  BY DEF Opens
    <3>4. InodeCounted(ip) /\ iref[ip] \in Int  BY <1>1 DEF FilesInv, InodesInv, FilesTypeOK
    <3>5. iref'[ip] + Refers(f, p, ip) = iref[ip] + Refers(f, p, ip)'
      BY <1>2, <1>9, <3>2, <3>3, <3>4 DEF Refers, One
    <3>6. iref'[ip] \in Int  BY <1>2, <3>4
    <3> QED  BY <1>4, <1>20, <3>1, <3>4, <3>5, <3>6, InodeStep
  <2> QED  BY <2>1 DEF InodesInv
<1>23. \A q \in Process \ {p}, g \in File : Mine(q, g) => g # f
  BY <1>5, FreshAlone
<1>24. \A q \in Process \ {p} : pc[q] = "read" => f0[q] \in File \ {f}
  <2>1. ASSUME NEW q \in Process \ {p}, pc[q] = "read" PROVE f0[q] \in File \ {f}
    <3>1. f0[q] \in File /\ Has(q, f0[q])  BY <2>1 DEF FilesInv, CallInv
    <3>2. PICK d \in Fd : Names(q, d, f0[q])  BY <2>1, <3>1, Quiet DEF Has
    <3> QED  BY <1>6, <3>1, <3>2
  <2> QED  BY <2>1
<1>25. \A q \in Process \ {p} : pc[q] = "fork" => f0[q] \notin live'  BY <1>4, LiveSame
<1>26. ASSUME NEW q \in Process \ {p}
       PROVE  /\ q \in live => q \in live' /\ ofile'[q] = ofile[q]
              /\ pc[q] = "fork" => f0[q] \notin live'
              /\ \A h \in File : Mine(q, h) => type'[h] = type[h] /\ ref'[h] = ref[h]
              /\ pc[q] = "read" => /\ type'[f0[q]] = type[f0[q]] /\ obj'[f0[q]] = obj[f0[q]]
                                   /\ off'[f0[q]] = off[f0[q]]
              /\ \A ip \in Inode : ilocked[ip] = q => ilocked'[ip] = q
  BY <1>2, <1>12, <1>23, <1>24, <1>25
<1> QED
  BY <1>4, <1>10, <1>11, <1>14, <1>15, <1>17, <1>18, <1>19, <1>21, <1>22, <1>26, StepInv,
     Zenon

LEMMA UndoStepInv ==
  ASSUME FilesInv, NEW p \in Process, UndoStep(p)
  PROVE  FilesInv'
<1> DEFINE x == Head(todo[p])
<1>1. pc[p] \in {"undo", "exit"} /\ todo[p] # <<>> /\ UNCHANGED <<live, pc, f0, f1, idx>>
  BY DEF UndoStep, locals
<1>2. x \in Item  BY <1>1, UndoTail DEF FilesInv, TodoInv
<1>3. CASE x[1] = "file" /\ fileclose(p, x[2])
  <2>1. PICK f \in File : x = <<"file", f>>  BY <1>2, <1>3, ItemIs
  <2>2. fileclose(p, f)  BY <1>3, <2>1
  <2> QED  BY <1>1, <2>1, <2>2, FilecloseSharedInv, FilecloseLastInv
<1>4. CASE x[1] = "pipe" /\ pipeclose(p, x[2], x[3])
  <2>1. PICK g \in Page, w \in BOOLEAN : x = <<"pipe", g, w>>  BY <1>2, <1>4, ItemIs
  <2>2. pipeclose(p, g, w)  BY <1>4, <2>1
  <2> QED  BY <1>1, <2>1, <2>2, PipecloseInv
<1>5. CASE x[1] = "inode" /\ iput(p, x[2])
  <2>1. PICK ip \in Inode : x = <<"inode", ip>>  BY <1>2, <1>5, ItemIs
  <2>2. iput(p, ip)  BY <1>5, <2>1
  <2> QED  BY <1>1, <2>1, <2>2, IputInv
<1>6. CASE x[1] = "locked" /\ iunlockput(p, x[2])
  <2>1. PICK ip \in Inode : x = <<"locked", ip>>  BY <1>2, <1>6, ItemIs
  <2>2. iunlockput(p, ip)  BY <1>6, <2>1
  <2> QED  BY <1>1, <2>1, <2>2, IunlockputInv
<1>7. CASE x[1] = "fd" /\ ClearFd(p, x[2])
  <2>1. PICK d \in Fd : x = <<"fd", d>>  BY <1>2, <1>7, ItemIs
  <2>2. ClearFd(p, d)  BY <1>7, <2>1
  <2> QED  BY <1>1, <2>1, <2>2, ClearFdInv
<1> QED  BY <1>3, <1>4, <1>5, <1>6, <1>7 DEF UndoStep

LEMMA ReturnIs ==
  ASSUME FilesTypeOK, NEW p \in Process, Return(p)
  PROVE  /\ pc' \in [Process -> Label] /\ pc'[p] = "user"
         /\ f0' \in [Process -> File \cup Process \cup {None}] /\ f0'[p] = None
         /\ f1' \in [Process -> File \cup Inode \cup {None}] /\ f1'[p] = None
         /\ idx' \in [Process -> Nat] /\ idx'[p] = 0
         /\ \A q \in Process \ {p} :
              pc'[q] = pc[q] /\ f0'[q] = f0[q] /\ f1'[q] = f1[q] /\ idx'[q] = idx[q]
BY DEF Return, Goto, FilesTypeOK, Label

LEMMA UndoDoneInv ==
  ASSUME FilesInv, NEW p \in Process, UndoDone(p)
  PROVE  FilesInv'
<1>1. FilesTypeOK /\ pc[p] \in {"undo", "exit"} /\ todo[p] = <<>> /\ Return(p) /\ TodoInv(p)
  BY DEF FilesInv, UndoDone
<1>2. UNCHANGED <<ftable, ofile, got, iref, ilocked, todo>>
      /\ UNCHANGED <<readopen, writeopen, taken>>
      /\ live' = (IF pc[p] = "exit" THEN live \ {p} ELSE live)
  BY DEF UndoDone, pipes
<1>3. /\ pc' \in [Process -> Label] /\ pc'[p] = "user"
      /\ f0' \in [Process -> File \cup Process \cup {None}]
      /\ f1' \in [Process -> File \cup Inode \cup {None}] /\ idx' \in [Process -> Nat]
      /\ \A q \in Process \ {p} :
           pc'[q] = pc[q] /\ f0'[q] = f0[q] /\ f1'[q] = f1[q] /\ idx'[q] = idx[q]
  BY <1>1, ReturnIs
<1>4. Others(p)  BY <1>2, <1>3 DEF Others
<1>5. FilesTypeOK'  BY <1>1, <1>2, <1>3 DEF FilesTypeOK, ftable
<1>6. CallInv(p)'  BY <1>3 DEF CallInv
<1>7. \A q \in Process \ {p} : (q \in live => q \in live') /\ (pc[q] = "fork" => f0[q] \notin live')
  BY <1>2 DEF FilesInv, CallInv
<1>8. ChildInv'
  <2>1. CASE pc[p] = "undo"  BY <1>2, <1>3, <1>4, <2>1, ChildSame
  <2>2. CASE pc[p] = "exit"
    <3>1. \A d \in Fd : ofile[p][d] = None  BY <2>2 DEF UndoDone, argfd
    <3>2. \A q \in Process : pc'[q] = "fork" <=> pc[q] = "fork"  BY <1>3, <2>2
    <3>3. \A q \in Process : pc[q] = "fork" => f0'[q] = f0[q] /\ idx'[q] = idx[q]
      BY <1>3, <2>2
    <3>4. ChildInv  BY DEF FilesInv
    <3>5. \A c \in Process \ live', d \in Fd : ofile'[c][d] # None => c \in Process \ live
      BY <1>2, <3>1
    <3>6. \A c \in Process \ live', d \in Fd :
            ofile'[c][d] # None
              => \E q \in Process : pc'[q] = "fork" /\ f0'[q] = c /\ d < idx'[q]
      BY <1>2, <3>2, <3>3, <3>4, <3>5 DEF ChildInv
    <3>7. \A q, r \in Process :
            pc'[q] = "fork" /\ pc'[r] = "fork" /\ f0'[q] = f0'[r] => q = r
      BY <3>2, <3>3, <3>4 DEF ChildInv
    <3> QED  BY <3>6, <3>7 DEF ChildInv
  <2> QED  BY <1>1, <2>1, <2>2
<1>9. \A ip \in Inode : Owes(p, <<"locked", ip>>) => ilocked'[ip] = p
  BY <1>1, <1>2 DEF TodoInv
<1> QED  BY <1>1, <1>2, <1>3, <1>4, <1>5, <1>6, <1>7, <1>8, <1>9, QuietMove

LEMMA ExitInv ==
  ASSUME FilesInv, NEW p \in Process, Exit(p)
  PROVE  FilesInv'
<1> USE DEF AtUser, Goto
<1>1. FilesTypeOK /\ p \in live /\ pc[p] = "user" /\ TodoInv(p)  BY DEF FilesInv, Exit
<1>2. UNCHANGED <<ftable, ofile, got, iref, ilocked, todo, live, f0, f1, idx>>
      /\ UNCHANGED <<readopen, writeopen, taken>> /\ pc' = [pc EXCEPT ![p] = "exit"]
  BY DEF Exit, pipes
<1>3. pc' \in [Process -> Label] /\ pc'[p] = "exit" /\ \A q \in Process \ {p} : pc'[q] = pc[q]
  BY <1>1, <1>2 DEF FilesTypeOK, Label
<1>4. Others(p)  BY <1>2, <1>3 DEF Others
<1>5. FilesTypeOK'  BY <1>1, <1>2, <1>3 DEF FilesTypeOK, ftable
<1>6. CallInv(p)'  BY <1>1, <1>2, <1>3 DEF CallInv
<1>7. \A q \in Process \ {p} : pc[q] = "fork" => f0[q] \notin live'  BY <1>2, <1>4, LiveSame
<1>8. ChildInv'  BY <1>1, <1>2, <1>3, <1>4, ChildSame
<1>9. \A ip \in Inode : Owes(p, <<"locked", ip>>) => ilocked'[ip] = p
  BY <1>1, <1>2 DEF TodoInv
<1> QED  BY <1>1, <1>2, <1>3, <1>4, <1>5, <1>6, <1>7, <1>8, <1>9, QuietMove

-----------------------------------------------------------------------------
(* fork and read *)

LEMMA ForkInv ==
  ASSUME FilesInv, NEW p \in Process, Fork(p)
  PROVE  FilesInv'
<1> USE DEF AtUser, Goto
<1>1. FilesTypeOK /\ p \in live /\ pc[p] = "user" /\ todo[p] = <<>> /\ ChildInv
      /\ \A z : ~Owes(p, z)
  BY Quiet DEF FilesInv, Fork
<1>2. PICK c \in Process \ live :
        /\ \A q \in live : pc[q] = "fork" => f0[q] # c
        /\ f0' = [f0 EXCEPT ![p] = c]
  BY DEF Fork
<1>3. UNCHANGED <<ftable, ofile, got, iref, ilocked, todo, live, f1>>
      /\ UNCHANGED <<readopen, writeopen, taken>> /\ pc' = [pc EXCEPT ![p] = "fork"]
      /\ idx' = [idx EXCEPT ![p] = 0]
  BY DEF Fork, pipes
<1>4. /\ pc' \in [Process -> Label] /\ idx' \in [Process -> Nat]
      /\ f0' \in [Process -> File \cup Process \cup {None}]
      /\ pc'[p] = "fork" /\ idx'[p] = 0 /\ f0'[p] = c
      /\ \A q \in Process \ {p} : pc'[q] = pc[q] /\ idx'[q] = idx[q] /\ f0'[q] = f0[q]
  BY <1>1, <1>2, <1>3 DEF FilesTypeOK, Label
<1>5. Others(p)  BY <1>3, <1>4 DEF Others
<1>6. FilesTypeOK'  BY <1>1, <1>3, <1>4 DEF FilesTypeOK, ftable
<1>7. CallInv(p)'  BY <1>1, <1>2, <1>3, <1>4, FilesAssumption DEF CallInv
<1>8. \A q \in Process \ {p} : pc[q] = "fork" => f0[q] \notin live'  BY <1>3, <1>5, LiveSame
<1>9. \A q \in Process : pc[q] = "fork" => q \in live /\ q # p /\ f0[q] # c
  BY <1>1, <1>2 DEF FilesInv, CallInv
<1>10. ChildInv'
  <2>1. \A b \in Process \ live', d \in Fd :
          ofile'[b][d] # None
            => \E q \in Process : pc'[q] = "fork" /\ f0'[q] = b /\ d < idx'[q]
    BY <1>1, <1>3, <1>4, <1>9 DEF ChildInv
  <2>2. \A q, r \in Process :
          pc'[q] = "fork" /\ pc'[r] = "fork" /\ f0'[q] = f0'[r] => q = r
    BY <1>1, <1>4, <1>9 DEF ChildInv
  <2> QED  BY <2>1, <2>2 DEF ChildInv
<1> QED  BY <1>1, <1>3, <1>4, <1>5, <1>6, <1>7, <1>8, <1>10, QuietMove

LEMMA ForkDoneInv ==
  ASSUME FilesInv, NEW p \in Process, ForkDone(p)
  PROVE  FilesInv'
<1>1. FilesTypeOK /\ pc[p] = "fork" /\ todo[p] = <<>> /\ ChildInv /\ Return(p) /\ CallInv(p)
      /\ \A z : ~Owes(p, z)
  BY Quiet DEF FilesInv, ForkDone
<1>2. UNCHANGED <<ftable, ofile, got, iref, ilocked, todo>>
      /\ UNCHANGED <<readopen, writeopen, taken>> /\ live' = live \cup {f0[p]}
  BY DEF ForkDone, pipes
<1>3. f0[p] \in Process \ live  BY <1>1 DEF CallInv
<1>4. /\ pc' \in [Process -> Label] /\ pc'[p] = "user"
      /\ f0' \in [Process -> File \cup Process \cup {None}]
      /\ f1' \in [Process -> File \cup Inode \cup {None}] /\ idx' \in [Process -> Nat]
      /\ \A q \in Process \ {p} :
           pc'[q] = pc[q] /\ f0'[q] = f0[q] /\ f1'[q] = f1[q] /\ idx'[q] = idx[q]
  BY <1>1, ReturnIs
<1>5. Others(p)  BY <1>2, <1>4 DEF Others
<1>6. FilesTypeOK'  BY <1>1, <1>2, <1>3, <1>4 DEF FilesTypeOK, ftable
<1>7. CallInv(p)'  BY <1>4 DEF CallInv
<1>8. \A q \in Process \ {p} : (q \in live => q \in live') /\ (pc[q] = "fork" => f0[q] \notin live')
  BY <1>1, <1>2 DEF FilesInv, CallInv, ChildInv
<1>9. ChildInv'
  <2>1. \A b \in Process \ live', d \in Fd :
          ofile'[b][d] # None
            => \E q \in Process : pc'[q] = "fork" /\ f0'[q] = b /\ d < idx'[q]
    <3>1. ASSUME NEW b \in Process \ live', NEW d \in Fd, ofile'[b][d] # None
          PROVE  \E q \in Process : pc'[q] = "fork" /\ f0'[q] = b /\ d < idx'[q]
      <4>1. PICK q \in Process : pc[q] = "fork" /\ f0[q] = b /\ d < idx[q]
        BY <1>1, <1>2, <3>1 DEF ChildInv
      <4>2. q # p  BY <1>2, <3>1, <4>1
      <4> QED  BY <1>4, <4>1, <4>2
    <3> QED  BY <3>1
  <2>2. \A q, r \in Process :
          pc'[q] = "fork" /\ pc'[r] = "fork" /\ f0'[q] = f0'[r] => q = r
    BY <1>1, <1>4 DEF ChildInv
  <2> QED  BY <2>1, <2>2 DEF ChildInv
<1> QED  BY <1>1, <1>2, <1>4, <1>5, <1>6, <1>7, <1>8, <1>9, QuietMove

LEMMA FilereadInv ==
  ASSUME FilesInv, NEW p \in Process, fileread(p)
  PROVE  FilesInv'
<1> USE DEF AtUser, Goto
<1>1. FilesTypeOK /\ EntryInv /\ p \in live /\ pc[p] = "user" /\ todo[p] = <<>>
      /\ \A z : ~Owes(p, z)
  BY Quiet DEF FilesInv, fileread
<1>2. PICK d \in Fd, f \in File, ip \in Inode :
        /\ ofile[p][d] = f /\ type[f] = "INODE" /\ obj[f] = ip
        /\ ilocked[ip] = None /\ ilocked' = [ilocked EXCEPT ![ip] = p]
        /\ f0' = [f0 EXCEPT ![p] = f] /\ idx' = [idx EXCEPT ![p] = off[f]]
  <2>1. PICK d \in argfd(p) :
          /\ type[ofile[p][d]] = "INODE" /\ FileLock(p, obj[ofile[p][d]])
          /\ f0' = [f0 EXCEPT ![p] = ofile[p][d]]
          /\ idx' = [idx EXCEPT ![p] = off[ofile[p][d]]]
    BY DEF fileread
  <2>2. d \in Fd /\ ofile[p][d] \in File  BY <1>1 DEF argfd, FilesTypeOK
  <2>3. obj[ofile[p][d]] \in Inode  BY <1>1, <2>1, <2>2 DEF EntryInv
  <2> QED  BY <2>1, <2>2, <2>3 DEF FileLock
<1>3. UNCHANGED <<ref, type, writable, obj, off>>
      /\ UNCHANGED <<ofile, got, iref, todo, live, f1, readopen, writeopen, taken>>
      /\ pc' = [pc EXCEPT ![p] = "read"]
  BY DEF fileread, pipes, ftable
<1>4. /\ pc' \in [Process -> Label] /\ idx' \in [Process -> Nat]
      /\ f0' \in [Process -> File \cup Process \cup {None}]
      /\ pc'[p] = "read" /\ idx'[p] = off[f] /\ f0'[p] = f
      /\ \A q \in Process \ {p} : pc'[q] = pc[q] /\ idx'[q] = idx[q] /\ f0'[q] = f0[q]
  BY <1>1, <1>2, <1>3 DEF FilesTypeOK, Label
<1>5. Others(p)  BY <1>3, <1>4 DEF Others
<1>6. ilocked' \in [Inode -> Process \cup {None}] /\ ilocked'[ip] = p
      /\ \A jp \in Inode \ {ip} : ilocked'[jp] = ilocked[jp]
  BY <1>1, <1>2 DEF FilesTypeOK
<1>7. FilesTypeOK'  BY <1>1, <1>3, <1>4, <1>6 DEF FilesTypeOK
<1>8. CallInv(p)'
  <2>1. Has(p, f)'  BY <1>2, <1>3 DEF Has
  <2> QED  BY <1>1, <1>2, <1>3, <1>4, <1>6, <2>1 DEF CallInv, Has
<1>9. \A q \in Process \ {p}, jp \in Inode : ilocked[jp] = q => ilocked'[jp] = q
  BY <1>2, <1>6, FilesAssumption
<1>10. \A q \in Process \ {p} : pc[q] = "fork" => f0[q] \notin live'
  BY <1>3, <1>5, LiveSame
<1>11. ChildInv'  BY <1>1, <1>3, <1>4, <1>5, ChildSame
<1>12. UNCHANGED ftable  BY <1>3 DEF ftable
<1> QED  BY <1>1, <1>3, <1>4, <1>5, <1>7, <1>8, <1>9, <1>10, <1>11, <1>12, QuietMove

LEMMA ReadDoneInv ==
  ASSUME FilesInv, NEW p \in Process, ReadDone(p)
  PROVE  FilesInv'
<1>1. FilesTypeOK /\ EntryInv /\ pc[p] = "read" /\ todo[p] = <<>> /\ Return(p) /\ CallInv(p)
      /\ TodoInv(p) /\ NamedInv /\ \A z : ~Owes(p, z)
  BY Quiet DEF FilesInv, ReadDone
<1>2. PICK f \in File, ip \in Inode :
        /\ f0[p] = f /\ type[f] = "INODE" /\ obj[f] = ip /\ ilocked[ip] = p /\ idx[p] = off[f]
  BY <1>1 DEF CallInv, EntryInv
<1>3. UNCHANGED <<ref, type, writable, obj>>
      /\ UNCHANGED <<ofile, iref, todo, live, readopen, writeopen, taken>>
      /\ ilocked' = [ilocked EXCEPT ![ip] = None]
  BY <1>2 DEF ReadDone, pipes
<1>4. \/ /\ off' = [off EXCEPT ![f] = off[f] + 1]
         /\ got' = [got EXCEPT ![f] = Append(got[f], off[f])]
      \/ UNCHANGED <<off, got>>
  BY <1>2 DEF ReadDone
<1>5. /\ pc' \in [Process -> Label] /\ pc'[p] = "user"
      /\ f0' \in [Process -> File \cup Process \cup {None}]
      /\ f1' \in [Process -> File \cup Inode \cup {None}] /\ idx' \in [Process -> Nat]
      /\ \A q \in Process \ {p} :
           pc'[q] = pc[q] /\ f0'[q] = f0[q] /\ f1'[q] = f1[q] /\ idx'[q] = idx[q]
  BY <1>1, ReturnIs
<1>6. Others(p)  BY <1>3, <1>5 DEF Others
<1>7. off[f] \in Nat /\ got[f] \in Seq(Nat) /\ Len(got[f]) = off[f]
      /\ \A k \in 1 .. off[f] : got[f][k] = k - 1
  BY <1>1 DEF FilesTypeOK, EntryInv
<1>8. Append(got[f], off[f]) \in Seq(Nat) /\ Len(Append(got[f], off[f])) = off[f] + 1
      /\ \A k \in 1 .. off[f] + 1 : Append(got[f], off[f])[k] = k - 1
  BY <1>7
<1>9. \A g \in File \ {f} : off'[g] = off[g] /\ got'[g] = got[g]
  BY <1>1, <1>4 DEF FilesTypeOK
<1>10. /\ off' \in [File -> Nat] /\ got' \in [File -> Seq(Nat)]
       /\ Len(got'[f]) = off'[f] /\ \A k \in 1 .. off'[f] : got'[f][k] = k - 1
  <2>1. CASE /\ off' = [off EXCEPT ![f] = off[f] + 1]
             /\ got' = [got EXCEPT ![f] = Append(got[f], off[f])]
    <3>1. off'[f] = off[f] + 1 /\ got'[f] = Append(got[f], off[f])
      BY <1>1, <2>1 DEF FilesTypeOK
    <3>2. off' \in [File -> Nat]  BY <1>1, <1>7, <2>1 DEF FilesTypeOK
    <3>3. got' \in [File -> Seq(Nat)]  BY <1>1, <1>8, <2>1 DEF FilesTypeOK
    <3> QED  BY <1>8, <3>1, <3>2, <3>3
  <2>2. CASE UNCHANGED <<off, got>>  BY <1>1, <1>7, <2>2 DEF FilesTypeOK
  <2> QED  BY <1>4, <2>1, <2>2
<1>11. ilocked' \in [Inode -> Process \cup {None}] /\ \A jp \in Inode \ {ip} : ilocked'[jp] = ilocked[jp]
  BY <1>1, <1>3 DEF FilesTypeOK
<1>12. FilesTypeOK'  BY <1>1, <1>3, <1>5, <1>10, <1>11 DEF FilesTypeOK
<1>13. CallInv(p)'  BY <1>5 DEF CallInv
<1>14. \A z : Owes(p, z)' <=> Owes(p, z)  BY <1>3 DEF Owes
<1>15. TodoInv(p)'  BY <1>1, <1>3, <1>14 DEF TodoInv
<1>16. EntryInv'
  <2>1. ASSUME NEW g \in File
        PROVE  /\ ref'[g] = 0 => type'[g] = "NONE"
               /\ type'[g] = "PIPE" => obj'[g] \in Page
               /\ type'[g] = "INODE" => obj'[g] \in Inode
               /\ type'[g] = "NONE" => off'[g] = 0
               /\ Len(got'[g]) = off'[g] /\ \A k \in 1 .. off'[g] : got'[g][k] = k - 1
    <3>1. CASE g = f  BY <1>1, <1>2, <1>3, <1>10, <3>1 DEF EntryInv
    <3>2. CASE g # f  BY <1>1, <1>3, <1>9, <3>2 DEF EntryInv
    <3> QED  BY <3>1, <3>2
  <2> QED  BY <2>1 DEF EntryInv
<1>17. NamedInv'
  <2>1. \A d \in Fd : ofile'[p][d] # None /\ ~Owes(p, <<"fd", d>>)'
                        => type'[ofile'[p][d]] # "NONE"
    BY <1>1, <1>3, <1>14 DEF NamedInv
  <2> QED  BY <1>1, <1>3, <1>6, <2>1, NamedOthers
<1>18. ChildInv'  BY <1>1, <1>3, <1>5, <1>6, ChildSame
<1>19. /\ \A g \in File : ~Holds(p, g) /\ ~Holds(p, g)'
       /\ \A jp \in Inode : ~Opens(p, jp) /\ ~Opens(p, jp)'
  BY <1>1, <1>5 DEF Holds, Opens
<1>20. \A q \in Process, d \in Fd, g \in File : Names(q, d, g) <=> Names(q, d, g)'
  BY <1>3 DEF Names, Owes
<1>21. RefsInv'  BY <1>3, <1>6, <1>14, <1>19, <1>20, RefsSame
<1>22. EndsInv'
  <2>1. \A h \in File, g \in Page, w \in BOOLEAN : IsEnd(h, g, w) <=> IsEnd(h, g, w)'
    BY <1>3 DEF IsEnd
  <2> QED  BY <1>3, <1>6, <1>14, <1>16, <1>21, <2>1, EndsSame
<1>23. InodesInv'
  <2>1. \A h \in File, jp \in Inode : IsFile(h, jp) <=> IsFile(h, jp)'  BY <1>3 DEF IsFile
  <2> QED  BY <1>1, <1>3, <1>6, <1>14, <1>16, <1>19, <1>21, <2>1, InodesSame
<1>24. \A q \in Process \ {p} : pc[q] = "fork" => f0[q] \notin live'
  BY <1>3, <1>6, LiveSame
<1>25. \A q \in Process \ {p}, jp \in Inode : ilocked[jp] = q => ilocked'[jp] = q
  BY <1>2, <1>11
<1>26. \A q \in Process \ {p} : pc[q] = "read" => f0[q] \in File \ {f}
  BY <1>2 DEF FilesInv, CallInv
<1> QED
  BY <1>3, <1>6, <1>9, <1>12, <1>13, <1>15, <1>16, <1>17, <1>18, <1>21, <1>22, <1>23, <1>24,
     <1>25, <1>26, StepInv

LEMMA ForkDupInv ==
  ASSUME FilesInv, NEW p \in Process, ForkDup(p)
  PROVE  FilesInv'
<1>1. FilesTypeOK /\ EntryInv /\ pc[p] = "fork" /\ todo[p] = <<>> /\ CallInv(p) /\ ChildInv
      /\ TodoInv(p) /\ NamedInv /\ \A d, g : ~Owes(p, d) /\ (Names(p, d, g) <=> ofile[p][d] = g)
  BY Quiet DEF FilesInv, ForkDup
<1>2. PICK c \in Process \ live, i \in Fd : f0[p] = c /\ idx[p] = i /\ p # c /\ p \in live
  BY <1>1, FilesAssumption DEF CallInv, ForkDup, Fd, FilesTypeOK
<1>3. PICK f \in File \cup {None} : f = ofile[p][i]  BY <1>1, <1>2 DEF FilesTypeOK
<1>4. /\ idx' = [idx EXCEPT ![p] = i + 1] /\ ofile' = [ofile EXCEPT ![c][i] = f]
      /\ IF f = None THEN UNCHANGED ref ELSE ref' = [ref EXCEPT ![f] = @ + 1]
      /\ UNCHANGED <<type, writable, obj, off, got>>
      /\ UNCHANGED <<live, iref, ilocked, readopen, writeopen, taken, pc, f0, f1, todo>>
  BY <1>2, <1>3 DEF ForkDup, pipes
<1>5. i \in Nat /\ None \notin File  BY FilesAssumption DEF Fd
<1>6. idx' \in [Process -> Nat] /\ idx'[p] = i + 1
      /\ \A q \in Process \ {p} : idx'[q] = idx[q]
  BY <1>1, <1>4, <1>5 DEF FilesTypeOK
<1>7. Others(p)  BY <1>4, <1>6 DEF Others
<1>8. ofile[c][i] = None
  <2>1. ASSUME ofile[c][i] # None PROVE FALSE
    <3>1. PICK q \in Process : pc[q] = "fork" /\ f0[q] = c /\ i < idx[q]
      BY <1>1, <2>1 DEF ChildInv
    <3>2. q = p  BY <1>1, <1>2, <3>1 DEF ChildInv
    <3> QED  BY <1>2, <1>5, <3>1, <3>2
  <2> QED  BY <2>1
<1>9. pc[c] = "user" /\ \A z : ~Owes(c, z)
  <2>1. pc[c] = "user"  BY DEF FilesInv, CallInv
  <2> QED  BY <2>1, Quiet
<1>10. /\ ofile' \in [Process -> [Fd -> File \cup {None}]]
       /\ \A e \in Fd : ofile'[c][e] = IF e = i THEN f ELSE ofile[c][e]
       /\ \A q \in Process \ {c} : ofile'[q] = ofile[q]
  BY <1>1, <1>4 DEF FilesTypeOK
<1>11. ref' \in [File -> Int] /\ \A g \in File : ref'[g] = IF g = f THEN ref[g] + 1 ELSE ref[g]
  BY <1>1, <1>4, <1>5 DEF FilesTypeOK
<1>12. FilesTypeOK'  BY <1>1, <1>4, <1>6, <1>10, <1>11 DEF FilesTypeOK
<1>13. \A q \in Process : \A z : Owes(q, z)' <=> Owes(q, z)  BY <1>4 DEF Owes
<1>14. TodoInv(p)'  BY <1>1, <1>4, <1>13 DEF TodoInv
<1>15. CallInv(p)'
  <2>1. i + 1 <= NOFILE  BY FilesAssumption DEF Fd
  <2> QED  BY <1>1, <1>2, <1>4, <1>6, <2>1 DEF CallInv
<1>16. \A g \in File : RefCounted(g) /\ ref[g] \in Nat /\ (g = f => Names(p, i, g) /\ ref[g] # 0)
  <2>1. ASSUME NEW g \in File
        PROVE  RefCounted(g) /\ ref[g] \in Nat /\ (g = f => Names(p, i, g) /\ ref[g] # 0)
    <3>1. RefCounted(g) /\ ref[g] \in Nat  BY RefNat DEF FilesInv, RefsInv
    <3>2. g = f => Names(p, i, g)  BY <1>1, <1>3
    <3> QED  BY <3>1, <3>2, Used
  <2> QED  BY <2>1
<1>17. EntryInv'  BY <1>1, <1>4, <1>11, <1>16 DEF EntryInv
<1>18. NamedInv'
  <2>1. ASSUME NEW q \in Process, NEW d \in Fd, ofile'[q][d] # None, ~Owes(q, <<"fd", d>>)'
        PROVE  \/ type'[ofile'[q][d]] # "NONE"
               \/ pc'[q] = "opened" /\ f0'[q] = ofile'[q][d]
    <3>1. CASE q = c /\ d = i
      <4>1. ofile'[q][d] = ofile[p][i] /\ ofile[p][i] # None  BY <1>3, <1>10, <2>1, <3>1
      <4>2. type[ofile[p][i]] # "NONE"  BY <1>1, <4>1 DEF NamedInv
      <4> QED  BY <1>4, <4>1, <4>2
    <3>2. CASE q # c \/ d # i
      <4>1. ofile'[q][d] = ofile[q][d] /\ ~Owes(q, <<"fd", d>>)  BY <1>10, <1>13, <2>1, <3>2
      <4> QED  BY <1>1, <1>4, <2>1, <4>1 DEF NamedInv
    <3> QED  BY <3>1, <3>2
  <2> QED  BY <2>1 DEF NamedInv
<1>19. ChildInv'
  <2>1. ASSUME NEW b \in Process \ live', NEW d \in Fd, ofile'[b][d] # None
        PROVE  \E q \in Process : pc'[q] = "fork" /\ f0'[q] = b /\ d < idx'[q]
    <3>1. CASE b = c /\ d = i  BY <1>1, <1>2, <1>4, <1>5, <1>6, <3>1
    <3>2. CASE b # c \/ d # i
      <4>1. ofile[b][d] # None  BY <1>10, <2>1, <3>2
      <4>2. PICK q \in Process : pc[q] = "fork" /\ f0[q] = b /\ d < idx[q]
        BY <1>1, <1>4, <4>1 DEF ChildInv
      <4>3. d < idx'[q]  BY <1>2, <1>5, <1>6, <4>2 DEF Fd
      <4> QED  BY <1>4, <4>2, <4>3
    <3> QED  BY <3>1, <3>2
  <2>2. \A q, r \in Process :
          pc'[q] = "fork" /\ pc'[r] = "fork" /\ f0'[q] = f0'[r] => q = r
    BY <1>1, <1>4 DEF ChildInv
  <2> QED  BY <2>1, <2>2 DEF ChildInv
<1>20. RefsInv'
  <2>1. ASSUME NEW g \in File PROVE RefCounted(g)'
    <3>1. ASSUME NEW q \in Process, NEW e \in Fd, q # c \/ e # i
          PROVE  Names(q, e, g) <=> Names(q, e, g)'
      BY <1>10, <1>13, <3>1 DEF Names
    <3>2. (Names(c, i, g)' <=> g = f) /\ ~Names(c, i, g)
      BY <1>5, <1>8, <1>9, <1>10, <1>13 DEF Names
    <3>3. Holds(p, g)' <=> Holds(p, g)  BY <1>4 DEF Holds
    <3>4. RefCounted(g) /\ ref[g] \in Nat /\ ref'[g] \in Int  BY <1>11, <1>16
    <3>5. ref'[g] + Uses(c, i, p, g) = ref[g] + Uses(c, i, p, g)'
      BY <1>11, <1>13, <3>2, <3>3, <3>4 DEF Uses, One
    <3> QED  BY <1>7, <3>1, <3>4, <3>5, RefStep
  <2> QED  BY <2>1 DEF RefsInv
<1>21. EndsInv'
  <2>1. \A h \in File, g \in Page, w \in BOOLEAN : IsEnd(h, g, w) <=> IsEnd(h, g, w)'
    BY <1>4 DEF IsEnd
  <2> QED  BY <1>4, <1>7, <1>13, <1>17, <1>20, <2>1, EndsSame
<1>22. InodesInv'
  <2>1. \A h \in File, jp \in Inode : IsFile(h, jp) <=> IsFile(h, jp)'  BY <1>4 DEF IsFile
  <2>2. \A jp \in Inode : Opens(p, jp)' <=> Opens(p, jp)  BY <1>4 DEF Opens
  <2> QED  BY <1>1, <1>4, <1>7, <1>13, <1>17, <1>20, <2>1, <2>2, InodesSame
<1>23. \A q \in Process \ {p}, g \in File : Mine(q, g) => g # f
  BY <1>16, FreshAlone
<1>24. \A q \in Process \ {p} : pc[q] = "fork" => f0[q] \notin live'
  BY <1>4, <1>7, LiveSame
<1> QED
  BY <1>4, <1>7, <1>10, <1>11, <1>12, <1>14, <1>15, <1>17, <1>18, <1>19, <1>20, <1>21,
     <1>22,
     <1>23, <1>24, StepInv

-----------------------------------------------------------------------------
(* open *)

LEMMA OpenInv ==
  ASSUME FilesInv, NEW p \in Process, sys_open(p)
  PROVE  FilesInv'
<1> USE DEF AtUser, Goto
<1>1. FilesTypeOK /\ p \in live /\ pc[p] = "user" /\ TodoInv(p) /\ NamedInv /\ todo[p] = <<>>
      /\ \A z : ~Owes(p, z)
  BY Quiet DEF FilesInv, sys_open
<1>2. PICK ip \in Inode :
        /\ ilocked[ip] = None /\ ilocked' = [ilocked EXCEPT ![ip] = p]
        /\ iref' = [iref EXCEPT ![ip] = @ + 1] /\ f1' = [f1 EXCEPT ![p] = ip]
  BY DEF sys_open
<1>3. UNCHANGED <<ftable, ofile, got, todo, live, f0, idx>>
      /\ UNCHANGED <<readopen, writeopen, taken>> /\ pc' = [pc EXCEPT ![p] = "open"]
  BY DEF sys_open, pipes
<1>4. /\ pc' \in [Process -> Label] /\ f1' \in [Process -> File \cup Inode \cup {None}]
      /\ pc'[p] = "open" /\ f1'[p] = ip
      /\ \A q \in Process \ {p} : pc'[q] = pc[q] /\ f1'[q] = f1[q]
  BY <1>1, <1>2, <1>3 DEF FilesTypeOK, Label
<1>5. Others(p)  BY <1>3, <1>4 DEF Others
<1>6. /\ ilocked' \in [Inode -> Process \cup {None}] /\ ilocked'[ip] = p
      /\ \A jp \in Inode \ {ip} : ilocked'[jp] = ilocked[jp]
      /\ iref' \in [Inode -> Int]
      /\ \A jp \in Inode : iref'[jp] = IF jp = ip THEN iref[jp] + 1 ELSE iref[jp]
  BY <1>1, <1>2 DEF FilesTypeOK
<1>7. FilesTypeOK'  BY <1>1, <1>3, <1>4, <1>6 DEF FilesTypeOK, ftable
<1>8. CallInv(p)'  BY <1>1, <1>3, <1>4, <1>6 DEF CallInv
<1>9. \A z : Owes(p, z)' <=> Owes(p, z)  BY <1>3 DEF Owes
<1>10. TodoInv(p)'  BY <1>1, <1>3, <1>9 DEF TodoInv
<1>11. \A q \in Process, d \in Fd, f \in File : Names(q, d, f) <=> Names(q, d, f)'
  BY <1>3 DEF Names, Owes
<1>12. \A f \in File : Holds(p, f)' <=> Holds(p, f)  BY <1>1, <1>4 DEF Holds
<1>13. RefsInv'  BY <1>3, <1>5, <1>9, <1>11, <1>12, RefsSame DEF ftable
<1>14. NamedInv'
  <2>1. \A d \in Fd : ofile'[p][d] # None /\ ~Owes(p, <<"fd", d>>)'
                        => type'[ofile'[p][d]] # "NONE"
    BY <1>1, <1>3, <1>9 DEF NamedInv, ftable
  <2> QED  BY <1>1, <1>3, <1>5, <2>1, NamedOthers DEF ftable
<1>15. ChildInv'  BY <1>1, <1>3, <1>4, <1>5, ChildSame
<1>16. EntryInv'  BY <1>3, EntrySame DEF FilesInv, ftable
<1>17. EndsInv'
  <2>1. \A h \in File, g \in Page, w \in BOOLEAN : IsEnd(h, g, w) <=> IsEnd(h, g, w)'
    BY <1>3 DEF IsEnd, ftable
  <2> QED  BY <1>3, <1>5, <1>9, <1>13, <1>16, <2>1, EndsSame
<1>18. InodesInv'
  <2>1. Filled /\ Filled'  BY <1>13, <1>16, FilledIs, FilledNext DEF FilesInv
  <2>2. 0 \in File  BY FilesAssumption DEF File
  <2>3. ASSUME NEW jp \in Inode PROVE InodeCounted(jp)'
    <3>1. \A f \in File : IsFile(f, jp) <=> IsFile(f, jp)'  BY <1>3 DEF IsFile, ftable
    <3>2. ~Opens(p, jp) /\ (Opens(p, jp)' <=> jp = ip)  BY <1>1, <1>4 DEF Opens
    <3>3. InodeCounted(jp) /\ iref[jp] \in Int  BY <1>1 DEF FilesInv, InodesInv, FilesTypeOK
    <3>4. iref'[jp] + Refers(0, p, jp) = iref[jp] + Refers(0, p, jp)'
      BY <1>6, <1>9, <2>2, <3>1, <3>2, <3>3 DEF Refers, One
    <3>5. iref'[jp] \in Int  BY <1>6
    <3> QED  BY <1>5, <2>1, <2>2, <3>1, <3>3, <3>4, <3>5, InodeStep
  <2> QED  BY <2>3 DEF InodesInv
<1>19. \A q \in Process \ {p}, jp \in Inode : ilocked[jp] = q => ilocked'[jp] = q
  BY <1>2, <1>6, FilesAssumption
<1>20. \A q \in Process \ {p} : pc[q] = "fork" => f0[q] \notin live'
  BY <1>3, <1>5, LiveSame
<1>21. \A q \in Process \ {p} :
         /\ \A f \in File : Mine(q, f) => type'[f] = type[f] /\ ref'[f] = ref[f]
         /\ pc[q] = "read" => /\ type'[f0[q]] = type[f0[q]] /\ obj'[f0[q]] = obj[f0[q]]
                              /\ off'[f0[q]] = off[f0[q]]
  BY <1>3, <1>5, TableSame, Zenon
<1> QED
  BY <1>3, <1>5, <1>7, <1>8, <1>10, <1>13, <1>14, <1>15, <1>16, <1>17, <1>18, <1>19, <1>20,
     <1>21, StepInv

\* A free entry, and what changes when it is taken.
LEMMA FileallocIs ==
  ASSUME FilesInv, NEW f \in File, filealloc(f)
  PROVE  /\ ref[f] = 0 /\ type[f] = "NONE" /\ ref' = [ref EXCEPT ![f] = 1]
         /\ ref' \in [File -> Int] /\ \A g \in File : ref'[g] = IF g = f THEN 1 ELSE ref[g]
         /\ \A q \in Process : /\ \A d \in Fd : ~Names(q, d, f)
                               /\ ~Owes(q, <<"file", f>>) /\ ~Holds(q, f) /\ ~Mine(q, f)
<1>1. FilesTypeOK /\ EntryInv /\ RefCounted(f)  BY DEF FilesInv, RefsInv
<1>2. ref[f] = 0 /\ ref' = [ref EXCEPT ![f] = 1]  BY DEF filealloc
<1>3. \A q \in Process : /\ \A d \in Fd : ~Names(q, d, f)
                         /\ ~Owes(q, <<"file", f>>) /\ ~Holds(q, f)
  <2>1. 0 \in Fd  BY FilesAssumption DEF Fd
  <2> QED  BY <1>1, <1>2, <2>1, Used
<1>4. \A q \in Process : ~Mine(q, f)  BY <1>3, MineFresh
<1>5. ref' \in [File -> Int] /\ \A g \in File : ref'[g] = IF g = f THEN 1 ELSE ref[g]
  BY <1>1, <1>2 DEF FilesTypeOK
<1>6. type[f] = "NONE"  BY <1>1, <1>2 DEF EntryInv
<1> QED  BY <1>2, <1>3, <1>4, <1>5, <1>6

\* A step that takes entry f and touches no object; p uses f afterwards in one way.
LEMMA AllocStep ==
  ASSUME FilesInv, NEW p \in Process, NEW f \in File, filealloc(f), Others(p),
         UNCHANGED <<type, writable, obj, off, got, live, readopen, writeopen, taken, iref>>,
         \A q \in Process \ {p} : ofile'[q] = ofile[q],
         \A q \in Process \ {p}, ip \in Inode : ilocked[ip] = q => ilocked'[ip] = q,
         FilesTypeOK', TodoInv(p)', CallInv(p)', NamedInv', pc[p] # "fork", pc'[p] # "fork",
         p \in live, NEW d \in Fd,
         \A e \in Fd \ {d}, g \in File : Names(p, e, g) <=> Names(p, e, g)',
         Uses(p, d, p, f)' = 1,
         \A g \in File \ {f} : Uses(p, d, p, g)' = Uses(p, d, p, g),
         \A g \in Page, w \in BOOLEAN : Owes(p, <<"pipe", g, w>>)' <=> Owes(p, <<"pipe", g, w>>),
         \A ip \in Inode : /\ Owes(p, <<"inode", ip>>)' <=> Owes(p, <<"inode", ip>>)
                           /\ One(Owes(p, <<"locked", ip>>)') + One(Opens(p, ip)')
                              = One(Owes(p, <<"locked", ip>>)) + One(Opens(p, ip))
  PROVE  FilesInv'
<1>1. /\ ref[f] = 0 /\ type[f] = "NONE"
      /\ ref' \in [File -> Int] /\ \A g \in File : ref'[g] = IF g = f THEN 1 ELSE ref[g]
      /\ \A q \in Process : /\ \A e \in Fd : ~Names(q, e, f)
                            /\ ~Owes(q, <<"file", f>>) /\ ~Holds(q, f) /\ ~Mine(q, f)
  BY FileallocIs
<1>2. FilesTypeOK /\ EntryInv  BY DEF FilesInv
<1>3. EntryInv'  BY <1>1, <1>2 DEF EntryInv
<1>4. ChildInv'  BY ChildSame
<1>5. RefsInv'
  <2>1. ASSUME NEW g \in File PROVE RefCounted(g)'
    <3>1. ASSUME NEW q \in Process, NEW e \in Fd, q # p \/ e # d
          PROVE  Names(q, e, g) <=> Names(q, e, g)'
      <4>1. CASE q = p  BY <3>1, <4>1
      <4>2. CASE q # p  BY <4>2, OthersKeep DEF Names
      <4> QED  BY <4>1, <4>2
    <3>2. RefCounted(g) /\ ref[g] \in Nat /\ ref'[g] \in Int
      BY <1>1, RefNat DEF FilesInv, RefsInv
    <3>3. Uses(p, d, p, g) \in Int  BY DEF Uses, One
    <3>4. Uses(p, d, p, f) = 0  BY <1>1 DEF Uses, One
    <3>5. ref'[g] + Uses(p, d, p, g) = ref[g] + Uses(p, d, p, g)'
      BY <1>1, <3>2, <3>3, <3>4
    <3> QED  BY <3>1, <3>2, <3>5, RefStep
  <2> QED  BY <2>1 DEF RefsInv
<1>6. \A h \in File, g \in Page, w \in BOOLEAN : IsEnd(h, g, w) <=> IsEnd(h, g, w)'
  BY DEF IsEnd
<1>7. EndsInv'  BY <1>3, <1>5, <1>6, EndsSame
<1>8. InodesInv'
  <2>1. Filled /\ Filled'  BY <1>3, <1>5, FilledIs, FilledNext DEF FilesInv
  <2>2. 0 \in File  BY FilesAssumption DEF File
  <2>3. ASSUME NEW ip \in Inode PROVE InodeCounted(ip)'
    <3>1. \A h \in File : IsFile(h, ip) <=> IsFile(h, ip)'  BY DEF IsFile
    <3>2. InodeCounted(ip) /\ iref[ip] \in Int  BY <1>2 DEF FilesInv, InodesInv, FilesTypeOK
    <3>3. One(IsFile(0, ip)') = One(IsFile(0, ip)) /\ One(IsFile(0, ip)) \in {0, 1}
      BY <2>2, <3>1 DEF One
    <3>4. One(Owes(p, <<"inode", ip>>)') = One(Owes(p, <<"inode", ip>>))
          /\ One(Owes(p, <<"inode", ip>>)) \in {0, 1}
      BY DEF One
    <3>5. One(Owes(p, <<"locked", ip>>)) \in {0, 1} /\ One(Owes(p, <<"locked", ip>>)') \in {0, 1}
          /\ One(Opens(p, ip)) \in {0, 1} /\ One(Opens(p, ip)') \in {0, 1}
      BY OneInt
    <3>6. Refers(0, p, ip)' = Refers(0, p, ip)  BY <3>3, <3>4, <3>5 DEF Refers
    <3>7. iref'[ip] + Refers(0, p, ip) = iref[ip] + Refers(0, p, ip)'  BY <3>2, <3>6
    <3> QED  BY <2>1, <2>2, <3>1, <3>2, <3>7, InodeStep
  <2> QED  BY <2>3 DEF InodesInv
<1>9. \A q \in Process \ {p} : pc[q] = "fork" => f0[q] \notin live'  BY LiveSame
<1>10. \A q \in Process \ {p}, g \in File : Mine(q, g) => ref'[g] = ref[g]  BY <1>1
<1> QED  BY <1>3, <1>4, <1>5, <1>7, <1>8, <1>9, <1>10, StepInv

\* What a call owes after one thing has been noted.
LEMMA OwesOne ==
  ASSUME NEW p \in Process, FilesTypeOK, NEW x, todo' = [todo EXCEPT ![p] = <<x>>]
  PROVE  /\ DOMAIN todo' = Process /\ todo'[p] = <<x>> /\ \A z : Owes(p, z)' <=> z = x
         /\ \A q \in Process \ {p} : todo'[q] = todo[q]
<1>1. DOMAIN todo = Process  BY DEF FilesTypeOK
<1>2. todo'[p] = <<x>>  BY <1>1
<1>3. \A z : Owes(p, z)' <=> In(todo'[p], z)  BY DEF Owes, In
<1> QED  BY <1>1, <1>2, <1>3, InSeq

\* open() without a file.
LEMMA OpenFullInv ==
  ASSUME FilesInv, NEW p \in Process, OpenAlloc(p), UNCHANGED <<ref, f0, ofile, ilocked>>,
         Undo(p, <<<<"locked", f1[p]>>>>)
  PROVE  FilesInv'
<1> USE DEF Undo, Goto
<1>1. FilesTypeOK /\ pc[p] = "open" /\ CallInv(p) /\ NamedInv /\ \A z : ~Owes(p, z)
  BY Quiet DEF FilesInv, OpenAlloc
<1>2. PICK ip \in Inode : f1[p] = ip /\ ilocked[ip] = p /\ p \in live  BY <1>1 DEF CallInv
<1>3. UNCHANGED <<ref, type, writable, obj, off>>
      /\ UNCHANGED <<got, live, iref, ofile, ilocked, f0, f1, idx, readopen, writeopen, taken>>
      /\ pc' = [pc EXCEPT ![p] = "undo"] /\ todo' = [todo EXCEPT ![p] = <<<<"locked", ip>>>>]
  BY <1>2 DEF OpenAlloc, pipes
<1>4. pc' \in [Process -> Label] /\ pc'[p] = "undo" /\ \A q \in Process \ {p} : pc'[q] = pc[q]
  BY <1>1, <1>3 DEF FilesTypeOK, Label
<1>5. /\ DOMAIN todo' = Process /\ todo'[p] = <<<<"locked", ip>>>>
      /\ \A z : Owes(p, z)' <=> z = <<"locked", ip>>
      /\ \A q \in Process \ {p} : todo'[q] = todo[q]
  BY <1>1, <1>3, OwesOne
<1>6. Others(p)  BY <1>3, <1>4, <1>5 DEF Others
<1>7. FilesTypeOK'  BY <1>1, <1>3, <1>4, <1>5 DEF FilesTypeOK
<1>8. CallInv(p)'  BY <1>2, <1>3, <1>4 DEF CallInv
<1>9. TodoInv(p)'
  <2>1. <<"locked", ip>> \in Item  BY DEF Item
  <2>2. Shape(<<<<"locked", ip>>>>)  BY <2>1 DEF Shape
  <2> QED  BY <1>2, <1>3, <1>4, <1>5, <2>2 DEF TodoInv
<1>10. \A d : ~Owes(p, <<"fd", d>>)' /\ ~Owes(p, <<"file", d>>)' /\ ~Owes(p, <<"inode", d>>)'
  BY <1>5, KindsDiffer
<1>11. \A g, w : ~Owes(p, <<"pipe", g, w>>)'  BY <1>5, KindsDiffer
<1>12. NamedInv'
  <2>1. \A d \in Fd : ofile'[p][d] # None => type'[ofile'[p][d]] # "NONE"
    BY <1>1, <1>3, NamedTyped
  <2> QED  BY <1>1, <1>3, <1>6, <2>1, NamedOthers
<1>13. ChildInv'  BY <1>1, <1>3, <1>4, <1>6, ChildSame
<1>14. RefsInv'
  <2>1. ASSUME NEW q \in Process, NEW d \in Fd, NEW f \in File
        PROVE  Names(q, d, f) <=> Names(q, d, f)'
    <3>1. CASE q = p  BY <1>1, <1>3, <1>10, <3>1 DEF Names
    <3>2. CASE q # p  BY <1>3, <1>6, <3>2, OthersKeep DEF Names
    <3> QED  BY <3>1, <3>2
  <2>2. \A f \in File : Holds(p, f)' <=> Holds(p, f)  BY <1>1, <1>4 DEF Holds
  <2> QED  BY <1>1, <1>3, <1>6, <1>10, <2>1, <2>2, RefsSame
<1>15. \A jp \in Inode : One(Owes(p, <<"locked", jp>>)') + One(Opens(p, jp)')
                         = One(Owes(p, <<"locked", jp>>)) + One(Opens(p, jp))
  <2>1. \A jp \in Inode : /\ Owes(p, <<"locked", jp>>)' <=> jp = ip
                          /\ Opens(p, jp) <=> jp = ip
                          /\ ~Opens(p, jp)'
    BY <1>1, <1>2, <1>4, <1>5 DEF Opens
  <2>2. ASSUME NEW jp \in Inode
        PROVE  One(Owes(p, <<"locked", jp>>)') + One(Opens(p, jp)')
               = One(Owes(p, <<"locked", jp>>)) + One(Opens(p, jp))
    <3>1. ~Owes(p, <<"locked", jp>>)  BY <1>1
    <3> QED  BY <2>1, <3>1 DEF One
  <2> QED  BY <2>2
<1>16. UNCHANGED ftable  BY <1>3 DEF ftable
<1> QED
  BY <1>1, <1>3, <1>6, <1>7, <1>8, <1>9, <1>10, <1>11, <1>12, <1>13, <1>14, <1>15, <1>16,
     LightStep

\* open() with a file and no descriptor.
LEMMA OpenNoFdInv ==
  ASSUME FilesInv, NEW p \in Process, OpenAlloc(p), NEW f \in File, filealloc(f),
         f0' = [f0 EXCEPT ![p] = f], UNCHANGED <<ofile, ilocked>>,
         Undo(p, <<<<"file", f>>, <<"locked", f1[p]>>>>)
  PROVE  FilesInv'
<1> USE DEF Undo, Goto
<1>1. FilesTypeOK /\ pc[p] = "open" /\ CallInv(p) /\ NamedInv /\ \A z : ~Owes(p, z)
  BY Quiet DEF FilesInv, OpenAlloc
<1>2. PICK ip \in Inode : f1[p] = ip /\ ilocked[ip] = p /\ p \in live  BY <1>1 DEF CallInv
<1>3. UNCHANGED <<type, writable, obj, off>>
      /\ UNCHANGED <<got, live, iref, ofile, ilocked, f1, idx, readopen, writeopen, taken>>
      /\ pc' = [pc EXCEPT ![p] = "undo"]
      /\ todo' = [todo EXCEPT ![p] = <<<<"file", f>>, <<"locked", ip>>>>]
  BY <1>2 DEF OpenAlloc, pipes
<1>4. /\ pc' \in [Process -> Label] /\ pc'[p] = "undo"
      /\ f0' \in [Process -> File \cup Process \cup {None}]
      /\ \A q \in Process \ {p} : pc'[q] = pc[q] /\ f0'[q] = f0[q]
  BY <1>1, <1>3 DEF FilesTypeOK, Label
<1>5. /\ DOMAIN todo' = Process /\ todo'[p] = <<<<"file", f>>, <<"locked", ip>>>>
      /\ \A z : Owes(p, z)' <=> z = <<"file", f>> \/ z = <<"locked", ip>>
      /\ \A q \in Process \ {p} : todo'[q] = todo[q]
  <2>1. todo'[p] = <<<<"file", f>>, <<"locked", ip>>>> /\ DOMAIN todo' = Process
        /\ \A q \in Process \ {p} : todo'[q] = todo[q]
    BY <1>1, <1>3 DEF FilesTypeOK
  <2>2. \A z : Owes(p, z)' <=> In(todo'[p], z)  BY DEF Owes, In
  <2> QED  BY <2>1, <2>2, InSeq
<1>6. Others(p)  BY <1>3, <1>4, <1>5 DEF Others
<1>7. ref' \in [File -> Int] /\ \A q \in Process : ~Mine(q, f)  BY FileallocIs
<1>8. FilesTypeOK'  BY <1>1, <1>3, <1>4, <1>5, <1>7 DEF FilesTypeOK
<1>9. CallInv(p)'  BY <1>2, <1>3, <1>4 DEF CallInv
<1>10. TodoInv(p)'
  <2>1. <<"file", f>> \in Item /\ <<"locked", ip>> \in Item /\ <<"locked", ip>>[1] = "locked"
        /\ <<"file", f>> # <<"locked", ip>>
    BY DEF Item
  <2>2. Shape(<<<<"file", f>>, <<"locked", ip>>>>)  BY <2>1 DEF Shape
  <2>3. \A jp : Owes(p, <<"locked", jp>>)' => jp = ip  BY <1>5, KindsDiffer
  <2> QED  BY <1>2, <1>3, <1>4, <1>5, <2>2, <2>3 DEF TodoInv
<1>11. \A d : ~Owes(p, <<"fd", d>>)' /\ (Owes(p, <<"file", d>>)' <=> d = f) /\ ~Owes(p, <<"inode", d>>)'
  BY <1>5, KindsDiffer
<1>12. \A g, w : ~Owes(p, <<"pipe", g, w>>)'  BY <1>5, KindsDiffer
<1>13. NamedInv'
  <2>1. \A d \in Fd : ofile'[p][d] # None => type'[ofile'[p][d]] # "NONE"
    BY <1>1, <1>3, NamedTyped
  <2> QED  BY <1>1, <1>3, <1>6, <2>1, NamedOthers
<1>14. 0 \in Fd  BY FilesAssumption DEF Fd
<1>15. \A e \in Fd, g \in File : Names(p, e, g) <=> Names(p, e, g)'
  BY <1>1, <1>3, <1>11 DEF Names
<1>16. \A g : ~Holds(p, g) /\ ~Holds(p, g)'  BY <1>1, <1>4 DEF Holds
<1>17. ~Names(p, 0, f)  BY <1>14, FileallocIs
<1>18. Uses(p, 0, p, f)' = 1
  <2>1. ~Names(p, 0, f)' /\ Owes(p, <<"file", f>>)' /\ ~Holds(p, f)'
    BY <1>11, <1>14, <1>15, <1>16, <1>17
  <2> QED  BY <2>1 DEF Uses, One
<1>19. \A g \in File \ {f} : Uses(p, 0, p, g)' = Uses(p, 0, p, g)
  BY <1>1, <1>11, <1>14, <1>15, <1>16 DEF Uses, One
<1>20. \A jp \in Inode : One(Owes(p, <<"locked", jp>>)') + One(Opens(p, jp)')
                         = One(Owes(p, <<"locked", jp>>)) + One(Opens(p, jp))
  <2>1. \A jp \in Inode : Owes(p, <<"locked", jp>>)' <=> jp = ip  BY <1>5, KindsDiffer
  <2>2. \A jp \in Inode : (Opens(p, jp) <=> jp = ip) /\ ~Opens(p, jp)'
    BY <1>1, <1>2, <1>4 DEF Opens
  <2>3. ASSUME NEW jp \in Inode
        PROVE  One(Owes(p, <<"locked", jp>>)') + One(Opens(p, jp)')
               = One(Owes(p, <<"locked", jp>>)) + One(Opens(p, jp))
    <3>1. ~Owes(p, <<"locked", jp>>)  BY <1>1
    <3> QED  BY <2>1, <2>2, <3>1 DEF One
  <2> QED  BY <2>3
<1>21. /\ \A g \in Page, w \in BOOLEAN : Owes(p, <<"pipe", g, w>>)' <=> Owes(p, <<"pipe", g, w>>)
       /\ \A jp \in Inode : Owes(p, <<"inode", jp>>)' <=> Owes(p, <<"inode", jp>>)
  BY <1>1, <1>11, <1>12
<1>22. pc[p] # "fork" /\ pc'[p] # "fork"  BY <1>1, <1>4
<1> HIDE DEF Goto, Undo
<1> QED
  BY <1>2, <1>3, <1>6, <1>8, <1>9, <1>10, <1>13, <1>14, <1>15, <1>18, <1>19, <1>20, <1>21,
     <1>22, AllocStep

\* open() with both; the inode is unlocked.
LEMMA OpenFdInv ==
  ASSUME FilesInv, NEW p \in Process, OpenAlloc(p), NEW f \in File, filealloc(f),
         f0' = [f0 EXCEPT ![p] = f], NEW d \in Fd, ofile[p][d] = None,
         ofile' = [ofile EXCEPT ![p][d] = f], ilocked' = [ilocked EXCEPT ![f1[p]] = None],
         Goto(p, "opened"), UNCHANGED todo
  PROVE  FilesInv'
<1> USE DEF Goto
<1>1. FilesTypeOK /\ pc[p] = "open" /\ CallInv(p) /\ TodoInv(p) /\ NamedInv /\ todo[p] = <<>>
      /\ \A z : ~Owes(p, z)
  BY Quiet DEF FilesInv, OpenAlloc
<1>2. PICK ip \in Inode : f1[p] = ip /\ ilocked[ip] = p /\ p \in live  BY <1>1 DEF CallInv
<1>3. UNCHANGED <<type, writable, obj, off>>
      /\ UNCHANGED <<got, live, iref, f1, idx, readopen, writeopen, taken>>
      /\ pc' = [pc EXCEPT ![p] = "opened"] /\ ilocked' = [ilocked EXCEPT ![ip] = None]
  BY <1>2 DEF OpenAlloc, pipes
<1>4. /\ pc' \in [Process -> Label] /\ pc'[p] = "opened"
      /\ f0' \in [Process -> File \cup Process \cup {None}] /\ f0'[p] = f
      /\ \A q \in Process \ {p} : pc'[q] = pc[q] /\ f0'[q] = f0[q]
  BY <1>1, <1>3 DEF FilesTypeOK, Label
<1>5. Others(p)  BY <1>3, <1>4 DEF Others
<1>6. /\ ofile' \in [Process -> [Fd -> File \cup {None}]]
      /\ \A e \in Fd : ofile'[p][e] = IF e = d THEN f ELSE ofile[p][e]
      /\ \A q \in Process \ {p} : ofile'[q] = ofile[q]
  BY <1>1 DEF FilesTypeOK
<1>7. /\ ref' \in [File -> Int] /\ ref'[f] = 1 /\ type[f] = "NONE"
      /\ \A q \in Process : \A e \in Fd : ~Names(q, e, f)
  BY FileallocIs
<1>8. ilocked' \in [Inode -> Process \cup {None}] /\ \A jp \in Inode \ {ip} : ilocked'[jp] = ilocked[jp]
  BY <1>1, <1>3 DEF FilesTypeOK
<1>9. FilesTypeOK'  BY <1>1, <1>3, <1>4, <1>6, <1>7, <1>8 DEF FilesTypeOK
<1>10. \A z : Owes(p, z)' <=> Owes(p, z)  BY DEF Owes
<1>11. TodoInv(p)'  BY <1>1, <1>10 DEF TodoInv
<1>12. CallInv(p)'
  <2>1. Fresh(f)' /\ Has(p, f)'  BY <1>3, <1>6, <1>7 DEF Fresh, Has
  <2> QED  BY <1>2, <1>3, <1>4, <2>1 DEF CallInv, Fresh, Has
<1>13. NamedInv'
  <2>1. ASSUME NEW e \in Fd, ofile'[p][e] # None
        PROVE  \/ type'[ofile'[p][e]] # "NONE"
               \/ pc'[p] = "opened" /\ f0'[p] = ofile'[p][e]
    <3>1. CASE e = d  BY <1>4, <1>6, <3>1
    <3>2. CASE e # d
      <4>1. ofile'[p][e] = ofile[p][e]  BY <1>6, <3>2
      <4>2. type[ofile[p][e]] # "NONE"  BY <1>1, <2>1, <4>1, NamedTyped
      <4> QED  BY <1>3, <4>1, <4>2
    <3> QED  BY <3>1, <3>2
  <2> QED  BY <1>1, <1>3, <1>5, <1>6, <2>1, NamedOthers
<1>14. None \notin File  BY FilesAssumption
<1>15. \A e \in Fd \ {d}, g \in File : Names(p, e, g) <=> Names(p, e, g)'
  BY <1>6, <1>10 DEF Names
<1>16. \A g : ~Holds(p, g) /\ ~Holds(p, g)'  BY <1>1, <1>4 DEF Holds
<1>17. \A g \in File : ~Names(p, d, g) /\ (Names(p, d, g)' <=> g = f)
  BY <1>1, <1>6, <1>10, <1>14 DEF Names
<1>18. Uses(p, d, p, f)' = 1  BY <1>1, <1>10, <1>16, <1>17 DEF Uses, One
<1>19. \A g \in File \ {f} : Uses(p, d, p, g)' = Uses(p, d, p, g)
  BY <1>10, <1>16, <1>17 DEF Uses, One
<1>20. \A jp \in Inode : One(Owes(p, <<"locked", jp>>)') + One(Opens(p, jp)')
                         = One(Owes(p, <<"locked", jp>>)) + One(Opens(p, jp))
  <2>1. \A jp \in Inode : Opens(p, jp) <=> Opens(p, jp)'  BY <1>1, <1>3, <1>4 DEF Opens
  <2> QED  BY <1>10, <2>1 DEF One
<1>21. \A q \in Process \ {p}, jp \in Inode : ilocked[jp] = q => ilocked'[jp] = q
  BY <1>2, <1>8
<1> QED
  BY <1>1, <1>2, <1>3, <1>4, <1>5, <1>6, <1>9, <1>10, <1>11, <1>12, <1>13, <1>15, <1>18,
     <1>19, <1>20, <1>21, AllocStep

LEMMA OpenAllocInv ==
  ASSUME FilesInv, NEW p \in Process, OpenAlloc(p)
  PROVE  FilesInv'
<1>1. CASE /\ TableFull /\ Undo(p, <<<<"locked", f1[p]>>>>)
           /\ UNCHANGED <<ref, f0, ofile, ilocked>>
  BY <1>1, OpenFullInv
<1>2. CASE \E f \in File :
             /\ filealloc(f)
             /\ f0' = [f0 EXCEPT ![p] = f]
             /\ IF fdalloc(p) = -1
                THEN /\ Undo(p, <<<<"file", f>>, <<"locked", f1[p]>>>>)
                     /\ UNCHANGED <<ofile, ilocked>>
                ELSE /\ ofile' = [ofile EXCEPT ![p][fdalloc(p)] = f]
                     /\ ilocked' = [ilocked EXCEPT ![f1[p]] = None]
                     /\ Goto(p, "opened") /\ UNCHANGED todo
  <2>1. PICK f \in File :
             /\ filealloc(f)
             /\ f0' = [f0 EXCEPT ![p] = f]
             /\ IF fdalloc(p) = -1
                THEN /\ Undo(p, <<<<"file", f>>, <<"locked", f1[p]>>>>)
                     /\ UNCHANGED <<ofile, ilocked>>
                ELSE /\ ofile' = [ofile EXCEPT ![p][fdalloc(p)] = f]
                     /\ ilocked' = [ilocked EXCEPT ![f1[p]] = None]
                     /\ Goto(p, "opened") /\ UNCHANGED todo
    BY <1>2
  <2>2. CASE fdalloc(p) = -1  BY <2>1, <2>2, OpenNoFdInv
  <2>3. CASE fdalloc(p) # -1
    <3>1. PICK d \in Fd : d = fdalloc(p) /\ ofile[p][d] = None  BY <2>3, FdallocIs
    <3> QED  BY <2>1, <2>3, <3>1, OpenFdInv
  <2> QED  BY <2>2, <2>3
<1> QED  BY <1>1, <1>2 DEF OpenAlloc

\* The file of an open() that has succeeded is filled in.
LEMMA OpenFillInv ==
  ASSUME FilesInv, NEW p \in Process, OpenFill(p)
  PROVE  FilesInv'
<1>1. FilesTypeOK /\ EntryInv /\ pc[p] = "opened" /\ CallInv(p) /\ TodoInv(p) /\ NamedInv
      /\ todo[p] = <<>> /\ Return(p) /\ \A z : ~Owes(p, z)
  BY Quiet DEF FilesInv, OpenFill
<1>2. PICK f \in File, ip \in Inode :
        f0[p] = f /\ f1[p] = ip /\ type[f] = "NONE" /\ ref[f] = 1 /\ Mine(p, f)
  BY <1>1 DEF CallInv, Fresh, Mine
<1>3. /\ type' = [type EXCEPT ![f] = "INODE"] /\ obj' = [obj EXCEPT ![f] = ip]
      /\ off' = [off EXCEPT ![f] = 0] /\ writable' = [writable EXCEPT ![f] = FALSE]
      /\ UNCHANGED <<ref, got, ofile, live, iref, ilocked, todo, readopen, writeopen, taken>>
  BY <1>2 DEF OpenFill, pipes
<1>4. /\ pc' \in [Process -> Label] /\ pc'[p] = "user"
      /\ f0' \in [Process -> File \cup Process \cup {None}]
      /\ f1' \in [Process -> File \cup Inode \cup {None}] /\ idx' \in [Process -> Nat]
      /\ \A q \in Process \ {p} :
           pc'[q] = pc[q] /\ f0'[q] = f0[q] /\ f1'[q] = f1[q] /\ idx'[q] = idx[q]
  BY <1>1, ReturnIs
<1>5. Others(p)  BY <1>3, <1>4 DEF Others
<1>6. /\ type'[f] = "INODE" /\ obj'[f] = ip /\ off'[f] = 0
      /\ \A g \in File \ {f} : /\ type'[g] = type[g] /\ obj'[g] = obj[g] /\ off'[g] = off[g]
                               /\ writable'[g] = writable[g]
  BY <1>1, <1>3 DEF FilesTypeOK
<1>7. FilesTypeOK'
  <2>1. type' \in [File -> {"NONE", "PIPE", "INODE"}] /\ writable' \in [File -> BOOLEAN]
        /\ obj' \in [File -> Page \cup Inode \cup {None}] /\ off' \in [File -> Nat]
    BY <1>1, <1>3 DEF FilesTypeOK
  <2> QED  BY <1>1, <1>3, <1>4, <2>1 DEF FilesTypeOK
<1>8. CallInv(p)'  BY <1>4 DEF CallInv
<1>9. \A z : Owes(p, z)' <=> Owes(p, z)  BY <1>3 DEF Owes
<1>10. TodoInv(p)'  BY <1>1, <1>3, <1>9 DEF TodoInv
<1>11. off[f] = 0  BY <1>1, <1>2 DEF EntryInv
<1>12. EntryInv'
  <2>1. ASSUME NEW g \in File
        PROVE  /\ ref'[g] = 0 => type'[g] = "NONE"
               /\ type'[g] = "PIPE" => obj'[g] \in Page
               /\ type'[g] = "INODE" => obj'[g] \in Inode
               /\ type'[g] = "NONE" => off'[g] = 0
               /\ Len(got'[g]) = off'[g] /\ \A k \in 1 .. off'[g] : got'[g][k] = k - 1
    <3>1. CASE g = f  BY <1>1, <1>2, <1>3, <1>6, <1>11, <3>1 DEF EntryInv
    <3>2. CASE g # f  BY <1>1, <1>3, <1>6, <3>2 DEF EntryInv
    <3> QED  BY <3>1, <3>2
  <2> QED  BY <2>1 DEF EntryInv
<1>13. NamedInv'
  <2>1. ASSUME NEW d \in Fd, ofile'[p][d] # None
        PROVE  type'[ofile'[p][d]] # "NONE"
    <3>1. ofile'[p][d] = ofile[p][d] /\ ofile[p][d] \in File
      BY <1>1, <1>3, <2>1 DEF FilesTypeOK
    <3>2. type[ofile[p][d]] # "NONE" \/ ofile[p][d] = f
      BY <1>1, <1>2, <2>1, <3>1 DEF NamedInv
    <3> QED  BY <1>6, <3>1, <3>2
  <2>2. \A q \in Process, d \in Fd, g \in File :
          Names(q, d, g) /\ type[g] # "NONE" => type'[g] # "NONE"
    BY <1>6
  <2> QED  BY <1>1, <1>3, <1>5, <2>1, <2>2, NamedOthers
<1>14. ChildInv'  BY <1>1, <1>3, <1>4, <1>5, ChildSame
<1>15. RefsInv'
  <2>1. \A q \in Process, d \in Fd, g \in File : Names(q, d, g) <=> Names(q, d, g)'
    BY <1>3 DEF Names, Owes
  <2>2. \A g \in File : Holds(p, g)' <=> Holds(p, g)  BY <1>1, <1>4 DEF Holds
  <2> QED  BY <1>3, <1>5, <1>9, <2>1, <2>2, RefsSame
<1>16. EndsInv'
  <2>1. ASSUME NEW h \in File, NEW g \in Page, NEW w \in BOOLEAN
        PROVE  IsEnd(h, g, w) <=> IsEnd(h, g, w)'
    BY <1>2, <1>6 DEF IsEnd
  <2> QED  BY <1>3, <1>5, <1>9, <1>12, <1>15, <2>1, EndsSame
<1>17. InodesInv'
  <2>1. Filled /\ Filled'  BY <1>12, <1>15, FilledIs, FilledNext DEF FilesInv
  <2>2. ASSUME NEW jp \in Inode PROVE InodeCounted(jp)'
    <3>1. \A h \in File \ {f} : IsFile(h, jp) <=> IsFile(h, jp)'  BY <1>6 DEF IsFile
    <3>2. ~IsFile(f, jp) /\ (IsFile(f, jp)' <=> jp = ip)  BY <1>2, <1>6 DEF IsFile
    <3>3. (Opens(p, jp) <=> jp = ip) /\ ~Opens(p, jp)'  BY <1>1, <1>2, <1>4 DEF Opens
    <3>4. InodeCounted(jp) /\ iref[jp] \in Int  BY <1>1 DEF FilesInv, InodesInv, FilesTypeOK
    <3>5. Refers(f, p, jp)' = Refers(f, p, jp)  BY <1>9, <3>2, <3>3 DEF Refers, One
    <3>6. Refers(f, p, jp) \in Int  BY DEF Refers, One
    <3>7. iref'[jp] + Refers(f, p, jp) = iref[jp] + Refers(f, p, jp)'
      BY <1>3, <3>4, <3>5, <3>6
    <3>8. iref'[jp] \in Int  BY <1>3, <3>4
    <3> QED  BY <1>5, <2>1, <3>1, <3>4, <3>7, <3>8, InodeStep
  <2> QED  BY <2>2 DEF InodesInv
<1>18. \A q \in Process \ {p}, g \in File : Mine(q, g) => g # f
  BY <1>2, FreshAlone
<1>19. \A q \in Process \ {p} : pc[q] = "read" => f0[q] \in File \ {f}
  BY <1>2 DEF FilesInv, CallInv
<1>20. \A q \in Process \ {p} : pc[q] = "fork" => f0[q] \notin live'
  BY <1>3, <1>5, LiveSame
<1> QED
  BY <1>3, <1>5, <1>6, <1>7, <1>8, <1>10, <1>12, <1>13, <1>14, <1>15, <1>16, <1>17, <1>18,
     <1>19, <1>20, StepInv

-----------------------------------------------------------------------------
(* pipe *)

LEMMA PipeInv ==
  ASSUME FilesInv, NEW p \in Process, sys_pipe(p)
  PROVE  FilesInv'
<1> USE DEF AtUser, Goto
<1>1. FilesTypeOK /\ p \in live /\ pc[p] = "user" /\ TodoInv(p) /\ NamedInv
      /\ todo[p] = <<>> /\ \A z : ~Owes(p, z)
  BY Quiet DEF FilesInv, sys_pipe
<1>2. PICK f \in File : filealloc(f) /\ f0' = [f0 EXCEPT ![p] = f]  BY DEF sys_pipe
<1>3. UNCHANGED <<type, writable, obj, off, got, ofile, live, iref, ilocked, f1, idx, todo>>
      /\ UNCHANGED <<readopen, writeopen, taken>> /\ pc' = [pc EXCEPT ![p] = "pipe2"]
  BY DEF sys_pipe, pipes
<1>4. /\ pc' \in [Process -> Label] /\ pc'[p] = "pipe2"
      /\ f0' \in [Process -> File \cup Process \cup {None}] /\ f0'[p] = f
      /\ \A q \in Process \ {p} : pc'[q] = pc[q] /\ f0'[q] = f0[q]
  BY <1>1, <1>2, <1>3 DEF FilesTypeOK, Label
<1>5. Others(p)  BY <1>3, <1>4 DEF Others
<1>6. /\ ref' \in [File -> Int] /\ ref'[f] = 1 /\ type[f] = "NONE"
      /\ \A q \in Process : \A e \in Fd : ~Names(q, e, f)
  BY <1>2, FileallocIs
<1>7. FilesTypeOK'  BY <1>1, <1>3, <1>4, <1>6 DEF FilesTypeOK
<1>8. \A z : Owes(p, z)' <=> Owes(p, z)  BY <1>3 DEF Owes
<1>9. TodoInv(p)'  BY <1>1, <1>3, <1>8 DEF TodoInv
<1>10. CallInv(p)'
  <2>1. Fresh(f)'  BY <1>3, <1>6 DEF Fresh
  <2> QED  BY <1>1, <1>3, <1>4, <2>1 DEF CallInv, Fresh
<1>11. NamedInv'
  <2>1. \A d \in Fd : ofile'[p][d] # None => type'[ofile'[p][d]] # "NONE"
    BY <1>1, <1>3, NamedTyped
  <2> QED  BY <1>1, <1>3, <1>5, <2>1, NamedOthers
<1>12. 0 \in Fd  BY FilesAssumption DEF Fd
<1>13. \A e \in Fd, g \in File : Names(p, e, g) <=> Names(p, e, g)'
  BY <1>3, <1>8 DEF Names
<1>14. \A g : ~Holds(p, g) /\ (Holds(p, g)' <=> g = f)  BY <1>1, <1>4 DEF Holds
<1>15. Uses(p, 0, p, f)' = 1
  <2>1. ~Names(p, 0, f)' /\ ~Owes(p, <<"file", f>>)' /\ Holds(p, f)'
    BY <1>1, <1>6, <1>8, <1>12, <1>13, <1>14
  <2> QED  BY <2>1 DEF Uses, One
<1>16. \A g \in File \ {f} : Uses(p, 0, p, g)' = Uses(p, 0, p, g)
  BY <1>8, <1>12, <1>13, <1>14 DEF Uses, One
<1>17. \A ip \in Inode : ~Opens(p, ip) /\ ~Opens(p, ip)'  BY <1>1, <1>4 DEF Opens
<1>18. \A ip \in Inode : One(Owes(p, <<"locked", ip>>)') + One(Opens(p, ip)')
                         = One(Owes(p, <<"locked", ip>>)) + One(Opens(p, ip))
  BY <1>8, <1>17 DEF One
<1> QED
  BY <1>1, <1>2, <1>3, <1>4, <1>5, <1>7, <1>8, <1>9, <1>10, <1>11, <1>12, <1>13, <1>15,
     <1>16, <1>18, AllocStep

\* Without a second file the first one is closed.
LEMMA PipeFile2FullInv ==
  ASSUME FilesInv, NEW p \in Process, PipeFile2(p), Undo(p, <<<<"file", f0[p]>>>>),
         UNCHANGED <<ref, f1>>
  PROVE  FilesInv'
<1> USE DEF Undo, Goto
<1>1. FilesTypeOK /\ pc[p] = "pipe2" /\ CallInv(p) /\ NamedInv /\ \A z : ~Owes(p, z)
  BY Quiet DEF FilesInv, PipeFile2
<1>2. PICK f \in File : f0[p] = f /\ p \in live  BY <1>1 DEF CallInv, Fresh
<1>3. UNCHANGED <<ref, type, writable, obj, off>>
      /\ UNCHANGED <<got, live, iref, ofile, ilocked, f0, f1, idx, readopen, writeopen, taken>>
      /\ pc' = [pc EXCEPT ![p] = "undo"] /\ todo' = [todo EXCEPT ![p] = <<<<"file", f>>>>]
  BY <1>2 DEF PipeFile2, pipes
<1>4. pc' \in [Process -> Label] /\ pc'[p] = "undo" /\ \A q \in Process \ {p} : pc'[q] = pc[q]
  BY <1>1, <1>3 DEF FilesTypeOK, Label
<1>5. /\ DOMAIN todo' = Process /\ todo'[p] = <<<<"file", f>>>>
      /\ \A z : Owes(p, z)' <=> z = <<"file", f>>
      /\ \A q \in Process \ {p} : todo'[q] = todo[q]
  BY <1>1, <1>3, OwesOne
<1>6. Others(p)  BY <1>3, <1>4, <1>5 DEF Others
<1>7. FilesTypeOK'  BY <1>1, <1>3, <1>4, <1>5 DEF FilesTypeOK
<1>8. CallInv(p)'  BY <1>2, <1>3, <1>4 DEF CallInv
<1>9. TodoInv(p)'
  <2>1. <<"file", f>> \in Item  BY DEF Item
  <2>2. Shape(<<<<"file", f>>>>)  BY <2>1 DEF Shape
  <2>3. \A ip : ~Owes(p, <<"locked", ip>>)'  BY <1>5, KindsDiffer
  <2> QED  BY <1>4, <1>5, <2>2, <2>3 DEF TodoInv
<1>10. \A d : /\ ~Owes(p, <<"fd", d>>)' /\ (Owes(p, <<"file", d>>)' <=> d = f)
              /\ ~Owes(p, <<"inode", d>>)' /\ ~Owes(p, <<"locked", d>>)'
  BY <1>5, KindsDiffer
<1>11. \A g, w : ~Owes(p, <<"pipe", g, w>>)'  BY <1>5, KindsDiffer
<1>12. NamedInv'
  <2>1. \A d \in Fd : ofile'[p][d] # None => type'[ofile'[p][d]] # "NONE"
    BY <1>1, <1>3, NamedTyped
  <2> QED  BY <1>1, <1>3, <1>6, <2>1, NamedOthers
<1>13. ChildInv'  BY <1>1, <1>3, <1>4, <1>6, ChildSame
<1>14. RefsInv'
  <2>1. 0 \in Fd  BY FilesAssumption DEF Fd
  <2>2. ASSUME NEW g \in File PROVE RefCounted(g)'
    <3>1. ASSUME NEW q \in Process, NEW d \in Fd PROVE Names(q, d, g) <=> Names(q, d, g)'
      <4>1. CASE q = p  BY <1>1, <1>3, <1>10, <4>1 DEF Names
      <4>2. CASE q # p  BY <1>3, <1>6, <4>2, OthersKeep DEF Names
      <4> QED  BY <4>1, <4>2
    <3>2. RefCounted(g) /\ ref[g] \in Nat  BY RefNat DEF FilesInv, RefsInv
    <3>3. (Holds(p, g) <=> g = f) /\ ~Holds(p, g)'  BY <1>1, <1>2, <1>4 DEF Holds
    <3>4. ~Owes(p, <<"file", g>>) /\ (Owes(p, <<"file", g>>)' <=> g = f)  BY <1>1, <1>10
    <3>5. Names(p, 0, g) <=> Names(p, 0, g)'  BY <2>1, <3>1
    <3>6. Uses(p, 0, p, g)' = Uses(p, 0, p, g)  BY <3>3, <3>4, <3>5 DEF Uses, One
    <3>7. Uses(p, 0, p, g) \in Int  BY DEF Uses, One
    <3>8. ref'[g] + Uses(p, 0, p, g) = ref[g] + Uses(p, 0, p, g)' /\ ref'[g] \in Int
      BY <1>3, <3>2, <3>6, <3>7
    <3> QED  BY <1>6, <2>1, <3>1, <3>2, <3>8, RefStep
  <2> QED  BY <2>2 DEF RefsInv
<1>15. \A jp \in Inode : ~Opens(p, jp) /\ ~Opens(p, jp)'  BY <1>1, <1>4 DEF Opens
<1>16. \A jp \in Inode : One(Owes(p, <<"locked", jp>>)') + One(Opens(p, jp)')
                         = One(Owes(p, <<"locked", jp>>)) + One(Opens(p, jp))
  <2>1. \A jp \in Inode : ~Owes(p, <<"locked", jp>>) /\ ~Owes(p, <<"locked", jp>>)'
    BY <1>1, <1>10
  <2> QED  BY <1>15, <2>1 DEF One
<1>17. UNCHANGED ftable  BY <1>3 DEF ftable
<1> HIDE DEF Undo, Goto
<1> QED
  BY <1>1, <1>3, <1>6, <1>7, <1>8, <1>9, <1>10, <1>11, <1>12, <1>13, <1>14, <1>16, <1>17,
     LightStep

LEMMA PipeFile2Inv ==
  ASSUME FilesInv, NEW p \in Process, PipeFile2(p)
  PROVE  FilesInv'
<1> USE DEF Goto
<1>1. CASE Undo(p, <<<<"file", f0[p]>>>>) /\ UNCHANGED <<ref, f1>>
  BY <1>1, PipeFile2FullInv
<1>2. CASE \E f \in File : /\ filealloc(f) /\ f1' = [f1 EXCEPT ![p] = f]
                           /\ Goto(p, "page") /\ UNCHANGED todo
  <2>1. PICK f \in File : /\ filealloc(f) /\ f1' = [f1 EXCEPT ![p] = f]
                          /\ pc' = [pc EXCEPT ![p] = "page"] /\ UNCHANGED todo
    BY <1>2
  <2>2. FilesTypeOK /\ pc[p] = "pipe2" /\ CallInv(p) /\ TodoInv(p) /\ NamedInv
        /\ todo[p] = <<>> /\ \A z : ~Owes(p, z)
    BY Quiet DEF FilesInv, PipeFile2
  <2>3. PICK a \in File : f0[p] = a /\ p \in live /\ Fresh(a)  BY <2>2 DEF CallInv, Fresh
  <2>4. UNCHANGED <<type, writable, obj, off, got, ofile, live, iref, ilocked, f0, idx, todo>>
        /\ UNCHANGED <<readopen, writeopen, taken>>
    BY <2>1 DEF PipeFile2, pipes
  <2>5. /\ pc' \in [Process -> Label] /\ pc'[p] = "page"
        /\ f1' \in [Process -> File \cup Inode \cup {None}] /\ f1'[p] = f
        /\ \A q \in Process \ {p} : pc'[q] = pc[q] /\ f1'[q] = f1[q]
    BY <2>1, <2>2 DEF FilesTypeOK, Label
  <2>6. Others(p)  BY <2>4, <2>5 DEF Others
  <2>7. /\ ref[f] = 0 /\ type[f] = "NONE" /\ ref' \in [File -> Int]
        /\ \A g \in File : ref'[g] = IF g = f THEN 1 ELSE ref[g]
        /\ \A q \in Process : \A e \in Fd : ~Names(q, e, f)
    BY <2>1, FileallocIs
  <2>8. a # f  BY <2>3, <2>7 DEF Fresh
  <2>9. FilesTypeOK'  BY <2>2, <2>4, <2>5, <2>7 DEF FilesTypeOK
  <2>10. \A z : Owes(p, z)' <=> Owes(p, z)  BY <2>4 DEF Owes
  <2>11. TodoInv(p)'  BY <2>2, <2>4, <2>10 DEF TodoInv
  <2>12. CallInv(p)'
    <3>1. Fresh(f)' /\ Fresh(a)'  BY <2>3, <2>4, <2>7, <2>8 DEF Fresh
    <3> QED  BY <2>3, <2>4, <2>5, <2>8, <3>1 DEF CallInv, Fresh
  <2>13. NamedInv'
    <3>1. \A d \in Fd : ofile'[p][d] # None => type'[ofile'[p][d]] # "NONE"
      BY <2>2, <2>4, NamedTyped
    <3> QED  BY <2>2, <2>4, <2>6, <3>1, NamedOthers
  <2>14. 0 \in Fd  BY FilesAssumption DEF Fd
  <2>15. \A e \in Fd, g \in File : Names(p, e, g) <=> Names(p, e, g)'
    BY <2>4, <2>10 DEF Names
  <2>16. \A g : (Holds(p, g) <=> g = a) /\ (Holds(p, g)' <=> g = a \/ g = f)
    BY <2>2, <2>3, <2>4, <2>5 DEF Holds
  <2>17. Uses(p, 0, p, f)' = 1
    <3>1. ~Names(p, 0, f)' /\ ~Owes(p, <<"file", f>>)' /\ Holds(p, f)'
      BY <2>2, <2>7, <2>10, <2>14, <2>15, <2>16
    <3> QED  BY <3>1 DEF Uses, One
  <2>18. \A g \in File \ {f} : Uses(p, 0, p, g)' = Uses(p, 0, p, g)
    BY <2>10, <2>14, <2>15, <2>16 DEF Uses, One
  <2>19. \A ip \in Inode : ~Opens(p, ip) /\ ~Opens(p, ip)'  BY <2>2, <2>5 DEF Opens
  <2>20. \A ip \in Inode : One(Owes(p, <<"locked", ip>>)') + One(Opens(p, ip)')
                           = One(Owes(p, <<"locked", ip>>)) + One(Opens(p, ip))
    BY <2>10, <2>19 DEF One
  <2>21. filealloc(f) /\ pc[p] # "fork" /\ pc'[p] # "fork" /\ p \in live
    BY <2>1, <2>2, <2>3, <2>5
  <2> QED
    BY <2>4, <2>6, <2>9, <2>10, <2>11, <2>12, <2>13, <2>14, <2>15, <2>17, <2>18, <2>20,
       <2>21, AllocStep
<1> QED  BY <1>1, <1>2 DEF PipeFile2

\* Two files that a call holds are to be closed.
LEMMA TwoBack ==
  ASSUME FilesInv, NEW p \in Process, NEW a \in File, NEW b \in File, a # b,
         pc[p] = "page", f0[p] = a, f1[p] = b,
         Undo(p, <<<<"file", a>>, <<"file", b>>>>), UNCHANGED <<ref, ofile, f0, f1, idx>>
  PROVE  /\ Others(p) /\ pc' \in [Process -> Label] /\ pc'[p] = "undo"
         /\ DOMAIN todo' = Process /\ TodoInv(p)' /\ RefsInv'
         /\ \A d : ~Owes(p, <<"fd", d>>)' /\ ~Owes(p, <<"inode", d>>)' /\ ~Owes(p, <<"locked", d>>)'
         /\ \A g, w : ~Owes(p, <<"pipe", g, w>>)'
<1> USE DEF Undo, Goto
<1>1. FilesTypeOK /\ \A z : ~Owes(p, z)  BY Quiet DEF FilesInv
<1>2. pc' \in [Process -> Label] /\ pc'[p] = "undo" /\ \A q \in Process \ {p} : pc'[q] = pc[q]
  BY <1>1 DEF FilesTypeOK, Label
<1>3. /\ DOMAIN todo' = Process /\ todo'[p] = <<<<"file", a>>, <<"file", b>>>>
      /\ \A z : Owes(p, z)' <=> z = <<"file", a>> \/ z = <<"file", b>>
      /\ \A q \in Process \ {p} : todo'[q] = todo[q]
  <2>1. todo'[p] = <<<<"file", a>>, <<"file", b>>>> /\ DOMAIN todo' = Process
        /\ \A q \in Process \ {p} : todo'[q] = todo[q]
    BY <1>1 DEF FilesTypeOK
  <2>2. \A z : Owes(p, z)' <=> In(todo'[p], z)  BY DEF Owes, In
  <2> QED  BY <2>1, <2>2, InSeq
<1>4. Others(p)  BY <1>2, <1>3 DEF Others
<1>5. \A d : /\ ~Owes(p, <<"fd", d>>)' /\ (Owes(p, <<"file", d>>)' <=> d = a \/ d = b)
             /\ ~Owes(p, <<"inode", d>>)' /\ ~Owes(p, <<"locked", d>>)'
  BY <1>3, KindsDiffer
<1>6. \A g, w : ~Owes(p, <<"pipe", g, w>>)'  BY <1>3, KindsDiffer
<1>7. TodoInv(p)'
  <2>1. <<"file", a>> \in Item /\ <<"file", b>> \in Item /\ <<"file", b>>[1] = "file"
        /\ <<"file", a>> # <<"file", b>>
    BY DEF Item
  <2>2. Shape(<<<<"file", a>>, <<"file", b>>>>)  BY <2>1 DEF Shape
  <2> QED  BY <1>2, <1>3, <1>5, <2>2 DEF TodoInv
<1>8. RefsInv'
  <2>1. 0 \in Fd  BY FilesAssumption DEF Fd
  <2>2. ASSUME NEW g \in File PROVE RefCounted(g)'
    <3>1. ASSUME NEW q \in Process, NEW d \in Fd PROVE Names(q, d, g) <=> Names(q, d, g)'
      <4>1. CASE q = p  BY <1>1, <1>5, <4>1 DEF Names
      <4>2. CASE q # p  BY <1>4, <4>2, OthersKeep DEF Names
      <4> QED  BY <4>1, <4>2
    <3>2. RefCounted(g) /\ ref[g] \in Nat  BY RefNat DEF FilesInv, RefsInv
    <3>3. (Holds(p, g) <=> g = a \/ g = b) /\ ~Holds(p, g)'  BY <1>2 DEF Holds
    <3>4. ~Owes(p, <<"file", g>>) /\ (Owes(p, <<"file", g>>)' <=> g = a \/ g = b)
      BY <1>1, <1>5
    <3>5. Names(p, 0, g) <=> Names(p, 0, g)'  BY <2>1, <3>1
    <3>6. Uses(p, 0, p, g)' = Uses(p, 0, p, g)  BY <3>3, <3>4, <3>5 DEF Uses, One
    <3>7. Uses(p, 0, p, g) \in Int  BY DEF Uses, One
    <3>8. ref'[g] + Uses(p, 0, p, g) = ref[g] + Uses(p, 0, p, g)' /\ ref'[g] \in Int
      BY <3>2, <3>6, <3>7
    <3> QED  BY <1>4, <2>1, <3>1, <3>2, <3>8, RefStep
  <2> QED  BY <2>2 DEF RefsInv
<1> QED  BY <1>2, <1>3, <1>4, <1>5, <1>6, <1>7, <1>8

\* pipe() without a page.
LEMMA PipeNoPageInv ==
  ASSUME FilesInv, NEW p \in Process, PipePage(p),
         Undo(p, <<<<"file", f0[p]>>, <<"file", f1[p]>>>>),
         UNCHANGED <<type, obj, writable, pipes, ofile, f0, f1, idx>>
  PROVE  FilesInv'
<1>1. FilesTypeOK /\ pc[p] = "page" /\ CallInv(p) /\ NamedInv /\ \A z : ~Owes(p, z)
  BY Quiet DEF FilesInv, PipePage
<1>2. PICK a \in File, b \in File : f0[p] = a /\ f1[p] = b /\ a # b /\ p \in live
  BY <1>1 DEF CallInv, Fresh
<1>3. UNCHANGED <<ref, type, writable, obj, off>>
      /\ UNCHANGED <<got, live, iref, ofile, ilocked, f0, f1, idx, readopen, writeopen, taken>>
  BY DEF PipePage, pipes
<1>4. Undo(p, <<<<"file", a>>, <<"file", b>>>>)  BY <1>2
<1>5. /\ Others(p) /\ pc' \in [Process -> Label] /\ pc'[p] = "undo"
      /\ DOMAIN todo' = Process /\ TodoInv(p)' /\ RefsInv'
      /\ \A d : ~Owes(p, <<"fd", d>>)' /\ ~Owes(p, <<"inode", d>>)' /\ ~Owes(p, <<"locked", d>>)'
      /\ \A g, w : ~Owes(p, <<"pipe", g, w>>)'
  BY <1>1, <1>2, <1>3, <1>4, TwoBack
<1>6. FilesTypeOK'  BY <1>1, <1>3, <1>5 DEF FilesTypeOK
<1>7. CallInv(p)'  BY <1>2, <1>3, <1>5 DEF CallInv
<1>8. NamedInv'
  <2>1. \A d \in Fd : ofile'[p][d] # None => type'[ofile'[p][d]] # "NONE"
    BY <1>1, <1>3, NamedTyped
  <2> QED  BY <1>1, <1>3, <1>5, <2>1, NamedOthers
<1>9. ChildInv'  BY <1>1, <1>3, <1>5, ChildSame
<1>10. \A jp \in Inode : ~Opens(p, jp) /\ ~Opens(p, jp)'  BY <1>1, <1>5 DEF Opens
<1>11. \A jp \in Inode : One(Owes(p, <<"locked", jp>>)') + One(Opens(p, jp)')
                         = One(Owes(p, <<"locked", jp>>)) + One(Opens(p, jp))
  BY <1>1, <1>5, <1>10 DEF One
<1>12. UNCHANGED ftable  BY <1>3 DEF ftable
<1> QED
  BY <1>1, <1>3, <1>5, <1>6, <1>7, <1>8, <1>9, <1>11, <1>12, LightStep

\* Both files are filled in with the ends of a new pipe.
LEMMA PageStep ==
  ASSUME FilesInv, NEW p \in Process, NEW a \in File, NEW b \in File, a # b,
         pc[p] = "page", f0[p] = a, f1[p] = b, NEW g \in Page \ taken,
         taken' = taken \cup {g}, readopen' = readopen \cup {g},
         writeopen' = writeopen \cup {g},
         type' = [type EXCEPT ![a] = "PIPE", ![b] = "PIPE"],
         obj' = [obj EXCEPT ![a] = g, ![b] = g],
         writable' = [writable EXCEPT ![a] = FALSE, ![b] = TRUE],
         UNCHANGED <<ref, off, live, iref, ilocked, got>>,
         Others(p), pc' \in [Process -> Label], DOMAIN todo' = Process,
         ofile' \in [Process -> [Fd -> File \cup {None}]],
         f0' \in [Process -> File \cup Process \cup {None}],
         f1' \in [Process -> File \cup Inode \cup {None}], idx' \in [Process -> Nat],
         pc'[p] \in {"user", "undo"}, TodoInv(p)', RefsInv',
         \A q \in Process \ {p} : ofile'[q] = ofile[q],
         \A d \in Fd : ofile'[p][d] \in {ofile[p][d], a, b},
         \A d : ~Owes(p, <<"inode", d>>)' /\ ~Owes(p, <<"locked", d>>)',
         \A h, w : ~Owes(p, <<"pipe", h, w>>)'
  PROVE  FilesInv'
<1>1. FilesTypeOK /\ EntryInv /\ CallInv(p) /\ NamedInv /\ \A z : ~Owes(p, z)
  BY Quiet DEF FilesInv
<1>2. Fresh(a) /\ Fresh(b) /\ p \in live /\ Mine(p, a) /\ Mine(p, b)
  BY <1>1 DEF CallInv, Mine, Holds
<1>3. type[a] = "NONE" /\ type[b] = "NONE" /\ ref[a] = 1 /\ ref[b] = 1  BY <1>2 DEF Fresh
<1>4. /\ type'[a] = "PIPE" /\ type'[b] = "PIPE" /\ obj'[a] = g /\ obj'[b] = g
      /\ writable'[a] = FALSE /\ writable'[b] = TRUE
      /\ \A h \in File \ {a, b} :
           type'[h] = type[h] /\ obj'[h] = obj[h] /\ writable'[h] = writable[h]
  BY <1>1 DEF FilesTypeOK
<1>5. FilesTypeOK'
  <2>1. type' \in [File -> {"NONE", "PIPE", "INODE"}] /\ writable' \in [File -> BOOLEAN]
        /\ obj' \in [File -> Page \cup Inode \cup {None}]
    BY <1>1 DEF FilesTypeOK
  <2>2. readopen' \subseteq Page /\ writeopen' \subseteq Page /\ taken' \subseteq Page
    BY <1>1 DEF FilesTypeOK
  <2> QED  BY <1>1, <2>1, <2>2 DEF FilesTypeOK
<1>6. CallInv(p)'  BY <1>2 DEF CallInv
<1>7. EntryInv'
  <2>1. ASSUME NEW h \in File
        PROVE  /\ ref'[h] = 0 => type'[h] = "NONE"
               /\ type'[h] = "PIPE" => obj'[h] \in Page
               /\ type'[h] = "INODE" => obj'[h] \in Inode
               /\ type'[h] = "NONE" => off'[h] = 0
               /\ Len(got'[h]) = off'[h] /\ \A k \in 1 .. off'[h] : got'[h][k] = k - 1
    <3>1. CASE h \in {a, b}  BY <1>1, <1>3, <1>4, <3>1 DEF EntryInv
    <3>2. CASE h \notin {a, b}
      <4>1. type'[h] = type[h] /\ obj'[h] = obj[h]  BY <1>4, <3>2
      <4> QED  BY <1>1, <4>1 DEF EntryInv
    <3> QED  BY <3>1, <3>2
  <2> QED  BY <2>1 DEF EntryInv
<1>8. NamedInv'
  <2>1. ASSUME NEW d \in Fd, ofile'[p][d] # None
        PROVE  type'[ofile'[p][d]] # "NONE"
    <3>1. CASE ofile'[p][d] \in {a, b}  BY <1>4, <3>1
    <3>2. CASE ofile'[p][d] \notin {a, b}
      <4>1. ofile'[p][d] = ofile[p][d] /\ ofile[p][d] \in File \ {a, b}
        BY <1>1, <2>1, <3>2 DEF FilesTypeOK
      <4>2. type[ofile[p][d]] # "NONE"  BY <1>1, <2>1, <4>1 DEF NamedInv
      <4> QED  BY <1>4, <4>1, <4>2
    <3> QED  BY <3>1, <3>2
  <2>2. \A q \in Process, d \in Fd, h \in File :
          Names(q, d, h) /\ type[h] # "NONE" => type'[h] # "NONE"
    BY <1>4
  <2> QED  BY <1>1, <2>1, <2>2, NamedOthers
<1>9. ChildInv'
  <2>1. pc[p] # "fork" /\ pc'[p] # "fork" /\ \A c \in Process \ live : ofile'[c] = ofile[c]
    BY <1>2
  <2> QED  BY <2>1, ChildSame
<1>10. Filled /\ Filled'  BY <1>7, FilledIs, FilledNext DEF FilesInv
<1>11. taken = readopen \cup writeopen  BY DEF FilesInv, EndsInv
<1>12. EndsInv'
  <2>1. ASSUME NEW k \in Page, NEW w \in BOOLEAN PROVE EndCounted(k, w)'
    <3>1. PICK h \in File : h = IF w THEN b ELSE a  OBVIOUS
    <3>2. ASSUME NEW f \in File \ {h} PROVE IsEnd(f, k, w) <=> IsEnd(f, k, w)'
      <4>1. CASE f \in {a, b}
        <5>1. type[f] = "NONE" /\ writable'[f] # w  BY <1>3, <1>4, <3>1, <4>1
        <5> QED  BY <5>1 DEF IsEnd
      <4>2. CASE f \notin {a, b}
        <5>1. type'[f] = type[f] /\ obj'[f] = obj[f] /\ writable'[f] = writable[f]
          BY <1>4, <4>2
        <5> QED  BY <5>1 DEF IsEnd
      <4> QED  BY <4>1, <4>2
    <3>3. EndCounted(k, w)  BY DEF FilesInv, EndsInv
    <3>4. ~IsEnd(h, k, w) /\ (IsEnd(h, k, w)' <=> k = g)
      <4>1. type[h] = "NONE" /\ type'[h] = "PIPE" /\ obj'[h] = g /\ writable'[h] = w
        BY <1>3, <1>4, <3>1
      <4> QED  BY <4>1 DEF IsEnd
    <3>5. ~Owes(p, <<"pipe", k, w>>) /\ ~Owes(p, <<"pipe", k, w>>)'  BY <1>1
    <3>6. (IsOpen(k, w)' <=> IsOpen(k, w) \/ k = g) /\ (k = g => ~IsOpen(k, w))
      BY <1>11 DEF IsOpen
    <3>7. One(IsOpen(k, w)') + One(IsEnd(h, k, w)) + One(Owes(p, <<"pipe", k, w>>))
           = One(IsOpen(k, w)) + One(IsEnd(h, k, w)') + One(Owes(p, <<"pipe", k, w>>)')
      BY <3>4, <3>5, <3>6 DEF One
    <3> QED  BY <1>10, <3>2, <3>3, <3>7, EndStep
  <2> QED  BY <1>11, <2>1 DEF EndsInv
<1>13. InodesInv'
  <2>1. \A f \in File, ip \in Inode : IsFile(f, ip) <=> IsFile(f, ip)'
    BY <1>3, <1>4 DEF IsFile
  <2>2. \A ip \in Inode : Opens(p, ip)' <=> Opens(p, ip)  BY DEF Opens
  <2> QED  BY <1>1, <1>7, <2>1, <2>2, InodesSame
<1>14. ASSUME NEW q \in Process \ {p}, NEW h \in File, Mine(q, h) PROVE h \notin {a, b}
  <2>1. ~Mine(p, h)  BY <1>14, FreshAlone
  <2> QED  BY <1>2, <2>1
<1>15. \A q \in Process \ {p} : pc[q] = "read" => f0[q] \in File \ {a, b}
  BY <1>3 DEF FilesInv, CallInv
<1>16. \A q \in Process \ {p} : pc[q] = "fork" => f0[q] \notin live'  BY LiveSame
<1>17. ASSUME NEW q \in Process \ {p}
       PROVE  /\ q \in live => q \in live' /\ ofile'[q] = ofile[q]
              /\ pc[q] = "fork" => f0[q] \notin live'
              /\ \A h \in File : Mine(q, h) => type'[h] = type[h] /\ ref'[h] = ref[h]
              /\ pc[q] = "read" => /\ type'[f0[q]] = type[f0[q]] /\ obj'[f0[q]] = obj[f0[q]]
                                   /\ off'[f0[q]] = off[f0[q]]
              /\ \A ip \in Inode : ilocked[ip] = q => ilocked'[ip] = q
  BY <1>4, <1>14, <1>15, <1>16
<1> QED
  BY <1>5, <1>6, <1>7, <1>8, <1>9, <1>12, <1>13, <1>17, StepInv, Zenon

\* The two lowest free descriptors.
LEMMA TwoFds ==
  ASSUME NEW p, ~(Cardinality(FreeFds(p)) < 2)
  PROVE  LET d == Min(FreeFds(p))
             e == Min(FreeFds(p) \ {d})
         IN d \in Fd /\ e \in Fd /\ d # e /\ ofile[p][d] = None /\ ofile[p][e] = None
<1> DEFINE S == FreeFds(p)
           d == Min(S)
           T == S \ {d}
           e == Min(T)
<1>1. S \in SUBSET Fd /\ S \in SUBSET Nat /\ T \in SUBSET Nat  BY DEF FreeFds, Fd
<1>2. IsFiniteSet(Fd)  BY FilesAssumption, FS_Interval DEF Fd
<1>3. IsFiniteSet(S)  BY <1>1, <1>2, FS_Subset
<1>4. Cardinality(S) \in Nat /\ Cardinality(S) >= 2
  <2>1. Cardinality(S) \in Nat  BY <1>3, FS_CardinalityType
  <2> QED  BY <2>1
<1> HIDE DEF S
<1>5. S # {}  BY <1>3, <1>4, FS_EmptySet
<1>6. d \in S  BY <1>1, <1>5, MinOfNat
<1>7. IsFiniteSet(T) /\ Cardinality(T) = Cardinality(S) - 1  BY <1>3, <1>6, FS_RemoveElement
<1>8. T # {}  BY <1>4, <1>7, FS_EmptySet
<1>9. e \in T  BY <1>1, <1>8, MinOfNat
<1>10. d \in S /\ e \in S /\ d # e  BY <1>6, <1>9
<1> QED  BY <1>1, <1>10 DEF S, FreeFds

\* pipe() with a page and descriptors.
LEMMA PipeFdsInv ==
  ASSUME FilesInv, NEW p \in Process, NEW a \in File, NEW b \in File, a # b,
         pc[p] = "page", f0[p] = a, f1[p] = b, NEW g \in Page \ taken,
         taken' = taken \cup {g}, readopen' = readopen \cup {g},
         writeopen' = writeopen \cup {g},
         type' = [type EXCEPT ![a] = "PIPE", ![b] = "PIPE"],
         obj' = [obj EXCEPT ![a] = g, ![b] = g],
         writable' = [writable EXCEPT ![a] = FALSE, ![b] = TRUE],
         UNCHANGED <<ref, off, live, iref, ilocked, got>>,
         NEW d \in Fd, NEW e \in Fd, d # e, ofile[p][d] = None, ofile[p][e] = None,
         ofile' = [ofile EXCEPT ![p][d] = a, ![p][e] = b], Return(p), UNCHANGED todo
  PROVE  FilesInv'
<1>1. FilesTypeOK /\ CallInv(p) /\ TodoInv(p) /\ todo[p] = <<>> /\ \A z : ~Owes(p, z)
  BY Quiet DEF FilesInv
<1>2. /\ pc' \in [Process -> Label] /\ pc'[p] = "user"
      /\ f0' \in [Process -> File \cup Process \cup {None}]
      /\ f1' \in [Process -> File \cup Inode \cup {None}] /\ idx' \in [Process -> Nat]
      /\ \A q \in Process \ {p} :
           pc'[q] = pc[q] /\ f0'[q] = f0[q] /\ f1'[q] = f1[q] /\ idx'[q] = idx[q]
  BY <1>1, ReturnIs
<1>3. Others(p)  BY <1>2 DEF Others
<1>4. /\ ofile' \in [Process -> [Fd -> File \cup {None}]]
      /\ ofile'[p][d] = a /\ ofile'[p][e] = b
      /\ \A x \in Fd \ {d, e} : ofile'[p][x] = ofile[p][x]
      /\ \A q \in Process \ {p} : ofile'[q] = ofile[q]
  BY <1>1 DEF FilesTypeOK
<1>5. \A z : Owes(p, z)' <=> Owes(p, z)  BY DEF Owes
<1>6. TodoInv(p)'  BY <1>1, <1>5 DEF TodoInv
<1>7. None \notin File  BY FilesAssumption
<1>8. RefsInv'
  <2>1. ASSUME NEW h \in File PROVE RefCounted(h)'
    <3>1. PICK x \in Fd : x = IF h = b THEN e ELSE d  OBVIOUS
    <3>2. ASSUME NEW q \in Process, NEW y \in Fd, q # p \/ y # x
          PROVE  Names(q, y, h) <=> Names(q, y, h)'
      <4>1. CASE q = p
        <5>1. ofile'[p][y] = h <=> ofile[p][y] = h  BY <1>4, <1>7, <3>1, <3>2, <4>1
        <5> QED  BY <1>1, <1>5, <4>1, <5>1 DEF Names
      <4>2. CASE q # p  BY <1>3, <1>4, <4>2, OthersKeep DEF Names
      <4> QED  BY <4>1, <4>2
    <3>3. RefCounted(h) /\ ref[h] \in Nat  BY RefNat DEF FilesInv, RefsInv
    <3>4. (Holds(p, h) <=> h = a \/ h = b) /\ ~Holds(p, h)'  BY <1>2 DEF Holds
    <3>5. ~Owes(p, <<"file", h>>) /\ ~Owes(p, <<"file", h>>)'  BY <1>1, <1>5
    <3>6. ~Names(p, x, h) /\ (Names(p, x, h)' <=> h = a \/ h = b)
      BY <1>1, <1>4, <1>5, <1>7, <3>1 DEF Names
    <3>7. Uses(p, x, p, h)' = Uses(p, x, p, h)  BY <3>4, <3>5, <3>6 DEF Uses, One
    <3>8. Uses(p, x, p, h) \in Int  BY DEF Uses, One
    <3>9. ref'[h] + Uses(p, x, p, h) = ref[h] + Uses(p, x, p, h)' /\ ref'[h] \in Int
      BY <3>3, <3>7, <3>8
    <3> QED  BY <1>3, <3>2, <3>3, <3>9, RefStep
  <2> QED  BY <2>1 DEF RefsInv
<1>9. DOMAIN todo' = Process  BY <1>1 DEF FilesTypeOK
<1>10. \A x \in Fd : ofile'[p][x] \in {ofile[p][x], a, b}  BY <1>4
<1>11. /\ \A x : ~Owes(p, <<"inode", x>>)' /\ ~Owes(p, <<"locked", x>>)'
       /\ \A h, w : ~Owes(p, <<"pipe", h, w>>)'
  BY <1>1, <1>5
<1>12. pc'[p] \in {"user", "undo"}  BY <1>2
<1> QED  BY <1>2, <1>3, <1>4, <1>6, <1>8, <1>9, <1>10, <1>11, <1>12, PageStep

LEMMA PipePageInv ==
  ASSUME FilesInv, NEW p \in Process, PipePage(p)
  PROVE  FilesInv'
<1>1. CASE /\ Undo(p, <<<<"file", f0[p]>>, <<"file", f1[p]>>>>)
           /\ UNCHANGED <<type, obj, writable, pipes, ofile, f0, f1, idx>>
  BY <1>1, PipeNoPageInv
<1>2. CASE \E g \in Page \ taken :
             /\ taken' = taken \cup {g}
             /\ readopen' = readopen \cup {g} /\ writeopen' = writeopen \cup {g}
             /\ type' = [type EXCEPT ![f0[p]] = "PIPE", ![f1[p]] = "PIPE"]
             /\ obj' = [obj EXCEPT ![f0[p]] = g, ![f1[p]] = g]
             /\ writable' = [writable EXCEPT ![f0[p]] = FALSE, ![f1[p]] = TRUE]
             /\ Descriptors(p)
  <2>1. FilesTypeOK /\ pc[p] = "page" /\ CallInv(p)  BY DEF FilesInv, PipePage
  <2>2. PICK a \in File, b \in File : f0[p] = a /\ f1[p] = b /\ a # b
    BY <2>1 DEF CallInv, Fresh
  <2>3. UNCHANGED <<ref, off, live, iref, ilocked, got>>  BY DEF PipePage
  <2>4. PICK g \in Page \ taken :
             /\ taken' = taken \cup {g}
             /\ readopen' = readopen \cup {g} /\ writeopen' = writeopen \cup {g}
             /\ type' = [type EXCEPT ![a] = "PIPE", ![b] = "PIPE"]
             /\ obj' = [obj EXCEPT ![a] = g, ![b] = g]
             /\ writable' = [writable EXCEPT ![a] = FALSE, ![b] = TRUE]
             /\ Descriptors(p)
    BY <1>2, <2>2
  <2>5. CASE Cardinality(FreeFds(p)) < 2
    <3>1. Undo(p, <<<<"file", a>>, <<"file", b>>>>) /\ UNCHANGED <<ofile, f0, f1, idx>>
      BY <2>2, <2>4, <2>5 DEF Descriptors
    <3>2. /\ Others(p) /\ pc' \in [Process -> Label] /\ pc'[p] = "undo"
          /\ DOMAIN todo' = Process /\ TodoInv(p)' /\ RefsInv'
          /\ \A d : ~Owes(p, <<"fd", d>>)' /\ ~Owes(p, <<"inode", d>>)' /\ ~Owes(p, <<"locked", d>>)'
          /\ \A h, w : ~Owes(p, <<"pipe", h, w>>)'
      BY <2>1, <2>2, <2>3, <3>1, TwoBack
    <3>3. /\ ofile' \in [Process -> [Fd -> File \cup {None}]]
          /\ f0' \in [Process -> File \cup Process \cup {None}]
          /\ f1' \in [Process -> File \cup Inode \cup {None}] /\ idx' \in [Process -> Nat]
          /\ \A q \in Process \ {p} : ofile'[q] = ofile[q]
          /\ \A d \in Fd : ofile'[p][d] \in {ofile[p][d], a, b}
          /\ pc'[p] \in {"user", "undo"}
      BY <2>1, <3>1, <3>2 DEF FilesTypeOK
    <3> QED  BY <2>1, <2>2, <2>3, <2>4, <3>2, <3>3, PageStep
  <2>6. CASE ~(Cardinality(FreeFds(p)) < 2)
    <3>1. PICK d \in Fd, e \in Fd :
            /\ d = Min(FreeFds(p)) /\ e = Min(FreeFds(p) \ {d})
            /\ d # e /\ ofile[p][d] = None /\ ofile[p][e] = None
      BY <2>6, TwoFds
    <3>2. ofile' = [ofile EXCEPT ![p][d] = a, ![p][e] = b] /\ Return(p) /\ UNCHANGED todo
      BY <2>2, <2>4, <2>6, <3>1 DEF Descriptors
    <3> QED  BY <2>1, <2>2, <2>3, <2>4, <3>1, <3>2, PipeFdsInv
  <2> QED  BY <2>5, <2>6
<1> QED  BY <1>1, <1>2 DEF PipePage

-----------------------------------------------------------------------------
(* The specification *)

LEMMA FilesInitInv == FilesInit => FilesInv
<1> SUFFICES ASSUME FilesInit PROVE FilesInv  OBVIOUS
<1>1. init \in Process /\ None \notin File  BY FilesAssumption
<1>2. FilesTypeOK
  <2>1. 0 \in Int /\ 0 \in Nat /\ <<>> \in Seq(Nat)  OBVIOUS
  <2>2. /\ ref \in [File -> Int] /\ type \in [File -> {"NONE", "PIPE", "INODE"}]
        /\ writable \in [File -> BOOLEAN] /\ obj \in [File -> Page \cup Inode \cup {None}]
        /\ off \in [File -> Nat] /\ got \in [File -> Seq(Nat)]
    BY <2>1 DEF FilesInit
  <2>3. /\ ofile \in [Process -> [Fd -> File \cup {None}]] /\ live \subseteq Process
        /\ readopen \subseteq Page /\ writeopen \subseteq Page /\ taken \subseteq Page
        /\ iref \in [Inode -> Int] /\ ilocked \in [Inode -> Process \cup {None}]
    BY <1>1, <2>1 DEF FilesInit
  <2>4. /\ pc \in [Process -> Label] /\ idx \in [Process -> Nat]
        /\ f0 \in [Process -> File \cup Process \cup {None}]
        /\ f1 \in [Process -> File \cup Inode \cup {None}] /\ DOMAIN todo = Process
    BY <2>1 DEF FilesInit, Label
  <2> QED  BY <2>2, <2>3, <2>4 DEF FilesTypeOK
<1>3. \A q \in Process : todo[q] = <<>> /\ pc[q] = "user"  BY DEF FilesInit
<1>4. \A q \in Process : \A z : ~Owes(q, z)  BY <1>3, OwesIn, InSeq
<1>5. \A q \in Process : TodoInv(q) /\ CallInv(q)
  BY <1>3, <1>4 DEF TodoInv, CallInv, Shape
<1>6. \A q \in Process, d \in Fd : ofile[q][d] = None  BY DEF FilesInit
<1>7. NamedInv /\ ChildInv  BY <1>3, <1>6 DEF NamedInv, ChildInv
<1>8. EntryInv  BY DEF FilesInit, EntryInv
<1>9. Cardinality({}) = 0  BY FS_EmptySet
<1>10. \A z : Pending(z) = {}  BY <1>4 DEF Pending
<1>11. RefsInv
  <2>1. ASSUME NEW f \in File PROVE RefCounted(f)
    <3>1. Named(f) = {}
      <4>1. ASSUME NEW u \in Process \X Fd PROVE ofile[u[1]][u[2]] # f
        <5>1. u[1] \in Process /\ u[2] \in Fd  OBVIOUS
        <5> QED  BY <1>1, <1>6, <5>1
      <4> QED  BY <4>1 DEF Named
    <3>2. Holding(f) = {}  BY <1>3 DEF Holding
    <3>3. ref[f] = 0  BY DEF FilesInit
    <3> QED  BY <1>9, <1>10, <3>1, <3>2, <3>3 DEF RefCounted
  <2> QED  BY <2>1 DEF RefsInv
<1>12. \A t, o : t # "NONE" => FilesOf(t, o) = {}  BY DEF FilesOf, FilesInit
<1>13. EndsInv
  <2>1. ASSUME NEW g \in Page, NEW w \in BOOLEAN PROVE EndCounted(g, w)
    <3>1. Ends(g, w) = {}  BY <1>12 DEF Ends
    <3>2. ~IsOpen(g, w)  BY DEF IsOpen, FilesInit
    <3> QED  BY <1>9, <1>10, <3>1, <3>2 DEF EndCounted
  <2>2. taken = readopen \cup writeopen  BY DEF FilesInit
  <2> QED  BY <2>1, <2>2 DEF EndsInv
<1>14. InodesInv
  <2>1. ASSUME NEW ip \in Inode PROVE InodeCounted(ip)
    <3>1. FilesOf("INODE", ip) = {} /\ iref[ip] = 0  BY <1>12 DEF FilesInit
    <3>2. Opening(ip) = {}  BY <1>3 DEF Opening
    <3> QED  BY <1>9, <1>10, <3>1, <3>2 DEF InodeCounted
  <2> QED  BY <2>1 DEF InodesInv
<1> QED  BY <1>2, <1>5, <1>7, <1>8, <1>11, <1>13, <1>14 DEF FilesInv

LEMMA FilesStutter == FilesInv /\ UNCHANGED filesVars => FilesInv'
<1> SUFFICES ASSUME FilesInv, UNCHANGED filesVars PROVE FilesInv'  OBVIOUS
<1>1. /\ UNCHANGED <<ref, type, writable, obj, off, ofile, live, readopen, writeopen, taken>>
      /\ UNCHANGED <<iref, ilocked, pc, f0, f1, idx, todo, got>>
  BY DEF filesVars, ftable, pipes, locals
<1>2. FilesTypeOK'  BY <1>1 DEF FilesInv, FilesTypeOK
<1>3. \A q \in Process : TodoInv(q)' /\ CallInv(q)'
  BY <1>1 DEF FilesInv, TodoInv, CallInv, Owes, Fresh, Has
<1>4. NamedInv' /\ ChildInv' /\ EntryInv'
  BY <1>1 DEF FilesInv, NamedInv, ChildInv, EntryInv, Owes
<1>5. RefsInv'  BY <1>1 DEF FilesInv, RefsInv, RefCounted, Named, Pending, Holding, Owes
<1>6. EndsInv'
  BY <1>1 DEF FilesInv, EndsInv, EndCounted, IsOpen, Ends, FilesOf, Pending, Owes
<1>7. InodesInv'
  BY <1>1 DEF FilesInv, InodesInv, InodeCounted, FilesOf, Pending, Opening, Owes
<1> QED  BY <1>2, <1>3, <1>4, <1>5, <1>6, <1>7 DEF FilesInv

LEMMA FilesStep == FilesInv /\ [FilesNext]_filesVars => FilesInv'
<1> SUFFICES ASSUME FilesInv, [FilesNext]_filesVars PROVE FilesInv'  OBVIOUS
<1>1. CASE FilesNext
  <2>1. PICK p \in Process :
          \/ sys_dup(p) \/ sys_close(p) \/ UndoStep(p) \/ UndoDone(p)
          \/ sys_open(p) \/ OpenAlloc(p) \/ OpenFill(p)
          \/ sys_pipe(p) \/ PipeFile2(p) \/ PipePage(p)
          \/ Fork(p) \/ ForkDup(p) \/ ForkDone(p) \/ Exit(p) \/ ExitFd(p)
          \/ fileread(p) \/ ReadDone(p)
    BY <1>1 DEF FilesNext
  <2>2. CASE sys_dup(p) \/ sys_close(p) \/ UndoStep(p) \/ UndoDone(p)
    BY <2>2, DupInv, CloseInv, UndoStepInv, UndoDoneInv
  <2>3. CASE sys_open(p) \/ OpenAlloc(p) \/ OpenFill(p)
    BY <2>3, OpenInv, OpenAllocInv, OpenFillInv
  <2>4. CASE sys_pipe(p) \/ PipeFile2(p) \/ PipePage(p)
    BY <2>4, PipeInv, PipeFile2Inv, PipePageInv
  <2>5. CASE Fork(p) \/ ForkDup(p) \/ ForkDone(p) \/ Exit(p) \/ ExitFd(p)
    BY <2>5, ForkInv, ForkDupInv, ForkDoneInv, ExitInv, ExitFdInv
  <2>6. CASE fileread(p) \/ ReadDone(p)  BY <2>6, FilereadInv, ReadDoneInv
  <2> QED  BY <2>1, <2>2, <2>3, <2>4, <2>5, <2>6
<1>2. CASE UNCHANGED filesVars  BY <1>2, FilesStutter
<1> QED  BY <1>1, <1>2

\* Every step of the calls on files keeps the invariant: what each call in
\* progress holds and has still to give back accounts for the counts of files,
\* ends of pipes and inodes.
THEOREM FilesInvariant == FilesSpec => []FilesInv
<1>1. FilesInit => FilesInv  BY FilesInitInv
<1>2. FilesInv /\ [FilesNext]_filesVars => FilesInv'  BY FilesStep
<1> QED  BY <1>1, <1>2, PTL DEF FilesSpec

\* A file's count is the number of its descriptors and of the calls that hold it
\* or have still to close it, and the files of a process outside a call are
\* filled in (filealloc, filedup, fileclose, sys_dup, sys_open, sys_pipe, fork
\* and exit), for any number of processes, files and descriptors.
THEOREM FilesAreCounted == FilesSpec => []FileRefs
<1>1. FilesInv => FileRefs
  <2> SUFFICES ASSUME FilesInv PROVE FileRefs  OBVIOUS
  <2>1. \A f \in File :
          ref[f] = Cardinality(Named(f)) + Cardinality(Pending(<<"file", f>>))
                   + Cardinality(Holding(f))
    BY DEF FilesInv, RefsInv, RefCounted
  <2>2. ASSUME NEW p \in live, pc[p] = "user", NEW fd \in argfd(p)
        PROVE  type[ofile[p][fd]] # "NONE"
    <3>1. p \in Process /\ fd \in Fd /\ ofile[p][fd] # None
      BY <2>2 DEF FilesInv, FilesTypeOK, argfd
    <3>2. ~Owes(p, <<"fd", fd>>)  BY <2>2, <3>1, Quiet
    <3> QED  BY <2>2, <3>1, <3>2 DEF FilesInv, NamedInv
  <2> QED  BY <2>1, <2>2 DEF FileRefs
<1> QED  BY <1>1, FilesInvariant, PTL

\* Whichever allocation of pipe() or open() fails, each open end of a pipe has
\* one file or one close under way, a page is in use as long as one end of its
\* pipe is open, and an inode has a reference for each of its files and calls
\* (pipealloc, pipeclose, fileclose, sys_open).
THEOREM ObjectsAreOwned == FilesSpec => []ObjectsOwned
<1>1. FilesInv => ObjectsOwned
  <2> SUFFICES ASSUME FilesInv PROVE ObjectsOwned  OBVIOUS
  <2>1. \A g \in Page, w \in BOOLEAN :
          Cardinality({f \in FilesOf("PIPE", g) : writable[f] = w})
            + Cardinality(Pending(<<"pipe", g, w>>))
            = IF g \in (IF w THEN writeopen ELSE readopen) THEN 1 ELSE 0
    BY DEF FilesInv, EndsInv, EndCounted, Ends, IsOpen
  <2>2. taken = readopen \cup writeopen  BY DEF FilesInv, EndsInv
  <2>3. \A ip \in Inode :
          iref[ip] = Cardinality(FilesOf("INODE", ip)) + Cardinality(Pending(<<"inode", ip>>))
                     + Cardinality(Pending(<<"locked", ip>>)) + Cardinality(Opening(ip))
    BY DEF FilesInv, InodesInv, InodeCounted
  <2> QED  BY <2>1, <2>2, <2>3 DEF ObjectsOwned
<1> QED  BY <1>1, FilesInvariant, PTL

\* The bytes read through a shared file are those of the inode, each once and in
\* order, although fileread() waits between taking the offset and moving it on.
THEOREM BytesReadOnce == FilesSpec => []ReadOnce
<1>1. FilesInv => ReadOnce
  <2> SUFFICES ASSUME FilesInv, NEW f \in File, NEW k \in DOMAIN got[f]
               PROVE  got[f][k] = k - 1
    BY DEF ReadOnce
  <2>1. got[f] \in Seq(Nat)  BY DEF FilesInv, FilesTypeOK
  <2>2. k \in 1 .. Len(got[f])  BY <2>1
  <2>3. Len(got[f]) = off[f] /\ \A j \in 1 .. off[f] : got[f][j] = j - 1
    BY DEF FilesInv, EntryInv
  <2> QED  BY <2>2, <2>3
<1> QED  BY <1>1, FilesInvariant, PTL

-----------------------------------------------------------------------------
(* Blocks: what the files contain *)

\* The places of a file's block numbers: the direct ones, the indirect block,
\* and those in it.
Place == 0 .. NDIRECT + BSIZE
Word == 0 .. BSIZE - 1
Loc(bn) == IF bn < NDIRECT THEN bn ELSE bn + 1

\* The block number in a place, for the addresses a and the blocks' words d.
At(a, d, l) ==
  IF l <= NDIRECT THEN a[l]
  ELSE IF a[NDIRECT] = 0 THEN 0 ELSE d[a[NDIRECT]][l - NDIRECT - 1]

\* No block number is in two places, and the bitmap has those that are in one.
Layout(u, d, A) ==
  /\ u \subseteq Block \ {0} /\ d \in [Block -> [Word -> Nat]]
  /\ A \in [Ino -> [0 .. NDIRECT -> Block]]
  /\ \A i \in Ino, l \in Place :
       At(A[i], d, l) \in Block /\ (At(A[i], d, l) # 0 => At(A[i], d, l) \in u)
  /\ \A b \in u : \E i \in Ino, l \in Place : At(A[i], d, l) = b
  /\ \A i, j \in Ino, l, k \in Place :
       At(A[i], d, l) = At(A[j], d, k) /\ At(A[i], d, l) # 0 => i = j /\ l = k

\* A file of t words has the blocks for them, and no others.
Reaches(t, bn) == \E o \in 0 .. t - 1 : o \div BSIZE = bn
HasBlocks(a, d, t) ==
  /\ \A bn \in 0 .. MAXFILE - 1 : At(a, d, Loc(bn)) # 0 <=> Reaches(t, bn)
  /\ At(a, d, NDIRECT) # 0 <=> \E bn \in NDIRECT .. MAXFILE - 1 : Reaches(t, bn)

\* They hold what was written.
HasWords(i, a, d, t) ==
  \A o \in 0 .. t - 1 : d[At(a, d, Loc(o \div BSIZE))][o % BSIZE] = i

Contains(i, a, d, t) == HasBlocks(a, d, t) /\ HasWords(i, a, d, t)

\* The size a file has or, during a write, will have.
Top(i) ==
  IF op[i].at = "write" /\ op[i].off > size[i] THEN op[i].off ELSE size[i]

\* The blocks logged besides the indirect block and its bitmap block, and how
\* many the rest of the transaction may add.
Plain(g, ind) == IF ind = 0 THEN g ELSE g \ {DBLOCK(ind), BBLOCK(ind)}
Half == (MAXOPBLOCKS - 4) \div 2
Cost(pos, end) ==
  IF pos = end THEN 0
  ELSE 2 * ((end - 1) \div BSIZE - pos \div BSIZE + 1) - (IF pos % BSIZE = 0 THEN 0 ELSE 1)

LogItem == {"data", "bitmap", "inode"} \X Nat

BlocksTypeOK ==
  /\ size \in [Ino -> Nat] /\ DOMAIN dinode = Ino
  /\ op \in [Ino -> [at : {"idle", "chunk", "write", "panic"}, off : Nat, n : Nat, end : Nat]]
  /\ log \in [Ino -> SUBSET LogItem]

SizeInv(i) ==
  /\ size[i] <= MAXFILE * BSIZE
  /\ op[i].at = "write" => op[i].off <= op[i].end /\ op[i].end <= MAXFILE * BSIZE
ContentInv(i) ==
  op[i].at # "panic" => Contains(i, addrs[i], data, Top(i))
SavedInv(i) ==
  op[i].at # "panic" /\ Top(i) = size[i] => dinode[i] = <<size[i], addrs[i]>>
LogInv(i) ==
  /\ IsFiniteSet(log[i]) /\ Cardinality(log[i]) <= MAXOPBLOCKS
  /\ op[i].at = "write" =>
       Cardinality(Plain(log[i], addrs[i][NDIRECT])) + Cost(op[i].off, op[i].end)
         <= 2 * Half + 1
FileInv(i) == SizeInv(i) /\ ContentInv(i) /\ SavedInv(i) /\ LogInv(i)

BlocksInv ==
  BlocksTypeOK /\ Layout(used, data, addrs) /\ \A i \in Ino : FileInv(i)

-----------------------------------------------------------------------------
(* Quotients and remainders *)

\* o is its quotient times n plus its remainder.
LEMMA DivFacts ==
  ASSUME NEW n \in Nat \ {0}, NEW o \in Nat
  PROVE  /\ o \div n \in Nat /\ o % n \in 0 .. n - 1 /\ n * (o \div n) \in Nat
         /\ o = n * (o \div n) + (o % n)
<1> DEFINE q == o \div n
           m == o % n
<1>1. m = o - n * q  OBVIOUS
<1>2. q \in Nat /\ m \in 0 .. n - 1  OBVIOUS
<1> HIDE DEF q, m
<1>3. n * q \in Nat  BY <1>2
<1>4. o = n * q + m  BY <1>1, <1>2, <1>3
<1> QED  BY <1>2, <1>3, <1>4 DEF q, m

\* Products with n are ordered as the factors are.
LEMMA Less ==
  ASSUME NEW n \in Nat \ {0}, NEW q \in Int, NEW r \in Int
  PROVE  /\ n * q \in Int /\ n * r \in Int
         /\ q < r => n * q + n <= n * r
         /\ n * q < n * r => q < r
<1>1. n * q \in Int /\ n * r \in Int  OBVIOUS
<1>2. ASSUME NEW x \in Int, NEW y \in Int, x < y PROVE n * x + n <= n * y
  <2>1. PICK d \in Nat : d = y - x - 1  BY <1>2
  <2>2. n * d >= 0 /\ n * d \in Int  BY <2>1
  <2>3. y = x + d + 1  BY <2>1
  <2>4. n * (x + d + 1) = n * x + n * d + n  BY <2>1
  <2>5. n * x \in Int  OBVIOUS
  <2> QED  BY <2>2, <2>3, <2>4, <2>5
<1>3. q < r => n * q + n <= n * r  BY <1>2
<1>4. ASSUME n * q < n * r PROVE q < r
  <2>1. CASE r < q
    <3>1. n * r + n <= n * q  BY <1>2, <2>1
    <3> QED  BY <1>1, <1>4, <3>1
  <2>2. CASE r = q  BY <1>1, <1>4, <2>2
  <2> QED  BY <2>1, <2>2
<1> QED  BY <1>1, <1>3, <1>4

\* Quotient and remainder are the only such numbers.
LEMMA DivUnique ==
  ASSUME NEW n \in Nat \ {0}, NEW o \in Nat, NEW q \in Nat, NEW m \in 0 .. n - 1,
         o = n * q + m
  PROVE  o \div n = q /\ o % n = m
<1>1. PICK r \in Nat, k \in 0 .. n - 1 : r = o \div n /\ k = o % n /\ o = n * r + k
  BY DivFacts
<1>2. /\ n * q \in Int /\ n * r \in Int
      /\ (q < r => n * q + n <= n * r) /\ (r < q => n * r + n <= n * q)
  BY Less
<1>3. q = r  BY <1>1, <1>2
<1> QED  BY <1>1, <1>2, <1>3

\* Words after pos in the same block.
LEMMA InBlock ==
  ASSUME NEW n \in Nat \ {0}, NEW o \in Nat, NEW x \in Nat, (o % n) + x < n
  PROVE  (o + x) \div n = o \div n /\ (o + x) % n = (o % n) + x
<1>1. PICK q \in Nat, m \in 0 .. n - 1 : q = o \div n /\ m = o % n /\ o = n * q + m
  BY DivFacts
<1>2. n * q \in Nat  BY <1>1
<1>3. o + x = n * q + (m + x) /\ m + x \in 0 .. n - 1 /\ o + x \in Nat  BY <1>1, <1>2
<1>4. (o + x) \div n = q /\ (o + x) % n = m + x  BY <1>3, DivUnique
<1> QED  BY <1>1, <1>4

\* A position is given by its block and its place there.
LEMMA SameBlock ==
  ASSUME NEW n \in Nat \ {0}, NEW o \in Nat, NEW p \in Nat, o \div n = p \div n
  PROVE  o - p = (o % n) - (p % n)
<1>1. PICK q \in Nat, m \in 0 .. n - 1 : q = o \div n /\ m = o % n /\ o = n * q + m
  BY DivFacts
<1>2. PICK r \in Nat, k \in 0 .. n - 1 : r = p \div n /\ k = p % n /\ p = n * r + k
  BY DivFacts
<1>3. q = r /\ n * q \in Nat  BY <1>1, <1>2
<1>4. o - p = m - k  BY <1>1, <1>2, <1>3
<1> QED  BY <1>1, <1>2, <1>4

\* A quotient below q, and a number below n * q.
LEMMA DivLess ==
  ASSUME NEW n \in Nat \ {0}, NEW o \in Nat, NEW q \in Nat
  PROVE  o \div n < q <=> o < n * q
<1>1. PICK r \in Nat, m \in 0 .. n - 1 : r = o \div n /\ m = o % n /\ o = n * r + m
  BY DivFacts
<1>2. /\ n * q \in Int /\ n * r \in Int
      /\ (r < q => n * r + n <= n * q) /\ (n * r < n * q => r < q)
  BY Less
<1>3. r < q <=> o < n * q  BY <1>1, <1>2
<1> QED  BY <1>1, <1>3

\* The quotient grows with the number.
LEMMA DivMono ==
  ASSUME NEW n \in Nat \ {0}, NEW o \in Nat, NEW p \in Nat, o <= p
  PROVE  o \div n <= p \div n
<1>1. PICK r \in Nat, m \in 0 .. n - 1 : r = o \div n /\ m = o % n /\ o = n * r + m
  BY DivFacts
<1>2. PICK s \in Nat, k \in 0 .. n - 1 : s = p \div n /\ k = p % n /\ p = n * s + k
  BY DivFacts
<1>3. n * s \in Int /\ n * r \in Int /\ (s < r => n * s + n <= n * r)  BY Less
<1>4. r <= s  BY <1>1, <1>2, <1>3
<1> QED  BY <1>1, <1>2, <1>4

\* The blocks that t words need.
LEMMA ReachesIff ==
  ASSUME NEW n \in Nat \ {0}, NEW t \in Nat, NEW bn \in Nat
  PROVE  (\E o \in 0 .. t - 1 : o \div n = bn) <=> bn < (t + n - 1) \div n
<1>1. t + n - 1 \in Nat  OBVIOUS
<1>2. PICK r \in Nat, m \in 0 .. n - 1 :
        r = (t + n - 1) \div n /\ t + n - 1 = n * r + m
  BY <1>1, DivFacts
<1>3. n * r \in Int /\ n * bn \in Int /\ (bn < r => n * bn + n <= n * r)
      /\ (r <= bn => n * r <= n * bn)
  <2>1. /\ n * r \in Int /\ n * bn \in Int
        /\ (bn < r => n * bn + n <= n * r) /\ (r < bn => n * r + n <= n * bn)
    BY Less
  <2> QED  BY <2>1
<1>4. ASSUME NEW o \in 0 .. t - 1, o \div n = bn PROVE bn < r
  <2>1. o \in Nat  OBVIOUS
  <2>2. PICK k \in 0 .. n - 1 : o = n * bn + k  BY <1>4, <2>1, DivFacts
  <2>3. n * bn <= t - 1  BY <1>3, <2>2
  <2>4. n * r >= t  BY <1>2, <1>3
  <2> QED  BY <1>2, <1>3, <2>3, <2>4
<1>5. ASSUME bn < r PROVE \E o \in 0 .. t - 1 : o \div n = bn
  <2>1. PICK o \in Nat : o = n * bn  OBVIOUS
  <2>2. o + n <= n * r  BY <1>3, <1>5, <2>1
  <2>3. o \in 0 .. t - 1  BY <1>2, <1>3, <2>1, <2>2
  <2>4. o = n * bn + 0 /\ 0 \in 0 .. n - 1  BY <2>1
  <2>5. o \div n = bn  BY <2>1, <2>4, DivUnique
  <2> QED  BY <2>3, <2>5
<1> QED  BY <1>2, <1>4, <1>5

-----------------------------------------------------------------------------
(* balloc and bmap *)

State ==
  [used : SUBSET Block, data : [Block -> [Word -> Nat]], addrs : [0 .. NDIRECT -> Block],
   log : SUBSET LogItem, addr : Block]

Free(m) == Block \ (m.used \cup {0})

\* Nothing but the result changes, or block b is taken, marked and cleared.
Same(r, m) ==
  r.used = m.used /\ r.data = m.data /\ r.log = m.log
Takes(r, m, b) ==
  /\ r.used = m.used \cup {b} /\ r.data = [m.data EXCEPT ![b] = Zero]
  /\ r.log = m.log \cup {BBLOCK(b), DBLOCK(b)}

\* What log_write() is given.
LEMMA Items == \A b \in Block : BBLOCK(b) \in LogItem /\ DBLOCK(b) \in LogItem
<1> SUFFICES ASSUME NEW b \in Block PROVE BBLOCK(b) \in LogItem /\ DBLOCK(b) \in LogItem
  OBVIOUS
<1>1. b \in Nat /\ BPB \in Nat \ {0}  BY BlocksAssumption DEF Block
<1>2. b \div BPB \in Nat  BY <1>1, DivFacts
<1> QED  BY <1>1, <1>2 DEF BBLOCK, DBLOCK, LogItem

\* A cleared block.
LEMMA ZeroIs == Zero \in [Word -> Nat] /\ \A k \in Word : Zero[k] = 0
BY DEF Zero, Word

\* Only the result changes.
LEMMA SetAddr ==
  ASSUME NEW m \in State, NEW b \in Block
  PROVE  LET r == [m EXCEPT !.addr = b]
         IN r \in State /\ Same(r, m) /\ r.addrs = m.addrs /\ r.addr = b
BY DEF State, Same

\* What bzero() does.
LEMMA BzeroIs ==
  ASSUME NEW m \in State, NEW b \in Block
  PROVE  LET r == bzero(m, b)
         IN /\ r \in State /\ r.used = m.used /\ r.data = [m.data EXCEPT ![b] = Zero]
            /\ r.log = m.log \cup {DBLOCK(b)} /\ r.addrs = m.addrs /\ r.addr = m.addr
<1>1. DBLOCK(b) \in LogItem /\ Zero \in [Word -> Nat]  BY Items, ZeroIs
<1> QED  BY <1>1 DEF State, bzero

\* balloc() takes a free block, marks it and clears it, or fails.
LEMMA BallocIs ==
  ASSUME NEW m \in State
  PROVE  LET r == balloc(m)
         IN /\ r \in State /\ r.addrs = m.addrs
            /\ \/ Same(r, m) /\ r.addr = 0
               \/ r.addr \in Free(m) /\ Takes(r, m, r.addr)
<1>1. CASE Free(m) = {}
  <2>1. 0 \in Block  BY BlocksAssumption DEF Block
  <2>2. balloc(m) = [m EXCEPT !.addr = 0]  BY <1>1 DEF balloc, Free
  <2> QED  BY <2>1, <2>2, SetAddr
<1>2. CASE Free(m) # {}
  <2>1. Free(m) \in SUBSET Nat  BY DEF Free, Block
  <2>2. PICK b \in Free(m) : b = Min(Free(m))  BY <1>2, <2>1, MinOfNat
  <2>3. b \in Block  BY DEF Free
  <2> DEFINE n == [m EXCEPT !.used = @ \cup {b}, !.log = @ \cup {BBLOCK(b)}, !.addr = b]
  <2>4. balloc(m) = bzero(n, b)  BY <1>2, <2>2 DEF balloc, Free
  <2>5. BBLOCK(b) \in LogItem  BY <2>3, Items
  <2>6. /\ n \in State /\ n.used = m.used \cup {b} /\ n.data = m.data
        /\ n.log = m.log \cup {BBLOCK(b)} /\ n.addrs = m.addrs /\ n.addr = b
    BY <2>3, <2>5 DEF State
  <2> HIDE DEF n
  <2> DEFINE r == bzero(n, b)
  <2>7. /\ r \in State /\ r.used = n.used /\ r.data = [n.data EXCEPT ![b] = Zero]
        /\ r.log = n.log \cup {DBLOCK(b)} /\ r.addrs = n.addrs /\ r.addr = n.addr
    BY <2>3, <2>6, BzeroIs
  <2> HIDE DEF r
  <2>8. r.log = m.log \cup {BBLOCK(b), DBLOCK(b)}  BY <2>6, <2>7
  <2>9. Takes(r, m, b) /\ r.addr = b  BY <2>6, <2>7, <2>8 DEF Takes
  <2> QED  BY <2>2, <2>4, <2>6, <2>7, <2>9 DEF r
<1> QED  BY <1>1, <1>2

\* A direct block is there, or balloc() fails, or it is taken.
LEMMA DirectIs ==
  ASSUME NEW m \in State, NEW k \in 0 .. NDIRECT
  PROVE  LET r == Direct(m, k)
         IN /\ r \in State
            /\ \/ m.addrs[k] # 0 /\ Same(r, m) /\ r.addrs = m.addrs /\ r.addr = m.addrs[k]
               \/ m.addrs[k] = 0 /\ Same(r, m) /\ r.addrs = m.addrs /\ r.addr = 0
               \/ /\ m.addrs[k] = 0 /\ r.addr \in Free(m) /\ Takes(r, m, r.addr)
                  /\ r.addrs = [m.addrs EXCEPT ![k] = r.addr]
<1>1. CASE m.addrs[k] # 0
  <2>1. m.addrs[k] \in Block  BY DEF State
  <2>2. Direct(m, k) = [m EXCEPT !.addr = m.addrs[k]]  BY <1>1 DEF Direct
  <2> QED  BY <1>1, <2>1, <2>2, SetAddr
<1>2. CASE m.addrs[k] = 0
  <2> DEFINE q == balloc(m)
             r == [q EXCEPT !.addrs[k] = q.addr]
  <2>1. Direct(m, k) = r  BY <1>2 DEF Direct
  <2>2. /\ q \in State /\ q.addrs = m.addrs
        /\ \/ Same(q, m) /\ q.addr = 0
           \/ q.addr \in Free(m) /\ Takes(q, m, q.addr)
    BY BallocIs
  <2> HIDE DEF q
  <2>3. /\ r \in State /\ r.used = q.used /\ r.data = q.data /\ r.log = q.log
        /\ r.addr = q.addr /\ r.addrs = [q.addrs EXCEPT ![k] = q.addr]
    BY <2>2 DEF State
  <2> HIDE DEF r
  <2>4. CASE Same(q, m) /\ q.addr = 0
    <3>1. r.addrs = m.addrs  BY <1>2, <2>2, <2>3, <2>4 DEF State
    <3> QED  BY <1>2, <2>1, <2>3, <2>4, <3>1 DEF Same
  <2>5. CASE q.addr \in Free(m) /\ Takes(q, m, q.addr)
    BY <1>2, <2>1, <2>2, <2>3, <2>5 DEF Takes
  <2> QED  BY <2>2, <2>4, <2>5
<1> QED  BY <1>1, <1>2

-----------------------------------------------------------------------------
(* What they do to the layout *)

\* The places, and which of them a block number of the file has.
LEMMA Sizes ==
  /\ NDIRECT \in Nat /\ BSIZE \in Nat \ {0} /\ MAXFILE = NDIRECT + BSIZE /\ 0 \in Block
  /\ MAXFILE \in Nat /\ NDIRECT \in Place /\ Block \subseteq Nat
  /\ \A bn \in 0 .. MAXFILE - 1 : /\ Loc(bn) \in Place /\ Loc(bn) # NDIRECT
                                  /\ bn < NDIRECT <=> Loc(bn) < NDIRECT
  /\ \A bn, cn \in 0 .. MAXFILE - 1 : Loc(bn) = Loc(cn) => bn = cn
  /\ \A l \in Place : l # NDIRECT => \E bn \in 0 .. MAXFILE - 1 : l = Loc(bn)
<1>1. NDIRECT \in Nat /\ BSIZE \in Nat \ {0} /\ MAXFILE = NDIRECT + BSIZE /\ NBLOCK \in Nat
  BY BlocksAssumption DEF MAXFILE, NINDIRECT
<1>2. /\ \A bn \in 0 .. MAXFILE - 1 : /\ Loc(bn) \in Place /\ Loc(bn) # NDIRECT
                                      /\ bn < NDIRECT <=> Loc(bn) < NDIRECT
      /\ \A bn, cn \in 0 .. MAXFILE - 1 : Loc(bn) = Loc(cn) => bn = cn
  BY <1>1 DEF Loc, Place
<1>3. ASSUME NEW l \in Place, l # NDIRECT PROVE \E bn \in 0 .. MAXFILE - 1 : l = Loc(bn)
  <2>1. CASE l < NDIRECT
    <3>1. l \in 0 .. MAXFILE - 1 /\ l = Loc(l)  BY <1>1, <2>1 DEF Loc, Place
    <3> QED  BY <3>1
  <2>2. CASE l > NDIRECT
    <3>1. l - 1 \in 0 .. MAXFILE - 1 /\ l = Loc(l - 1)  BY <1>1, <2>2 DEF Loc, Place
    <3> QED  BY <3>1
  <2> QED  BY <1>1, <1>3, <2>1, <2>2 DEF Place
<1> QED  BY <1>1, <1>2, <1>3 DEF Place, Block

\* Block b gets the place l of file i, and nothing else moves.
Puts(A, d, A1, d1, i, l, b) ==
  \A j \in Ino, k \in Place :
    At(A1[j], d1, k) = IF j = i /\ k = l THEN b ELSE At(A[j], d, k)

\* A free block may be given an empty place.
LEMMA LayoutPut ==
  ASSUME NEW u, NEW d, NEW A, Layout(u, d, A), NEW i \in Ino, NEW l \in Place,
         NEW b \in Block \ (u \cup {0}), At(A[i], d, l) = 0,
         NEW d1 \in [Block -> [Word -> Nat]], NEW A1 \in [Ino -> [0 .. NDIRECT -> Block]],
         Puts(A, d, A1, d1, i, l, b)
  PROVE  Layout(u \cup {b}, d1, A1)
<1> DEFINE f(j, k) == At(A[j], d, k)
           h(j, k) == At(A1[j], d1, k)
<1>1. /\ u \subseteq Block \ {0}
      /\ \A j \in Ino, k \in Place : f(j, k) \in Block /\ (f(j, k) # 0 => f(j, k) \in u)
      /\ \A c \in u : \E j \in Ino, k \in Place : f(j, k) = c
      /\ \A j, j1 \in Ino, k, k1 \in Place :
           f(j, k) = f(j1, k1) /\ f(j, k) # 0 => j = j1 /\ k = k1
  BY DEF Layout
<1>2. \A j \in Ino, k \in Place : h(j, k) = IF j = i /\ k = l THEN b ELSE f(j, k)
  BY DEF Puts
<1>3. f(i, l) = 0  OBVIOUS
<1> HIDE DEF f, h
<1>4. u \cup {b} \subseteq Block \ {0}  BY <1>1
<1>5. \A j \in Ino, k \in Place : h(j, k) \in Block /\ (h(j, k) # 0 => h(j, k) \in u \cup {b})
  BY <1>1, <1>2
<1>6. \A c \in u \cup {b} : \E j \in Ino, k \in Place : h(j, k) = c
  <2>1. ASSUME NEW c \in u PROVE \E j \in Ino, k \in Place : h(j, k) = c
    <3>1. PICK j \in Ino, k \in Place : f(j, k) = c  BY <1>1
    <3>2. h(j, k) = c  BY <1>1, <1>2, <1>3, <3>1
    <3> QED  BY <3>2
  <2>2. h(i, l) = b  BY <1>2
  <2> QED  BY <2>1, <2>2
<1>7. \A j, j1 \in Ino, k, k1 \in Place :
        h(j, k) = h(j1, k1) /\ h(j, k) # 0 => j = j1 /\ k = k1
  <2> SUFFICES ASSUME NEW j \in Ino, NEW j1 \in Ino, NEW k \in Place, NEW k1 \in Place,
                      h(j, k) = h(j1, k1), h(j, k) # 0
               PROVE  j = j1 /\ k = k1
    OBVIOUS
  <2>1. b \notin u /\ b # 0  OBVIOUS
  <2>2. /\ h(j, k) = (IF j = i /\ k = l THEN b ELSE f(j, k))
        /\ h(j1, k1) = (IF j1 = i /\ k1 = l THEN b ELSE f(j1, k1))
    BY <1>2
  <2>3. (f(j, k) # 0 => f(j, k) \in u) /\ (f(j1, k1) # 0 => f(j1, k1) \in u)  BY <1>1
  <2>4. f(j, k) = f(j1, k1) /\ f(j, k) # 0 => j = j1 /\ k = k1  BY <1>1
  <2> QED  BY <2>1, <2>2, <2>3, <2>4
<1> QED  BY <1>4, <1>5, <1>6, <1>7 DEF Layout, h

\* Nothing moves.
LEMMA LayoutSame ==
  ASSUME NEW u, NEW d, NEW A, Layout(u, d, A), NEW d1 \in [Block -> [Word -> Nat]],
         \A j \in Ino, k \in Place : At(A[j], d1, k) = At(A[j], d, k)
  PROVE  Layout(u, d1, A)
BY DEF Layout

\* The blocks that are not indirect blocks keep their words.
Keeps(u, d, A, d1) ==
  \A c \in u : (\A j \in Ino : A[j][NDIRECT] # c) => d1[c] = d[c]

\* The effect of giving block b the place l of file i.
Given(u, d, A, i, l, b, d1, A1) ==
  Layout(u \cup {b}, d1, A1) /\ Keeps(u, d, A, d1) /\ Puts(A, d, A1, d1, i, l, b)

\* An empty entry of ip->addrs gets a block.
LEMMA PutDirect ==
  ASSUME NEW u, NEW d, NEW A, Layout(u, d, A), NEW i \in Ino, NEW k \in 0 .. NDIRECT,
         NEW b \in Block \ (u \cup {0}), A[i][k] = 0,
         NEW d1, d1 = [d EXCEPT ![b] = Zero],
         NEW A1, A1 = [A EXCEPT ![i] = [A[i] EXCEPT ![k] = b]]
  PROVE  Given(u, d, A, i, k, b, d1, A1)
<1> DEFINE a1 == [A[i] EXCEPT ![k] = b]
<1>1. /\ u \subseteq Block \ {0} /\ d \in [Block -> [Word -> Nat]]
      /\ A \in [Ino -> [0 .. NDIRECT -> Block]]
      /\ \A j \in Ino, l \in Place : At(A[j], d, l) # 0 => At(A[j], d, l) \in u
  BY DEF Layout
<1>2. NDIRECT \in Nat /\ BSIZE \in Nat \ {0} /\ NDIRECT \in Place /\ k \in Place
  BY Sizes DEF Place
<1>3. /\ d1 \in [Block -> [Word -> Nat]] /\ d1[b] = Zero /\ \A c \in Block \ {b} : d1[c] = d[c]
      /\ \A x \in Word : Zero[x] = 0
  BY <1>1, ZeroIs
<1>4. a1 \in [0 .. NDIRECT -> Block] /\ a1[k] = b /\ \A l \in (0 .. NDIRECT) \ {k} : a1[l] = A[i][l]
  BY <1>1
<1>5. A1 \in [Ino -> [0 .. NDIRECT -> Block]] /\ A1[i] = a1 /\ \A j \in Ino \ {i} : A1[j] = A[j]
  BY <1>1, <1>4
<1>6. \A j \in Ino : A[j][NDIRECT] # 0 => A[j][NDIRECT] \in u /\ A[j][NDIRECT] # b
  BY <1>1, <1>2 DEF At
<1>7. ASSUME NEW j \in Ino, NEW l \in Place
      PROVE  At(A1[j], d1, l) = IF j = i /\ l = k THEN b ELSE At(A[j], d, l)
  <2>1. CASE l <= NDIRECT
    <3>1. l \in 0 .. NDIRECT  BY <2>1 DEF Place
    <3>2. At(A1[j], d1, l) = A1[j][l] /\ At(A[j], d, l) = A[j][l]  BY <2>1 DEF At
    <3> QED  BY <1>4, <1>5, <3>1, <3>2
  <2>2. CASE ~(l <= NDIRECT)
    <3>1. l # k /\ l - NDIRECT - 1 \in Word  BY <1>2, <2>2 DEF Place, Word
    <3>2. CASE j = i /\ k = NDIRECT
      <4>1. At(A[j], d, l) = 0  BY <2>2, <3>2 DEF At
      <4>2. A1[j][NDIRECT] = b  BY <1>4, <1>5, <3>2
      <4>3. At(A1[j], d1, l) = d1[b][l - NDIRECT - 1]  BY <2>2, <4>2 DEF At
      <4> QED  BY <1>3, <3>1, <4>1, <4>3
    <3>3. CASE ~(j = i /\ k = NDIRECT)
      <4>1. A1[j][NDIRECT] = A[j][NDIRECT]  BY <1>2, <1>4, <1>5, <3>3
      <4>2. A[j][NDIRECT] # 0 => d1[A[j][NDIRECT]] = d[A[j][NDIRECT]]  BY <1>1, <1>3, <1>6
      <4> QED  BY <2>2, <3>1, <4>1, <4>2 DEF At
    <3> QED  BY <3>2, <3>3
  <2> QED  BY <2>1, <2>2
<1>8. At(A[i], d, k) = 0  BY DEF At
<1>9. Puts(A, d, A1, d1, i, k, b)  BY <1>7 DEF Puts
<1>11. Layout(u \cup {b}, d1, A1)  BY <1>2, <1>3, <1>5, <1>8, <1>9, LayoutPut
<1>10. Keeps(u, d, A, d1)  BY <1>1, <1>3 DEF Keeps
<1> QED  BY <1>9, <1>10, <1>11 DEF Given

\* An empty entry of the indirect block gets a block.
LEMMA PutIndirect ==
  ASSUME NEW u, NEW d, NEW A, Layout(u, d, A), NEW i \in Ino, NEW x \in Word,
         NEW b \in Block \ (u \cup {0}), A[i][NDIRECT] # 0, d[A[i][NDIRECT]][x] = 0, NEW d1,
         d1 = [[d EXCEPT ![b] = Zero] EXCEPT ![A[i][NDIRECT]][x] = b]
  PROVE  Given(u, d, A, i, NDIRECT + 1 + x, b, d1, A)
<1> DEFINE d0 == [d EXCEPT ![b] = Zero]
<1>0. PICK ind, p : ind = A[i][NDIRECT] /\ p = NDIRECT + 1 + x
  OBVIOUS
<1>14. ind # 0 /\ d[ind][x] = 0 /\ d1 = [d0 EXCEPT ![ind][x] = b]  BY <1>0
<1>1. /\ u \subseteq Block \ {0} /\ d \in [Block -> [Word -> Nat]]
      /\ A \in [Ino -> [0 .. NDIRECT -> Block]]
      /\ \A j \in Ino, l \in Place : At(A[j], d, l) # 0 => At(A[j], d, l) \in u
      /\ \A j, j1 \in Ino, l, k \in Place :
           At(A[j], d, l) = At(A[j1], d, k) /\ At(A[j], d, l) # 0 => j = j1 /\ l = k
  BY DEF Layout
<1>2. NDIRECT \in Nat /\ BSIZE \in Nat \ {0} /\ NDIRECT \in Place /\ Block \subseteq Nat
  BY Sizes
<1>3. \A j \in Ino : A[j][NDIRECT] = At(A[j], d, NDIRECT)  BY <1>2 DEF At
<1>4. ind \in u /\ ind \in Block /\ ind # b  BY <1>0, <1>1, <1>2, <1>3, <1>14
<1>5. /\ d0 \in [Block -> [Word -> Nat]] /\ \A c \in Block \ {b} : d0[c] = d[c]
  BY <1>1, ZeroIs
<1> HIDE DEF d0
<1>6. /\ d1 \in [Block -> [Word -> Nat]] /\ d1[ind][x] = b
      /\ \A y \in Word \ {x} : d1[ind][y] = d[ind][y]
      /\ \A c \in Block \ {b, ind} : d1[c] = d[c]
  <2>1. b \in Nat  BY <1>2
  <2>2. d0[ind] = d[ind]  BY <1>4, <1>5
  <2>3. d1 \in [Block -> [Word -> Nat]] /\ d1[ind][x] = b
        /\ (\A y \in Word \ {x} : d1[ind][y] = d0[ind][y])
        /\ (\A c \in Block \ {ind} : d1[c] = d0[c])
    BY <1>4, <1>5, <1>14, <2>1
  <2> QED  BY <1>5, <2>2, <2>3
<1>7. p \in Place /\ ~(p <= NDIRECT) /\ p - NDIRECT - 1 = x  BY <1>0, <1>2 DEF Place, Word
<1>8. ASSUME NEW j \in Ino, NEW l \in Place
      PROVE  At(A[j], d1, l) = IF j = i /\ l = p THEN b ELSE At(A[j], d, l)
  <2>1. CASE l <= NDIRECT  BY <1>7, <2>1 DEF At
  <2>2. CASE ~(l <= NDIRECT)
    <3>1. l - NDIRECT - 1 \in Word /\ (l - NDIRECT - 1 = x => l = p)
      BY <1>0, <1>2, <2>2 DEF Place, Word
    <3>2. CASE A[j][NDIRECT] = 0  BY <2>2, <3>2 DEF At
    <3>3. CASE j = i
      <4>1. At(A[j], d1, l) = d1[ind][l - NDIRECT - 1] /\ At(A[j], d, l) = d[ind][l - NDIRECT - 1]
        BY <1>0, <1>14, <2>2, <3>3 DEF At
      <4> QED  BY <1>6, <1>7, <3>1, <3>3, <4>1
    <3>4. CASE A[j][NDIRECT] # 0 /\ j # i
      <4>1. A[j][NDIRECT] # ind /\ A[j][NDIRECT] \in u  BY <1>0, <1>1, <1>2, <1>3, <3>4
      <4>2. d1[A[j][NDIRECT]] = d[A[j][NDIRECT]]  BY <1>1, <1>6, <4>1
      <4> QED  BY <2>2, <3>4, <4>2 DEF At
    <3> QED  BY <3>2, <3>3, <3>4
  <2> QED  BY <2>1, <2>2
<1>9. At(A[i], d, p) = 0  BY <1>0, <1>7, <1>14 DEF At
<1>12. Puts(A, d, A, d1, i, p, b)  BY <1>8 DEF Puts
<1>13. p \in Place /\ d1 \in [Block -> [Word -> Nat]] /\ A \in [Ino -> [0 .. NDIRECT -> Block]]
  BY <1>1, <1>6, <1>7
<1>10. Layout(u \cup {b}, d1, A)  BY <1>9, <1>12, <1>13, LayoutPut
<1>11. Keeps(u, d, A, d1)  BY <1>0, <1>1, <1>4, <1>6 DEF Keeps
<1> QED  BY <1>0, <1>10, <1>11, <1>12 DEF Given

\* A place is filled, if it was empty and a block is free.
Fills(A, i, m, r, l) ==
  /\ Layout(r.used, r.data, [A EXCEPT ![i] = r.addrs]) /\ Keeps(m.used, m.data, A, r.data)
  /\ \A j \in Ino, k \in Place :
       j # i \/ k # l => At([A EXCEPT ![i] = r.addrs][j], r.data, k) = At(A[j], m.data, k)
  /\ At(r.addrs, r.data, l) = r.addr
  /\ \/ /\ At(m.addrs, m.data, l) = r.addr
        /\ r.used = m.used /\ r.data = m.data /\ r.addrs = m.addrs
     \/ /\ At(m.addrs, m.data, l) = 0 /\ r.addr \in Block \ (m.used \cup {0})
        /\ r.used = m.used \cup {r.addr}

\* Nothing is filled.
LEMMA FillsNot ==
  ASSUME NEW m \in State, NEW A, Layout(m.used, m.data, A), NEW i \in Ino, m.addrs = A[i],
         NEW l \in Place, NEW r, r.used = m.used, r.data = m.data, r.addrs = m.addrs,
         r.addr = At(m.addrs, m.data, l)
  PROVE  Fills(A, i, m, r, l)
<1>1. A \in [Ino -> [0 .. NDIRECT -> Block]]  BY DEF Layout
<1>2. [A EXCEPT ![i] = r.addrs] = A  BY <1>1
<1>3. r.used = m.used /\ r.data = m.data  OBVIOUS
<1>4. Layout(r.used, r.data, [A EXCEPT ![i] = r.addrs])  BY <1>2, <1>3
<1>5. Keeps(m.used, m.data, A, r.data)  BY <1>3 DEF Keeps
<1>6. \A j \in Ino, k \in Place :
       j # i \/ k # l => At([A EXCEPT ![i] = r.addrs][j], r.data, k) = At(A[j], m.data, k)
  BY <1>2, <1>3
<1>7. At(r.addrs, r.data, l) = r.addr  BY <1>3
<1> QED  BY <1>4, <1>5, <1>6, <1>7 DEF Fills

\* What Direct does to a place.
LEMMA DirectFills ==
  ASSUME NEW m \in State, NEW A, Layout(m.used, m.data, A), NEW i \in Ino, m.addrs = A[i],
         NEW l \in 0 .. NDIRECT, NEW r, r = Direct(m, l)
  PROVE  /\ r \in State /\ Fills(A, i, m, r, l)
         /\ \/ r.log = m.log /\ r.addr = m.addrs[l]
            \/ /\ m.addrs[l] = 0 /\ r.addr # 0
               /\ r.log = m.log \cup {BBLOCK(r.addr), DBLOCK(r.addr)}
<1>1. /\ r \in State
      /\ \/ m.addrs[l] # 0 /\ Same(r, m) /\ r.addrs = m.addrs /\ r.addr = m.addrs[l]
         \/ m.addrs[l] = 0 /\ Same(r, m) /\ r.addrs = m.addrs /\ r.addr = 0
         \/ /\ m.addrs[l] = 0 /\ r.addr \in Free(m) /\ Takes(r, m, r.addr)
            /\ r.addrs = [m.addrs EXCEPT ![l] = r.addr]
  BY DirectIs
<1>2. l \in Place /\ l <= NDIRECT  BY Sizes DEF Place
<1>3. At(m.addrs, m.data, l) = m.addrs[l]  BY <1>2 DEF At
<1>4. CASE Same(r, m) /\ r.addrs = m.addrs /\ r.addr = m.addrs[l]
  <2>1. Fills(A, i, m, r, l)  BY <1>2, <1>3, <1>4, FillsNot DEF Same
  <2> QED  BY <1>1, <1>4, <2>1 DEF Same
<1>5. CASE /\ m.addrs[l] = 0 /\ r.addr \in Free(m) /\ Takes(r, m, r.addr)
           /\ r.addrs = [m.addrs EXCEPT ![l] = r.addr]
  <2>1. PICK b \in Block \ (m.used \cup {0}) : b = r.addr  BY <1>5 DEF Free
  <2>2. /\ r.used = m.used \cup {b} /\ r.data = [m.data EXCEPT ![b] = Zero]
        /\ r.log = m.log \cup {BBLOCK(b), DBLOCK(b)}
    BY <1>5, <2>1 DEF Takes
  <2>3. PICK A1 : A1 = [A EXCEPT ![i] = r.addrs]  OBVIOUS
  <2>4. r.addrs = [A[i] EXCEPT ![l] = b] /\ A[i][l] = 0  BY <1>5, <2>1
  <2>5. /\ Layout(m.used \cup {b}, r.data, A1) /\ Keeps(m.used, m.data, A, r.data)
        /\ Puts(A, m.data, A1, r.data, i, l, b)
    <3>1. A1 = [A EXCEPT ![i] = [A[i] EXCEPT ![l] = b]]  BY <2>3, <2>4
    <3>2. Given(m.used, m.data, A, i, l, b, r.data, A1)  BY <2>2, <2>4, <3>1, PutDirect
    <3> QED  BY <3>2 DEF Given
  <2>6. A1[i] = r.addrs
    <3>1. A \in [Ino -> [0 .. NDIRECT -> Block]]  BY DEF Layout
    <3> QED  BY <2>3, <3>1
  <2>7. At(r.addrs, r.data, l) = r.addr  BY <1>2, <2>1, <2>5, <2>6 DEF Puts
  <2>8. \A j \in Ino, k \in Place :
          j # i \/ k # l => At(A1[j], r.data, k) = At(A[j], m.data, k)
    BY <2>5 DEF Puts
  <2>9. Fills(A, i, m, r, l)  BY <1>3, <1>5, <2>1, <2>2, <2>3, <2>5, <2>7, <2>8 DEF Fills
  <2> QED  BY <1>1, <1>5, <2>1, <2>2, <2>9
<1> QED  BY <1>1, <1>4, <1>5

\* The last case of bmap.
Indirect(m, ind, x) ==
  LET q == balloc(m)
  IN [q EXCEPT !.data[ind][x] = q.addr, !.log = @ \cup {DBLOCK(ind)}]
IndirectStep(A, i, m, r, ind, x) ==
  /\ r \in State /\ Fills(A, i, m, r, NDIRECT + 1 + x) /\ r.addrs = m.addrs
  /\ \/ r.addr = 0 /\ r.log = m.log \cup {DBLOCK(ind)}
     \/ /\ r.addr # 0
        /\ r.log = m.log \cup {BBLOCK(r.addr), DBLOCK(r.addr), DBLOCK(ind)}

\* What the last case of bmap does to a place.
LEMMA IndirectFills ==
  ASSUME NEW m \in State, NEW A, Layout(m.used, m.data, A), NEW i \in Ino, m.addrs = A[i],
         NEW x \in Word, NEW ind, ind = m.addrs[NDIRECT], ind # 0, m.data[ind][x] = 0,
         NEW r, r = Indirect(m, ind, x)
  PROVE  IndirectStep(A, i, m, r, ind, x)
<1>8. PICK q, p : q = balloc(m) /\ p = NDIRECT + 1 + x  OBVIOUS
<1>9. r = [q EXCEPT !.data[ind][x] = q.addr, !.log = @ \cup {DBLOCK(ind)}]
  BY <1>8 DEF Indirect
<1>1. /\ q \in State /\ q.addrs = m.addrs
      /\ \/ Same(q, m) /\ q.addr = 0
         \/ q.addr \in Free(m) /\ Takes(q, m, q.addr)
  BY <1>8, BallocIs
<1>2. NDIRECT \in Nat /\ ind \in Block /\ Block \subseteq Nat /\ p \in Place
  <2>1. NDIRECT \in Nat /\ Block \subseteq Nat /\ BSIZE \in Nat  BY Sizes
  <2>2. m.addrs \in [0 .. NDIRECT -> Block]  BY DEF State
  <2>3. ind \in Block  BY <2>1, <2>2
  <2>4. p \in Place  BY <1>8, <2>1 DEF Place, Word
  <2> QED  BY <2>1, <2>3, <2>4
<1>3. DBLOCK(ind) \in LogItem /\ q.addr \in Nat  BY <1>1, <1>2, Items DEF State
<1>4. /\ r \in State /\ r.used = q.used /\ r.data = [q.data EXCEPT ![ind][x] = q.addr]
      /\ r.log = q.log \cup {DBLOCK(ind)} /\ r.addrs = q.addrs /\ r.addr = q.addr
  <2>1. PICK d1 : d1 = [q.data EXCEPT ![ind][x] = q.addr]  OBVIOUS
  <2>2. q.data \in [Block -> [Word -> Nat]]  BY <1>1 DEF State
  <2>3. d1 \in [Block -> [Word -> Nat]]  BY <1>2, <1>3, <2>1, <2>2
  <2>4. r = [q EXCEPT !.data = d1, !.log = @ \cup {DBLOCK(ind)}]
    BY <1>1, <1>9, <2>1 DEF State
  <2>5. r.log = q.log \cup {DBLOCK(ind)}  BY <1>1, <2>4 DEF State
  <2>6. r.used = q.used /\ r.data = d1 /\ r.addrs = q.addrs /\ r.addr = q.addr
    BY <1>1, <2>4 DEF State
  <2>7. q.log \cup {DBLOCK(ind)} \in SUBSET LogItem  BY <1>1, <1>3 DEF State
  <2>8. r \in State  BY <1>1, <2>3, <2>4, <2>7 DEF State
  <2> QED  BY <2>1, <2>5, <2>6, <2>8
<1>5. At(m.addrs, m.data, p) = 0
  <2>1. ~(p <= NDIRECT) /\ p - NDIRECT - 1 = x  BY <1>2, <1>8 DEF Word
  <2> QED  BY <2>1 DEF At
<1>6. CASE Same(q, m) /\ q.addr = 0
  <2>1. q.data \in [Block -> [Word -> Nat]] /\ q.data[ind][x] = 0
    BY <1>1, <1>6 DEF Same, State
  <2>2. r.data = q.data  BY <1>2, <1>4, <1>6, <2>1
  <2>3. r.addrs = m.addrs /\ r.used = m.used /\ r.data = m.data /\ r.addr = 0
    BY <1>1, <1>4, <1>6, <2>2 DEF Same
  <2>4. r.log = m.log \cup {DBLOCK(ind)}  BY <1>4, <1>6 DEF Same
  <2>5. Fills(A, i, m, r, p)  BY <1>2, <1>5, <2>3, FillsNot
  <2> QED  BY <1>4, <1>8, <2>3, <2>4, <2>5 DEF IndirectStep
<1>7. CASE q.addr \in Free(m) /\ Takes(q, m, q.addr)
  <2>1. PICK b \in Block \ (m.used \cup {0}) : b = r.addr  BY <1>4, <1>7 DEF Free
  <2>2. /\ r.used = m.used \cup {b} /\ q.data = [m.data EXCEPT ![b] = Zero]
        /\ r.log = m.log \cup {BBLOCK(b), DBLOCK(b), DBLOCK(ind)}
    BY <1>4, <1>7, <2>1 DEF Takes
  <2>3. A \in [Ino -> [0 .. NDIRECT -> Block]]  BY DEF Layout
  <2>4. [A EXCEPT ![i] = r.addrs] = A  BY <1>1, <1>4, <2>3
  <2>5. ind = A[i][NDIRECT] /\ r.data = [q.data EXCEPT ![ind][x] = b]  BY <1>4, <2>1
  <2>6. /\ Layout(m.used \cup {b}, r.data, A) /\ Keeps(m.used, m.data, A, r.data)
        /\ Puts(A, m.data, A, r.data, i, p, b)
    <3>1. A[i][NDIRECT] # 0 /\ m.data[A[i][NDIRECT]][x] = 0  OBVIOUS
    <3>2. r.data = [[m.data EXCEPT ![b] = Zero] EXCEPT ![A[i][NDIRECT]][x] = b]
      BY <2>2, <2>5
    <3>3. Given(m.used, m.data, A, i, NDIRECT + 1 + x, b, r.data, A)
      BY <3>1, <3>2, PutIndirect
    <3> QED  BY <1>8, <3>3 DEF Given
  <2>7. At(r.addrs, r.data, p) = r.addr  BY <1>1, <1>2, <1>4, <2>1, <2>6 DEF Puts
  <2>8. \A j \in Ino, k \in Place :
          j # i \/ k # p => At(A[j], r.data, k) = At(A[j], m.data, k)
    BY <2>6 DEF Puts
  <2>9. Fills(A, i, m, r, p)
    BY <1>5, <2>1, <2>2, <2>4, <2>6, <2>7, <2>8 DEF Fills
  <2> QED  BY <1>1, <1>4, <1>8, <2>1, <2>2, <2>9 DEF IndirectStep
<1> QED  BY <1>1, <1>6, <1>7 DEF IndirectStep

\* What bmap() does: r is m with block bn of file i.
LogGrows(m, r, old) ==
  Plain(r.log, r.addrs[NDIRECT]) \subseteq
    Plain(m.log, m.addrs[NDIRECT]) \cup
      (IF old \/ r.addr = 0 THEN {} ELSE {BBLOCK(r.addr), DBLOCK(r.addr)})
Mapped(A, i, m, r, bn) ==
  /\ Layout(r.used, r.data, [A EXCEPT ![i] = r.addrs]) /\ Keeps(m.used, m.data, A, r.data)
  /\ \A j \in Ino, k \in Place :
       j # i \/ (k # Loc(bn) /\ k # NDIRECT) =>
         At([A EXCEPT ![i] = r.addrs][j], r.data, k) = At(A[j], m.data, k)
  /\ r.addr # 0 => /\ At(r.addrs, r.data, Loc(bn)) = r.addr
                   /\ r.addrs[NDIRECT] # 0 <=> m.addrs[NDIRECT] # 0 \/ bn >= NDIRECT
  /\ At(m.addrs, m.data, Loc(bn)) # 0 =>
       Same(r, m) /\ r.addrs = m.addrs /\ r.addr = At(m.addrs, m.data, Loc(bn))
  /\ LogGrows(m, r, At(m.addrs, m.data, Loc(bn)) # 0)

\* A direct block of bmap().
LEMMA MappedDirect ==
  ASSUME NEW m \in State, NEW A, Layout(m.used, m.data, A), NEW i \in Ino, m.addrs = A[i],
         NEW bn \in 0 .. MAXFILE - 1, bn < NDIRECT, NEW r, r = Direct(m, bn)
  PROVE  r \in State /\ Mapped(A, i, m, r, bn)
<1>1. NDIRECT \in Nat /\ NDIRECT \in Place /\ bn \in 0 .. NDIRECT /\ Loc(bn) = bn /\ bn \in Place
  BY Sizes DEF Loc, Place
<1>2. /\ r \in State /\ Fills(A, i, m, r, bn)
      /\ \/ r.log = m.log /\ r.addr = m.addrs[bn]
         \/ /\ m.addrs[bn] = 0 /\ r.addr # 0
            /\ r.log = m.log \cup {BBLOCK(r.addr), DBLOCK(r.addr)}
  BY <1>1, DirectFills
<1>3. At(m.addrs, m.data, bn) = m.addrs[bn] /\ At(r.addrs, r.data, bn) = r.addrs[bn]
      /\ At(m.addrs, m.data, NDIRECT) = m.addrs[NDIRECT]
      /\ At(r.addrs, r.data, NDIRECT) = r.addrs[NDIRECT]
  BY <1>1 DEF At
<1>4. A \in [Ino -> [0 .. NDIRECT -> Block]]  BY DEF Layout
<1>5. [A EXCEPT ![i] = r.addrs][i] = r.addrs  BY <1>4
<1>6. r.addrs[NDIRECT] = m.addrs[NDIRECT]  BY <1>1, <1>2, <1>3, <1>5 DEF Fills
<1>7. /\ Layout(r.used, r.data, [A EXCEPT ![i] = r.addrs]) /\ Keeps(m.used, m.data, A, r.data)
      /\ \A j \in Ino, k \in Place :
           j # i \/ (k # Loc(bn) /\ k # NDIRECT) =>
             At([A EXCEPT ![i] = r.addrs][j], r.data, k) = At(A[j], m.data, k)
      /\ At(r.addrs, r.data, Loc(bn)) = r.addr
  BY <1>1, <1>2 DEF Fills
<1>8. m.addrs[bn] # 0 => Same(r, m) /\ r.addrs = m.addrs /\ r.addr = m.addrs[bn]
  BY <1>2, <1>3 DEF Fills, Same
<1>9. LogGrows(m, r, m.addrs[bn] # 0)  BY <1>2, <1>6 DEF LogGrows, Plain
<1> QED  BY <1>1, <1>2, <1>3, <1>6, <1>7, <1>8, <1>9 DEF Mapped

\* The indirect block is there, or there is none because the disk is full.
LEMMA MappedOld ==
  ASSUME NEW m \in State, NEW A, Layout(m.used, m.data, A), NEW i \in Ino, m.addrs = A[i],
         NEW bn \in 0 .. MAXFILE - 1, NEW r, Same(r, m), r.addrs = m.addrs,
         r.addr = At(m.addrs, m.data, Loc(bn)),
         r.addr # 0 /\ bn >= NDIRECT => m.addrs[NDIRECT] # 0
  PROVE  Mapped(A, i, m, r, bn)
<1>1. A \in [Ino -> [0 .. NDIRECT -> Block]]  BY DEF Layout
<1>2. [A EXCEPT ![i] = r.addrs] = A  BY <1>1
<1>3. r.used = m.used /\ r.data = m.data /\ r.log = m.log  BY DEF Same
<1>4. Layout(r.used, r.data, [A EXCEPT ![i] = r.addrs])  BY <1>2, <1>3
<1>5. Keeps(m.used, m.data, A, r.data)  BY <1>3 DEF Keeps
<1>6. LogGrows(m, r, At(m.addrs, m.data, Loc(bn)) # 0)  BY <1>3 DEF LogGrows
<1>7. \A j \in Ino, k \in Place : At([A EXCEPT ![i] = r.addrs][j], r.data, k) = At(A[j], m.data, k)
  BY <1>2, <1>3
<1> QED  BY <1>3, <1>4, <1>5, <1>6, <1>7 DEF Mapped

\* The indirect block, then the block in it.
LEMMA MappedNew ==
  ASSUME NEW m \in State, NEW A, Layout(m.used, m.data, A), NEW i \in Ino, m.addrs = A[i],
         NEW bn \in 0 .. MAXFILE - 1, bn >= NDIRECT,
         NEW s \in State, Fills(A, i, m, s, NDIRECT), s.addr # 0,
         \/ s.log = m.log /\ s.addr = m.addrs[NDIRECT]
         \/ /\ m.addrs[NDIRECT] = 0
            /\ s.log = m.log \cup {BBLOCK(s.addr), DBLOCK(s.addr)},
         NEW B, B = [A EXCEPT ![i] = s.addrs],
         NEW r \in State, Fills(B, i, s, r, Loc(bn)), r.addrs = s.addrs,
         At(s.addrs, s.data, Loc(bn)) = 0,
         \/ r.addr = 0 /\ r.log = s.log \cup {DBLOCK(s.addr)}
         \/ /\ r.addr # 0
            /\ r.log = s.log \cup {BBLOCK(r.addr), DBLOCK(r.addr), DBLOCK(s.addr)}
  PROVE  Mapped(A, i, m, r, bn)
<1>1. A \in [Ino -> [0 .. NDIRECT -> Block]]  BY DEF Layout
<1>2. /\ NDIRECT \in Nat /\ NDIRECT \in Place /\ Loc(bn) \in Place /\ Loc(bn) # NDIRECT
  BY Sizes
<1>3. [B EXCEPT ![i] = r.addrs] = B /\ [A EXCEPT ![i] = r.addrs] = B /\ B[i] = s.addrs
      /\ B \in [Ino -> [0 .. NDIRECT -> Block]]
  BY <1>1 DEF State
<1>4. /\ \A j \in Ino, k \in Place :
           j # i \/ k # NDIRECT => At(B[j], s.data, k) = At(A[j], m.data, k)
      /\ At(s.addrs, s.data, NDIRECT) = s.addr
      /\ Keeps(m.used, m.data, A, s.data)
      /\ m.used \subseteq s.used
      /\ s.addr = At(m.addrs, m.data, NDIRECT) \/ s.addr \notin m.used
  BY DEF Fills
<1>5. /\ \A j \in Ino, k \in Place :
           j # i \/ k # Loc(bn) => At(B[j], r.data, k) = At(B[j], s.data, k)
      /\ Layout(r.used, r.data, B) /\ Keeps(s.used, s.data, B, r.data)
      /\ At(r.addrs, r.data, Loc(bn)) = r.addr
  BY <1>3 DEF Fills
<1>6. s.addrs[NDIRECT] = s.addr /\ r.addrs[NDIRECT] = s.addr
      /\ At(m.addrs, m.data, NDIRECT) = m.addrs[NDIRECT]
  BY <1>2, <1>4 DEF At
<1>7. Keeps(m.used, m.data, A, r.data)
  <2> SUFFICES ASSUME NEW c \in m.used, \A j \in Ino : A[j][NDIRECT] # c
               PROVE  r.data[c] = m.data[c]
    BY DEF Keeps
  <2>1. s.data[c] = m.data[c]  BY <1>4 DEF Keeps
  <2>2. ASSUME NEW j \in Ino PROVE B[j][NDIRECT] # c
    <3>1. CASE j = i  BY <1>3, <1>4, <1>6, <3>1
    <3>2. CASE j # i  BY <1>1, <3>2
    <3> QED  BY <3>1, <3>2
  <2>3. r.data[c] = s.data[c]  BY <1>4, <1>5, <2>2 DEF Keeps
  <2> QED  BY <2>1, <2>3
<1>8. \A j \in Ino, k \in Place :
        j # i \/ (k # Loc(bn) /\ k # NDIRECT) => At(B[j], r.data, k) = At(A[j], m.data, k)
  BY <1>4, <1>5
<1>9. At(m.addrs, m.data, Loc(bn)) = 0  BY <1>2, <1>3, <1>4
<1>10. LogGrows(m, r, FALSE)
  <2>1. CASE s.log = m.log /\ s.addr = m.addrs[NDIRECT]  BY <1>6, <2>1 DEF LogGrows, Plain
  <2>2. CASE /\ m.addrs[NDIRECT] = 0 /\ s.log = m.log \cup {BBLOCK(s.addr), DBLOCK(s.addr)}
    BY <1>6, <2>2 DEF LogGrows, Plain
  <2> QED  BY <2>1, <2>2
<1>11. LogGrows(m, r, At(m.addrs, m.data, Loc(bn)) # 0)  BY <1>9, <1>10 DEF LogGrows
<1> QED  BY <1>3, <1>5, <1>6, <1>7, <1>8, <1>9, <1>11 DEF Mapped

\* What bmap() does, in each of its cases.
LEMMA BmapIs ==
  ASSUME NEW m \in State, NEW A, Layout(m.used, m.data, A), NEW i \in Ino, m.addrs = A[i],
         NEW bn \in 0 .. MAXFILE - 1
  PROVE  bmap(m, bn) \in State /\ Mapped(A, i, m, bmap(m, bn), bn)
<1>1. CASE bn < NDIRECT  BY <1>1, MappedDirect DEF bmap
<1>2. CASE ~(bn < NDIRECT)
  <2>1. PICK s : s = Direct(m, NDIRECT)  OBVIOUS
  <2>2. PICK x \in Word : x = bn - NDIRECT /\ Loc(bn) = NDIRECT + 1 + x
    BY <1>2, Sizes DEF Word, Loc
  <2>3. /\ NDIRECT \in Nat /\ NDIRECT \in Place /\ Loc(bn) \in Place /\ Loc(bn) # NDIRECT
        /\ NDIRECT \in 0 .. NDIRECT /\ bn >= NDIRECT
    BY <1>2, Sizes
  <2>4. /\ s \in State /\ Fills(A, i, m, s, NDIRECT)
        /\ \/ s.log = m.log /\ s.addr = m.addrs[NDIRECT]
           \/ /\ m.addrs[NDIRECT] = 0 /\ s.addr # 0
              /\ s.log = m.log \cup {BBLOCK(s.addr), DBLOCK(s.addr)}
    BY <2>1, <2>3, DirectFills
  <2>5. \A a, d : /\ At(a, d, NDIRECT) = a[NDIRECT]
                  /\ At(a, d, Loc(bn)) = IF a[NDIRECT] = 0 THEN 0 ELSE d[a[NDIRECT]][x]
    <3>1. ~(Loc(bn) <= NDIRECT) /\ Loc(bn) - NDIRECT - 1 = x  BY <2>2, <2>3 DEF Word
    <3> QED  BY <2>3, <3>1 DEF At
  <2>6. CASE s.addr = 0
    <3>1. bmap(m, bn) = s  BY <1>2, <2>1, <2>6 DEF bmap
    <3>2. Same(s, m) /\ s.addrs = m.addrs /\ s.addr = m.addrs[NDIRECT]
      BY <2>4, <2>5, <2>6 DEF Fills, Same
    <3>3. s.addr = At(m.addrs, m.data, Loc(bn))  BY <2>5, <2>6, <3>2
    <3>4. Mapped(A, i, m, s, bn)  BY <2>6, <3>2, <3>3, MappedOld
    <3> QED  BY <2>4, <3>1, <3>4
  <2>7. CASE s.addr # 0 /\ s.data[s.addr][x] # 0
    <3> DEFINE r == [s EXCEPT !.addr = s.data[s.addr][x]]
    <3>1. bmap(m, bn) = r  BY <1>2, <2>1, <2>2, <2>7 DEF bmap
    <3>2. PICK B : B = [A EXCEPT ![i] = s.addrs]  OBVIOUS
    <3>3. A \in [Ino -> [0 .. NDIRECT -> Block]]  BY DEF Layout
    <3>4. B[i] = s.addrs  BY <3>2, <3>3
    <3>5. s.addrs[NDIRECT] = s.addr  BY <2>4, <2>5 DEF Fills
    <3>6. At(s.addrs, s.data, Loc(bn)) = s.data[s.addr][x]  BY <2>5, <2>7, <3>5
    <3>7. At(m.addrs, m.data, Loc(bn)) = At(s.addrs, s.data, Loc(bn))
      BY <2>3, <2>4, <3>2, <3>4 DEF Fills
    <3>8. m.addrs[NDIRECT] # 0  BY <2>5, <2>7, <3>6, <3>7
    <3>9. Same(s, m) /\ s.addrs = m.addrs  BY <2>4, <2>5, <3>8 DEF Fills, Same
    <3>10. s.data[s.addr][x] \in Block
      <4>1. At(A[i], m.data, Loc(bn)) \in Block  BY <2>3 DEF Layout
      <4> QED  BY <3>6, <3>7, <4>1
    <3>11. r \in State /\ Same(r, s) /\ r.addrs = s.addrs /\ r.addr = s.data[s.addr][x]
      BY <2>4, <3>10, SetAddr
    <3> HIDE DEF r
    <3>12. Same(r, m) /\ r.addrs = m.addrs /\ r.addr = At(m.addrs, m.data, Loc(bn))
      BY <3>6, <3>7, <3>9, <3>11 DEF Same
    <3>13. Mapped(A, i, m, r, bn)  BY <3>8, <3>12, MappedOld
    <3> QED  BY <3>1, <3>11, <3>13
  <2>8. CASE s.addr # 0 /\ s.data[s.addr][x] = 0
    <3>2. PICK r : r = Indirect(s, s.addr, x)  OBVIOUS
    <3>3. bmap(m, bn) = r  BY <1>2, <2>1, <2>2, <2>8, <3>2 DEF bmap, Indirect
    <3>4. PICK B : B = [A EXCEPT ![i] = s.addrs]  OBVIOUS
    <3>5. A \in [Ino -> [0 .. NDIRECT -> Block]]  BY DEF Layout
    <3>6. B[i] = s.addrs /\ Layout(s.used, s.data, B)  BY <2>4, <3>4, <3>5 DEF Fills
    <3>7. s.addrs[NDIRECT] = s.addr  BY <2>4, <2>5 DEF Fills
    <3>8. /\ r \in State /\ Fills(B, i, s, r, Loc(bn)) /\ r.addrs = s.addrs
          /\ \/ r.addr = 0 /\ r.log = s.log \cup {DBLOCK(s.addr)}
             \/ /\ r.addr # 0
                /\ r.log = s.log \cup {BBLOCK(r.addr), DBLOCK(r.addr), DBLOCK(s.addr)}
      <4>1. s \in State /\ s.addrs = B[i] /\ s.addr = s.addrs[NDIRECT]  BY <2>4, <3>6, <3>7
      <4>2. IndirectStep(B, i, s, r, s.addr, x)  BY <2>8, <3>2, <3>6, <4>1, IndirectFills
      <4> QED  BY <2>2, <4>2 DEF IndirectStep
    <3>9. At(s.addrs, s.data, Loc(bn)) = 0  BY <2>5, <2>8, <3>7
    <3>10. Mapped(A, i, m, r, bn)  BY <2>3, <2>4, <2>8, <3>4, <3>8, <3>9, MappedNew
    <3> QED  BY <3>3, <3>8, <3>10
  <2> QED  BY <2>6, <2>7, <2>8
<1> QED  BY <1>1, <1>2

-----------------------------------------------------------------------------
(* The words of a block, and what a transaction may log *)

\* The lesser of two.
LEMMA MinTwo ==
  ASSUME NEW x \in Nat, NEW y \in Nat
  PROVE  Min({x, y}) \in Nat /\ Min({x, y}) = IF x <= y THEN x ELSE y
<1>1. {x, y} \in SUBSET Nat /\ {x, y} # {}  OBVIOUS
<1>2. Min({x, y}) \in {x, y} /\ \A z \in {x, y} : Min({x, y}) <= z  BY <1>1, MinOfNat
<1> QED  BY <1>2

\* filewrite's max: that many blocks leave four of the transaction.
LEMMA HalfIs == Half \in Nat /\ 2 * Half + 4 <= MAXOPBLOCKS /\ max = Half * BSIZE
<1>1. MAXOPBLOCKS \in Nat /\ MAXOPBLOCKS >= 4 /\ BSIZE \in Nat  BY BlocksAssumption
<1>2. MAXOPBLOCKS - 1 - 1 - 2 = MAXOPBLOCKS - 4 /\ MAXOPBLOCKS - 4 \in Nat  BY <1>1
<1>3. Half \in Nat /\ 2 * Half <= MAXOPBLOCKS - 4  BY <1>2 DEF Half
<1> QED  BY <1>1, <1>2, <1>3 DEF max, Half

\* A chunk of at most max words fits, aligned or not.
LEMMA CostBound ==
  ASSUME NEW pos \in Nat, NEW n1 \in Nat, n1 <= max
  PROVE  Cost(pos, pos + n1) \in Int /\ Cost(pos, pos + n1) <= 2 * Half + 1
<1>1. Half \in Nat /\ BSIZE \in Nat \ {0} /\ n1 <= Half * BSIZE  BY HalfIs, Sizes
<1>2. CASE n1 = 0
  <2>1. pos = pos + n1  BY <1>2
  <2> QED  BY <1>1, <2>1 DEF Cost
<1>3. CASE n1 # 0
  <2>1. PICK q \in Nat, m \in 0 .. BSIZE - 1 :
          q = pos \div BSIZE /\ m = pos % BSIZE /\ pos = BSIZE * q + m
    BY <1>1, DivFacts
  <2>2. PICK e \in Nat : e = pos + n1 - 1  BY <1>3
  <2>3. PICK p \in Nat : p = e \div BSIZE  BY <1>1, DivFacts
  <2>4. pos # pos + n1 /\ (pos + n1) - 1 = e  BY <1>3, <2>2
  <2>5. Cost(pos, pos + n1) = 2 * (p - q + 1) - (IF m = 0 THEN 0 ELSE 1)
    BY <2>1, <2>3, <2>4 DEF Cost
  <2>6. PICK x \in Nat : x = BSIZE * q  BY <1>1, <2>1
  <2>7. PICK y \in Nat : y = Half * BSIZE  BY <1>1
  <2>8. q + Half \in Nat /\ q + Half + 1 \in Nat
        /\ BSIZE * (q + Half) = x + y /\ BSIZE * (q + Half + 1) = x + y + BSIZE
    BY <1>1, <2>1, <2>6, <2>7
  <2>9. e < x + y + BSIZE /\ (m = 0 => e < x + y)  BY <1>1, <2>1, <2>2, <2>6, <2>7
  <2>10. p < q + Half + 1 <=> e < BSIZE * (q + Half + 1)  BY <1>1, <2>3, <2>8, DivLess
  <2>11. p < q + Half <=> e < BSIZE * (q + Half)  BY <1>1, <2>3, <2>8, DivLess
  <2>12. p < q + Half + 1 /\ (m = 0 => p < q + Half)  BY <2>8, <2>9, <2>10, <2>11
  <2> QED  BY <1>1, <2>1, <2>5, <2>12
<1> QED  BY <1>2, <1>3

\* The piece of a block that one round writes.
Piece(pos, end) == Min({end - pos, BSIZE - (pos % BSIZE)})

\* A piece ends with the block or with the chunk.
LEMMA PieceIs ==
  ASSUME NEW pos \in Nat, NEW end \in Nat, pos < end
  PROVE  /\ Piece(pos, end) \in Nat \ {0} /\ pos + Piece(pos, end) <= end
         /\ (pos % BSIZE) + Piece(pos, end) <= BSIZE
         /\ Piece(pos, end) = end - pos \/ (pos % BSIZE) + Piece(pos, end) = BSIZE
<1>1. BSIZE \in Nat \ {0}  BY Sizes
<1>2. PICK lo \in 0 .. BSIZE - 1 : lo = pos % BSIZE  BY <1>1, DivFacts
<1>3. end - pos \in Nat \ {0} /\ BSIZE - lo \in Nat \ {0}  BY <1>1
<1>4. PICK m : m = Min({end - pos, BSIZE - lo})  OBVIOUS
<1>5. m = IF end - pos <= BSIZE - lo THEN end - pos ELSE BSIZE - lo  BY <1>3, <1>4, MinTwo
<1>6. Piece(pos, end) = m  BY <1>2, <1>4 DEF Piece
<1> QED  BY <1>1, <1>2, <1>3, <1>5, <1>6

\* A round pays for what it may log: two blocks if it starts one, else one.
LEMMA CostDrops ==
  ASSUME NEW pos \in Nat, NEW end \in Nat, pos < end, NEW m, m = Piece(pos, end)
  PROVE  /\ Cost(pos, end) \in Int /\ Cost(pos + m, end) \in Nat
         /\ Cost(pos + m, end) + (IF pos % BSIZE = 0 THEN 2 ELSE 1) <= Cost(pos, end)
<1>1. BSIZE \in Nat \ {0}  BY Sizes
<1>2. PICK q \in Nat, lo \in 0 .. BSIZE - 1 :
        q = pos \div BSIZE /\ lo = pos % BSIZE /\ pos = BSIZE * q + lo
  BY <1>1, DivFacts
<1>3. /\ m \in Nat \ {0} /\ pos + m <= end /\ lo + m <= BSIZE
      /\ m = end - pos \/ lo + m = BSIZE
  BY <1>2, PieceIs
<1>4. PICK e \in Nat : e = end - 1  OBVIOUS
<1>5. PICK p \in Nat : p = e \div BSIZE  BY <1>1, DivFacts
<1>6. q <= p
  <2>1. pos <= e  BY <1>4
  <2>2. pos \div BSIZE <= e \div BSIZE  BY <1>1, <2>1, DivMono
  <2> QED  BY <1>2, <1>5, <2>2
<1>7. Cost(pos, end) = 2 * (p - q + 1) - (IF lo = 0 THEN 0 ELSE 1)
  BY <1>2, <1>4, <1>5 DEF Cost
<1>8. CASE pos + m = end
  <2>1. Cost(pos + m, end) = 0  BY <1>8 DEF Cost
  <2> QED  BY <1>2, <1>6, <1>7, <2>1
<1>9. CASE pos + m # end
  <2>1. lo + m = BSIZE /\ pos + m <= e /\ pos + m \in Nat  BY <1>3, <1>4, <1>9
  <2>2. PICK x \in Nat : x = BSIZE * q  BY <1>1
  <2>3. BSIZE * (q + 1) = x + BSIZE  BY <1>1, <2>2
  <2>4. pos + m = BSIZE * (q + 1) + 0 /\ q + 1 \in Nat /\ 0 \in 0 .. BSIZE - 1
    BY <1>1, <1>2, <1>3, <2>1, <2>2, <2>3
  <2>5. (pos + m) \div BSIZE = q + 1 /\ (pos + m) % BSIZE = 0
    BY <1>1, <2>1, <2>4, DivUnique
  <2>6. q + 1 <= p  BY <1>1, <1>5, <2>1, <2>5, DivMono
  <2>7. Cost(pos + m, end) = 2 * (p - (q + 1) + 1)
    BY <1>4, <1>5, <1>9, <2>5 DEF Cost
  <2> QED  BY <1>2, <1>6, <1>7, <2>6, <2>7
<1> QED  BY <1>8, <1>9

\* The words a round writes are those of its piece.
LEMMA PieceWords ==
  ASSUME NEW pos \in Nat, NEW end \in Nat, pos < end, NEW m, m = Piece(pos, end),
         NEW o \in Nat
  PROVE  /\ o \in pos .. pos + m - 1 => o \div BSIZE = pos \div BSIZE
         /\ o \div BSIZE = pos \div BSIZE =>
              (o \in pos .. pos + m - 1 <=> o % BSIZE \in (pos % BSIZE) .. (pos % BSIZE) + m - 1)
<1>1. BSIZE \in Nat \ {0}  BY Sizes
<1>2. PICK lo \in 0 .. BSIZE - 1 : lo = pos % BSIZE  BY <1>1, DivFacts
<1>3. m \in Nat \ {0} /\ pos + m <= end /\ lo + m <= BSIZE  BY <1>2, PieceIs
<1>4. ASSUME o \in pos .. pos + m - 1 PROVE o \div BSIZE = pos \div BSIZE
  <2>1. PICK x \in Nat : x = o - pos  BY <1>4
  <2>2. (pos % BSIZE) + x < BSIZE /\ o = pos + x  BY <1>1, <1>2, <1>3, <1>4, <2>1
  <2> QED  BY <1>1, <2>2, InBlock
<1>5. ASSUME o \div BSIZE = pos \div BSIZE
      PROVE  o \in pos .. pos + m - 1 <=> o % BSIZE \in (pos % BSIZE) .. (pos % BSIZE) + m - 1
  <2>1. PICK k \in 0 .. BSIZE - 1 : k = o % BSIZE  BY <1>1, DivFacts
  <2>2. o - pos = k - lo  BY <1>1, <1>2, <1>5, <2>1, SameBlock
  <2> QED  BY <1>1, <1>2, <1>3, <2>1, <2>2
<1> QED  BY <1>4, <1>5

-----------------------------------------------------------------------------
(* What the files hold *)

\* The block of a word of a file.
LEMMA WordPlace ==
  ASSUME NEW t \in 0 .. MAXFILE * BSIZE, NEW o \in 0 .. t - 1
  PROVE  /\ o \in Nat /\ o \div BSIZE \in 0 .. MAXFILE - 1 /\ Loc(o \div BSIZE) \in Place
         /\ Loc(o \div BSIZE) # NDIRECT /\ o % BSIZE \in Word
         /\ \A i, a, d : Contains(i, a, d, t) =>
              /\ At(a, d, Loc(o \div BSIZE)) # 0
              /\ d[At(a, d, Loc(o \div BSIZE))][o % BSIZE] = i
<1>1. BSIZE \in Nat \ {0} /\ MAXFILE \in Nat  BY Sizes
<1>2. PICK x \in Nat : x = BSIZE * MAXFILE /\ x = MAXFILE * BSIZE  BY <1>1
<1>3. o \in Nat /\ o < BSIZE * MAXFILE  BY <1>2
<1>4. o \div BSIZE \in Nat /\ o % BSIZE \in 0 .. BSIZE - 1  BY <1>1, <1>3, DivFacts
<1>5. o \div BSIZE < MAXFILE  BY <1>1, <1>3, DivLess
<1>6. o \div BSIZE \in 0 .. MAXFILE - 1  BY <1>1, <1>4, <1>5
<1>7. Reaches(t, o \div BSIZE)  BY DEF Reaches
<1>8. ASSUME NEW i, NEW a, NEW d, Contains(i, a, d, t)
      PROVE  /\ At(a, d, Loc(o \div BSIZE)) # 0
             /\ d[At(a, d, Loc(o \div BSIZE))][o % BSIZE] = i
  BY <1>6, <1>7, <1>8 DEF Contains, HasBlocks, HasWords
<1> QED  BY <1>3, <1>4, <1>6, <1>8, Sizes DEF Word

\* A file whose blocks stay where and what they are holds what it did.
LEMMA ContainsKept ==
  ASSUME NEW i, NEW a, NEW d, NEW a1, NEW d1, NEW t \in 0 .. MAXFILE * BSIZE,
         Contains(i, a, d, t),
         \A k \in Place : At(a1, d1, k) = At(a, d, k),
         \A k \in Place : k # NDIRECT /\ At(a, d, k) # 0 => d1[At(a, d, k)] = d[At(a, d, k)]
  PROVE  Contains(i, a1, d1, t)
<1>1. HasBlocks(a1, d1, t)  BY Sizes DEF Contains, HasBlocks
<1>2. ASSUME NEW o \in 0 .. t - 1
      PROVE  d1[At(a1, d1, Loc(o \div BSIZE))][o % BSIZE] = i
  <2>1. PICK l \in Place : l = Loc(o \div BSIZE) /\ l # NDIRECT  BY WordPlace
  <2>2. At(a, d, l) # 0 /\ d[At(a, d, l)][o % BSIZE] = i  BY <2>1, WordPlace
  <2>3. At(a1, d1, l) = At(a, d, l) /\ d1[At(a, d, l)] = d[At(a, d, l)]  BY <2>1, <2>2
  <2> QED  BY <2>1, <2>2, <2>3
<1> QED  BY <1>1, <1>2 DEF Contains, HasWords

\* In an allocated block that is not an indirect block, words can be written
\* without moving anything.
NoIndirect(A, c) == \A j \in Ino : A[j][NDIRECT] # 0 => A[j][NDIRECT] # c
Overwrites(u, d, A, c, w, d1) ==
  /\ Layout(u, d1, A) /\ d1 \in [Block -> [Word -> Nat]] /\ d1[c] = w
  /\ \A b \in Block : b # c => d1[b] = d[b]
  /\ \A j \in Ino, k \in Place : At(A[j], d1, k) = At(A[j], d, k)

LEMMA WriteWords ==
  ASSUME NEW u, NEW d, NEW A, Layout(u, d, A), NEW c \in Block, NoIndirect(A, c),
         NEW w \in [Word -> Nat], NEW d1, d1 = [d EXCEPT ![c] = w]
  PROVE  Overwrites(u, d, A, c, w, d1)
<1>1. d \in [Block -> [Word -> Nat]] /\ A \in [Ino -> [0 .. NDIRECT -> Block]]
  BY DEF Layout
<1>2. d1 \in [Block -> [Word -> Nat]] /\ d1[c] = w /\ \A b \in Block : b # c => d1[b] = d[b]
  BY <1>1
<1>3. ASSUME NEW j \in Ino, NEW k \in Place PROVE At(A[j], d1, k) = At(A[j], d, k)
  <2>1. A[j][NDIRECT] \in Block  BY <1>1, Sizes
  <2>2. A[j][NDIRECT] # 0 => d1[A[j][NDIRECT]] = d[A[j][NDIRECT]]
    BY <1>2, <2>1 DEF NoIndirect
  <2> QED  BY <2>2 DEF At
<1>4. Layout(u, d1, A)  BY <1>2, <1>3, LayoutSame
<1> QED  BY <1>2, <1>3, <1>4 DEF Overwrites

\* A block number is in one place.
LEMMA OnePlace ==
  ASSUME NEW u, NEW d, NEW A, Layout(u, d, A), NEW i \in Ino, NEW j \in Ino,
         NEW l \in Place, NEW k \in Place, At(A[i], d, l) = At(A[j], d, k), At(A[i], d, l) # 0
  PROVE  i = j /\ l = k
BY DEF Layout

\* The block in another place than an indirect block's is none.
LEMMA NotIndirect ==
  ASSUME NEW u, NEW d, NEW A, Layout(u, d, A), NEW i \in Ino, NEW l \in Place, l # NDIRECT,
         NEW c, c = At(A[i], d, l)
  PROVE  NoIndirect(A, c)
<1> SUFFICES ASSUME NEW j \in Ino, A[j][NDIRECT] # 0, A[j][NDIRECT] = c PROVE FALSE
  BY DEF NoIndirect
<1>1. NDIRECT \in Place /\ NDIRECT \in Nat  BY Sizes
<1>2. At(A[j], d, NDIRECT) = c  BY <1>1 DEF At
<1> QED  BY <1>1, <1>2 DEF Layout

-----------------------------------------------------------------------------
(* One round of writei's loop *)

\* The words lo .. lo + p - 1 of block c become those of file i.
Written(d, c, i, lo, p) ==
  [d EXCEPT ![c] = [k \in DOMAIN @ |-> IF k \in lo .. lo + p - 1 THEN i ELSE @[k]]]

\* The effect on the layout, and on the blocks in other places.
Round(A, i, m, r, bn, d1) ==
  /\ Layout(r.used, d1, [A EXCEPT ![i] = r.addrs])
  /\ \A j \in Ino, k \in Place :
       At([A EXCEPT ![i] = r.addrs][j], d1, k) = At([A EXCEPT ![i] = r.addrs][j], r.data, k)
  /\ \A j \in Ino, k \in Place :
       /\ k # NDIRECT /\ (j # i \/ k # Loc(bn))
       /\ At(A[j], m.data, k) # 0
       => d1[At(A[j], m.data, k)] = m.data[At(A[j], m.data, k)]

\* A round moves nothing, and writes to no other block.
LEMMA RoundIs ==
  ASSUME NEW m \in State, NEW A, Layout(m.used, m.data, A), NEW i \in Ino, m.addrs = A[i],
         NEW bn \in 0 .. MAXFILE - 1, NEW r \in State, Mapped(A, i, m, r, bn),
         NEW d1, d1[r.addr] \in [Word -> Nat], d1 = [r.data EXCEPT ![r.addr] = d1[r.addr]]
  PROVE  Round(A, i, m, r, bn, d1)
<1> DEFINE w == d1[r.addr]
<1> HIDE DEF w
<1>0. w \in [Word -> Nat] /\ d1 = [r.data EXCEPT ![r.addr] = w]  BY DEF w
<1>1. PICK B : B = [A EXCEPT ![i] = r.addrs]  OBVIOUS
<1>2. A \in [Ino -> [0 .. NDIRECT -> Block]]  BY DEF Layout
<1>3. B[i] = r.addrs  BY <1>1, <1>2
<1>4. /\ Loc(bn) \in Place /\ Loc(bn) # NDIRECT /\ NDIRECT \in Nat /\ NDIRECT \in Place
  BY Sizes
<1>5. /\ Layout(r.used, r.data, B) /\ Keeps(m.used, m.data, A, r.data)
      /\ \A j \in Ino, k \in Place :
           j # i \/ (k # Loc(bn) /\ k # NDIRECT) => At(B[j], r.data, k) = At(A[j], m.data, k)
      /\ r.addr # 0 => At(B[i], r.data, Loc(bn)) = r.addr
  BY <1>1, <1>3 DEF Mapped
<1>6. r.addr \in Block /\ r.data \in [Block -> [Word -> Nat]]  BY DEF State
<1>7. NoIndirect(B, r.addr)
  <2>1. CASE r.addr = 0  BY <2>1 DEF NoIndirect
  <2>2. CASE r.addr # 0
    <3>1. PICK l \in Place : l = Loc(bn) /\ l # NDIRECT  BY <1>4
    <3>2. Layout(r.used, r.data, B) /\ r.addr = At(B[i], r.data, l)  BY <1>5, <2>2, <3>1
    <3> QED  BY <3>1, <3>2, NotIndirect
  <2> QED  BY <2>1, <2>2
<1>8. /\ Layout(r.used, d1, B)
      /\ \A b \in Block : b # r.addr => d1[b] = r.data[b]
      /\ \A j \in Ino, k \in Place : At(B[j], d1, k) = At(B[j], r.data, k)
  <2>1. Overwrites(r.used, r.data, B, r.addr, w, d1)  BY <1>0, <1>5, <1>6, <1>7, WriteWords
  <2> QED  BY <2>1 DEF Overwrites
<1>9. ASSUME NEW j \in Ino, NEW k \in Place, k # NDIRECT, j # i \/ k # Loc(bn),
             At(A[j], m.data, k) # 0
      PROVE  d1[At(A[j], m.data, k)] = m.data[At(A[j], m.data, k)]
  <2>1. PICK b : b = At(A[j], m.data, k)  OBVIOUS
  <2>2. b \in m.used /\ b \in Block /\ b # 0  BY <1>9, <2>1 DEF Layout
  <2>3. NoIndirect(A, b)  BY <1>9, <2>1, NotIndirect
  <2>4. r.data[b] = m.data[b]  BY <1>5, <2>2, <2>3 DEF Keeps, NoIndirect
  <2>5. b = At(B[j], r.data, k)  BY <1>5, <1>9, <2>1
  <2>6. b # r.addr
    <3> SUFFICES ASSUME b = r.addr PROVE FALSE  OBVIOUS
    <3>1. At(B[i], r.data, Loc(bn)) = b  BY <1>5, <2>2
    <3>2. PICK l \in Place : l = Loc(bn)  BY <1>4
    <3>3. At(B[j], r.data, k) = At(B[i], r.data, l) /\ At(B[j], r.data, k) # 0
      BY <2>2, <2>5, <3>1, <3>2
    <3>4. j = i /\ k = l  BY <1>5, <3>3, OnePlace
    <3> QED  BY <1>9, <3>2, <3>4
  <2> QED  BY <1>8, <2>1, <2>2, <2>4, <2>6
<1>10. \A j \in Ino, k \in Place :
       /\ k # NDIRECT /\ (j # i \/ k # Loc(bn))
       /\ At(A[j], m.data, k) # 0
       => d1[At(A[j], m.data, k)] = m.data[At(A[j], m.data, k)]
  BY <1>9
<1> QED  BY <1>1, <1>8, <1>10 DEF Round

\* The other files hold what they did.
LEMMA RoundOthers ==
  ASSUME NEW A, NEW i \in Ino, NEW m, NEW r, NEW bn, NEW d1, Round(A, i, m, r, bn, d1),
         Mapped(A, i, m, r, bn), NEW j \in Ino, j # i, NEW t \in 0 .. MAXFILE * BSIZE,
         Contains(j, A[j], m.data, t)
  PROVE  Contains(j, [A EXCEPT ![i] = r.addrs][j], d1, t)
<1>1. PICK B : B = [A EXCEPT ![i] = r.addrs]  OBVIOUS
<1>2. \A k \in Place : At(B[j], d1, k) = At(A[j], m.data, k)
  <2>1. \A k \in Place : At(B[j], d1, k) = At(B[j], r.data, k)  BY <1>1 DEF Round
  <2>2. \A k \in Place : At(B[j], r.data, k) = At(A[j], m.data, k)  BY <1>1 DEF Mapped
  <2> QED  BY <2>1, <2>2
<1>3. \A k \in Place : k # NDIRECT /\ At(A[j], m.data, k) # 0 =>
        d1[At(A[j], m.data, k)] = m.data[At(A[j], m.data, k)]
  BY DEF Round
<1>4. Contains(j, B[j], d1, t)  BY <1>2, <1>3, ContainsKept
<1> QED  BY <1>1, <1>4

\* File i holds the words written so far.
Longer(i, m, r, pos, end, d1, t) ==
  LET t1 == IF pos + Piece(pos, end) > t THEN pos + Piece(pos, end) ELSE t
  IN t1 \in 0 .. MAXFILE * BSIZE /\ Contains(i, r.addrs, d1, t1)

LEMMA RoundFile ==
  ASSUME NEW m \in State, NEW A, Layout(m.used, m.data, A), NEW i \in Ino, m.addrs = A[i],
         NEW pos \in Nat, NEW end \in Nat, pos < end, end <= MAXFILE * BSIZE,
         NEW bn \in 0 .. MAXFILE - 1, bn = pos \div BSIZE,
         NEW r \in State, Mapped(A, i, m, r, bn), r.addr # 0,
         NEW d1, Round(A, i, m, r, bn, d1), d1[r.addr] =
           [k \in Word |-> IF k \in (pos % BSIZE) .. (pos % BSIZE) + Piece(pos, end) - 1
                           THEN i ELSE r.data[r.addr][k]],
         NEW t \in 0 .. MAXFILE * BSIZE, pos <= t, Contains(i, A[i], m.data, t)
  PROVE  Longer(i, m, r, pos, end, d1, t)
<1>0. PICK p : p = Piece(pos, end)  OBVIOUS
<1>14. PICK t1 : t1 = IF pos + p > t THEN pos + p ELSE t  OBVIOUS
<1>15. d1[r.addr] = [k \in Word |-> IF k \in (pos % BSIZE) .. (pos % BSIZE) + p - 1
                                   THEN i ELSE r.data[r.addr][k]]
  BY <1>0
<1>1. PICK B : B = [A EXCEPT ![i] = r.addrs]  OBVIOUS
<1>2. A \in [Ino -> [0 .. NDIRECT -> Block]]  BY DEF Layout
<1>3. B[i] = r.addrs  BY <1>1, <1>2
<1>4. /\ Loc(bn) \in Place /\ Loc(bn) # NDIRECT /\ NDIRECT \in Nat /\ NDIRECT \in Place
      /\ MAXFILE \in Nat /\ BSIZE \in Nat \ {0} /\ MAXFILE * BSIZE \in Nat
  <2>1. MAXFILE \in Nat /\ BSIZE \in Nat  BY Sizes
  <2>2. MAXFILE * BSIZE \in Nat  BY <2>1
  <2> QED  BY <2>2, Sizes
<1>5. p \in Nat \ {0} /\ pos + p <= end  BY <1>0, PieceIs
<1>6. t1 \in 0 .. MAXFILE * BSIZE /\ t <= t1 /\ pos + p <= t1 /\ t1 \in Nat /\ t \in Nat
  BY <1>4, <1>5, <1>14
<1>7. /\ \A k \in Place : k # Loc(bn) /\ k # NDIRECT => At(r.addrs, d1, k) = At(A[i], m.data, k)
      /\ At(r.addrs, d1, Loc(bn)) = r.addr
      /\ r.addrs[NDIRECT] # 0 <=> A[i][NDIRECT] # 0 \/ bn >= NDIRECT
  <2>1. \A k \in Place : At(r.addrs, d1, k) = At(r.addrs, r.data, k)
    BY <1>1, <1>3 DEF Round
  <2>2. \A k \in Place : k # Loc(bn) /\ k # NDIRECT =>
          At(r.addrs, r.data, k) = At(A[i], m.data, k)
    BY <1>1, <1>3 DEF Mapped
  <2>3. /\ At(r.addrs, r.data, Loc(bn)) = r.addr
        /\ r.addrs[NDIRECT] # 0 <=> A[i][NDIRECT] # 0 \/ bn >= NDIRECT
    BY DEF Mapped
  <2> QED  BY <1>4, <2>1, <2>2, <2>3
<1>8. ASSUME NEW o \in 0 .. t1 - 1, o \notin pos .. pos + p - 1 PROVE o \in 0 .. t - 1
  BY <1>5, <1>6, <1>8, <1>14
<1>9. ASSUME NEW o \in 0 .. t1 - 1, o \div BSIZE # bn PROVE o \in 0 .. t - 1
  <2>1. o \in Nat  BY <1>6
  <2>2. o \notin pos .. pos + p - 1  BY <1>0, <1>9, <2>1, PieceWords
  <2> QED  BY <1>8, <2>2
<1>10. \A cn : cn # bn => (Reaches(t1, cn) <=> Reaches(t, cn))
  <2> SUFFICES ASSUME NEW cn, cn # bn PROVE Reaches(t1, cn) <=> Reaches(t, cn)
    OBVIOUS
  <2>1. ASSUME NEW o \in 0 .. t1 - 1, o \div BSIZE = cn PROVE Reaches(t, cn)
    BY <1>9, <2>1 DEF Reaches
  <2>2. ASSUME NEW o \in 0 .. t - 1, o \div BSIZE = cn PROVE Reaches(t1, cn)
    <3>1. o \in 0 .. t1 - 1  BY <1>6
    <3> QED  BY <2>2, <3>1 DEF Reaches
  <2> QED  BY <2>1, <2>2 DEF Reaches
<1>11. Reaches(t1, bn)
  <2>1. pos \in 0 .. t1 - 1  BY <1>5, <1>6
  <2> QED  BY <2>1 DEF Reaches
<1>12. HasBlocks(r.addrs, d1, t1)
  <2>1. ASSUME NEW cn \in 0 .. MAXFILE - 1
        PROVE  At(r.addrs, d1, Loc(cn)) # 0 <=> Reaches(t1, cn)
    <3>1. CASE cn = bn  BY <1>7, <1>11, <3>1
    <3>2. CASE cn # bn
      <4>1. Loc(cn) \in Place /\ Loc(cn) # Loc(bn) /\ Loc(cn) # NDIRECT  BY <3>2, Sizes
      <4>2. At(A[i], m.data, Loc(cn)) # 0 <=> Reaches(t, cn)  BY DEF Contains, HasBlocks
      <4> QED  BY <1>7, <1>10, <3>2, <4>1, <4>2
    <3> QED  BY <3>1, <3>2
  <2>2. \A a, d : At(a, d, NDIRECT) = a[NDIRECT]  BY <1>4 DEF At
  <2>3. A[i][NDIRECT] # 0 <=> \E cn \in NDIRECT .. MAXFILE - 1 : Reaches(t, cn)
    BY <2>2 DEF Contains, HasBlocks
  <2>4. bn >= NDIRECT <=> bn \in NDIRECT .. MAXFILE - 1  BY <1>4
  <2>5. Reaches(t, bn) => bn \in 0 .. MAXFILE - 1  OBVIOUS
  <2>6. r.addrs[NDIRECT] # 0 <=> \E cn \in NDIRECT .. MAXFILE - 1 : Reaches(t1, cn)
    <3>1. CASE bn \in NDIRECT .. MAXFILE - 1  BY <1>7, <1>11, <2>4, <3>1
    <3>2. CASE bn \notin NDIRECT .. MAXFILE - 1  BY <1>7, <1>10, <2>3, <2>4, <3>2
    <3> QED  BY <3>1, <3>2
  <2> QED  BY <2>1, <2>2, <2>6 DEF HasBlocks
<1>13. ASSUME NEW o \in 0 .. t1 - 1
       PROVE  d1[At(r.addrs, d1, Loc(o \div BSIZE))][o % BSIZE] = i
  <2>1. /\ o \in Nat /\ o \div BSIZE \in 0 .. MAXFILE - 1 /\ Loc(o \div BSIZE) \in Place
        /\ Loc(o \div BSIZE) # NDIRECT /\ o % BSIZE \in Word
    BY <1>6, WordPlace
  <2>2. CASE o \div BSIZE = bn
    <3>1. o \in pos .. pos + p - 1 <=> o % BSIZE \in (pos % BSIZE) .. (pos % BSIZE) + p - 1
      BY <1>0, <2>1, <2>2, PieceWords
    <3>2. CASE o \in pos .. pos + p - 1  BY <1>7, <1>15, <2>1, <2>2, <3>1, <3>2
    <3>3. CASE o \notin pos .. pos + p - 1
      <4>1. o \in 0 .. t - 1  BY <1>8, <3>3
      <4>2. At(A[i], m.data, Loc(bn)) # 0 /\ m.data[At(A[i], m.data, Loc(bn))][o % BSIZE] = i
        BY <2>2, <4>1, WordPlace
      <4>3. r.data = m.data /\ r.addr = At(A[i], m.data, Loc(bn))  BY <4>2 DEF Mapped, Same
      <4>4. d1[r.addr][o % BSIZE] = r.data[r.addr][o % BSIZE]  BY <1>15, <2>1, <3>1, <3>3
      <4> QED  BY <1>7, <2>2, <4>2, <4>3, <4>4
    <3> QED  BY <3>2, <3>3
  <2>3. CASE o \div BSIZE # bn
    <3>1. PICK l \in Place : l = Loc(o \div BSIZE)  BY <2>1
    <3>2. l # Loc(bn) /\ l # NDIRECT  BY <2>1, <2>3, <3>1, Sizes
    <3>3. o \in 0 .. t - 1  BY <1>9, <2>3
    <3>4. At(A[i], m.data, l) # 0 /\ m.data[At(A[i], m.data, l)][o % BSIZE] = i
      BY <3>1, <3>3, WordPlace
    <3>5. d1[At(A[i], m.data, l)] = m.data[At(A[i], m.data, l)]  BY <3>2, <3>4 DEF Round
    <3> QED  BY <1>7, <3>1, <3>2, <3>4, <3>5
  <2> QED  BY <2>2, <2>3
<1>16. Contains(i, r.addrs, d1, t1)  BY <1>12, <1>13 DEF Contains, HasWords
<1> QED  BY <1>0, <1>6, <1>14, <1>16 DEF Longer

-----------------------------------------------------------------------------
(* What is logged *)

\* One element more.
LEMMA AddOne ==
  ASSUME NEW S, IsFiniteSet(S), NEW x
  PROVE  /\ IsFiniteSet(S \cup {x}) /\ Cardinality(S) \in Nat
         /\ Cardinality(S \cup {x}) \in Nat /\ Cardinality(S \cup {x}) <= Cardinality(S) + 1
<1>1. Cardinality(S) \in Nat  BY FS_CardinalityType
<1>2. /\ IsFiniteSet(S \cup {x})
      /\ Cardinality(S \cup {x}) = IF x \in S THEN Cardinality(S) ELSE Cardinality(S) + 1
  BY FS_AddElement
<1> QED  BY <1>1, <1>2

\* At most two elements more.
LEMMA AddTwo ==
  ASSUME NEW S, IsFiniteSet(S), NEW x, NEW y, NEW T, T \subseteq S \cup {x, y}
  PROVE  /\ IsFiniteSet(T) /\ Cardinality(S) \in Nat
         /\ Cardinality(T) \in Nat /\ Cardinality(T) <= Cardinality(S) + 2
<1>1. PICK U : U = S \cup {x}  OBVIOUS
<1>2. /\ IsFiniteSet(U) /\ Cardinality(S) \in Nat
      /\ Cardinality(U) \in Nat /\ Cardinality(U) <= Cardinality(S) + 1
  BY <1>1, AddOne
<1>3. PICK V : V = U \cup {y}  OBVIOUS
<1>4. IsFiniteSet(V) /\ Cardinality(V) \in Nat /\ Cardinality(V) <= Cardinality(U) + 1
  BY <1>2, <1>3, AddOne
<1>5. T \subseteq V  BY <1>1, <1>3
<1>6. IsFiniteSet(T) /\ Cardinality(T) <= Cardinality(V)  BY <1>4, <1>5, FS_Subset
<1>7. Cardinality(T) \in Nat  BY <1>6, FS_CardinalityType
<1> QED  BY <1>2, <1>4, <1>6, <1>7

\* The indirect block and its bitmap block are two.
LEMMA PlainCard ==
  ASSUME NEW g, NEW ind, IsFiniteSet(Plain(g, ind))
  PROVE  /\ IsFiniteSet(g) /\ Cardinality(g) \in Nat /\ Cardinality(Plain(g, ind)) \in Nat
         /\ Cardinality(g) <= Cardinality(Plain(g, ind)) + 2
<1>1. g \subseteq Plain(g, ind) \cup {DBLOCK(ind), BBLOCK(ind)}  BY DEF Plain
<1> QED  BY <1>1, AddTwo

\* What a round adds to the log.
LEMMA LogStep ==
  ASSUME NEW m, NEW r, NEW old \in BOOLEAN, LogGrows(m, r, old), IsFiniteSet(m.log),
         NEW g, g = r.log \cup {DBLOCK(r.addr)},
         NEW C \in Int, Cardinality(Plain(m.log, m.addrs[NDIRECT])) <= C
  PROVE  /\ IsFiniteSet(g) /\ Cardinality(Plain(g, r.addrs[NDIRECT])) \in Nat
         /\ Cardinality(Plain(g, r.addrs[NDIRECT]))
              <= C + (IF old \/ r.addr = 0 THEN 1 ELSE 2)
         /\ Cardinality(g) \in Nat
         /\ Cardinality(g) <= Cardinality(Plain(g, r.addrs[NDIRECT])) + 2
<1>1. PICK S : S = Plain(m.log, m.addrs[NDIRECT])  OBVIOUS
<1>2. PICK T : T = Plain(g, r.addrs[NDIRECT])  OBVIOUS
<1>3. IsFiniteSet(S)
  <2>1. S \subseteq m.log  BY <1>1 DEF Plain
  <2> QED  BY <2>1, FS_Subset
<1>4. T \subseteq Plain(r.log, r.addrs[NDIRECT]) \cup {DBLOCK(r.addr)}  BY <1>2 DEF Plain
<1>5. IsFiniteSet(T) /\ Cardinality(T) \in Nat
      /\ Cardinality(T) <= C + (IF old \/ r.addr = 0 THEN 1 ELSE 2)
  <2>1. CASE old \/ r.addr = 0
    <3>1. T \subseteq S \cup {DBLOCK(r.addr)}  BY <1>1, <1>4, <2>1 DEF LogGrows
    <3>2. PICK U : U = S \cup {DBLOCK(r.addr)}  OBVIOUS
    <3>3. IsFiniteSet(U) /\ Cardinality(S) \in Nat /\ Cardinality(U) \in Nat
          /\ Cardinality(U) <= Cardinality(S) + 1
      BY <1>3, <3>2, AddOne
    <3>4. IsFiniteSet(T) /\ Cardinality(T) <= Cardinality(U)  BY <3>1, <3>2, <3>3, FS_Subset
    <3>5. Cardinality(T) \in Nat  BY <3>4, FS_CardinalityType
    <3> QED  BY <1>1, <2>1, <3>3, <3>4, <3>5
  <2>2. CASE ~(old \/ r.addr = 0)
    <3>1. T \subseteq S \cup {BBLOCK(r.addr), DBLOCK(r.addr)}
      BY <1>1, <1>4, <2>2 DEF LogGrows
    <3>2. IsFiniteSet(T) /\ Cardinality(S) \in Nat /\ Cardinality(T) \in Nat
          /\ Cardinality(T) <= Cardinality(S) + 2
      BY <1>3, <3>1, AddTwo
    <3> QED  BY <1>1, <2>2, <3>2
  <2> QED  BY <2>1, <2>2
<1>6. IsFiniteSet(g) /\ Cardinality(g) \in Nat /\ Cardinality(g) <= Cardinality(T) + 2
  BY <1>2, <1>5, PlainCard
<1> QED  BY <1>2, <1>5, <1>6

-----------------------------------------------------------------------------
(* The steps *)

\* The bounds of a size.
LEMMA TopIs ==
  ASSUME BlocksTypeOK, NEW i \in Ino, SizeInv(i)
  PROVE  /\ Top(i) \in 0 .. MAXFILE * BSIZE /\ size[i] \in Nat /\ size[i] <= Top(i)
         /\ op[i].at = "write" => op[i].off <= Top(i)
         /\ op[i] \in [at : {"idle", "chunk", "write", "panic"}, off : Nat, n : Nat, end : Nat]
<1>1. /\ size[i] \in Nat
      /\ op[i] \in [at : {"idle", "chunk", "write", "panic"}, off : Nat, n : Nat, end : Nat]
  BY DEF BlocksTypeOK
<1>2. PICK N \in Nat : N = MAXFILE * BSIZE
  <2>1. MAXFILE \in Nat /\ BSIZE \in Nat  BY Sizes
  <2> QED  BY <2>1
<1>3. /\ size[i] <= N
      /\ op[i].at = "write" => op[i].off <= op[i].end /\ op[i].end <= N
  BY <1>2 DEF SizeInv
<1> QED  BY <1>1, <1>2, <1>3 DEF Top

\* A step of another file leaves the state of file j alone.
LEMMA FileInvSame ==
  ASSUME NEW j \in Ino, FileInv(j), op'[j] = op[j], size'[j] = size[j],
         dinode'[j] = dinode[j], log'[j] = log[j], addrs'[j] = addrs[j],
         op[j].at # "panic" => Contains(j, addrs'[j], data', Top(j))
  PROVE  FileInv(j)'
<1>1. Top(j)' = Top(j)  BY DEF Top
<1>2. SizeInv(j)' /\ SavedInv(j)' /\ LogInv(j)'
  BY <1>1 DEF FileInv, SizeInv, SavedInv, LogInv
<1>3. ContentInv(j)'  BY <1>1 DEF ContentInv
<1> QED  BY <1>2, <1>3 DEF FileInv

\* filewrite() and the tests of writei() preserve the invariant.
LEMMA ChunkStep ==
  ASSUME BlocksInv, NEW i \in Ino, op[i].at \in {"idle", "chunk"}, NEW pos \in Nat, NEW n \in Nat,
         WriteChunk(i, pos, n)
  PROVE  BlocksInv'
<1>1. BlocksTypeOK /\ Layout(used, data, addrs) /\ \A j \in Ino : FileInv(j)
  BY DEF BlocksInv
<1>2. /\ used' = used /\ data' = data /\ size' = size /\ addrs' = addrs /\ dinode' = dinode
      /\ log' = [log EXCEPT ![i] = {}]
  BY DEF WriteChunk
<1>3. PICK n1 : n1 = Min({n, max})  OBVIOUS
<1>4. n1 \in Nat /\ n1 <= n /\ n1 <= max
  <2>1. max \in Nat
    <3>1. Half \in Nat /\ BSIZE \in Nat /\ max = Half * BSIZE  BY HalfIs, Sizes
    <3> QED  BY <3>1
  <2>2. n1 = IF n <= max THEN n ELSE max  BY <1>3, <2>1, MinTwo
  <2> QED  BY <2>1, <2>2
<1>5. PICK x : op' = [op EXCEPT ![i] = x] /\
        \/ x = Idle
        \/ /\ x = [at |-> "write", off |-> pos, n |-> n - n1, end |-> pos + n1]
           /\ pos <= size[i] /\ pos + n1 <= MAXFILE * BSIZE
  <2>1. size[i] \in Nat /\ MAXFILE * BSIZE \in Nat
    <3>1. MAXFILE \in Nat /\ BSIZE \in Nat  BY Sizes
    <3> QED  BY <1>1, <3>1 DEF BlocksTypeOK
  <2>2. op' = [op EXCEPT ![i] =
                 IF n = 0 \/ BadRange(i, pos, n1) \/ TooLong(pos, n1) THEN Idle
                 ELSE [at |-> "write", off |-> pos, n |-> n - n1, end |-> pos + n1]]
    BY <1>3 DEF WriteChunk
  <2>3. ~BadRange(i, pos, n1) => pos <= size[i]  BY <2>1 DEF BadRange
  <2>4. ~TooLong(pos, n1) => pos + n1 <= MAXFILE * BSIZE  BY <1>4, <2>1 DEF TooLong
  <2> QED  BY <2>2, <2>3, <2>4
<1>6. x \in [at : {"idle", "chunk", "write", "panic"}, off : Nat, n : Nat, end : Nat]
  BY <1>4, <1>5 DEF Idle
<1>7. BlocksTypeOK'  BY <1>1, <1>2, <1>5, <1>6 DEF BlocksTypeOK
<1>8. op'[i] = x /\ log'[i] = {} /\ \A j \in Ino : j # i => op'[j] = op[j] /\ log'[j] = log[j]
  BY <1>1, <1>2, <1>5 DEF BlocksTypeOK
<1>9. ASSUME NEW j \in Ino, j # i PROVE FileInv(j)'
  BY <1>1, <1>2, <1>8, <1>9, FileInvSame DEF FileInv, ContentInv
<1>10. FileInv(i)'
  <2>1. Top(i) = size[i]  BY DEF Top
  <2>2. Top(i)' = size[i]
    <3>1. size[i] \in Nat  BY <1>1 DEF BlocksTypeOK
    <3>2. CASE x = Idle  BY <1>2, <1>8, <3>2 DEF Top, Idle
    <3>3. CASE x # Idle
      <4>1. x.at = "write" /\ x.off = pos /\ pos <= size[i]  BY <1>5, <3>3
      <4> QED  BY <1>2, <1>8, <3>1, <4>1 DEF Top
    <3> QED  BY <3>2, <3>3
  <2>3. op[i].at # "panic"  OBVIOUS
  <2>4. ContentInv(i)'  BY <1>1, <1>2, <2>1, <2>2, <2>3 DEF FileInv, ContentInv
  <2>5. SavedInv(i)'  BY <1>1, <1>2, <2>1, <2>2, <2>3 DEF FileInv, SavedInv
  <2>6. SizeInv(i)'
    <3>1. x.at = "write" => x.off <= x.end /\ x.end <= MAXFILE * BSIZE
      BY <1>4, <1>5 DEF Idle
    <3> QED  BY <1>1, <1>2, <1>8, <3>1 DEF FileInv, SizeInv
  <2>7. LogInv(i)'
    <3>1. IsFiniteSet({}) /\ Cardinality({}) = 0  BY FS_EmptySet
    <3>2. MAXOPBLOCKS \in Nat  BY BlocksAssumption
    <3>3. Plain({}, addrs'[i][NDIRECT]) = {}  BY DEF Plain
    <3>4. x.at = "write" => Cost(x.off, x.end) \in Int /\ Cost(x.off, x.end) <= 2 * Half + 1
      <4>1. Cost(pos, pos + n1) \in Int /\ Cost(pos, pos + n1) <= 2 * Half + 1
        BY <1>4, CostBound
      <4> QED  BY <1>5, <4>1 DEF Idle
    <3>5. op'[i].at = "write" =>
            Cardinality(Plain(log'[i], addrs'[i][NDIRECT])) + Cost(op'[i].off, op'[i].end)
              <= 2 * Half + 1
      <4>1. Cardinality(Plain(log'[i], addrs'[i][NDIRECT])) = 0  BY <1>8, <3>1, <3>3
      <4>2. PICK c : c = Cost(x.off, x.end)  OBVIOUS
      <4>3. x.at = "write" => c \in Int /\ c <= 2 * Half + 1  BY <3>4, <4>2
      <4>4. x.at = "write" => 0 + c <= 2 * Half + 1  BY <4>3
      <4> QED  BY <1>8, <4>1, <4>2, <4>4
    <3> QED  BY <1>8, <3>1, <3>2, <3>5 DEF LogInv
  <2> QED  BY <2>4, <2>5, <2>6, <2>7 DEF FileInv
<1>11. Layout(used, data, addrs)'  BY <1>1, <1>2
<1> QED  BY <1>7, <1>9, <1>10, <1>11 DEF BlocksInv

\* The end of writei(), with iupdate(), preserves the invariant.
LEMMA WriteEndStep ==
  ASSUME BlocksInv, NEW i \in Ino, WriteEnd(i)
  PROVE  BlocksInv'
<1>1. BlocksTypeOK /\ Layout(used, data, addrs) /\ \A j \in Ino : FileInv(j)
  BY DEF BlocksInv
<1>2. PICK o : o = op[i].off  OBVIOUS
<1>3. /\ used' = used /\ data' = data /\ addrs' = addrs /\ op[i].at = "write"
      /\ o = op[i].end /\ op' = [op EXCEPT ![i].at = "chunk"]
      /\ \/ /\ o > size[i] /\ size' = [size EXCEPT ![i] = o]
            /\ dinode' = [dinode EXCEPT ![i] = <<o, addrs[i]>>]
            /\ log' = [log EXCEPT ![i] = @ \cup {IBLOCK}]
         \/ ~(o > size[i]) /\ size' = size /\ dinode' = dinode /\ log' = log
  BY <1>2 DEF WriteEnd, GrowFile
<1>4. /\ op[i] \in [at : {"idle", "chunk", "write", "panic"}, off : Nat, n : Nat, end : Nat]
      /\ size[i] \in Nat /\ o \in Nat
  BY <1>1, <1>2, TopIs DEF FileInv
<1>5. IBLOCK \in LogItem  BY DEF IBLOCK, LogItem
<1>6. PICK x : x = [op[i] EXCEPT !.at = "chunk"]  OBVIOUS
<1>7. x \in [at : {"idle", "chunk", "write", "panic"}, off : Nat, n : Nat, end : Nat]
      /\ x.at = "chunk"
  BY <1>4, <1>6
<1>8. op' = [op EXCEPT ![i] = x]  BY <1>1, <1>3, <1>6 DEF BlocksTypeOK
<1>9. BlocksTypeOK'
  <2>1. op' \in [Ino -> [at : {"idle", "chunk", "write", "panic"}, off : Nat, n : Nat, end : Nat]]
    BY <1>1, <1>7, <1>8 DEF BlocksTypeOK
  <2>2. size' \in [Ino -> Nat] /\ DOMAIN dinode' = Ino  BY <1>1, <1>3, <1>4 DEF BlocksTypeOK
  <2>3. log' \in [Ino -> SUBSET LogItem]  BY <1>1, <1>3, <1>5 DEF BlocksTypeOK
  <2> QED  BY <2>1, <2>2, <2>3 DEF BlocksTypeOK
<1>10. /\ op'[i] = x
       /\ \A j \in Ino : j # i => /\ op'[j] = op[j] /\ size'[j] = size[j]
                                  /\ dinode'[j] = dinode[j] /\ log'[j] = log[j]
  BY <1>1, <1>3, <1>8 DEF BlocksTypeOK
<1>11. ASSUME NEW j \in Ino, j # i PROVE FileInv(j)'
  BY <1>1, <1>3, <1>10, <1>11, FileInvSame DEF FileInv, ContentInv
<1>12. FileInv(i)'
  <2>1. size'[i] = Top(i) /\ Top(i)' = Top(i)
    BY <1>1, <1>2, <1>3, <1>4, <1>7, <1>10 DEF Top, BlocksTypeOK
  <2>2. Top(i) \in 0 .. MAXFILE * BSIZE  BY <1>1, TopIs DEF FileInv
  <2>3. SizeInv(i)'
    <3>1. PICK N : N = MAXFILE * BSIZE  OBVIOUS
    <3>2. size'[i] <= N  BY <2>1, <2>2, <3>1
    <3> QED  BY <1>7, <1>10, <3>1, <3>2 DEF SizeInv
  <2>4. Contains(i, addrs[i], data, Top(i))  BY <1>1, <1>3 DEF FileInv, ContentInv
  <2>5. ContentInv(i)'  BY <1>3, <2>1, <2>4 DEF ContentInv
  <2>6. SavedInv(i)'
    <3>1. CASE o > size[i]
      <4>1. dinode'[i] = <<o, addrs[i]>> /\ size'[i] = o
        BY <1>1, <1>3, <1>4, <3>1 DEF BlocksTypeOK
      <4> QED  BY <1>3, <4>1 DEF SavedInv
    <3>2. CASE ~(o > size[i])
      <4>1. Top(i) = size[i]  BY <1>2, <3>2 DEF Top
      <4>2. dinode[i] = <<size[i], addrs[i]>>  BY <1>1, <1>3, <4>1 DEF FileInv, SavedInv
      <4> QED  BY <1>3, <3>2, <4>2 DEF SavedInv
    <3> QED  BY <3>1, <3>2
  <2>7. LogInv(i)'
    <3>1. PICK a : a = addrs[i][NDIRECT]  OBVIOUS
    <3>2. /\ IsFiniteSet(log[i])
          /\ Cardinality(Plain(log[i], a)) + Cost(o, o) <= 2 * Half + 1
      BY <1>1, <1>2, <1>3, <3>1 DEF FileInv, LogInv
    <3>3. Cost(o, o) = 0  BY DEF Cost
    <3>4. IsFiniteSet(Plain(log[i], a))
      <4>1. Plain(log[i], a) \subseteq log[i]  BY DEF Plain
      <4> QED  BY <3>2, <4>1, FS_Subset
    <3>5. /\ Cardinality(log[i]) \in Nat /\ Cardinality(Plain(log[i], a)) \in Nat
          /\ Cardinality(log[i]) <= Cardinality(Plain(log[i], a)) + 2
      BY <3>4, PlainCard
    <3>6. Half \in Nat /\ 2 * Half + 4 <= MAXOPBLOCKS /\ MAXOPBLOCKS \in Nat
      BY HalfIs, BlocksAssumption
    <3>7. Cardinality(log[i]) + 1 <= MAXOPBLOCKS  BY <3>2, <3>3, <3>5, <3>6
    <3>8. log'[i] = log[i] \/ log'[i] = log[i] \cup {IBLOCK}
      BY <1>1, <1>3 DEF BlocksTypeOK
    <3>9. IsFiniteSet(log[i] \cup {IBLOCK}) /\ Cardinality(log[i] \cup {IBLOCK}) \in Nat
          /\ Cardinality(log[i] \cup {IBLOCK}) <= Cardinality(log[i]) + 1
      BY <3>2, AddOne
    <3>10. IsFiniteSet(log'[i]) /\ Cardinality(log'[i]) <= MAXOPBLOCKS
      <4>1. CASE log'[i] = log[i]  BY <3>2, <3>5, <3>6, <3>7, <4>1
      <4>2. CASE log'[i] = log[i] \cup {IBLOCK}
        <5>1. PICK L : L = log[i] \cup {IBLOCK}  OBVIOUS
        <5>2. IsFiniteSet(L) /\ Cardinality(L) <= MAXOPBLOCKS
          BY <3>5, <3>6, <3>7, <3>9, <5>1
        <5> QED  BY <4>2, <5>1, <5>2
      <4> QED  BY <3>8, <4>1, <4>2
    <3> QED  BY <1>7, <1>10, <3>10 DEF LogInv
  <2> QED  BY <2>3, <2>5, <2>6, <2>7 DEF FileInv
<1>13. Layout(used, data, addrs)'  BY <1>1, <1>3
<1> QED  BY <1>9, <1>11, <1>12, <1>13 DEF BlocksInv

\* The blocks of a file are those in its places.
InFile(A, d, i) == {At(A[i], d, l) : l \in Place} \ {0}

LEMMA BlocksAre ==
  ASSUME NEW i \in Ino
  PROVE  Blocks(i) = InFile(addrs, data, i)
<1>1. NDIRECT \in Nat /\ BSIZE \in Nat \ {0}  BY Sizes
<1>2. ASSUME NEW b \in Blocks(i) PROVE b \in InFile(addrs, data, i)
  <2>1. b # 0  BY DEF Blocks
  <2>2. CASE b \in {addrs[i][k] : k \in 0 .. NDIRECT}
    <3>1. PICK k \in 0 .. NDIRECT : b = addrs[i][k]  BY <2>2
    <3>2. k \in Place /\ At(addrs[i], data, k) = b  BY <1>1, <3>1 DEF Place, At
    <3> QED  BY <2>1, <3>2 DEF InFile
  <2>3. CASE /\ addrs[i][NDIRECT] # 0
             /\ b \in {data[addrs[i][NDIRECT]][k] : k \in 0 .. NINDIRECT - 1}
    <3>1. PICK k \in 0 .. BSIZE - 1 : b = data[addrs[i][NDIRECT]][k]  BY <2>3 DEF NINDIRECT
    <3>2. PICK l : l = NDIRECT + 1 + k  OBVIOUS
    <3>3. l \in Place /\ ~(l <= NDIRECT) /\ l - NDIRECT - 1 = k  BY <1>1, <3>2 DEF Place
    <3>4. At(addrs[i], data, l) = b  BY <2>3, <3>1, <3>3 DEF At
    <3> QED  BY <2>1, <3>3, <3>4 DEF InFile
  <2> QED  BY <1>2, <2>2, <2>3 DEF Blocks
<1>3. ASSUME NEW b \in InFile(addrs, data, i) PROVE b \in Blocks(i)
  <2>1. PICK l \in Place : b = At(addrs[i], data, l)  BY <1>3 DEF InFile
  <2>2. b # 0  BY <1>3 DEF InFile
  <2>3. CASE l <= NDIRECT
    <3>1. l \in 0 .. NDIRECT /\ b = addrs[i][l]  BY <1>1, <2>1, <2>3 DEF Place, At
    <3> QED  BY <2>2, <3>1 DEF Blocks
  <2>4. CASE ~(l <= NDIRECT)
    <3>1. l - NDIRECT - 1 \in 0 .. NINDIRECT - 1  BY <1>1, <2>4 DEF Place, NINDIRECT
    <3>2. addrs[i][NDIRECT] # 0 /\ b = data[addrs[i][NDIRECT]][l - NDIRECT - 1]
      BY <2>1, <2>2, <2>4 DEF At
    <3> QED  BY <2>2, <3>1, <3>2 DEF Blocks
  <2> QED  BY <2>3, <2>4
<1> QED  BY <1>2, <1>3

Truncated(u, d, A, i, B) ==
  /\ Layout(u \ InFile(A, d, i), d, B)
  /\ \A k \in Place : At(B[i], d, k) = 0
  /\ \A j \in Ino : j # i => B[j] = A[j]

\* itrunc() leaves the layout of the others.
LEMMA LayoutTrunc ==
  ASSUME NEW u, NEW d, NEW A, Layout(u, d, A), NEW i \in Ino, NEW B,
         B = [A EXCEPT ![i] = NoAddrs]
  PROVE  Truncated(u, d, A, i, B)
<1>1. /\ u \subseteq Block \ {0} /\ d \in [Block -> [Word -> Nat]]
      /\ A \in [Ino -> [0 .. NDIRECT -> Block]]
      /\ \A j \in Ino, l \in Place :
           At(A[j], d, l) \in Block /\ (At(A[j], d, l) # 0 => At(A[j], d, l) \in u)
      /\ \A b \in u : \E j \in Ino, l \in Place : At(A[j], d, l) = b
  BY DEF Layout
<1>2. NDIRECT \in Nat /\ 0 \in Block  BY Sizes
<1>3. NoAddrs \in [0 .. NDIRECT -> Block] /\ \A k \in 0 .. NDIRECT : NoAddrs[k] = 0
  BY <1>2 DEF NoAddrs
<1>4. B \in [Ino -> [0 .. NDIRECT -> Block]] /\ B[i] = NoAddrs /\ \A j \in Ino : j # i => B[j] = A[j]
  BY <1>1, <1>3
<1>5. \A k \in Place : At(NoAddrs, d, k) = 0  BY <1>2, <1>3 DEF At, Place
<1>6. \A j \in Ino, k \in Place : At(B[j], d, k) = IF j = i THEN 0 ELSE At(A[j], d, k)
  BY <1>4, <1>5
<1>7. ASSUME NEW j \in Ino, j # i, NEW k \in Place, At(A[j], d, k) \in InFile(A, d, i) PROVE FALSE
  <2>1. PICK l \in Place : At(A[j], d, k) = At(A[i], d, l)  BY <1>7 DEF InFile
  <2>2. At(A[j], d, k) # 0  BY <1>7 DEF InFile
  <2> QED  BY <1>7, <2>1, <2>2, OnePlace
<1> DEFINE u1 == u \ InFile(A, d, i)
<1>8. u1 \subseteq Block \ {0}  BY <1>1
<1>9. ASSUME NEW j \in Ino, NEW l \in Place
      PROVE  At(B[j], d, l) \in Block /\ (At(B[j], d, l) # 0 => At(B[j], d, l) \in u1)
  <2>1. CASE j = i  BY <1>2, <1>6, <2>1
  <2>2. CASE j # i
    <3>1. At(B[j], d, l) = At(A[j], d, l)  BY <1>6, <2>2
    <3>2. At(A[j], d, l) \notin InFile(A, d, i)  BY <1>7, <2>2
    <3> QED  BY <1>1, <3>1, <3>2
  <2> QED  BY <2>1, <2>2
<1>10. ASSUME NEW b \in u1 PROVE \E j \in Ino, l \in Place : At(B[j], d, l) = b
  <2>1. PICK j \in Ino, l \in Place : At(A[j], d, l) = b  BY <1>1
  <2>2. b # 0 /\ b \notin InFile(A, d, i)  BY <1>8
  <2>3. j # i  BY <2>1, <2>2 DEF InFile
  <2> QED  BY <1>6, <2>1, <2>3
<1>11. ASSUME NEW j \in Ino, NEW j1 \in Ino, NEW l \in Place, NEW k \in Place,
              At(B[j], d, l) = At(B[j1], d, k), At(B[j], d, l) # 0
       PROVE  j = j1 /\ l = k
  <2>1. j # i /\ j1 # i  BY <1>6, <1>11
  <2>2. At(A[j], d, l) = At(A[j1], d, k) /\ At(A[j], d, l) # 0  BY <1>6, <1>11, <2>1
  <2> QED  BY <2>2, OnePlace
<1> HIDE DEF u1
<1>12. Layout(u1, d, B)  BY <1>1, <1>4, <1>8, <1>9, <1>10, <1>11 DEF Layout
<1> QED  BY <1>4, <1>5, <1>12 DEF Truncated, u1

\* The bitmap blocks are few.
LEMMA BitmapBlocks ==
  ASSUME NEW S, S \subseteq Block, NEW T, T = {BBLOCK(b) : b \in S} \cup {IBLOCK}
  PROVE  IsFiniteSet(T) /\ Cardinality(T) <= MAXOPBLOCKS /\ T \subseteq LogItem
<1>1. /\ NBLOCK \in Nat /\ BPB \in Nat \ {0} /\ NBLOCK \div BPB + 2 <= MAXOPBLOCKS
      /\ MAXOPBLOCKS \in Nat
  BY BlocksAssumption
<1>2. PICK h \in Nat : h = NBLOCK \div BPB  BY <1>1, DivFacts
<1> DEFINE I == 0 .. h
           f == [x \in I |-> <<"bitmap", x>>]
           R == {<<"bitmap", x>> : x \in I}
<1>3. IsFiniteSet(I) /\ Cardinality(I) = h + 1
  <2>1. 0 \in Int /\ h \in Int /\ ~(0 > h)  OBVIOUS
  <2> QED  BY <2>1, FS_Interval
<1>4. f \in Surjection(I, R)  BY DEF Surjection
<1>5. IsFiniteSet(R) /\ Cardinality(R) <= Cardinality(I)  BY <1>3, <1>4, FS_Surjection
<1>6. {BBLOCK(b) : b \in S} \subseteq R
  <2> SUFFICES ASSUME NEW b \in S PROVE BBLOCK(b) \in R
    OBVIOUS
  <2>1. b \in Nat /\ b <= NBLOCK  BY <1>1 DEF Block
  <2>2. b \div BPB \in Nat /\ b \div BPB <= h  BY <1>1, <1>2, <2>1, DivFacts, DivMono
  <2> QED  BY <2>2 DEF BBLOCK
<1> HIDE DEF I, f, R
<1>7. PICK Q : Q = R \cup {IBLOCK}  OBVIOUS
<1>8. /\ IsFiniteSet(Q) /\ Cardinality(R) \in Nat
      /\ Cardinality(Q) \in Nat /\ Cardinality(Q) <= Cardinality(R) + 1
  BY <1>5, <1>7, AddOne
<1>9. T \subseteq Q  BY <1>6, <1>7
<1>10. IsFiniteSet(T) /\ Cardinality(T) <= Cardinality(Q)  BY <1>8, <1>9, FS_Subset
<1>11. Cardinality(T) \in Nat  BY <1>10, FS_CardinalityType
<1>12. Cardinality(T) <= MAXOPBLOCKS  BY <1>1, <1>2, <1>3, <1>5, <1>8, <1>10, <1>11
<1>13. T \subseteq LogItem
  <2>1. IBLOCK \in LogItem  BY DEF IBLOCK, LogItem
  <2> QED  BY <2>1, Items
<1> QED  BY <1>10, <1>12, <1>13

\* itrunc() preserves the invariant.
LEMMA TruncStep ==
  ASSUME BlocksInv, NEW i \in Ino, itrunc(i)
  PROVE  BlocksInv'
<1>1. BlocksTypeOK /\ Layout(used, data, addrs) /\ \A j \in Ino : FileInv(j)
  BY DEF BlocksInv
<1>2. PICK S : S = Blocks(i)  OBVIOUS
<1>3. /\ op[i].at = "idle" /\ used' = used \ S /\ addrs' = [addrs EXCEPT ![i] = NoAddrs]
      /\ size' = [size EXCEPT ![i] = 0] /\ dinode' = [dinode EXCEPT ![i] = <<0, NoAddrs>>]
      /\ log' = [log EXCEPT ![i] = {BBLOCK(b) : b \in S} \cup {IBLOCK}]
      /\ data' = data /\ op' = op
  BY <1>2 DEF itrunc, bfree
<1>4. S = InFile(addrs, data, i)  BY <1>2, BlocksAre
<1>5. Truncated(used, data, addrs, i, addrs')  BY <1>1, <1>3, LayoutTrunc
<1>6. Layout(used, data, addrs)'  BY <1>3, <1>4, <1>5 DEF Truncated
<1>7. S \subseteq Block  BY <1>1, <1>4 DEF InFile, Layout
<1>8. PICK T : T = {BBLOCK(b) : b \in S} \cup {IBLOCK}  OBVIOUS
<1>9. IsFiniteSet(T) /\ Cardinality(T) <= MAXOPBLOCKS /\ T \subseteq LogItem
  BY <1>7, <1>8, BitmapBlocks
<1>10. BlocksTypeOK'  BY <1>1, <1>3, <1>8, <1>9 DEF BlocksTypeOK
<1>11. /\ size'[i] = 0 /\ dinode'[i] = <<0, NoAddrs>> /\ log'[i] = T /\ addrs'[i] = NoAddrs
       /\ \A j \in Ino : j # i => /\ size'[j] = size[j] /\ dinode'[j] = dinode[j]
                                  /\ log'[j] = log[j] /\ addrs'[j] = addrs[j]
  <2>1. addrs \in [Ino -> [0 .. NDIRECT -> Block]]  BY <1>1 DEF Layout
  <2> QED  BY <1>1, <1>3, <1>8, <2>1 DEF BlocksTypeOK
<1>12. ASSUME NEW j \in Ino, j # i PROVE FileInv(j)'
  BY <1>1, <1>3, <1>11, <1>12, FileInvSame DEF FileInv, ContentInv
<1>13. FileInv(i)'
  <2>1. Top(i)' = 0  BY <1>3, <1>11 DEF Top
  <2>2. SizeInv(i)'
    <3>1. MAXFILE \in Nat /\ BSIZE \in Nat  BY Sizes
    <3>2. 0 <= MAXFILE * BSIZE  BY <3>1
    <3> QED  BY <1>3, <1>11, <3>2 DEF SizeInv
  <2>3. ContentInv(i)'
    <3>1. \A k \in Place : At(addrs'[i], data, k) = 0  BY <1>5 DEF Truncated
    <3>2. \A bn : ~Reaches(0, bn)  BY DEF Reaches
    <3>3. HasBlocks(addrs'[i], data, 0)  BY <3>1, <3>2, Sizes DEF HasBlocks
    <3>4. HasWords(i, addrs'[i], data, 0)  BY DEF HasWords
    <3> QED  BY <1>3, <2>1, <3>3, <3>4 DEF ContentInv, Contains
  <2>4. SavedInv(i)'  BY <1>11 DEF SavedInv
  <2>5. LogInv(i)'  BY <1>3, <1>9, <1>11 DEF LogInv
  <2> QED  BY <2>2, <2>3, <2>4, <2>5 DEF FileInv
<1> QED  BY <1>6, <1>10, <1>12, <1>13 DEF BlocksInv

\* One round of writei(), with bmap() and balloc(), preserves the invariant.
LEMMA WriteStep ==
  ASSUME BlocksInv, NEW i \in Ino, WriteBlock(i)
  PROVE  BlocksInv'
<1>1. BlocksTypeOK /\ Layout(used, data, addrs) /\ \A j \in Ino : FileInv(j)
  BY DEF BlocksInv
<1>2. PICK pos, end : pos = op[i].off /\ end = op[i].end  OBVIOUS
<1>3. /\ op[i] \in [at : {"idle", "chunk", "write", "panic"}, off : Nat, n : Nat, end : Nat]
      /\ Top(i) \in 0 .. MAXFILE * BSIZE /\ size[i] \in Nat /\ size[i] <= Top(i)
      /\ pos \in Nat /\ end \in Nat /\ (op[i].at = "write" => pos <= Top(i))
  BY <1>1, <1>2, TopIs DEF FileInv
<1>4. PICK m, bn : m = FileState(i) /\ bn = pos \div BSIZE  OBVIOUS
<1>5. PICK r, lo, p : r = bmap(m, bn) /\ lo = pos % BSIZE /\ p = Piece(pos, end)  OBVIOUS
<1>6. /\ op[i].at = "write" /\ pos < end /\ used' = r.used
      /\ addrs' = [addrs EXCEPT ![i] = r.addrs]
      /\ data' = [r.data EXCEPT ![r.addr] =
                    [k \in DOMAIN @ |-> IF k \in lo .. lo + p - 1 THEN i ELSE @[k]]]
      /\ log' = [log EXCEPT ![i] = r.log \cup {DBLOCK(r.addr)}]
      /\ op' = [op EXCEPT ![i].off = @ + p, ![i].at = IF r.addr = 0 THEN "panic" ELSE @]
      /\ size' = size /\ dinode' = dinode
  BY <1>2, <1>4, <1>5 DEF WriteBlock, Piece
<1>7. end <= MAXFILE * BSIZE  BY <1>1, <1>2, <1>6 DEF FileInv, SizeInv
<1>8. bn \in 0 .. MAXFILE - 1
  <2>1. PICK N \in Nat : N = MAXFILE * BSIZE
    <3>1. MAXFILE \in Nat /\ BSIZE \in Nat  BY Sizes
    <3> QED  BY <3>1
  <2>2. end \in 0 .. MAXFILE * BSIZE /\ pos \in 0 .. end - 1  BY <1>3, <1>6, <1>7, <2>1
  <2> QED  BY <1>4, <2>2, WordPlace
<1>9. /\ m \in State /\ m.used = used /\ m.data = data /\ m.addrs = addrs[i] /\ m.log = log[i]
  <2>1. /\ addrs[i] \in [0 .. NDIRECT -> Block] /\ data \in [Block -> [Word -> Nat]]
        /\ used \in SUBSET Block /\ 0 \in Block /\ log[i] \in SUBSET LogItem
    BY <1>1, Sizes DEF Layout, BlocksTypeOK
  <2> QED  BY <1>4, <2>1 DEF FileState, State
<1>10. r \in State /\ Mapped(addrs, i, m, r, bn)  BY <1>1, <1>5, <1>8, <1>9, BmapIs
<1>11. /\ r.addr \in Block /\ r.data \in [Block -> [Word -> Nat]] /\ r.log \subseteq LogItem
       /\ r.addrs \in [0 .. NDIRECT -> Block]
  BY <1>10 DEF State
<1>12. PICK w : w = [k \in Word |-> IF k \in lo .. lo + p - 1 THEN i ELSE r.data[r.addr][k]]
  OBVIOUS
<1>13. w \in [Word -> Nat]
  <2>1. i \in Nat  BY BlocksAssumption
  <2> QED  BY <1>11, <1>12, <2>1
<1>14. data' = [r.data EXCEPT ![r.addr] = w]  BY <1>6, <1>11, <1>12
<1>15. Round(addrs, i, m, r, bn, data') /\ data'[r.addr] = w
  <2>1. Layout(m.used, m.data, addrs)  BY <1>1, <1>9
  <2>2. data'[r.addr] = w  BY <1>11, <1>14
  <2>3. data' = [r.data EXCEPT ![r.addr] = data'[r.addr]]  BY <1>14, <2>2
  <2>4. Round(addrs, i, m, r, bn, data')
    BY <1>8, <1>9, <1>10, <1>13, <2>1, <2>2, <2>3, RoundIs
  <2> QED  BY <2>2, <2>4
<1>16. Layout(used, data, addrs)'  BY <1>6, <1>15 DEF Round
<1>17. p \in Nat \ {0} /\ pos + p <= end  BY <1>3, <1>5, <1>6, PieceIs
<1>18. PICK x : x = [op[i] EXCEPT !.off = @ + p, !.at = IF r.addr = 0 THEN "panic" ELSE @]
  OBVIOUS
<1>19. /\ x \in [at : {"idle", "chunk", "write", "panic"}, off : Nat, n : Nat, end : Nat]
       /\ x.off = pos + p /\ x.end = end /\ x.at = IF r.addr = 0 THEN "panic" ELSE "write"
  <2>1. PICK v \in {"panic", "write"} : v = IF r.addr = 0 THEN "panic" ELSE "write"
    OBVIOUS
  <2>2. PICK o1 \in Nat : o1 = pos + p  BY <1>3, <1>17
  <2>3. x = [op[i] EXCEPT !.off = o1, !.at = v]  BY <1>2, <1>3, <1>6, <1>18, <2>1, <2>2
  <2>4. x \in [at : {"idle", "chunk", "write", "panic"}, off : Nat, n : Nat, end : Nat]
        /\ x.off = o1 /\ x.end = op[i].end /\ x.at = v
    BY <1>3, <2>3
  <2> QED  BY <1>2, <2>1, <2>2, <2>4
<1>20. op' = [op EXCEPT ![i] = x]  BY <1>1, <1>6, <1>18 DEF BlocksTypeOK
<1>21. PICK g : g = r.log \cup {DBLOCK(r.addr)}  OBVIOUS
<1>22. g \subseteq LogItem  BY <1>11, <1>21, Items
<1>23. BlocksTypeOK'
  <2>1. log' \in [Ino -> SUBSET LogItem]  BY <1>1, <1>6, <1>21, <1>22 DEF BlocksTypeOK
  <2>2. op' \in [Ino -> [at : {"idle", "chunk", "write", "panic"}, off : Nat, n : Nat, end : Nat]]
    BY <1>1, <1>19, <1>20 DEF BlocksTypeOK
  <2> QED  BY <1>1, <1>6, <2>1, <2>2 DEF BlocksTypeOK
<1>24. /\ op'[i] = x /\ log'[i] = g /\ addrs'[i] = r.addrs
       /\ \A j \in Ino : j # i => /\ op'[j] = op[j] /\ log'[j] = log[j]
                                  /\ addrs'[j] = addrs[j]
  <2>1. addrs \in [Ino -> [0 .. NDIRECT -> Block]]  BY <1>1 DEF Layout
  <2> QED  BY <1>1, <1>6, <1>20, <1>21, <2>1 DEF BlocksTypeOK
<1>25. ASSUME NEW j \in Ino, j # i PROVE FileInv(j)'
  <2>1. op[j].at # "panic" => Contains(j, addrs'[j], data', Top(j))
    <3> SUFFICES ASSUME op[j].at # "panic" PROVE Contains(j, addrs'[j], data', Top(j))
      OBVIOUS
    <3>1. PICK t \in 0 .. MAXFILE * BSIZE : t = Top(j)  BY <1>1, TopIs DEF FileInv
    <3>2. Contains(j, addrs[j], m.data, t)  BY <1>1, <1>9, <3>1 DEF FileInv, ContentInv
    <3>3. Contains(j, addrs'[j], data', t)  BY <1>6, <1>10, <1>15, <1>25, <3>2, RoundOthers
    <3> QED  BY <3>1, <3>3
  <2> QED  BY <1>1, <1>6, <1>24, <1>25, <2>1, FileInvSame
<1>26. FileInv(i)'
  <2>1. SizeInv(i)'
    <3>1. x.off <= x.end /\ x.end <= MAXFILE * BSIZE  BY <1>7, <1>17, <1>19
    <3> QED  BY <1>1, <1>6, <1>24, <3>1 DEF FileInv, SizeInv
  <2>2. PICK t \in 0 .. MAXFILE * BSIZE : t = Top(i)  BY <1>3
  <2>3. Contains(i, addrs[i], m.data, t)  BY <1>1, <1>6, <1>9, <2>2 DEF FileInv, ContentInv
  <2>4. PICK t1 : t1 = IF pos + p > t THEN pos + p ELSE t  OBVIOUS
  <2>5. pos <= t  BY <1>3, <1>6, <2>2
  <2>6. r.addr # 0 => t1 \in 0 .. MAXFILE * BSIZE /\ Contains(i, r.addrs, data', t1)
    <3> SUFFICES ASSUME r.addr # 0
                 PROVE  t1 \in 0 .. MAXFILE * BSIZE /\ Contains(i, r.addrs, data', t1)
      OBVIOUS
    <3>1. Layout(m.used, m.data, addrs)  BY <1>1, <1>9
    <3>2. data'[r.addr] =
            [k \in Word |-> IF k \in (pos % BSIZE) .. (pos % BSIZE) + Piece(pos, end) - 1
                            THEN i ELSE r.data[r.addr][k]]
      BY <1>5, <1>12, <1>15
    <3>3. Longer(i, m, r, pos, end, data', t)
      BY <1>3, <1>4, <1>6, <1>7, <1>8, <1>9, <1>10, <1>15, <2>3, <2>5, <3>1, <3>2, RoundFile
    <3> QED  BY <1>5, <2>4, <3>3 DEF Longer
  <2>7. r.addr # 0 => Top(i)' = t1
    <3>1. t = IF pos > size[i] THEN pos ELSE size[i]  BY <1>2, <1>6, <2>2 DEF Top
    <3>2. r.addr # 0 => Top(i)' = IF pos + p > size[i] THEN pos + p ELSE size[i]
      BY <1>6, <1>19, <1>24 DEF Top
    <3> QED  BY <1>3, <1>17, <2>4, <3>1, <3>2
  <2>8. ContentInv(i)'
    <3>1. CASE r.addr = 0  BY <1>19, <1>24, <3>1 DEF ContentInv
    <3>2. CASE r.addr # 0  BY <1>24, <2>6, <2>7, <3>2 DEF ContentInv
    <3> QED  BY <3>1, <3>2
  <2>9. SavedInv(i)'
    <3> SUFFICES ASSUME r.addr # 0, t1 = size[i] PROVE dinode'[i] = <<size'[i], addrs'[i]>>
      BY <1>6, <1>19, <1>24, <2>7 DEF SavedInv
    <3>1. t = size[i] /\ pos \in 0 .. t - 1  BY <1>3, <1>17, <2>2, <2>4
    <3>2. At(addrs[i], m.data, Loc(bn)) # 0  BY <1>4, <2>3, <3>1, WordPlace
    <3>3. r.addrs = addrs[i]  BY <1>9, <1>10, <3>2 DEF Mapped
    <3>4. dinode[i] = <<size[i], addrs[i]>>  BY <1>1, <1>6, <2>2, <3>1 DEF FileInv, SavedInv
    <3> QED  BY <1>6, <1>24, <3>3, <3>4
  <2>10. LogInv(i)'
    <3>1. PICK old \in BOOLEAN : old = (At(m.addrs, m.data, Loc(bn)) # 0)  OBVIOUS
    <3>2. PICK c : c = Cost(pos, end)  OBVIOUS
    <3>3. PICK S, T : S = Plain(log[i], addrs[i][NDIRECT]) /\ T = Plain(g, r.addrs[NDIRECT])
      OBVIOUS
    <3>4. IsFiniteSet(log[i]) /\ Cardinality(S) + c <= 2 * Half + 1
      BY <1>1, <1>2, <1>6, <3>2, <3>3 DEF FileInv, LogInv
    <3>5. PICK c1 : c1 = Cost(pos + p, end)  OBVIOUS
    <3>6. c \in Int /\ c1 \in Nat /\ c1 + (IF lo = 0 THEN 2 ELSE 1) <= c
      BY <1>3, <1>5, <1>6, <3>2, <3>5, CostDrops
    <3>7. lo # 0 => old
      <4> SUFFICES ASSUME lo # 0 PROVE old
        OBVIOUS
      <4>1. BSIZE \in Nat \ {0}  BY Sizes
      <4>2. lo \in 0 .. BSIZE - 1  BY <1>3, <1>5, <4>1, DivFacts
      <4>3. pos # 0
        <5>1. 0 % BSIZE = 0  BY <4>1
        <5> QED  BY <1>5, <5>1
      <4>4. PICK z \in Nat : z = pos - 1  BY <1>3, <4>3
      <4>5. PICK k \in 0 .. BSIZE - 1 : k = z % BSIZE  BY <4>1, DivFacts
      <4>6. z \div BSIZE = pos \div BSIZE
        <5>1. CASE k + 1 < BSIZE
          <6>1. (z % BSIZE) + 1 < BSIZE /\ 1 \in Nat  BY <4>5, <5>1
          <6>2. (z + 1) \div BSIZE = z \div BSIZE  BY <4>1, <6>1, InBlock
          <6> QED  BY <1>3, <4>4, <6>2
        <5>2. CASE ~(k + 1 < BSIZE)
          <6>1. PICK q \in Nat : z = BSIZE * q + k  BY <4>1, <4>5, DivFacts
          <6>2. PICK y \in Nat : y = BSIZE * q  BY <4>1
          <6>3. BSIZE * (q + 1) = y + BSIZE  BY <4>1, <6>2
          <6>6. PICK q1 \in Nat : q1 = q + 1  OBVIOUS
          <6>4. pos = BSIZE * q1 + 0 /\ 0 \in 0 .. BSIZE - 1
            BY <1>3, <4>1, <4>4, <5>2, <6>1, <6>2, <6>3, <6>6
          <6>5. pos % BSIZE = 0  BY <1>3, <4>1, <6>4, DivUnique
          <6> QED  BY <1>5, <6>5
        <5> QED  BY <5>1, <5>2
      <4>7. z \in 0 .. t - 1  BY <1>3, <2>5, <4>4
      <4>8. At(addrs[i], m.data, Loc(bn)) # 0  BY <1>4, <2>3, <4>6, <4>7, WordPlace
      <4> QED  BY <1>9, <3>1, <4>8
    <3>8. LogGrows(m, r, old)  BY <1>10, <3>1 DEF Mapped
    <3>9. Half \in Nat /\ 2 * Half + 4 <= MAXOPBLOCKS /\ MAXOPBLOCKS \in Nat
      BY HalfIs, BlocksAssumption
    <3>10. Cardinality(S) \in Nat
      <4>1. S \subseteq log[i]  BY <3>3 DEF Plain
      <4> QED  BY <3>4, <4>1, FS_Subset, FS_CardinalityType
    <3>11. /\ IsFiniteSet(g) /\ Cardinality(T) \in Nat
           /\ Cardinality(T) <= Cardinality(S) + (IF old \/ r.addr = 0 THEN 1 ELSE 2)
           /\ Cardinality(g) \in Nat /\ Cardinality(g) <= Cardinality(T) + 2
      <4>1. PICK C \in Int : C = Cardinality(S)  BY <3>10
      <4>2. Cardinality(Plain(m.log, m.addrs[NDIRECT])) <= C  BY <1>9, <3>3, <4>1
      <4>3. IsFiniteSet(m.log)  BY <1>9, <3>4
      <4>4. /\ IsFiniteSet(g) /\ Cardinality(Plain(g, r.addrs[NDIRECT])) \in Nat
            /\ Cardinality(Plain(g, r.addrs[NDIRECT]))
                 <= C + (IF old \/ r.addr = 0 THEN 1 ELSE 2)
            /\ Cardinality(g) \in Nat
            /\ Cardinality(g) <= Cardinality(Plain(g, r.addrs[NDIRECT])) + 2
        BY <1>21, <3>8, <4>2, <4>3, LogStep
      <4> QED  BY <3>3, <4>1, <4>4
    <3>12. Cardinality(T) + c1 <= 2 * Half + 1 /\ Cardinality(g) <= MAXOPBLOCKS
      <4>1. PICK s, tt, gg : s = Cardinality(S) /\ tt = Cardinality(T) /\ gg = Cardinality(g)
        OBVIOUS
      <4>2. /\ s \in Nat /\ tt \in Nat /\ gg \in Nat /\ tt <= s + (IF lo = 0 THEN 2 ELSE 1)
            /\ gg <= tt + 2 /\ s + c <= 2 * Half + 1
        BY <3>4, <3>7, <3>10, <3>11, <4>1
      <4>3. tt + c1 <= 2 * Half + 1 /\ gg <= MAXOPBLOCKS  BY <3>6, <3>9, <4>2
      <4> QED  BY <4>1, <4>3
    <3> QED  BY <1>19, <1>24, <3>3, <3>5, <3>11, <3>12 DEF LogInv
  <2> QED  BY <2>1, <2>8, <2>9, <2>10 DEF FileInv
<1> QED  BY <1>16, <1>23, <1>25, <1>26 DEF BlocksInv

\* Empty files.
LEMMA BlocksInitInv == BlocksInit => BlocksInv
<1> SUFFICES ASSUME BlocksInit PROVE BlocksInv
  OBVIOUS
<1>1. NDIRECT \in Nat /\ 0 \in Block  BY Sizes
<1>2. NoAddrs \in [0 .. NDIRECT -> Block] /\ \A k \in 0 .. NDIRECT : NoAddrs[k] = 0
  BY <1>1 DEF NoAddrs
<1>3. \A k \in Place : At(NoAddrs, data, k) = 0  BY <1>1, <1>2 DEF At, Place
<1>4. BlocksTypeOK  BY DEF BlocksInit, BlocksTypeOK, Idle
<1>5. Layout(used, data, addrs)
  <2>1. used = {} /\ data \in [Block -> [Word -> Nat]]  BY ZeroIs DEF BlocksInit
  <2>2. addrs \in [Ino -> [0 .. NDIRECT -> Block]] /\ \A i \in Ino : addrs[i] = NoAddrs
    BY <1>2 DEF BlocksInit
  <2>3. \A i \in Ino, l \in Place : At(addrs[i], data, l) = 0  BY <1>3, <2>2
  <2> QED  BY <1>1, <2>1, <2>2, <2>3 DEF Layout
<1>6. ASSUME NEW i \in Ino PROVE FileInv(i)
  <2>1. /\ op[i] = Idle /\ size[i] = 0 /\ log[i] = {} /\ addrs[i] = NoAddrs
        /\ dinode[i] = <<0, NoAddrs>>
    BY DEF BlocksInit
  <2>2. op[i].at = "idle"  BY <2>1 DEF Idle
  <2>3. Top(i) = 0  BY <2>1, <2>2 DEF Top
  <2>4. SizeInv(i)
    <3>1. MAXFILE \in Nat /\ BSIZE \in Nat  BY Sizes
    <3>2. 0 <= MAXFILE * BSIZE  BY <3>1
    <3> QED  BY <2>1, <2>2, <3>2 DEF SizeInv
  <2>5. ContentInv(i)
    <3>1. \A bn : ~Reaches(0, bn)  BY DEF Reaches
    <3>2. HasBlocks(NoAddrs, data, 0)  BY <1>3, <3>1, Sizes DEF HasBlocks
    <3>3. HasWords(i, NoAddrs, data, 0)  BY DEF HasWords
    <3> QED  BY <2>1, <2>3, <3>2, <3>3 DEF ContentInv, Contains
  <2>6. SavedInv(i)  BY <2>1 DEF SavedInv
  <2>7. LogInv(i)
    <3>1. IsFiniteSet({}) /\ Cardinality({}) = 0 /\ MAXOPBLOCKS \in Nat
      BY FS_EmptySet, BlocksAssumption
    <3> QED  BY <2>1, <2>2, <3>1 DEF LogInv
  <2> QED  BY <2>4, <2>5, <2>6, <2>7 DEF FileInv
<1> QED  BY <1>4, <1>5, <1>6 DEF BlocksInv

\* Every step preserves the invariant.
LEMMA BlocksStep == BlocksInv /\ [BlocksNext]_blocksVars => BlocksInv'
<1> SUFFICES ASSUME BlocksInv, [BlocksNext]_blocksVars PROVE BlocksInv'
  OBVIOUS
<1>1. ASSUME NEW i \in Ino, filewrite(i) PROVE BlocksInv'
  <2>1. /\ op[i] \in [at : {"idle", "chunk", "write", "panic"}, off : Nat, n : Nat, end : Nat]
        /\ size[i] \in Nat /\ WriteLen[i] \subseteq Nat
    BY BlocksAssumption DEF BlocksInv, BlocksTypeOK
  <2>2. ASSUME op[i].at = "idle", NEW pos \in Offset(i), NEW n \in WriteLen[i], WriteChunk(i, pos, n)
        PROVE  BlocksInv'
    <3>1. pos \in Nat /\ n \in Nat  BY <2>1 DEF Offset
    <3> QED  BY <2>2, <3>1, ChunkStep
  <2>3. ASSUME op[i].at = "chunk", WriteChunk(i, op[i].off, op[i].n) PROVE BlocksInv'
    <3>1. op[i].off \in Nat /\ op[i].n \in Nat  BY <2>1
    <3> QED  BY <2>3, <3>1, ChunkStep
  <2> QED  BY <1>1, <2>2, <2>3 DEF filewrite
<1>2. CASE UNCHANGED blocksVars
  <2>1. /\ used' = used /\ data' = data /\ size' = size /\ addrs' = addrs /\ dinode' = dinode
        /\ op' = op /\ log' = log
    BY <1>2 DEF blocksVars
  <2>2. BlocksTypeOK' /\ Layout(used, data, addrs)'  BY <2>1 DEF BlocksInv, BlocksTypeOK
  <2>3. ASSUME NEW j \in Ino PROVE FileInv(j)'
    BY <2>1, FileInvSame DEF BlocksInv, FileInv, ContentInv
  <2> QED  BY <2>2, <2>3 DEF BlocksInv
<1>3. CASE BlocksNext
  BY <1>1, <1>3, WriteStep, WriteEndStep, TruncStep DEF BlocksNext
<1> QED  BY <1>2, <1>3

\* Whatever files are written and truncated, no block number is in two places,
\* every file has the blocks its words need and no others, they hold what was
\* written, and the inode on disk is that in memory between transactions (balloc,
\* bmap, writei, filewrite, itrunc), for any disk, block and file size.
THEOREM BlocksInvariant == BlocksSpec => []BlocksInv
<1>1. BlocksInit => BlocksInv  BY BlocksInitInv
<1>2. BlocksInv /\ [BlocksNext]_blocksVars => BlocksInv'  BY BlocksStep
<1> QED  BY <1>1, <1>2, PTL DEF BlocksSpec

\* No transaction logs more blocks than begin_op() reserves for it, wherever the
\* write starts and wherever its blocks lie in the bitmap (filewrite's max).
THEOREM TransactionsFit == BlocksSpec => []TransactionFits
<1>1. BlocksInv => TransactionFits
  BY DEF BlocksInv, FileInv, LogInv, TransactionFits
<1> QED  BY <1>1, BlocksInvariant, PTL

\* What readi() returns.
LEMMA ReadIs ==
  ASSUME BlocksInv, NEW i \in Ino, op[i].at = "idle",
         NEW pos \in Nat, pos <= size[i] + 1, NEW n \in WriteLen[i] \cup {0}
  PROVE  readi(i, pos, n) = IF pos > size[i] THEN <<-1>>
                            ELSE [k \in 1 .. Min({n, size[i] - pos}) |-> i]
<1>1. BlocksTypeOK /\ Layout(used, data, addrs) /\ FileInv(i)  BY DEF BlocksInv
<1>2. Top(i) = size[i]  BY DEF Top
<1>3. PICK t \in 0 .. MAXFILE * BSIZE : t = size[i] /\ t \in Nat
  BY <1>1, <1>2, TopIs DEF FileInv
<1>4. Contains(i, addrs[i], data, t)  BY <1>1, <1>2, <1>3 DEF FileInv, ContentInv
<1>5. PICK N \in Nat : N = MAXFILE * BSIZE
  <2>1. MAXFILE \in Nat /\ BSIZE \in Nat  BY Sizes
  <2> QED  BY <2>1
<1>6. n \in Nat /\ Wrap \in Nat /\ Wrap > N + n
  <2>1. n \in UNION {WriteLen[j] : j \in Ino} \/ n = 0  OBVIOUS
  <2> QED  BY <1>5, <2>1, BlocksAssumption
<1>7. CASE pos > size[i]
  <2>1. BadRange(i, pos, n)  BY <1>7 DEF BadRange
  <2> QED  BY <1>7, <2>1 DEF readi
<1>8. CASE ~(pos > size[i])
  <2>1. (pos + n) % Wrap = pos + n /\ pos + n >= pos
    <3>1. pos + n \in Nat /\ pos + n < Wrap /\ pos + n >= pos  BY <1>3, <1>5, <1>6, <1>8
    <3> QED  BY <1>6, <3>1
  <2>2. ~BadRange(i, pos, n)  BY <1>3, <1>6, <1>8, <2>1 DEF BadRange
  <2>3. PICK len \in Nat : len = IF pos + n > size[i] THEN size[i] - pos ELSE n
    BY <1>3, <1>6, <1>8
  <2>4. len = Min({n, size[i] - pos})
    <3>1. size[i] - pos \in Nat  BY <1>3, <1>8
    <3>2. Min({n, size[i] - pos}) = IF n <= size[i] - pos THEN n ELSE size[i] - pos
      BY <1>6, <3>1, MinTwo
    <3> QED  BY <1>3, <1>6, <2>3, <3>1, <3>2
  <2>5. ASSUME NEW k \in 1 .. len
        PROVE  data[bmap(FileState(i), (pos + k - 1) \div BSIZE).addr][(pos + k - 1) % BSIZE] = i
    <3>1. PICK o \in 0 .. t - 1 : o = pos + k - 1  BY <1>3, <1>6, <1>8, <2>3
    <3>2. PICK m, bn : m = FileState(i) /\ bn = o \div BSIZE  OBVIOUS
    <3>3. bn \in 0 .. MAXFILE - 1 /\ At(addrs[i], data, Loc(bn)) # 0
          /\ data[At(addrs[i], data, Loc(bn))][o % BSIZE] = i
      BY <1>4, <3>2, WordPlace
    <3>4. /\ m \in State /\ m.used = used /\ m.data = data /\ m.addrs = addrs[i] /\ m.log = log[i]
      <4>1. /\ addrs[i] \in [0 .. NDIRECT -> Block] /\ data \in [Block -> [Word -> Nat]]
            /\ used \in SUBSET Block /\ 0 \in Block /\ log[i] \in SUBSET LogItem
        BY <1>1, Sizes DEF Layout, BlocksTypeOK
      <4> QED  BY <3>2, <4>1 DEF FileState, State
    <3>5. Mapped(addrs, i, m, bmap(m, bn), bn)  BY <1>1, <3>3, <3>4, BmapIs
    <3>6. bmap(m, bn).addr = At(addrs[i], data, Loc(bn))  BY <3>3, <3>4, <3>5 DEF Mapped
    <3> QED  BY <3>1, <3>2, <3>3, <3>6
  <2>6. readi(i, pos, n) =
          [k \in 1 .. len |->
            data[bmap(FileState(i), (pos + k - 1) \div BSIZE).addr][(pos + k - 1) % BSIZE]]
    BY <2>2, <2>3 DEF readi
  <2>7. readi(i, pos, n) = [k \in 1 .. len |-> i]  BY <2>5, <2>6
  <2> QED  BY <1>8, <2>4, <2>7
<1> QED  BY <1>7, <1>8

\* A file reads back as what was written to it, and only that, wherever the read
\* starts and ends, while others grow and go away (readi, bmap, balloc's bzero).
THEOREM FilesReadBack == BlocksSpec => []ReadBack
<1>1. BlocksInv => ReadBack
  <2> SUFFICES ASSUME BlocksInv, NEW i \in Ino, op[i].at = "idle",
                      NEW pos \in 0 .. size[i] + 1, NEW n \in WriteLen[i] \cup {0}
               PROVE  readi(i, pos, n) = IF pos > size[i] THEN <<-1>>
                                         ELSE [k \in 1 .. Min({n, size[i] - pos}) |-> i]
    BY DEF ReadBack
  <2>1. size[i] \in Nat  BY DEF BlocksInv, BlocksTypeOK
  <2>2. pos \in Nat /\ pos <= size[i] + 1  BY <2>1
  <2> QED  BY <2>2, ReadIs
<1> QED  BY <1>1, BlocksInvariant, PTL

\* A file has as many blocks as its words need, and the indirect block.
LEMMA BlockCount ==
  ASSUME NEW u, NEW d, NEW A, Layout(u, d, A), NEW i \in Ino, NEW t \in 0 .. MAXFILE * BSIZE,
         HasBlocks(A[i], d, t), NEW nb, nb = (t + BSIZE - 1) \div BSIZE
  PROVE  Cardinality(InFile(A, d, i)) = nb + (IF nb > NDIRECT THEN 1 ELSE 0)
<1>1. NDIRECT \in Nat /\ BSIZE \in Nat \ {0} /\ MAXFILE = NDIRECT + BSIZE /\ MAXFILE \in Nat
  BY Sizes
<1>2. t + BSIZE - 1 \in Nat /\ t \in Nat  BY <1>1
<1>3. nb \in Nat  BY <1>1, <1>2, DivFacts
<1>4. \A bn \in Nat : Reaches(t, bn) <=> bn < nb  BY <1>1, <1>2, ReachesIff DEF Reaches
<1>5. nb <= MAXFILE
  <2> SUFFICES ASSUME MAXFILE < nb PROVE FALSE
    BY <1>1, <1>3
  <2>1. PICK o \in 0 .. t - 1 : o \div BSIZE = MAXFILE  BY <1>1, <1>4 DEF Reaches
  <2>2. o \div BSIZE \in 0 .. MAXFILE - 1  BY WordPlace
  <2> QED  BY <1>1, <2>1, <2>2
<1>6. PICK M : M = IF nb > NDIRECT THEN nb ELSE nb - 1  OBVIOUS
<1>7. M \in Int /\ M >= -1 /\ M <= NDIRECT + BSIZE  BY <1>1, <1>3, <1>5, <1>6
<1>8. ASSUME NEW l \in Place PROVE At(A[i], d, l) # 0 <=> l \in 0 .. M
  <2>1. CASE l = NDIRECT
    <3>1. At(A[i], d, l) # 0 <=> \E bn \in NDIRECT .. MAXFILE - 1 : Reaches(t, bn)
      BY <2>1 DEF HasBlocks
    <3>2. (\E bn \in NDIRECT .. MAXFILE - 1 : Reaches(t, bn)) <=> NDIRECT < nb
      BY <1>1, <1>3, <1>4, <1>5
    <3>3. l \in 0 .. M <=> NDIRECT < nb  BY <1>1, <1>3, <1>6, <2>1
    <3> QED  BY <3>1, <3>2, <3>3
  <2>2. CASE l # NDIRECT
    <3>1. PICK bn \in 0 .. MAXFILE - 1 : l = Loc(bn)  BY <2>2, Sizes
    <3>2. At(A[i], d, l) # 0 <=> bn < nb  BY <1>1, <1>4, <3>1 DEF HasBlocks
    <3>3. l = IF bn < NDIRECT THEN bn ELSE bn + 1  BY <3>1 DEF Loc
    <3>4. l \in 0 .. M <=> bn < nb  BY <1>1, <1>3, <1>6, <3>3
    <3> QED  BY <3>2, <3>4
  <2> QED  BY <2>1, <2>2
<1>9. 0 .. M \subseteq Place  BY <1>1, <1>7 DEF Place
<1> DEFINE S == 0 .. M
           f == [l \in S |-> At(A[i], d, l)]
           T == InFile(A, d, i)
<1>10. f \in [S -> T]  BY <1>8, <1>9 DEF InFile
<1>11. \A b \in T : \E l \in S : f[l] = b  BY <1>8 DEF InFile
<1>12. ASSUME NEW l \in S, NEW k \in S, f[l] = f[k] PROVE l = k
  <2>1. l \in Place /\ k \in Place  BY <1>9
  <2>2. At(A[i], d, l) = At(A[i], d, k) /\ At(A[i], d, l) # 0  BY <1>8, <1>12, <2>1
  <2> QED  BY <2>1, <2>2, OnePlace
<1>13. IsFiniteSet(S) /\ Cardinality(S) = IF 0 > M THEN 0 ELSE M + 1
  <2>1. 0 \in Int /\ M \in Int  BY <1>7
  <2>2. IsFiniteSet(0 .. M) /\ Cardinality(0 .. M) = IF 0 > M THEN 0 ELSE M - 0 + 1
    BY <2>1, FS_Interval
  <2> QED  BY <1>7, <2>2
<1> HIDE DEF S, f, T
<1>14. f \in Surjection(S, T) /\ f \in Injection(S, T)
  BY <1>10, <1>11, <1>12 DEF Surjection, Injection, IsInjective
<1>15. Cardinality(T) = Cardinality(S)  BY <1>13, <1>14, FS_Surjection
<1>16. Cardinality(S) = nb + (IF nb > NDIRECT THEN 1 ELSE 0)  BY <1>1, <1>3, <1>6, <1>13
<1> QED  BY <1>15, <1>16 DEF T

\* Every block marked in the bitmap belongs to exactly one file, and between
\* transactions a file has as many blocks as its size needs and the inode on disk
\* knows them (balloc, bmap, itrunc, iupdate).
THEOREM BlocksHaveOneOwner == BlocksSpec => []OneOwner
<1>1. BlocksInv => OneOwner
  <2> SUFFICES ASSUME BlocksInv, ~Halted PROVE OneOwner
    BY DEF OneOwner
  <2>1. BlocksTypeOK /\ Layout(used, data, addrs) /\ \A j \in Ino : FileInv(j)
    BY DEF BlocksInv
  <2>2. \A i \in Ino : Blocks(i) = InFile(addrs, data, i)  BY BlocksAre
  <2>3. ASSUME NEW i \in Ino, NEW j \in Ino, i # j PROVE Blocks(i) \cap Blocks(j) = {}
    <3> SUFFICES ASSUME NEW b \in InFile(addrs, data, i), b \in InFile(addrs, data, j) PROVE FALSE
      BY <2>2
    <3>1. PICK l \in Place : b = At(addrs[i], data, l) /\ b # 0  BY DEF InFile
    <3>2. PICK k \in Place : b = At(addrs[j], data, k)  BY DEF InFile
    <3>3. At(addrs[i], data, l) = At(addrs[j], data, k) /\ At(addrs[i], data, l) # 0
      BY <3>1, <3>2
    <3> QED  BY <2>1, <2>3, <3>3, OnePlace
  <2>4. used = UNION {Blocks(i) : i \in Ino}
    <3>1. ASSUME NEW b \in used PROVE \E i \in Ino : b \in Blocks(i)
      <4>1. PICK i \in Ino, l \in Place : At(addrs[i], data, l) = b  BY <2>1 DEF Layout
      <4>2. b # 0  BY <2>1 DEF Layout
      <4>3. b \in InFile(addrs, data, i)  BY <4>1, <4>2 DEF InFile
      <4> QED  BY <2>2, <4>3
    <3>2. ASSUME NEW i \in Ino, NEW b \in Blocks(i) PROVE b \in used
      <4>1. b \in InFile(addrs, data, i)  BY <2>2
      <4>2. PICK l \in Place : b = At(addrs[i], data, l) /\ b # 0  BY <4>1 DEF InFile
      <4> QED  BY <2>1, <4>2 DEF Layout
    <3> QED  BY <3>1, <3>2
  <2>5. ASSUME NEW i \in Ino, op[i].at # "write"
        PROVE  /\ dinode[i] = <<size[i], addrs[i]>>
               /\ Cardinality(Blocks(i)) =
                    LET nb == (size[i] + BSIZE - 1) \div BSIZE
                    IN nb + (IF nb > NDIRECT THEN 1 ELSE 0)
    <3>1. op[i].at # "panic" /\ Top(i) = size[i]  BY <2>5 DEF Halted, Top
    <3>2. dinode[i] = <<size[i], addrs[i]>>  BY <2>1, <3>1 DEF FileInv, SavedInv
    <3>3. size[i] \in 0 .. MAXFILE * BSIZE  BY <2>1, <3>1, TopIs DEF FileInv
    <3>4. HasBlocks(addrs[i], data, size[i])
      BY <2>1, <3>1 DEF FileInv, ContentInv, Contains
    <3>5. PICK nb : nb = (size[i] + BSIZE - 1) \div BSIZE  OBVIOUS
    <3>6. Cardinality(InFile(addrs, data, i)) = nb + (IF nb > NDIRECT THEN 1 ELSE 0)
      BY <2>1, <3>3, <3>4, <3>5, BlockCount
    <3> QED  BY <2>2, <3>2, <3>5, <3>6
  <2> QED  BY <2>3, <2>4, <2>5 DEF OneOwner
<1> QED  BY <1>1, BlocksInvariant, PTL
=============================================================================
