----------------------------- MODULE PipeProofs -----------------------------
(***************************************************************************)
(* A pipe is a bounded FIFO queue for every size of the ring, every range  *)
(* of its counters that the size divides, and any number of readers and    *)
(* writers.                                                                *)
(***************************************************************************)
EXTENDS Pipe, SequenceTheorems, TLAPS

-----------------------------------------------------------------------------
(* Remainders *)

\* Division with remainder.
LEMMA ModDiv ==
  ASSUME NEW n \in Nat \ {0}, NEW a \in Int
  PROVE  \E q \in Int : \E m \in 0 .. n - 1 : a = n * q + m /\ a % n = m
<1> DEFINE q == a \div n
           m == a % n
<1>1. m = a - n * q  OBVIOUS
<1>2. q \in Int /\ m \in 0 .. n - 1  OBVIOUS
<1> HIDE DEF q, m
<1>3. n * q \in Int  BY <1>2
<1>4. a = n * q + m  BY <1>1, <1>2, <1>3
<1> QED  BY <1>2, <1>4 DEF m

\* The remainder is unique.
LEMMA ModUnique ==
  ASSUME NEW n \in Nat \ {0}, NEW m \in 0 .. n - 1, NEW q \in Int
  PROVE  (n * q + m) % n = m
OBVIOUS

\* A multiple of n does not change a remainder.
LEMMA ModAdd ==
  ASSUME NEW n \in Nat \ {0}, NEW a \in Int, NEW k \in Int, a % n = 0
  PROVE  (a + k) % n = k % n
<1>1. PICK q \in Int : \E m \in 0 .. n - 1 : a = n * q + m /\ a % n = m  BY ModDiv
<1>2. a = n * q  BY <1>1
<1>3. PICK u \in Int : \E m \in 0 .. n - 1 : k = n * u + m /\ k % n = m  BY ModDiv
<1>4. PICK m \in 0 .. n - 1 : k = n * u + m /\ k % n = m  BY <1>3
<1>5. n * (q + u) = n * q + n * u /\ n * q \in Int /\ n * u \in Int  OBVIOUS
<1>6. a + k = n * (q + u) + m  BY <1>2, <1>4, <1>5
<1>7. (n * (q + u) + m) % n = m  BY ModUnique
<1> QED  BY <1>4, <1>6, <1>7

\* Of n successive numbers no two have the same remainder.
LEMMA ModInjective ==
  ASSUME NEW n \in Nat \ {0}, NEW a \in Int, NEW k \in Int,
         a <= k, k < a + n, a % n = k % n
  PROVE  a = k
<1>1. PICK q \in Int : \E m \in 0 .. n - 1 : a = n * q + m /\ a % n = m  BY ModDiv
<1>2. PICK u \in Int : \E m \in 0 .. n - 1 : k = n * u + m /\ k % n = m  BY ModDiv
<1>3. PICK m \in 0 .. n - 1 : a = n * q + m /\ k = n * u + m  BY <1>1, <1>2
<1> DEFINE d == u - q
<1>4. d \in Int /\ n * d = n * u - n * q  OBVIOUS
<1>5. n * q \in Int /\ n * u \in Int  OBVIOUS
<1>6. k - a = n * d  BY <1>3, <1>4, <1>5
<1> HIDE DEF d
<1>7. 0 <= n * d /\ n * d < n  BY <1>6
<1>8. CASE d >= 1
  <2>1. n * (d - 1) >= 0  BY <1>4, <1>8
  <2>2. n * d = n + n * (d - 1)  BY <1>4
  <2> QED  BY <1>4, <1>7, <2>1, <2>2
<1>9. CASE d <= -1
  <2>1. n * (-1 - d) >= 0  BY <1>4, <1>9
  <2>2. n * d = -n - n * (-1 - d)  BY <1>4
  <2> QED  BY <1>4, <1>7, <2>1, <2>2
<1>10. CASE d = 0  BY <1>6, <1>10
<1> QED  BY <1>4, <1>8, <1>9, <1>10

-----------------------------------------------------------------------------
(* The counters *)

\* A counter advances by at most its range ...
LEMMA Sum ==
  ASSUME NEW a \in 0 .. Wrap - 1, NEW k \in 0 .. Wrap - 1
  PROVE  (a + k) % Wrap = IF a + k < Wrap THEN a + k ELSE a + k - Wrap
<1> USE PipeAssumption
<1>1. CASE a + k < Wrap  BY <1>1
<1>2. CASE a + k >= Wrap
  <2>1. a + k - Wrap \in 0 .. Wrap - 1  BY <1>2
  <2>2. (Wrap * 1 + (a + k - Wrap)) % Wrap = a + k - Wrap
    BY ONLY <2>1, ModUnique, PipeAssumption
  <2> QED  BY <1>2, <2>2
<1> QED  BY <1>1, <1>2

\* ... and the number of bytes between two counters, without remainders.
LEMMA Difference ==
  ASSUME NEW a \in 0 .. Wrap - 1, NEW b \in 0 .. Wrap - 1
  PROVE  (b - a) % Wrap = IF a <= b THEN b - a ELSE b - a + Wrap
<1> USE PipeAssumption
<1>1. CASE a <= b  BY <1>1
<1>2. CASE b < a
  <2>1. b - a + Wrap \in 0 .. Wrap - 1  BY <1>2
  <2>2. (Wrap * (-1) + (b - a + Wrap)) % Wrap = b - a + Wrap
    BY ONLY <2>1, ModUnique, PipeAssumption
  <2> QED  BY <1>2, <2>2
<1> QED  BY <1>1, <1>2

\* A counter that wraps stays at the same place of the ring.
LEMMA WrapAdd ==
  ASSUME NEW k \in Int
  PROVE  (Wrap + k) % PIPESIZE = k % PIPESIZE
<1>1. PIPESIZE \in Nat \ {0} /\ Wrap \in Int /\ Wrap % PIPESIZE = 0  BY PipeAssumption
<1> QED  BY <1>1, ModAdd, Zenon

\* Where a byte of the queue is, however the counter has wrapped.
LEMMA Position ==
  ASSUME NEW a \in 0 .. Wrap - 1, NEW k \in 0 .. Wrap - 1
  PROVE  ((a + k) % Wrap) % PIPESIZE = (a + k) % PIPESIZE
<1> USE PipeAssumption
<1>1. CASE a + k < Wrap  BY <1>1, Sum
<1>2. CASE a + k >= Wrap
  <2> DEFINE j == a + k - Wrap
  <2>1. (a + k) % Wrap = j  BY <1>2, Sum
  <2>2. j \in Int /\ Wrap + j = a + k  OBVIOUS
  <2> HIDE DEF j
  <2>3. (Wrap + j) % PIPESIZE = j % PIPESIZE  BY <2>2, WrapAdd
  <2> QED  BY <2>1, <2>2, <2>3
<1> QED  BY <1>1, <1>2

-----------------------------------------------------------------------------
(* The ring *)

Data == [0 .. PIPESIZE - 1 -> Byte]
Counter == 0 .. Wrap - 1

\* Count and Contents of the counters r and w and the array d.
InRing(r, w) == (w - r) % Wrap
Bytes(d, r, w) == [i \in 1 .. InRing(r, w) |-> d[(r + i - 1) % PIPESIZE]]

LEMMA CountAndContents ==
  Count = InRing(nread, nwrite) /\ Contents = Bytes(data, nread, nwrite)
BY DEF Count, Contents, InRing, Bytes

LEMMA CountFacts ==
  ASSUME NEW r \in Counter, NEW w \in Counter
  PROVE  /\ InRing(r, w) \in 0 .. Wrap - 1
         /\ InRing(r, w) = IF r <= w THEN w - r ELSE w - r + Wrap
         /\ w = (r + InRing(r, w)) % Wrap
         /\ r = w <=> InRing(r, w) = 0
         /\ w = (r + PIPESIZE) % Wrap <=> InRing(r, w) = PIPESIZE
<1> USE PipeAssumption DEF Counter
<1> DEFINE c == InRing(r, w)
<1>1. c = IF r <= w THEN w - r ELSE w - r + Wrap  BY Difference DEF InRing
<1>2. c \in 0 .. Wrap - 1  BY <1>1
<1> HIDE DEF c
<1>3. (r + c) % Wrap = IF r + c < Wrap THEN r + c ELSE r + c - Wrap  BY <1>2, Sum
<1>4. (r + PIPESIZE) % Wrap = IF r + PIPESIZE < Wrap THEN r + PIPESIZE ELSE r + PIPESIZE - Wrap
  BY Sum
<1>5. w = (r + c) % Wrap  BY <1>1, <1>3
<1>6. r = w <=> c = 0  BY <1>1
<1>7. w = (r + PIPESIZE) % Wrap <=> c = PIPESIZE  BY <1>1, <1>4
<1> QED  BY <1>1, <1>2, <1>5, <1>6, <1>7 DEF c

LEMMA BytesFacts ==
  ASSUME NEW d \in Data, NEW r \in Counter, NEW w \in Counter
  PROVE  /\ Bytes(d, r, w) \in Seq(Byte) /\ Len(Bytes(d, r, w)) = InRing(r, w)
         /\ \A i \in 1 .. InRing(r, w) : Bytes(d, r, w)[i] = d[(r + i - 1) % PIPESIZE]
<1>1. InRing(r, w) \in Nat
  <2>1. InRing(r, w) \in 0 .. Wrap - 1  BY CountFacts
  <2> QED  BY <2>1
<1> USE PipeAssumption DEF Counter, Data
<1>2. ASSUME NEW i \in 1 .. InRing(r, w)
      PROVE  d[(r + i - 1) % PIPESIZE] \in Byte
  <2>1. r + i - 1 \in Int  BY <1>1
  <2>2. (r + i - 1) % PIPESIZE \in 0 .. PIPESIZE - 1  BY <2>1
  <2> QED  BY <2>2
<1> QED  BY <1>1, <1>2 DEF Bytes

\* One byte more.
LEMMA RingPut ==
  ASSUME NEW d \in Data, NEW r \in Counter, NEW w \in Counter, NEW b \in Byte,
         InRing(r, w) < PIPESIZE
  PROVE  /\ InRing(r, (w + 1) % Wrap) = InRing(r, w) + 1
         /\ Bytes([d EXCEPT ![w % PIPESIZE] = b], r, (w + 1) % Wrap) = Append(Bytes(d, r, w), b)
<1> USE PipeAssumption
<1> DEFINE n == InRing(r, w)
           w1 == (w + 1) % Wrap
           d1 == [d EXCEPT ![w % PIPESIZE] = b]
           s == Bytes(d, r, w)
           s1 == Bytes(d1, r, w1)
<1>1. n \in 0 .. Wrap - 1 /\ n = (IF r <= w THEN w - r ELSE w - r + Wrap) /\ w = (r + n) % Wrap
  BY CountFacts
<1>2. w1 = IF w + 1 < Wrap THEN w + 1 ELSE w + 1 - Wrap  BY Sum DEF Counter
<1>3. w1 \in Counter  BY <1>2 DEF Counter
<1>4. w % PIPESIZE = (r + n) % PIPESIZE /\ w % PIPESIZE \in 0 .. PIPESIZE - 1
  <2> HIDE DEF n
  <2>1. ((r + n) % Wrap) % PIPESIZE = (r + n) % PIPESIZE  BY <1>1, Position DEF Counter
  <2> QED  BY <1>1, <2>1 DEF Counter
<1>5. d1 \in Data  BY DEF Data
<1>6. InRing(r, w1) = IF r <= w1 THEN w1 - r ELSE w1 - r + Wrap  BY <1>3, CountFacts
<1> HIDE DEF n, w1
<1>7. InRing(r, w1) = n + 1  BY <1>1, <1>2, <1>3, <1>6 DEF Counter, n
<1>8. ASSUME NEW i \in 1 .. n
      PROVE  d1[(r + i - 1) % PIPESIZE] = d[(r + i - 1) % PIPESIZE]
  <2> DEFINE j == r + i - 1
             k == r + n
  <2>1. j \in Int /\ k \in Int /\ j <= k /\ k < j + PIPESIZE /\ j # k
    BY <1>1 DEF Counter, n
  <2> HIDE DEF j, k
  <2>2. j % PIPESIZE # k % PIPESIZE  BY <2>1, ModInjective
  <2>3. j % PIPESIZE \in 0 .. PIPESIZE - 1  BY <2>1
  <2>4. d1[j % PIPESIZE] = d[j % PIPESIZE]  BY <1>4, <2>2, <2>3 DEF Data, k
  <2> QED  BY <2>4 DEF j
<1>9. d1[(r + (n + 1) - 1) % PIPESIZE] = b
  <2>1. r + (n + 1) - 1 = r + n  BY <1>1 DEF Counter
  <2> QED  BY <1>4, <2>1 DEF Data
<1>10. s \in Seq(Byte) /\ Len(s) = n
       /\ \A i \in 1 .. n : s[i] = d[(r + i - 1) % PIPESIZE]  BY BytesFacts DEF n
<1> HIDE DEF d1
<1>11. s1 \in Seq(Byte) /\ Len(s1) = n + 1
       /\ \A i \in 1 .. n + 1 : s1[i] = d1[(r + i - 1) % PIPESIZE]  BY <1>3, <1>5, <1>7, BytesFacts
<1> HIDE DEF s, s1
<1>12. \A i \in 1 .. n : s1[i] = s[i]
  <2> SUFFICES ASSUME NEW i \in 1 .. n PROVE s1[i] = s[i]  OBVIOUS
  <2>1. i \in 1 .. n + 1  BY <1>1
  <2>2. s1[i] = d1[(r + i - 1) % PIPESIZE]  BY <1>11, <2>1
  <2> QED  BY <1>8, <1>10, <2>2
<1>13. s1[n + 1] = b
  <2>1. n + 1 \in 1 .. n + 1  BY <1>1
  <2> QED  BY <1>9, <1>11, <2>1
<1>14. s1 = Append(s, b)
  <2> DEFINE t == Append(s, b)
  <2>1. t \in Seq(Byte) /\ Len(t) = n + 1 /\ t[n + 1] = b /\ \A i \in 1 .. n : t[i] = s[i]
    BY <1>1, <1>10
  <2> HIDE DEF t
  <2>2. ASSUME NEW i \in 1 .. n + 1 PROVE t[i] = s1[i]
    <3>1. CASE i = n + 1  BY <1>13, <2>1, <3>1
    <3>2. CASE i \in 1 .. n  BY <1>12, <2>1, <3>2
    <3> QED  BY <1>1, <2>2, <3>1, <3>2
  <2>3. t = s1  BY <1>1, <1>11, <2>1, <2>2, SeqEqual
  <2> QED  BY <2>3 DEF t
<1> QED  BY <1>7, <1>14 DEF s, s1, n, w1, d1

\* One byte less.
LEMMA RingGet ==
  ASSUME NEW d \in Data, NEW r \in Counter, NEW w \in Counter, r # w
  PROVE  /\ InRing((r + 1) % Wrap, w) = InRing(r, w) - 1
         /\ Bytes(d, r, w) # <<>>
         /\ Bytes(d, (r + 1) % Wrap, w) = Tail(Bytes(d, r, w))
<1> USE PipeAssumption
<1> DEFINE n == InRing(r, w)
           r1 == (r + 1) % Wrap
           s == Bytes(d, r, w)
           s1 == Bytes(d, r1, w)
<1>1. n \in 1 .. Wrap - 1 /\ n = IF r <= w THEN w - r ELSE w - r + Wrap  BY CountFacts
<1>2. r1 = IF r + 1 < Wrap THEN r + 1 ELSE r + 1 - Wrap  BY Sum DEF Counter
<1>3. r1 \in Counter  BY <1>2 DEF Counter
<1>4. InRing(r1, w) = IF r1 <= w THEN w - r1 ELSE w - r1 + Wrap  BY <1>3, CountFacts
<1> HIDE DEF n, r1
<1>5. InRing(r1, w) = n - 1  BY <1>1, <1>2, <1>4 DEF Counter, n
<1>6. ASSUME NEW i \in 1 .. n - 1
      PROVE  (r1 + i - 1) % PIPESIZE = (r + (i + 1) - 1) % PIPESIZE
  <2>1. CASE r + 1 < Wrap
    <3>1. r1 + i - 1 = r + (i + 1) - 1  BY <1>1, <1>2, <2>1 DEF Counter
    <3> QED  BY <3>1
  <2>2. CASE r + 1 >= Wrap
    <3> DEFINE j == i - 1
    <3>1. j \in Int /\ r1 + i - 1 = j /\ r + (i + 1) - 1 = Wrap + j
      BY <1>1, <1>2, <2>2 DEF Counter
    <3> HIDE DEF j
    <3>2. (Wrap + j) % PIPESIZE = j % PIPESIZE  BY <3>1, WrapAdd
    <3> QED  BY <3>1, <3>2
  <2> QED  BY <2>1, <2>2 DEF Counter
<1>7. s \in Seq(Byte) /\ Len(s) = n
      /\ \A i \in 1 .. n : s[i] = d[(r + i - 1) % PIPESIZE]  BY BytesFacts DEF n
<1>8. s1 \in Seq(Byte) /\ Len(s1) = n - 1
      /\ \A i \in 1 .. n - 1 : s1[i] = d[(r1 + i - 1) % PIPESIZE]  BY <1>3, <1>5, BytesFacts
<1> HIDE DEF s, s1
<1>9. \A i \in 1 .. n - 1 : s1[i] = s[i + 1]
  <2> SUFFICES ASSUME NEW i \in 1 .. n - 1 PROVE s1[i] = s[i + 1]  OBVIOUS
  <2>1. i + 1 \in 1 .. n  BY <1>1
  <2>2. s[i + 1] = d[(r + (i + 1) - 1) % PIPESIZE]  BY <1>7, <2>1
  <2> QED  BY <1>6, <1>8, <2>2
<1>10. s # <<>>  BY <1>1, <1>7
<1>11. s1 = Tail(s)  BY <1>1, <1>7, <1>8, <1>9, <1>10
<1> QED  BY <1>5, <1>10, <1>11 DEF s, s1, n, r1

-----------------------------------------------------------------------------
(* The invariant *)

\* A process that has not closed its end is among the holders, an end that is
\* closed has none left, and only readers are past the test of piperead().
HolderInv ==
  \A p \in Process :
    /\ pc[p] # "closed" => p \in holders
    /\ p \in holders => (p \in Reader => readopen = 1) /\ (p \in Writer => writeopen = 1)
    /\ pc[p] = "copy" => p \in Reader

\* What is in the ring fits into it.
PipeInv == TypeOK /\ HolderInv /\ Count <= PIPESIZE

LEMMA PipeInit == Init => PipeInv
<1> SUFFICES ASSUME Init PROVE PipeInv  OBVIOUS
<1> USE PipeAssumption DEF Init
<1>1. TypeOK  BY DEF TypeOK, Labels
<1>2. HolderInv  BY DEF HolderInv, Process
<1>3. Count <= PIPESIZE
  <2>1. 0 \in Counter  BY DEF Counter
  <2>2. Count = 0  BY <2>1, CountFacts, CountAndContents
  <2> QED  BY <2>2
<1> QED  BY <1>1, <1>2, <1>3 DEF PipeInv

\* A step that leaves the counters alone keeps the count.
LEMMA SameRing ==
  ASSUME UNCHANGED buffer
  PROVE  Count' = Count /\ Contents' = Contents
BY DEF buffer, Count, Contents

\* A system call starts.
LEMMA CallInv ==
  ASSUME PipeInv, NEW p \in Process, Call(p)
  PROVE  PipeInv' /\ UNCHANGED Queue!vars
<1> USE PipeAssumption DEF PipeInv, Call, Goto, ends
<1>1. TypeOK'  BY DEF TypeOK, Labels, buffer
<1>2. HolderInv'  BY DEF HolderInv, TypeOK
<1>3. Count' = Count /\ Contents' = Contents  BY SameRing
<1> QED  BY <1>1, <1>2, <1>3 DEF Queue!vars

\* p->lock is taken.
LEMMA EnterInv ==
  ASSUME PipeInv, NEW p \in Process, Enter(p)
  PROVE  PipeInv' /\ UNCHANGED Queue!vars
<1> USE PipeAssumption DEF PipeInv, Enter, Goto, ends
<1>1. TypeOK'  BY DEF TypeOK, Labels, buffer
<1>2. HolderInv'  BY DEF HolderInv, TypeOK
<1>3. Count' = Count /\ Contents' = Contents  BY SameRing
<1> QED  BY <1>1, <1>2, <1>3 DEF Queue!vars

\* A process goes to sleep.
LEMMA SleepInv ==
  ASSUME PipeInv, NEW p \in Process, Sleep(p)
  PROVE  PipeInv' /\ UNCHANGED Queue!vars
<1> USE PipeAssumption DEF PipeInv, Sleep, Goto, ends
<1>1. TypeOK'  BY DEF TypeOK, Labels, buffer
<1>2. HolderInv'  BY DEF HolderInv, TypeOK
<1>3. Count' = Count /\ Contents' = Contents  BY SameRing
<1> QED  BY <1>1, <1>2, <1>3 DEF Queue!vars

\* A process is killed.
LEMMA KillInv ==
  ASSUME PipeInv, NEW p \in Process, Kill(p)
  PROVE  PipeInv' /\ UNCHANGED Queue!vars
<1> USE PipeAssumption DEF PipeInv, Kill, Goto, ends
<1>1. TypeOK'  BY DEF TypeOK, Labels, buffer
<1>2. HolderInv'  BY DEF HolderInv, TypeOK
<1>3. Count' = Count /\ Contents' = Contents  BY SameRing
<1> QED  BY <1>1, <1>2, <1>3 DEF Queue!vars

\* piperead()'s first loop.
LEMMA ReadTestInv ==
  ASSUME PipeInv, NEW p \in Process, ReadTest(p)
  PROVE  PipeInv' /\ UNCHANGED Queue!vars
<1> USE PipeAssumption DEF PipeInv, ReadTest, Goto, ends
<1>1. TypeOK'  BY DEF TypeOK, Labels, buffer
<1>2. HolderInv'  BY DEF HolderInv, TypeOK
<1>3. Count' = Count /\ Contents' = Contents  BY SameRing
<1> QED  BY <1>1, <1>2, <1>3 DEF Queue!vars

\* The ring is full.
LEMMA WriteFullInv ==
  ASSUME PipeInv, NEW p \in Process, WriteFull(p)
  PROVE  PipeInv' /\ UNCHANGED Queue!vars
<1> USE PipeAssumption DEF PipeInv, WriteFull, Goto, ends
<1> DEFINE l == [pc EXCEPT ![p] = "sleep"]
           k == wakeup(Reader, l)
<1>1. l \in [Process -> Labels]  BY DEF TypeOK, Labels
<1>2. /\ k \in [Process -> Labels]
      /\ \A q \in Process : k[q] = l[q] \/ (k[q] = "enter" /\ l[q] = "asleep")
  BY <1>1 DEF wakeup, Labels
<1> HIDE DEF k
<1>3. TypeOK'
  <2>1. pc' \in [Process -> Labels]  BY <1>2 DEF TypeOK, Labels, k
  <2>2. left' \in [Process -> 0 .. MaxLen] /\ lock' \in Process \cup {Nobody}  BY DEF TypeOK
  <2> QED  BY <2>1, <2>2 DEF TypeOK, buffer
<1>4. HolderInv'
  <2> SUFFICES ASSUME NEW q \in Process PROVE HolderInv!(q)'  BY DEF HolderInv
  <2> QED  BY <1>2 DEF HolderInv, TypeOK, k
<1>5. Count' = Count /\ Contents' = Contents  BY SameRing
<1> QED  BY <1>3, <1>4, <1>5 DEF Queue!vars

\* A write() ends.
LEMMA WriteDoneInv ==
  ASSUME PipeInv, NEW p \in Process, WriteDone(p)
  PROVE  PipeInv' /\ UNCHANGED Queue!vars
<1> USE PipeAssumption DEF PipeInv, WriteDone, Goto, ends
<1> DEFINE l == [pc EXCEPT ![p] = "user"]
           k == wakeup(Reader, l)
<1>1. l \in [Process -> Labels]  BY DEF TypeOK, Labels
<1>2. /\ k \in [Process -> Labels]
      /\ \A q \in Process : k[q] = l[q] \/ (k[q] = "enter" /\ l[q] = "asleep")
  BY <1>1 DEF wakeup, Labels
<1> HIDE DEF k
<1>3. TypeOK'
  <2>1. pc' \in [Process -> Labels]  BY <1>2 DEF TypeOK, Labels, k
  <2>2. left' \in [Process -> 0 .. MaxLen] /\ lock' \in Process \cup {Nobody}  BY DEF TypeOK
  <2> QED  BY <2>1, <2>2 DEF TypeOK, buffer
<1>4. HolderInv'
  <2> SUFFICES ASSUME NEW q \in Process PROVE HolderInv!(q)'  BY DEF HolderInv
  <2> QED  BY <1>2 DEF HolderInv, TypeOK, k
<1>5. Count' = Count /\ Contents' = Contents  BY SameRing
<1> QED  BY <1>3, <1>4, <1>5 DEF Queue!vars

\* A read() ends.
LEMMA ReadDoneInv ==
  ASSUME PipeInv, NEW p \in Process, ReadDone(p)
  PROVE  PipeInv' /\ UNCHANGED Queue!vars
<1> USE PipeAssumption DEF PipeInv, ReadDone, Goto, ends
<1> DEFINE l == [pc EXCEPT ![p] = "user"]
           k == wakeup(Writer, l)
<1>1. l \in [Process -> Labels]  BY DEF TypeOK, Labels
<1>2. /\ k \in [Process -> Labels]
      /\ \A q \in Process : k[q] = l[q] \/ (k[q] = "enter" /\ l[q] = "asleep")
  BY <1>1 DEF wakeup, Labels
<1> HIDE DEF k
<1>3. TypeOK'
  <2>1. pc' \in [Process -> Labels]  BY <1>2 DEF TypeOK, Labels, k
  <2>2. left' \in [Process -> 0 .. MaxLen] /\ lock' \in Process \cup {Nobody}  BY DEF TypeOK
  <2> QED  BY <2>1, <2>2 DEF TypeOK, buffer
<1>4. HolderInv'
  <2> SUFFICES ASSUME NEW q \in Process PROVE HolderInv!(q)'  BY DEF HolderInv
  <2> QED  BY <1>2 DEF HolderInv, TypeOK, k
<1>5. Count' = Count /\ Contents' = Contents  BY SameRing
<1> QED  BY <1>3, <1>4, <1>5 DEF Queue!vars

\* A byte is written: it goes to the end of the queue.
LEMMA WriteByteInv ==
  ASSUME PipeInv, NEW p \in Process, WriteByte(p)
  PROVE  PipeInv' /\ \E b \in Byte : Queue!Put(b)
<1> USE PipeAssumption DEF PipeInv, WriteByte, ends
<1>1. data \in Data /\ nread \in Counter /\ nwrite \in Counter  BY DEF TypeOK, Data, Counter
<1>2. TypeOK'
  <2>1. nwrite' \in 0 .. Wrap - 1  BY Sum DEF TypeOK
  <2>2. data' \in [0 .. PIPESIZE - 1 -> Byte]  BY DEF TypeOK
  <2> QED  BY <2>1, <2>2 DEF TypeOK, Labels
<1>3. HolderInv'  BY DEF HolderInv, TypeOK
<1>4. PICK b \in Byte : data' = [data EXCEPT ![nwrite % PIPESIZE] = b]  OBVIOUS
<1>5. Count < PIPESIZE /\ Count \in Nat
  <2>1. Count \in 0 .. Wrap - 1 /\ (nwrite = (nread + PIPESIZE) % Wrap <=> Count = PIPESIZE)
    BY <1>1, CountFacts, CountAndContents
  <2> QED  BY <2>1 DEF Full
<1>6. Count' = Count + 1 /\ Contents' = Append(Contents, b)
  <2>1. Count' = InRing(nread', nwrite') /\ Contents' = Bytes(data', nread', nwrite')
    BY DEF Count, Contents, InRing, Bytes
  <2>2. InRing(nread, nwrite) < PIPESIZE  BY <1>5, CountAndContents
  <2>3. /\ InRing(nread, (nwrite + 1) % Wrap) = InRing(nread, nwrite) + 1
        /\ Bytes([data EXCEPT ![nwrite % PIPESIZE] = b], nread, (nwrite + 1) % Wrap)
             = Append(Bytes(data, nread, nwrite), b)
    BY ONLY <1>1, <1>4, <2>2, RingPut
  <2>4. nread' = nread /\ nwrite' = (nwrite + 1) % Wrap  OBVIOUS
  <2> QED  BY <1>4, <2>1, <2>3, <2>4, CountAndContents, Zenon
<1>7. Len(Contents) < PIPESIZE  BY <1>1, <1>5, BytesFacts, CountAndContents
<1>8. writeopen = 1  BY DEF HolderInv, Process
<1> QED  BY <1>2, <1>3, <1>5, <1>6, <1>7, <1>8 DEF Queue!Put

\* A byte is read: it is the first one of the queue.
LEMMA ReadByteInv ==
  ASSUME PipeInv, NEW p \in Process, ReadByte(p)
  PROVE  PipeInv' /\ Queue!Get
<1> USE PipeAssumption DEF PipeInv, ReadByte, ends
<1>1. data \in Data /\ nread \in Counter /\ nwrite \in Counter  BY DEF TypeOK, Data, Counter
<1>2. TypeOK'
  <2>1. nread' \in 0 .. Wrap - 1  BY Sum DEF TypeOK
  <2> QED  BY <2>1 DEF TypeOK, Labels
<1>3. HolderInv'  BY DEF HolderInv, TypeOK
<1>4. Count' = Count - 1 /\ Contents # <<>> /\ Contents' = Tail(Contents)
  <2>1. Count' = InRing(nread', nwrite') /\ Contents' = Bytes(data', nread', nwrite')
    BY DEF Count, Contents, InRing, Bytes
  <2> QED  BY <1>1, <2>1, RingGet, CountAndContents DEF Empty
<1>5. Count \in 0 .. Wrap - 1  BY <1>1, CountFacts, CountAndContents
<1>6. readopen = 1  BY DEF HolderInv
<1> QED  BY <1>2, <1>3, <1>4, <1>5, <1>6 DEF Queue!Get

\* One of several references to an end is closed.
LEMMA CloseSharedInv ==
  ASSUME PipeInv, NEW p \in Process, NEW side, CloseShared(p, side)
  PROVE  PipeInv' /\ UNCHANGED Queue!vars
<1> USE PipeAssumption DEF PipeInv, CloseShared, Goto
<1>1. TypeOK'  BY DEF TypeOK, Labels, buffer
<1>2. HolderInv'  BY DEF HolderInv, TypeOK
<1>3. Count' = Count /\ Contents' = Contents  BY SameRing
<1> QED  BY <1>1, <1>2, <1>3 DEF Queue!vars

\* The last reference to an end is closed.
LEMMA PipecloseInv ==
  ASSUME PipeInv, NEW p \in Process, pipeclose(p)
  PROVE  PipeInv' /\ ((\E e \in {"read", "write"} : Queue!Close(e)) \/ UNCHANGED Queue!vars)
<1> USE PipeAssumption DEF PipeInv, pipeclose
<1> DEFINE l == [pc EXCEPT ![p] = "closed"]
           k(S) == wakeup(S, l)
<1>1. l \in [Process -> Labels]  BY DEF TypeOK, Labels
<1>2. ASSUME NEW S
      PROVE  /\ k(S) \in [Process -> Labels]
             /\ \A q \in Process : k(S)[q] = l[q] \/ (k(S)[q] = "enter" /\ l[q] = "asleep")
  BY <1>1 DEF wakeup, Labels
<1> HIDE DEF k
<1>3. PICK S \in {Reader, Writer} :
        /\ pc' = k(S)
        /\ S = Reader => holders \cap Writer = {p} /\ writeopen' = 0 /\ UNCHANGED readopen
        /\ S = Writer => holders \cap Reader = {p} /\ readopen' = 0 /\ UNCHANGED writeopen
  BY DEF k
<1>4. TypeOK'
  <2>1. pc' \in [Process -> Labels]  BY <1>2, <1>3
  <2>2. readopen' \in {0, 1} /\ writeopen' \in {0, 1} /\ freed' \in {0, 1}
    BY <1>3 DEF TypeOK
  <2> QED  BY <2>1, <2>2 DEF TypeOK, buffer
<1>5. HolderInv'
  <2> SUFFICES ASSUME NEW q \in Process PROVE HolderInv!(q)'  BY DEF HolderInv
  <2>1. pc'[q] = l[q] \/ (pc'[q] = "enter" /\ l[q] = "asleep")  BY <1>2, <1>3
  <2>2. CASE S = Reader  BY <1>3, <2>1, <2>2 DEF HolderInv, TypeOK, Process
  <2>3. CASE S = Writer  BY <1>3, <2>1, <2>3 DEF HolderInv, TypeOK, Process
  <2> QED  BY <1>3, <2>2, <2>3
<1>6. Count' = Count /\ Contents' = Contents  BY SameRing
<1>7. (\E e \in {"read", "write"} : Queue!Close(e)) \/ UNCHANGED Queue!vars
  <2>1. CASE S = Reader  BY <1>3, <1>6, <2>1 DEF Queue!Close, TypeOK
  <2>2. CASE S = Writer  BY <1>3, <1>6, <2>2 DEF Queue!Close, TypeOK
  <2> QED  BY <2>1, <2>2
<1> QED  BY <1>4, <1>5, <1>6, <1>7

\* Every step is one of the queue, or none.
LEMMA PipeStepInv ==
  ASSUME PipeInv, [Next]_vars
  PROVE  PipeInv' /\ [Queue!Next]_(Queue!vars)
<1>1. ASSUME NEW p \in Process, PipeStep(p)
      PROVE  PipeInv' /\ [Queue!Next]_(Queue!vars)
  BY <1>1, EnterInv, SleepInv, WriteByteInv, WriteFullInv, WriteDoneInv, ReadTestInv,
     ReadByteInv, ReadDoneInv DEF PipeStep, Queue!Next
<1>2. ASSUME NEW p \in Process, Close(p)
      PROVE  PipeInv' /\ [Queue!Next]_(Queue!vars)
  <2>1. CASE pipeclose(p)
    <3>1. ASSUME NEW e \in {"read", "write"}, Queue!Close(e)
          PROVE  [Queue!Next]_(Queue!vars)
      BY <3>1 DEF Queue!Next, Queue!Close, Queue!vars
    <3> QED  BY <2>1, <3>1, PipecloseInv
  <2> QED  BY <1>2, <2>1, CloseSharedInv DEF Close
<1>3. ASSUME NEW p \in Process, Call(p) \/ Kill(p)
      PROVE  PipeInv' /\ [Queue!Next]_(Queue!vars)
  BY <1>3, CallInv, KillInv
<1>4. CASE UNCHANGED vars
  <2>1. PipeInv'  BY <1>4 DEF vars, PipeInv, TypeOK, HolderInv, Count
  <2>2. UNCHANGED Queue!vars  BY <1>4 DEF vars, Queue!vars, Contents, Count
  <2> QED  BY <2>1, <2>2
<1> QED  BY <1>1, <1>2, <1>3, <1>4 DEF Next

-----------------------------------------------------------------------------

\* Type correctness of a pipe; nobody keeps an end that is closed, and the ring
\* never holds more than PIPESIZE bytes.
THEOREM PipeInvariant == Spec => []PipeInv
<1> QED  BY PipeInit, PipeStepInv, PTL DEF Spec

\* The ring with its wrapping counters (pipewrite, piperead, pipeclose) is a
\* bounded FIFO queue: bytes come out once, in order, unchanged.
THEOREM PipeIsFifo == Spec => IsFifo
<1>1. Init => Queue!Init
  <2> SUFFICES ASSUME Init PROVE Queue!Init  OBVIOUS
  <2>1. 0 \in Counter /\ data \in Data  BY PipeAssumption DEF Counter, Data, Init
  <2>2. Count = 0  BY <2>1, CountFacts, CountAndContents DEF Init
  <2>3. Contents = <<>>  BY <2>2 DEF Contents
  <2> QED  BY <2>3 DEF Queue!Init, Init
<1> QED  BY <1>1, PipeInvariant, PipeStepInv, PTL DEF Spec, IsFifo, Queue!Spec
=============================================================================
