---------------------------- MODULE MemoryProofs ----------------------------
(***************************************************************************)
(* Memory and the tests of system call arguments for every number of       *)
(* processes, CPUs and pages, every size of pages and address spaces, and  *)
(* whichever free page kalloc() returns.                                   *)
(***************************************************************************)
EXTENDS Memory, Args, FiniteSetTheorems, WellFoundedInduction, TLAPS

-----------------------------------------------------------------------------
(* Pages and addresses *)

\* Where a page begins.
Addr(a) == a * PGSIZE

LEMMA AddrFacts ==
  /\ \A a \in Nat : Addr(a) \in Nat
  /\ \A a \in Nat : Addr(a + 1) = Addr(a) + PGSIZE
  /\ \A a, b \in Nat : a < b <=> Addr(a) < Addr(b)
  /\ Addr(0) = 0
<1>1. PGSIZE \in Nat \ {0}  BY MemoryAssumption
<1>2. ASSUME NEW a \in Nat, NEW b \in Nat PROVE a < b <=> Addr(a) < Addr(b)
  <2> DEFINE d == b - a
  <2>1. d \in Int /\ d * PGSIZE = b * PGSIZE - a * PGSIZE  BY <1>1
  <2>2. a * PGSIZE \in Int /\ b * PGSIZE \in Int  BY <1>1
  <2> HIDE DEF d
  <2>3. CASE d >= 1
    <3>1. d * PGSIZE > 0  BY <1>1, <2>1, <2>3
    <3> QED  BY <2>1, <2>2, <2>3, <3>1 DEF Addr, d
  <2>4. CASE d <= 0
    <3>1. (-d) * PGSIZE >= 0 /\ (-d) * PGSIZE = -(d * PGSIZE)  BY <1>1, <2>1, <2>4
    <3> QED  BY <2>1, <2>2, <2>4, <3>1 DEF Addr, d
  <2> QED  BY <2>1, <2>3, <2>4
<1>3. ASSUME NEW a \in Nat PROVE Addr(a) \in Nat /\ Addr(a + 1) = Addr(a) + PGSIZE
  BY <1>1 DEF Addr
<1>4. Addr(0) = 0  BY <1>1 DEF Addr
<1> QED  BY <1>2, <1>3, <1>4

\* The number of pages below an address.
Pages(n) == PGROUNDUP(n) \div PGSIZE

LEMMA PagesFacts ==
  ASSUME NEW n \in Nat
  PROVE  /\ Pages(n) \in Nat /\ PGROUNDUP(n) = Addr(Pages(n))
         /\ \A a \in Nat : n <= Addr(a) <=> Pages(n) <= a
<1> DEFINE m == n + PGSIZE - 1
           k == m \div PGSIZE
           x == m % PGSIZE
<1>1. PGSIZE \in Nat \ {0}  BY MemoryAssumption
<1>2. m \in Nat  BY <1>1
<1>3. k \in Nat /\ x \in 0 .. PGSIZE - 1 /\ m = PGSIZE * k + x
  <2> HIDE DEF m
  <2> QED  BY <1>1, <1>2
<1>4. PGROUNDUP(n) = k * PGSIZE  BY DEF PGROUNDUP
<1> HIDE DEF k, x
<1>5. (k * PGSIZE) \div PGSIZE = k  BY <1>1, <1>3
<1>6. Pages(n) = k /\ PGROUNDUP(n) = Addr(k)  BY <1>4, <1>5 DEF Pages, Addr
<1>7. Addr(k) \in Nat /\ n <= Addr(k) /\ Addr(k) < n + PGSIZE
  <2>1. PGSIZE * k = k * PGSIZE /\ k * PGSIZE \in Nat  BY <1>1, <1>3
  <2> QED  BY <1>1, <1>3, <2>1 DEF Addr
<1>8. ASSUME NEW a \in Nat PROVE n <= Addr(a) <=> k <= a
  <2>1. Addr(a) \in Nat /\ Addr(a + 1) = Addr(a) + PGSIZE  BY AddrFacts
  <2>2. k < a + 1 <=> Addr(k) < Addr(a + 1)
    <3> DEFINE b == a + 1
    <3>1. b \in Nat  OBVIOUS
    <3> HIDE DEF b
    <3>2. k < b <=> Addr(k) < Addr(b)  BY <1>3, <3>1, AddrFacts
    <3> QED  BY <3>2 DEF b
  <2>3. a < k <=> Addr(a) < Addr(k)  BY <1>3, AddrFacts
  <2> QED  BY <1>1, <1>3, <1>7, <2>1, <2>2, <2>3
<1> QED  BY <1>3, <1>6, <1>8

\* A page's address is a multiple of the size.
LEMMA PagesOfAddr ==
  ASSUME NEW k \in Nat
  PROVE  Pages(Addr(k)) = k /\ Addr(k) \div PGSIZE = k
<1>1. PGSIZE \in Nat \ {0}  BY MemoryAssumption
<1>2. Addr(k) \in Nat /\ Addr(k) \div PGSIZE = k  BY <1>1 DEF Addr
<1>3. Pages(Addr(k)) \in Nat /\ \A a \in Nat : Addr(k) <= Addr(a) <=> Pages(Addr(k)) <= a
  BY <1>2, PagesFacts
<1> DEFINE m == Pages(Addr(k))
<1> HIDE DEF m
<1>4. m \in Nat /\ m <= k  BY <1>2, <1>3 DEF m
<1>5. Addr(m) \in Nat /\ Addr(k) <= Addr(m) /\ (m < k <=> Addr(m) < Addr(k))
  BY <1>3, <1>4, AddrFacts DEF m
<1> QED  BY <1>2, <1>4, <1>5 DEF m

LEMMA UserPageFacts ==
  /\ UserPage \subseteq Nat
  /\ \A a \in Nat : a \in UserPage <=> Addr(a) < KERNBASE
<1> DEFINE k == KERNBASE \div PGSIZE
<1>1. PGSIZE \in Nat \ {0} /\ KERNBASE \in Nat \ {0} /\ KERNBASE % PGSIZE = 0
  BY MemoryAssumption
<1>2. k \in Nat /\ KERNBASE = PGSIZE * k  BY <1>1
<1>3. UserPage = 0 .. k - 1  BY DEF UserPage
<1> HIDE DEF k
<1>4. KERNBASE = Addr(k)  BY <1>1, <1>2 DEF Addr
<1>5. ASSUME NEW a \in Nat PROVE a \in UserPage <=> Addr(a) < KERNBASE
  <2>1. a < k <=> Addr(a) < Addr(k)  BY <1>2, AddrFacts
  <2> QED  BY <1>2, <1>3, <1>4, <2>1
<1> QED  BY <1>2, <1>3, <1>5

\* The pages between two addresses.
LEMMA PagesInFacts ==
  ASSUME NEW lo \in Nat, NEW hi \in Nat, NEW a \in UserPage
  PROVE  a \in PagesIn(lo, hi) <=> lo <= Addr(a) /\ Addr(a) < hi
<1>1. a \in Nat /\ Addr(a) \in Nat  BY UserPageFacts, AddrFacts
<1>2. PGROUNDUP(lo) = Addr(Pages(lo)) /\ Pages(lo) \in Nat
      /\ (lo <= Addr(a) <=> Pages(lo) <= a)
  BY <1>1, PagesFacts
<1>3. a < Pages(lo) <=> Addr(a) < Addr(Pages(lo))  BY <1>1, <1>2, AddrFacts
<1>4. Addr(Pages(lo)) \in Nat  BY <1>2, AddrFacts
<1>5. PGROUNDUP(lo) <= Addr(a) <=> lo <= Addr(a)  BY <1>1, <1>2, <1>3, <1>4
<1> QED  BY <1>5 DEF PagesIn, Addr

-----------------------------------------------------------------------------
(* Page tables *)

\* A table uses every page in one place.
Injective(as) ==
  /\ as.dir # as.ktab
  /\ \A t \in Table : as.tab[t] # as.dir /\ as.tab[t] # as.ktab
  /\ \A a \in UserPage : as.pte[a] # None => as.pte[a].pa # as.dir /\ as.pte[a].pa # as.ktab
  /\ \A t, u \in Table : as.tab[t] = as.tab[u] /\ as.tab[t] # None => t = u
  /\ \A a, b \in UserPage :
       as.pte[a] # None /\ as.pte[b] # None /\ as.pte[a].pa = as.pte[b].pa => a = b
  /\ \A a \in UserPage, t \in Table : as.pte[a] # None => as.pte[a].pa # as.tab[t]

\* The pages of a table.
Holds(as, pg) ==
  \/ pg = as.dir \/ pg = as.ktab
  \/ \E t \in Table : as.tab[t] = pg
  \/ \E a \in UserPage : as.pte[a] # None /\ as.pte[a].pa = pg
PagesOf(as) == IF as = None THEN {} ELSE {pg \in Page : Holds(as, pg)}

LEMMA PickFacts ==
  ASSUME NEW p \in Proc, NEW S \in SUBSET Page, S # {}
  PROVE  kalloc(p, S) \in S
BY MemoryAssumption DEF kalloc

\* Every user page has its page table.
LEMMA TableFacts == \A a \in UserPage : a \div NPTENTRIES \in Table
BY DEF Table

\* The table as becomes as1 while the free pages fr become fr1: no page is lost
\* and none gets a second place.
Apart(as, fr) == Injective(as) /\ \A pg \in fr : ~Holds(as, pg)
Trades(as, fr, as1, fr1) ==
  /\ as1 \in AddressSpace /\ as1.dir = as.dir /\ fr1 \subseteq Page
  /\ \A pg \in Page : Holds(as1, pg) \/ pg \in fr1 <=> Holds(as, pg) \/ pg \in fr
  /\ Apart(as, fr) => Apart(as1, fr1)

\* Not enough pages for a page and its page table.
AtMostOne(fr) == \E x : fr \subseteq {x}

\* What one turn of mappages() returns.
Maps(as, fr, a, m) ==
  /\ m.st \in {"ok", "fail", "panic"}
  /\ m.st = "panic" => as.pte[a] # None
  /\ m.st = "fail" => m.free = fr /\ AtMostOne(fr)
  /\ m.st = "ok" =>
       /\ Trades(as, fr, m.as, m.free)
       /\ \A b \in UserPage : m.as.pte[b] # None <=> b = a \/ as.pte[b] # None

LEMMA MappageFacts ==
  ASSUME NEW p \in Proc, NEW as \in AddressSpace, NEW fr \in SUBSET Page,
         NEW a \in UserPage, NEW user \in BOOLEAN
  PROVE  Maps(as, fr, a, mappage(p, as, fr, a, user))
<1> DEFINE t == a \div NPTENTRIES
           mem == kalloc(p, fr)
           pgtab == IF as.tab[t] = None THEN kalloc(p, fr \ {mem}) ELSE as.tab[t]
           m == mappage(p, as, fr, a, user)
           short == fr = {} \/ (as.tab[t] = None /\ fr = {mem})
<1>1. CASE short
  <2>1. m = [st |-> "fail", as |-> as, free |-> fr]  BY <1>1 DEF mappage
  <2>2. AtMostOne(fr)  BY <1>1 DEF AtMostOne
  <2> HIDE DEF m, mem
  <2>3. m.st = "fail" /\ m.free = fr  BY <2>1
  <2> QED  BY <2>2, <2>3 DEF m, Maps
<1>2. CASE ~short /\ as.pte[a] # None
  <2>1. m = [st |-> "panic", as |-> as, free |-> fr]  BY <1>2 DEF mappage
  <2>2. as.pte[a] # None  BY <1>2
  <2> HIDE DEF m
  <2>3. m.st = "panic"  BY <2>1
  <2> QED  BY <2>2, <2>3 DEF m, Maps
<1>3. CASE ~short /\ as.pte[a] = None
  <2> DEFINE entry == [pa |-> mem, user |-> user]
             as1 == [as EXCEPT !.tab[t] = pgtab, !.pte[a] = entry]
  <2>1. m.st = "ok" /\ m.free = fr \ {mem, pgtab} /\ m.as = as1
    <3>1. m = [st |-> "ok", free |-> fr \ {mem, pgtab}, as |-> as1]  BY <1>3 DEF mappage
    <3> HIDE DEF m, as1, mem, pgtab
    <3> QED  BY <3>1
  <2>2. mem \in fr  BY <1>3, PickFacts
  <2>3. t \in Table /\ as.tab \in [Table -> Page \cup {None}] /\ as.pte \in [UserPage -> PTE \cup {None}]
        /\ as.dir \in Page /\ as.ktab \in Page
    BY TableFacts DEF AddressSpace
  <2>4. /\ as.tab[t] = None => pgtab \in fr \ {mem}
        /\ as.tab[t] # None => pgtab = as.tab[t]
    <3>1. ASSUME as.tab[t] = None PROVE kalloc(p, fr \ {mem}) \in fr \ {mem}
      <4>1. fr \ {mem} \in SUBSET Page /\ fr \ {mem} # {}  BY <1>3, <2>2, <3>1
      <4> HIDE DEF mem
      <4> QED  BY <4>1, PickFacts
    <3> QED  BY <3>1
  <2>5. pgtab \in Page /\ mem \in Page /\ entry \in PTE /\ entry # None /\ entry.pa = mem
    <3>1. pgtab \in Page /\ mem \in Page
      <4> HIDE DEF mem, pgtab, t
      <4> QED  BY <2>2, <2>3, <2>4, MemoryAssumption
    <3> HIDE DEF mem
    <3>2. entry \in PTE /\ entry.pa = mem  BY <3>1 DEF PTE
    <3> QED  BY <3>1, <3>2, NoneAssumption
  <2> HIDE DEF t, mem, pgtab, m, entry
  <2>6. /\ as1.dir = as.dir /\ as1.ktab = as.ktab
        /\ as1.tab = [as.tab EXCEPT ![t] = pgtab]
        /\ as1.pte = [as.pte EXCEPT ![a] = entry]
        /\ as1 \in AddressSpace
    BY <2>3, <2>5 DEF AddressSpace
  <2> HIDE DEF as1
  <2>7. /\ \A u \in Table : as1.tab[u] = IF u = t THEN pgtab ELSE as.tab[u]
        /\ \A b \in UserPage : as1.pte[b] = IF b = a THEN entry ELSE as.pte[b]
    BY <2>3, <2>6
  <2>8. \A b \in UserPage : as1.pte[b] # None <=> b = a \/ as.pte[b] # None  BY <2>5, <2>7
  <2>9. None \notin Page  BY MemoryAssumption
  <2>10. ASSUME NEW pg \in Page
         PROVE  Holds(as1, pg) <=> Holds(as, pg) \/ (pg \in fr /\ pg \notin fr \ {mem, pgtab})
    <3>1. Holds(as1, pg) <=> \/ pg = as.dir \/ pg = as.ktab
                             \/ pg = pgtab \/ (\E u \in Table : u # t /\ as.tab[u] = pg)
                             \/ pg = mem \/ (\E b \in UserPage : b # a /\ as.pte[b] # None /\ as.pte[b].pa = pg)
      BY <2>3, <2>5, <2>6, <2>7 DEF Holds
    <3>2. Holds(as, pg) <=> \/ pg = as.dir \/ pg = as.ktab
                            \/ as.tab[t] = pg \/ (\E u \in Table : u # t /\ as.tab[u] = pg)
                            \/ (\E b \in UserPage : b # a /\ as.pte[b] # None /\ as.pte[b].pa = pg)
      BY <1>3, <2>3 DEF Holds
    <3> QED  BY <2>2, <2>4, <2>9, <3>1, <3>2
  <2>11. ASSUME Injective(as), \A pg \in fr : ~Holds(as, pg) PROVE Injective(as1)
    <3>1. /\ mem # as.dir /\ mem # as.ktab /\ \A u \in Table : as.tab[u] # mem
          /\ \A b \in UserPage : as.pte[b] # None => as.pte[b].pa # mem
      BY <2>2, <2>11 DEF Holds
    <3>2. /\ pgtab # as.dir /\ pgtab # as.ktab /\ pgtab # mem
          /\ \A u \in Table : u # t => as.tab[u] # pgtab
          /\ \A b \in UserPage : as.pte[b] # None => as.pte[b].pa # pgtab
      <4>1. CASE as.tab[t] = None  BY <2>4, <2>11, <4>1 DEF Holds
      <4>2. CASE as.tab[t] # None  BY <2>3, <2>4, <2>11, <3>1, <4>2 DEF Injective
      <4> QED  BY <4>1, <4>2
    <3>3. /\ as1.dir # as1.ktab
          /\ \A u \in Table : as1.tab[u] # as1.dir /\ as1.tab[u] # as1.ktab
      BY <2>6, <2>7, <2>11, <3>2 DEF Injective
    <3>4. \A b \in UserPage : as1.pte[b] # None => as1.pte[b].pa # as1.dir /\ as1.pte[b].pa # as1.ktab
      BY <2>5, <2>6, <2>7, <2>11, <3>1 DEF Injective
    <3>5. \A u, v \in Table : as1.tab[u] = as1.tab[v] /\ as1.tab[u] # None => u = v
      BY <2>7, <2>11, <3>2 DEF Injective
    <3>6. ASSUME NEW b \in UserPage, NEW c \in UserPage, as1.pte[b] # None, as1.pte[c] # None,
                 as1.pte[b].pa = as1.pte[c].pa
          PROVE  b = c
      <4>1. CASE b # a /\ c # a  BY <2>7, <2>11, <3>6, <4>1 DEF Injective
      <4>2. CASE b = a /\ c # a
        <5>1. as1.pte[b].pa = mem /\ as1.pte[c] = as.pte[c]  BY <2>5, <2>7, <4>2
        <5> QED  BY <3>1, <3>6, <5>1
      <4>3. CASE b # a /\ c = a
        <5>1. as1.pte[c].pa = mem /\ as1.pte[b] = as.pte[b]  BY <2>5, <2>7, <4>3
        <5> QED  BY <3>1, <3>6, <5>1
      <4> QED  BY <4>1, <4>2, <4>3
    <3>7. ASSUME NEW b \in UserPage, NEW u \in Table, as1.pte[b] # None
          PROVE  as1.pte[b].pa # as1.tab[u]
      <4>1. CASE b = a
        <5>1. as1.pte[b].pa = mem  BY <2>5, <2>7, <4>1
        <5> QED  BY <2>7, <3>1, <3>2, <5>1
      <4>2. CASE b # a
        <5>1. as1.pte[b] = as.pte[b]  BY <2>7, <4>2
        <5> QED  BY <2>7, <2>11, <3>2, <3>7, <5>1 DEF Injective
      <4> QED  BY <4>1, <4>2
    <3> QED  BY <3>3, <3>4, <3>5, <3>6, <3>7 DEF Injective
  <2>12. Trades(as, fr, as1, fr \ {mem, pgtab})
    <3>1. \A pg \in Page : Holds(as1, pg) \/ pg \in fr \ {mem, pgtab} <=> Holds(as, pg) \/ pg \in fr
      BY <2>10
    <3>2. ASSUME Apart(as, fr) PROVE Apart(as1, fr \ {mem, pgtab})
      <4>1. Injective(as1)  BY <2>11, <3>2 DEF Apart
      <4>2. ASSUME NEW pg \in fr \ {mem, pgtab} PROVE ~Holds(as1, pg)
        BY <2>10, <3>2, <4>2 DEF Apart
      <4> QED  BY <4>1, <4>2 DEF Apart
    <3> QED  BY <2>6, <3>1, <3>2 DEF Trades
  <2> QED  BY <2>1, <2>8, <2>12 DEF m, Maps
<1> QED  BY <1>1, <1>2, <1>3

\* A table with fewer user pages is injective when the other one is.
LEMMA FewerPages ==
  ASSUME NEW as, NEW as1, Injective(as),
         as1.dir = as.dir, as1.ktab = as.ktab, as1.tab = as.tab,
         \A b \in UserPage :
           as1.pte[b] # None => as.pte[b] # None /\ as1.pte[b].pa = as.pte[b].pa
  PROVE  Injective(as1)
<1>1. /\ as1.dir # as1.ktab
      /\ \A t \in Table : as1.tab[t] # as1.dir /\ as1.tab[t] # as1.ktab
      /\ \A t, u \in Table : as1.tab[t] = as1.tab[u] /\ as1.tab[t] # None => t = u
  <2>1. as.dir # as.ktab /\ \A t \in Table : as.tab[t] # as.dir /\ as.tab[t] # as.ktab
    BY Zenon DEF Injective
  <2>2. \A t, u \in Table : as.tab[t] = as.tab[u] /\ as.tab[t] # None => t = u
    BY Zenon DEF Injective
  <2> QED  BY <2>1, <2>2
<1>2. \A a \in UserPage : as1.pte[a] # None => as1.pte[a].pa # as1.dir /\ as1.pte[a].pa # as1.ktab
  BY DEF Injective
<1>3. ASSUME NEW a \in UserPage, NEW b \in UserPage, as1.pte[a] # None, as1.pte[b] # None,
             as1.pte[a].pa = as1.pte[b].pa
      PROVE  a = b
  <2>1. as.pte[a] # None /\ as.pte[b] # None /\ as.pte[a].pa = as.pte[b].pa  BY <1>3
  <2> QED  BY <2>1 DEF Injective
<1>4. \A a \in UserPage, t \in Table : as1.pte[a] # None => as1.pte[a].pa # as1.tab[t]
  BY DEF Injective
<1> QED  BY <1>1, <1>2, <1>3, <1>4, Zenon DEF Injective

\* What deallocuvm() leaves.
LEMMA DeallocFacts ==
  ASSUME NEW as \in AddressSpace, NEW fr \in SUBSET Page, NEW hi \in Nat, NEW lo \in Nat
  PROVE  LET d == deallocuvm(as, fr, hi, lo)
         IN /\ Trades(as, fr, d.as, d.free)
            /\ \A b \in UserPage :
                 d.as.pte[b] # None <=> as.pte[b] # None /\ ~(lo <= Addr(b) /\ Addr(b) < hi)
            /\ d.as.tab = as.tab /\ d.as.ktab = as.ktab
<1> DEFINE gone == {a \in PagesIn(lo, hi) : as.pte[a] # None}
           back == {as.pte[a].pa : a \in gone}
           tbl == [a \in UserPage |-> IF a \in gone THEN None ELSE as.pte[a]]
           as1 == [as EXCEPT !.pte = tbl]
           d == deallocuvm(as, fr, hi, lo)
<1>1. d.as = as1 /\ d.free = fr \cup back  BY DEF deallocuvm, kfree
<1>2. as.tab \in [Table -> Page \cup {None}] /\ as.pte \in [UserPage -> PTE \cup {None}]
      /\ as.dir \in Page /\ as.ktab \in Page
  BY DEF AddressSpace
<1>3. \A a \in UserPage : a \in gone <=> as.pte[a] # None /\ lo <= Addr(a) /\ Addr(a) < hi
  BY PagesInFacts
<1>4. gone \subseteq UserPage  BY DEF PagesIn
<1>5. \A pg : pg \in back <=> \E a \in UserPage : a \in gone /\ as.pte[a].pa = pg  BY <1>4
<1>6. \A a \in UserPage : as.pte[a] # None => as.pte[a].pa \in Page  BY <1>2 DEF PTE
<1> HIDE DEF gone, back
<1>7. tbl \in [UserPage -> PTE \cup {None}]  BY <1>2
<1>8. /\ as1.dir = as.dir /\ as1.ktab = as.ktab /\ as1.tab = as.tab /\ as1.pte = tbl
      /\ as1 \in AddressSpace
  <2> HIDE DEF tbl
  <2> QED  BY <1>2, <1>7 DEF AddressSpace
<1> HIDE DEF as1, d
<1>9. \A b \in UserPage : as1.pte[b] = IF b \in gone THEN None ELSE as.pte[b]  BY <1>8
<1>10. \A b \in UserPage : as1.pte[b] # None <=> as.pte[b] # None /\ b \notin gone  BY <1>9
<1> HIDE DEF tbl
<1>11. fr \cup back \subseteq Page  BY <1>3, <1>5, <1>6
<1>12. ASSUME NEW pg \in Page
       PROVE  Holds(as1, pg) \/ pg \in fr \cup back <=> Holds(as, pg) \/ pg \in fr
  <2>1. Holds(as1, pg) => Holds(as, pg)  BY <1>8, <1>9, <1>10 DEF Holds
  <2>2. pg \in back => Holds(as, pg)  BY <1>3, <1>5 DEF Holds
  <2>3. ASSUME Holds(as, pg), pg \notin back PROVE Holds(as1, pg)
    <3>1. CASE \E a \in UserPage : as.pte[a] # None /\ as.pte[a].pa = pg
      <4>1. PICK a \in UserPage : as.pte[a] # None /\ as.pte[a].pa = pg  BY <3>1
      <4>2. a \notin gone  BY <1>5, <2>3, <4>1
      <4> QED  BY <1>9, <4>1, <4>2 DEF Holds
    <3>2. CASE ~(\E a \in UserPage : as.pte[a] # None /\ as.pte[a].pa = pg)
      BY <1>8, <2>3, <3>2 DEF Holds
    <3> QED  BY <3>1, <3>2
  <2> QED  BY <2>1, <2>2, <2>3
<1>13. ASSUME Apart(as, fr) PROVE Apart(as1, fr \cup back)
  <2>1. Injective(as1)
    <3>1. \A b \in UserPage :
            as1.pte[b] # None => as.pte[b] # None /\ as1.pte[b].pa = as.pte[b].pa
      BY <1>9
    <3> QED  BY <1>8, <1>13, <3>1, FewerPages DEF Apart
  <2>2. ASSUME NEW pg \in back PROVE ~Holds(as1, pg)
    <3>1. PICK a \in UserPage : a \in gone /\ as.pte[a].pa = pg /\ as.pte[a] # None
      BY <1>3, <1>5, <2>2
    <3>2. pg \in Page /\ pg # as.dir /\ pg # as.ktab /\ \A t \in Table : as.tab[t] # pg
      BY <1>6, <1>13, <3>1 DEF Apart, Injective
    <3>3. ASSUME NEW b \in UserPage, as1.pte[b] # None PROVE as1.pte[b].pa # pg
      <4>1. as1.pte[b] = as.pte[b] /\ as.pte[b] # None /\ a # b  BY <1>9, <1>10, <3>1, <3>3
      <4> QED  BY <1>13, <3>1, <4>1 DEF Apart, Injective
    <3> QED  BY <1>8, <3>2, <3>3 DEF Holds
  <2>3. ASSUME NEW pg \in fr PROVE ~Holds(as1, pg)
    <3>1. ~Holds(as, pg)  BY <1>13 DEF Apart
    <3> QED  BY <1>8, <1>9, <1>10, <3>1 DEF Holds
  <2> QED  BY <2>1, <2>2, <2>3 DEF Apart
<1>14. Trades(as, fr, as1, fr \cup back)  BY <1>8, <1>11, <1>12, <1>13 DEF Trades
<1> QED  BY <1>1, <1>3, <1>8, <1>10, <1>14 DEF d

\* freevm() gives back every page of the table, once.
LEMMA FreevmFacts ==
  ASSUME NEW as \in AddressSpace, NEW fr \in SUBSET Page
  PROVE  freevm(as, fr) \subseteq Page
         /\ \A pg \in Page : pg \in freevm(as, fr) <=> pg \in fr \/ Holds(as, pg)
<1> DEFINE d == deallocuvm(as, fr, KERNBASE, 0)
           tabs == {as.tab[t] : t \in {t \in Table : as.tab[t] # None}}
<1>1. KERNBASE \in Nat /\ 0 \in Nat  BY MemoryAssumption
<1>2. /\ Trades(as, fr, d.as, d.free)
      /\ \A b \in UserPage :
           d.as.pte[b] # None <=> as.pte[b] # None /\ ~(0 <= Addr(b) /\ Addr(b) < KERNBASE)
      /\ d.as.tab = as.tab /\ d.as.ktab = as.ktab
  BY <1>1, DeallocFacts
<1>3. freevm(as, fr) = d.free \cup (tabs \cup {as.dir, as.ktab})  BY DEF freevm, kfree
<1>4. as.tab \in [Table -> Page \cup {None}] /\ as.dir \in Page /\ as.ktab \in Page
  BY DEF AddressSpace
<1>5. \A b \in UserPage : 0 <= Addr(b) /\ Addr(b) < KERNBASE
  BY <1>1, UserPageFacts, AddrFacts
<1> HIDE DEF d
<1>6. \A b \in UserPage : d.as.pte[b] = None  BY <1>2, <1>5
<1>7. None \notin Page  BY MemoryAssumption
<1>8. tabs \subseteq Page /\ \A pg \in Page : pg \in tabs <=> \E t \in Table : as.tab[t] = pg
  BY <1>4, <1>7
<1> HIDE DEF tabs
<1>9. freevm(as, fr) \subseteq Page  BY <1>2, <1>3, <1>4, <1>8 DEF Trades
<1>10. ASSUME NEW pg \in Page
       PROVE  pg \in freevm(as, fr) <=> pg \in fr \/ Holds(as, pg)
  <2>1. Holds(d.as, pg) \/ pg \in d.free <=> Holds(as, pg) \/ pg \in fr  BY <1>2 DEF Trades
  <2>2. Holds(d.as, pg) <=> pg \in tabs \/ pg = as.dir \/ pg = as.ktab
    BY <1>2, <1>6, <1>8 DEF Holds, Trades
  <2> QED  BY <1>3, <2>1, <2>2
<1> QED  BY <1>9, <1>10

\* setupkvm(): a table without user pages.
LEMMA SetupFacts ==
  ASSUME NEW p \in Proc, NEW fr \in SUBSET Page
  PROVE  LET k == setupkvm(p, fr)
         IN /\ k.st \in {"ok", "fail"} /\ k.free \subseteq fr
            /\ Cardinality(fr) >= 2 => k.st = "ok"
            /\ k.st = "fail" => k.free = fr
            /\ k.st = "ok" =>
                 /\ k.as \in AddressSpace /\ Apart(k.as, k.free)
                 /\ \A b \in UserPage : k.as.pte[b] = None
                 /\ \A pg \in Page : Holds(k.as, pg) \/ pg \in k.free <=> pg \in fr
                 /\ \A t \in Table : k.as.tab[t] = None
                 /\ \E d \in fr : \E e \in fr \ {d} : k.free = fr \ {d, e}
<1> DEFINE k == setupkvm(p, fr)
           d == kalloc(p, fr)
           e == kalloc(p, fr \ {d})
           as == [dir |-> d, ktab |-> e, tab |-> [t \in Table |-> None],
                  pte |-> [a \in UserPage |-> None]]
<1>1. IsFiniteSet(fr) /\ Cardinality(fr) \in Nat
  <2>1. IsFiniteSet(fr)  BY MemoryAssumption, FS_Subset
  <2> QED  BY <2>1, FS_CardinalityType
<1>2. CASE Cardinality(fr) < 2
  <2>1. k = [st |-> "fail", as |-> None, free |-> fr]  BY <1>2 DEF setupkvm
  <2> HIDE DEF k
  <2> QED  BY <1>1, <1>2, <2>1 DEF k
<1>3. CASE ~(Cardinality(fr) < 2)
  <2>1. k = [st |-> "ok", free |-> fr \ {d, e}, as |-> as]  BY <1>3 DEF setupkvm
  <2>2. k.st = "ok" /\ k.free = fr \ {d, e} /\ k.as = as
    <3> HIDE DEF k, d, e, as
    <3> QED  BY <2>1
  <2>3. fr # {}  BY <1>1, <1>3, FS_EmptySet
  <2>4. d \in fr  BY <2>3, PickFacts
  <2> HIDE DEF d
  <2>5. fr \ {d} \in SUBSET Page /\ fr \ {d} # {}
    <3>1. Cardinality(fr \ {d}) = Cardinality(fr) - 1  BY <1>1, <2>4, FS_RemoveElement
    <3>2. Cardinality(fr \ {d}) # 0  BY <1>1, <1>3, <3>1
    <3> QED  BY <3>2, FS_EmptySet
  <2>6. e \in fr \ {d}  BY <2>5, PickFacts
  <2> HIDE DEF e, k
  <2>7. as \in AddressSpace  BY <2>4, <2>6 DEF AddressSpace
  <2>8. /\ as.dir = d /\ as.ktab = e
        /\ \A t \in Table : as.tab[t] = None
        /\ \A a \in UserPage : as.pte[a] = None
    OBVIOUS
  <2> HIDE DEF as
  <2>9. None \notin Page  BY MemoryAssumption
  <2>10. \A pg \in Page : Holds(as, pg) <=> pg = d \/ pg = e  BY <2>8, <2>9 DEF Holds
  <2>11. Injective(as)  BY <2>4, <2>6, <2>8, <2>9 DEF Injective
  <2>12. Apart(as, fr \ {d, e})  BY <2>10, <2>11 DEF Apart
  <2> QED  BY <2>2, <2>4, <2>6, <2>7, <2>8, <2>10, <2>12 DEF k
<1> QED  BY <1>1, <1>2, <1>3

\* clearpteu() of a page that is there keeps the pages.
LEMMA ClearFacts ==
  ASSUME NEW as \in AddressSpace, NEW fr \in SUBSET Page, NEW a \in UserPage, as.pte[a] # None
  PROVE  /\ Trades(as, fr, clearpteu(as, a), fr)
         /\ \A b \in UserPage : clearpteu(as, a).pte[b] # None <=> as.pte[b] # None
<1> DEFINE as1 == clearpteu(as, a)
           entry == [as.pte[a] EXCEPT !.user = FALSE]
<1>1. as.tab \in [Table -> Page \cup {None}] /\ as.pte \in [UserPage -> PTE \cup {None}]
      /\ as.dir \in Page /\ as.ktab \in Page
  BY DEF AddressSpace
<1>2. as.pte[a] \in PTE  BY <1>1
<1>3. entry \in PTE /\ entry.pa = as.pte[a].pa
  <2> DEFINE x == as.pte[a]
  <2>1. x \in PTE  BY <1>2
  <2> HIDE DEF x
  <2>2. [x EXCEPT !.user = FALSE] \in PTE /\ [x EXCEPT !.user = FALSE].pa = x.pa
    BY <2>1 DEF PTE
  <2> QED  BY <2>2 DEF x
<1>4. as1 = [as EXCEPT !.pte = [as.pte EXCEPT ![a] = entry]]  BY DEF clearpteu
<1> HIDE DEF as1, entry
<1>5. /\ as1.dir = as.dir /\ as1.ktab = as.ktab /\ as1.tab = as.tab
      /\ as1.pte = [as.pte EXCEPT ![a] = entry] /\ as1 \in AddressSpace
  BY <1>1, <1>3, <1>4 DEF AddressSpace
<1>6. \A b \in UserPage : /\ as1.pte[b] # None <=> as.pte[b] # None
                          /\ as1.pte[b].pa = as.pte[b].pa
  BY <1>1, <1>3, <1>5, NoneAssumption
<1>7. \A pg : Holds(as1, pg) <=> Holds(as, pg)  BY <1>5, <1>6 DEF Holds
<1>8. Injective(as) => Injective(as1)  BY <1>5, <1>6, FewerPages
<1>9. Apart(as, fr) => Apart(as1, fr)  BY <1>7, <1>8 DEF Apart
<1> QED  BY <1>5, <1>6, <1>7, <1>9 DEF Trades, as1

-----------------------------------------------------------------------------
(* The invariant *)

\* A process that is on a CPU is RUNNING, except between sched() and the
\* scheduler's release of ptable.lock; a CPU has the table loaded of the
\* process it runs.
CpuInv ==
  /\ lock # None => cpu[lock] # None
  /\ \A c \in CPU : cpu[c] # None =>
       state[cpu[c]] \in IF lock = c THEN {"RUNNABLE", "ZOMBIE"} ELSE {"RUNNING"}
  /\ \A c, d \in CPU : c # d /\ cpu[c] = cpu[d] => cpu[c] = None
  /\ \A c \in CPU : cr3[c] = IF cpu[c] = None THEN kpgdir ELSE vm[cpu[c]].dir

\* What a process owns, by its state and by the place it is at.
SlotInv(p) ==
  /\ vm[p] # None <=> state[p] \in {"RUNNABLE", "RUNNING", "ZOMBIE"}
  /\ kstack[p] # None <=> state[p] # "UNUSED"
  /\ state[p] \in {"UNUSED", "EMBRYO"} => call[p].at = "user"
  /\ state[p] = "ZOMBIE" => call[p].at \in {"user", "fault"}
  /\ call[p].at # "panic"
  /\ call[p].at \in {"user", "grow", "fault"} => new[p] = None
  /\ call[p].at \notin {"user", "grow", "fault", "copy"} => new[p] # None

\* A call of fork() builds a child that no other call builds.
ChildInv ==
  /\ \A p \in Proc :
       call[p].at = "copy" => call[p].child \in Proc /\ state[call[p].child] = "EMBRYO"
  /\ \A p, q \in Proc :
       call[p].at = "copy" /\ call[q].at = "copy" /\ p # q => call[p].child # call[q].child

\* The table as has the pages below the address hi; or the pages below number
\* k, all of which begin below the address hi.
Mapped(as, hi) == \A a \in UserPage : as.pte[a] # None <=> Addr(a) < hi
Upto(as, k, hi) == \A a \in UserPage : /\ as.pte[a] # None <=> a < k
                                       /\ as.pte[a] # None => Addr(a) < hi

\* Which pages are there, in the tables that are in use and in those that a loop
\* is still filling.
MapInv(p) ==
  /\ vm[p] # None /\ call[p].at \notin {"grow", "fault"} => Mapped(vm[p], sz[p])
  /\ call[p].at = "user" => call[p].a = 0
  /\ call[p].at = "grow" =>
       /\ Upto(vm[p], call[p].a, call[p].end)
       /\ sz[p] <= call[p].end /\ call[p].end < KERNBASE /\ sz[p] <= Addr(call[p].a)
  /\ call[p].at = "copy" => IF new[p] = None THEN call[p].a = 0
                            ELSE Upto(new[p], call[p].a, sz[p])
  /\ call[p].at \in {"load", "args"} => Mapped(new[p], call[p].sz) /\ call[p].sz < KERNBASE
  /\ call[p].at \in {"segment", "stack"} =>
       Upto(new[p], call[p].a, call[p].end) /\ call[p].end < KERNBASE
  /\ call[p].at = "stack" => \E k \in Nat : call[p].end = Addr(k + 2)

\* The owners of pages: a process has a table, one that a call builds, a stack.
Kind == {"vm", "new", "kstack"}
Owner == Proc \X Kind
Own(o) == CASE o[2] = "vm" -> PagesOf(vm[o[1]])
            [] o[2] = "new" -> PagesOf(new[o[1]])
            [] o[2] = "kstack" -> {kstack[o[1]]} \ {None}

\* Every page is free or has one owner.
PartInv ==
  /\ \A o \in Owner : Own(o) \cap free = {}
  /\ \A o, u \in Owner : o # u => Own(o) \cap Own(u) = {}
  /\ \A pg \in Page : pg \in free \/ \E o \in Owner : pg \in Own(o)

TableInv(p) == /\ vm[p] # None => Injective(vm[p])
               /\ new[p] # None => Injective(new[p])

ProcInv(p) == SlotInv(p) /\ MapInv(p) /\ TableInv(p)

MemoryInv == TypeOK /\ CpuInv /\ ChildInv /\ (\A p \in Proc : ProcInv(p)) /\ PartInv

-----------------------------------------------------------------------------
(* What a step leaves alone *)

Same(q) == /\ vm'[q] = vm[q] /\ new'[q] = new[q] /\ state'[q] = state[q]
           /\ kstack'[q] = kstack[q] /\ sz'[q] = sz[q] /\ call'[q] = call[q]

LEMMA SameProc ==
  ASSUME NEW q \in Proc, ProcInv(q), Same(q)
  PROVE  ProcInv(q)'
<1>1. SlotInv(q)'  BY DEF ProcInv, SlotInv, Same
<1>2. MapInv(q)'  BY DEF ProcInv, MapInv, Same
<1>3. TableInv(q)'  BY DEF ProcInv, TableInv, Same
<1> QED  BY <1>1, <1>2, <1>3 DEF ProcInv

\* A step of a process that neither comes to a CPU nor leaves it.
LEMMA SameCpu ==
  ASSUME CpuInv, cpu' = cpu, lock' = lock,
         \A c \in CPU : cpu[c] # None => /\ state'[cpu[c]] = state[cpu[c]]
                                         /\ cr3'[c] = vm'[cpu[c]].dir,
         \A c \in CPU : cpu[c] = None => cr3'[c] = cr3[c]
  PROVE  CpuInv'
<1>1. (lock # None => cpu[lock] # None)'  BY DEF CpuInv
<1>2. (\A c \in CPU : cpu[c] # None =>
         state[cpu[c]] \in IF lock = c THEN {"RUNNABLE", "ZOMBIE"} ELSE {"RUNNING"})'
  BY DEF CpuInv
<1>3. (\A c, d \in CPU : c # d /\ cpu[c] = cpu[d] => cpu[c] = None)'  BY DEF CpuInv
<1>4. (\A c \in CPU : cr3[c] = IF cpu[c] = None THEN kpgdir ELSE vm[cpu[c]].dir)'
  BY DEF CpuInv
<1> QED  BY <1>1, <1>2, <1>3, <1>4 DEF CpuInv

LEMMA SameChild ==
  ASSUME ChildInv,
         \A q \in Proc : /\ call'[q].at = "copy" => call[q].at = "copy"
                         /\ call'[q].at = "copy" => call'[q].child = call[q].child
                         /\ state[q] = "EMBRYO" => state'[q] = "EMBRYO"
  PROVE  ChildInv'
BY DEF ChildInv

\* The pages of the owners in X and the free pages are distributed anew.
Redistributed(X) ==
  /\ X \subseteq Owner
  /\ \A q \in Proc : /\ <<q, "vm">> \in X \/ vm'[q] = vm[q]
                     /\ <<q, "new">> \in X \/ new'[q] = new[q]
                     /\ <<q, "kstack">> \in X \/ kstack'[q] = kstack[q]
  /\ \A o \in X : \A pg \in free' : pg \notin Own(o)'
  /\ \A o, u \in X : o # u => \A pg \in Page : ~(pg \in Own(o)' /\ pg \in Own(u)')
  /\ \A pg \in Page : (pg \in free' \/ \E o \in X : pg \in Own(o)')
                        <=> (pg \in free \/ \E o \in X : pg \in Own(o))

LEMMA OwnFacts ==
  /\ \A p \in Proc : /\ Own(<<p, "vm">>) = PagesOf(vm[p])
                     /\ Own(<<p, "new">>) = PagesOf(new[p])
                     /\ Own(<<p, "kstack">>) = {kstack[p]} \ {None}
  /\ \A p \in Proc : /\ Own(<<p, "vm">>)' = PagesOf(vm'[p])
                     /\ Own(<<p, "new">>)' = PagesOf(new'[p])
                     /\ Own(<<p, "kstack">>)' = {kstack'[p]} \ {None}
  /\ \A p \in Proc, k \in Kind : <<p, k>> \in Owner
  /\ \A o \in Owner : \E p \in Proc : o = <<p, "vm">> \/ o = <<p, "new">> \/ o = <<p, "kstack">>
<1>1. \A p \in Proc : /\ Own(<<p, "vm">>) = PagesOf(vm[p])
                      /\ Own(<<p, "new">>) = PagesOf(new[p])
                      /\ Own(<<p, "kstack">>) = {kstack[p]} \ {None}
  BY DEF Own
<1>2. \A p \in Proc : /\ Own(<<p, "vm">>)' = PagesOf(vm'[p])
                      /\ Own(<<p, "new">>)' = PagesOf(new'[p])
                      /\ Own(<<p, "kstack">>)' = {kstack'[p]} \ {None}
  BY DEF Own
<1>3. \A p \in Proc, k \in Kind : <<p, k>> \in Owner  BY DEF Owner
<1>4. \A o \in Owner : \E p \in Proc : o = <<p, "vm">> \/ o = <<p, "new">> \/ o = <<p, "kstack">>
  BY DEF Owner, Kind
<1> QED  BY <1>1, <1>2, <1>3, <1>4

LEMMA PartStep ==
  ASSUME TypeOK, PartInv, TypeOK', NEW X, Redistributed(X)
  PROVE  PartInv'
<1>1. \A o \in Owner : o \notin X => Own(o)' = Own(o)
  <2> SUFFICES ASSUME NEW o \in Owner, o \notin X PROVE Own(o)' = Own(o)
    OBVIOUS
  <2>1. PICK p \in Proc : o = <<p, "vm">> \/ o = <<p, "new">> \/ o = <<p, "kstack">>
    BY OwnFacts
  <2>2. CASE o = <<p, "vm">>
    <3>1. vm'[p] = vm[p]  BY <2>2 DEF Redistributed
    <3> QED  BY <2>2, <3>1, OwnFacts
  <2>3. CASE o = <<p, "new">>
    <3>1. new'[p] = new[p]  BY <2>3 DEF Redistributed
    <3> QED  BY <2>3, <3>1, OwnFacts
  <2>4. CASE o = <<p, "kstack">>
    <3>1. kstack'[p] = kstack[p]  BY <2>4 DEF Redistributed
    <3> QED  BY <2>4, <3>1, OwnFacts
  <2> QED  BY <2>1, <2>2, <2>3, <2>4
<1>2. \A o \in Owner : \A pg \in Own(o) : pg \in Page
  <2> SUFFICES ASSUME NEW o \in Owner PROVE Own(o) \subseteq Page
    OBVIOUS
  <2>1. PICK p \in Proc : o = <<p, "vm">> \/ o = <<p, "new">> \/ o = <<p, "kstack">>
    BY OwnFacts
  <2>2. Own(o) = PagesOf(vm[p]) \/ Own(o) = PagesOf(new[p]) \/ Own(o) = {kstack[p]} \ {None}
    BY <2>1, OwnFacts
  <2>3. PagesOf(vm[p]) \subseteq Page /\ PagesOf(new[p]) \subseteq Page  BY DEF PagesOf
  <2>4. {kstack[p]} \ {None} \subseteq Page  BY DEF TypeOK
  <2> QED  BY <2>2, <2>3, <2>4
<1>3. X \subseteq Owner /\ free' \subseteq Page  BY DEF Redistributed, TypeOK
<1>4. /\ \A o \in Owner : \A pg : ~(pg \in Own(o) /\ pg \in free)
      /\ \A o, u \in Owner : o # u => \A pg : ~(pg \in Own(o) /\ pg \in Own(u))
      /\ \A pg \in Page : pg \in free \/ \E o \in Owner : pg \in Own(o)
  BY DEF PartInv
<1>5. /\ \A o \in X : \A pg \in free' : pg \notin Own(o)'
      /\ \A o, u \in X : o # u => \A pg \in Page : ~(pg \in Own(o)' /\ pg \in Own(u)')
      /\ \A pg \in Page : (pg \in free' \/ \E o \in X : pg \in Own(o)')
                            <=> (pg \in free \/ \E o \in X : pg \in Own(o))
  BY DEF Redistributed
<1>6. ASSUME NEW o \in Owner, NEW pg, pg \in Own(o)', pg \in free' PROVE FALSE
  <2>1. o \notin X /\ pg \in Own(o) /\ pg \in Page  BY <1>1, <1>3, <1>5, <1>6
  <2>2. pg \in free \/ \E u \in X : pg \in Own(u)  BY <1>5, <1>6, <2>1
  <2> QED  BY <1>3, <1>4, <2>1, <2>2
<1>7. ASSUME NEW o \in Owner, NEW u \in Owner, o # u, NEW pg, pg \in Own(o)', pg \in Own(u)'
      PROVE  FALSE
  <2>1. CASE o \in X /\ u \notin X
    <3>1. pg \in Own(u) /\ pg \in Page  BY <1>1, <1>2, <1>7, <2>1
    <3>2. pg \in free \/ \E x \in X : pg \in Own(x)  BY <1>5, <1>7, <2>1, <3>1
    <3> QED  BY <1>3, <1>4, <2>1, <3>1, <3>2
  <2>2. CASE o \notin X /\ u \in X
    <3>1. pg \in Own(o) /\ pg \in Page  BY <1>1, <1>2, <1>7, <2>2
    <3>2. pg \in free \/ \E x \in X : pg \in Own(x)  BY <1>5, <1>7, <2>2, <3>1
    <3> QED  BY <1>3, <1>4, <2>2, <3>1, <3>2
  <2>3. CASE o \in X /\ u \in X
    <3>1. PICK x \in Proc : u = <<x, "vm">> \/ u = <<x, "new">> \/ u = <<x, "kstack">>
      BY OwnFacts
    <3>2. PagesOf(vm'[x]) \subseteq Page /\ PagesOf(new'[x]) \subseteq Page  BY DEF PagesOf
    <3>3. {kstack'[x]} \ {None} \subseteq Page  BY DEF TypeOK
    <3>4. pg \in Page  BY <1>7, <3>1, <3>2, <3>3, OwnFacts
    <3> QED  BY <1>5, <1>7, <2>3, <3>4
  <2>4. CASE o \notin X /\ u \notin X  BY <1>1, <1>4, <1>7, <2>4
  <2> QED  BY <2>1, <2>2, <2>3, <2>4
<1>8. ASSUME NEW pg \in Page PROVE pg \in free' \/ \E o \in Owner : pg \in Own(o)'
  <2>1. CASE pg \in free \/ \E o \in X : pg \in Own(o)  BY <1>3, <1>5, <2>1
  <2>2. CASE ~(pg \in free \/ \E o \in X : pg \in Own(o))
    <3>1. PICK o \in Owner : pg \in Own(o)  BY <1>4, <2>2
    <3> QED  BY <1>1, <2>2, <3>1
  <2> QED  BY <2>1, <2>2
<1>9. (\A o \in Owner : Own(o) \cap free = {})'  BY <1>6
<1>10. (\A o, u \in Owner : o # u => Own(o) \cap Own(u) = {})'  BY <1>7
<1>11. (\A pg \in Page : pg \in free \/ \E o \in Owner : pg \in Own(o))'  BY <1>8
<1> QED  BY <1>9, <1>10, <1>11 DEF PartInv

\* The tables are in use at one place, apart from the free pages.
LEMMA TablesApart ==
  ASSUME MemoryInv, NEW p \in Proc
  PROVE  /\ vm[p] # None => vm[p] \in AddressSpace /\ Apart(vm[p], free)
         /\ new[p] # None => new[p] \in AddressSpace /\ Apart(new[p], free)
<1>1. vm[p] \in AddressSpace \cup {None} /\ new[p] \in AddressSpace \cup {None} /\ free \subseteq Page
  BY DEF MemoryInv, TypeOK
<1>2. TableInv(p)  BY DEF MemoryInv, ProcInv
<1>3. <<p, "vm">> \in Owner /\ <<p, "new">> \in Owner  BY OwnFacts DEF Kind
<1>4. Own(<<p, "vm">>) \cap free = {} /\ Own(<<p, "new">>) \cap free = {}
  BY <1>3 DEF MemoryInv, PartInv
<1>5. PagesOf(vm[p]) \cap free = {} /\ PagesOf(new[p]) \cap free = {}  BY <1>4, OwnFacts
<1>6. ASSUME vm[p] # None PROVE vm[p] \in AddressSpace /\ Apart(vm[p], free)
  BY <1>1, <1>2, <1>5, <1>6 DEF PagesOf, Apart, TableInv
<1>7. ASSUME new[p] # None PROVE new[p] \in AddressSpace /\ Apart(new[p], free)
  BY <1>1, <1>2, <1>5, <1>7 DEF PagesOf, Apart, TableInv
<1> QED  BY <1>6, <1>7

\* The pages of a table.
LEMMA PagesOfFacts ==
  /\ PagesOf(None) = {}
  /\ \A as \in AddressSpace : PagesOf(as) \subseteq Page
                              /\ \A pg \in Page : pg \in PagesOf(as) <=> Holds(as, pg)
BY NoneAssumption DEF PagesOf

\* One owner and the free pages.
VmChanged(p) ==
  /\ new' = new /\ kstack' = kstack /\ \A q \in Proc : q # p => vm'[q] = vm[q]
  /\ \A pg \in free' : pg \notin PagesOf(vm'[p])
  /\ \A pg \in Page : pg \in PagesOf(vm'[p]) \/ pg \in free'
                        <=> pg \in PagesOf(vm[p]) \/ pg \in free
NewChanged(p) ==
  /\ vm' = vm /\ kstack' = kstack /\ \A q \in Proc : q # p => new'[q] = new[q]
  /\ \A pg \in free' : pg \notin PagesOf(new'[p])
  /\ \A pg \in Page : pg \in PagesOf(new'[p]) \/ pg \in free'
                        <=> pg \in PagesOf(new[p]) \/ pg \in free
StackChanged(p) ==
  /\ vm' = vm /\ new' = new /\ \A q \in Proc : q # p => kstack'[q] = kstack[q]
  /\ \A pg \in free' : pg # kstack'[p]
  /\ \A pg \in Page : pg = kstack'[p] \/ pg \in free' <=> pg = kstack[p] \/ pg \in free

LEMMA OneOwnerPart ==
  ASSUME TypeOK, PartInv, TypeOK', NEW p \in Proc, VmChanged(p) \/ NewChanged(p) \/ StackChanged(p)
  PROVE  PartInv'
<1>1. <<p, "vm">> \in Owner /\ <<p, "new">> \in Owner /\ <<p, "kstack">> \in Owner
  BY OwnFacts DEF Kind
<1>2. None \notin Page  BY MemoryAssumption
<1>3. free \subseteq Page /\ free' \subseteq Page  BY DEF TypeOK
<1>4. CASE VmChanged(p)
  <2>1. \A q \in Proc : q # p => <<q, "vm">> # <<p, "vm">>  OBVIOUS
  <2>2. Own(<<p, "vm">>) = PagesOf(vm[p]) /\ Own(<<p, "vm">>)' = PagesOf(vm'[p])
    BY OwnFacts
  <2>3. Redistributed({<<p, "vm">>})
    BY <1>1, <1>4, <2>1, <2>2 DEF Redistributed, VmChanged
  <2> QED  BY <2>3, PartStep
<1>5. CASE NewChanged(p)
  <2>1. \A q \in Proc : q # p => <<q, "new">> # <<p, "new">>  OBVIOUS
  <2>2. Own(<<p, "new">>) = PagesOf(new[p]) /\ Own(<<p, "new">>)' = PagesOf(new'[p])
    BY OwnFacts
  <2>3. Redistributed({<<p, "new">>})
    BY <1>1, <1>5, <2>1, <2>2 DEF Redistributed, NewChanged
  <2> QED  BY <2>3, PartStep
<1>6. CASE StackChanged(p)
  <2>1. \A q \in Proc : q # p => <<q, "kstack">> # <<p, "kstack">>  OBVIOUS
  <2>2. /\ Own(<<p, "kstack">>) = {kstack[p]} \ {None}
        /\ Own(<<p, "kstack">>)' = {kstack'[p]} \ {None}
    BY OwnFacts
  <2>3. \A pg \in Page : /\ pg \in Own(<<p, "kstack">>) <=> pg = kstack[p]
                         /\ pg \in Own(<<p, "kstack">>)' <=> pg = kstack'[p]
    BY <1>2, <2>2
  <2>4. \A pg \in free' : pg \notin Own(<<p, "kstack">>)'
    BY <1>3, <1>6, <2>3 DEF StackChanged
  <2>5. Redistributed({<<p, "kstack">>})
    BY <1>1, <1>6, <2>1, <2>3, <2>4 DEF Redistributed, StackChanged
  <2> QED  BY <2>5, PartStep
<1> QED  BY <1>4, <1>5, <1>6

\* A table that trades pages with the free ones.
LEMMA VmTraded ==
  ASSUME MemoryInv, TypeOK', NEW p \in Proc, vm[p] # None, new' = new, kstack' = kstack,
         \A q \in Proc : q # p => vm'[q] = vm[q],
         Trades(vm[p], free, vm'[p], free')
  PROVE  PartInv' /\ TableInv(p)'
<1>1. vm[p] \in AddressSpace /\ Apart(vm[p], free)  BY TablesApart
<1>2. vm'[p] \in AddressSpace /\ Apart(vm'[p], free') /\ free' \subseteq Page
      /\ \A pg \in Page : Holds(vm'[p], pg) \/ pg \in free' <=> Holds(vm[p], pg) \/ pg \in free
  BY <1>1 DEF Trades
<1>3. VmChanged(p)
  <2>1. \A pg \in free' : pg \notin PagesOf(vm'[p])  BY <1>2, PagesOfFacts DEF Apart
  <2>2. \A pg \in Page : pg \in PagesOf(vm'[p]) \/ pg \in free'
                        <=> pg \in PagesOf(vm[p]) \/ pg \in free
    BY <1>1, <1>2, PagesOfFacts
  <2> QED  BY <2>1, <2>2 DEF VmChanged
<1>4. PartInv'  BY <1>3, OneOwnerPart DEF MemoryInv
<1>5. TableInv(p)  BY DEF MemoryInv, ProcInv
<1> QED  BY <1>2, <1>4, <1>5 DEF TableInv, Apart

LEMMA NewTraded ==
  ASSUME MemoryInv, TypeOK', NEW p \in Proc, new[p] # None, vm' = vm, kstack' = kstack,
         \A q \in Proc : q # p => new'[q] = new[q],
         Trades(new[p], free, new'[p], free')
  PROVE  PartInv' /\ TableInv(p)'
<1>1. new[p] \in AddressSpace /\ Apart(new[p], free)  BY TablesApart
<1>2. new'[p] \in AddressSpace /\ Apart(new'[p], free') /\ free' \subseteq Page
      /\ \A pg \in Page : Holds(new'[p], pg) \/ pg \in free' <=> Holds(new[p], pg) \/ pg \in free
  BY <1>1 DEF Trades
<1>3. NewChanged(p)
  <2>1. \A pg \in free' : pg \notin PagesOf(new'[p])  BY <1>2, PagesOfFacts DEF Apart
  <2>2. \A pg \in Page : pg \in PagesOf(new'[p]) \/ pg \in free'
                        <=> pg \in PagesOf(new[p]) \/ pg \in free
    BY <1>1, <1>2, PagesOfFacts
  <2> QED  BY <2>1, <2>2 DEF NewChanged
<1>4. PartInv'  BY <1>3, OneOwnerPart DEF MemoryInv
<1>5. TableInv(p)  BY DEF MemoryInv, ProcInv
<1> QED  BY <1>2, <1>4, <1>5 DEF TableInv, Apart

\* A process on a CPU.
LEMMA RunningFacts ==
  ASSUME MemoryInv, NEW p \in Proc, NEW l, Running(p, l)
  PROVE  /\ call[p].at = l /\ state[p] = "RUNNING" /\ vm[p] # None /\ vm[p] \in AddressSpace
         /\ Apart(vm[p], free)
         /\ free \in SUBSET Page /\ sz[p] \in 0 .. KERNBASE
         /\ call[p] \in CallState
         /\ SlotInv(p) /\ MapInv(p) /\ TableInv(p)
<1>1. PICK c \in CPU : cpu[c] = p /\ lock # c /\ call[p].at = l  BY DEF Running
<1>2. p # None  BY MemoryAssumption
<1>3. state[p] = "RUNNING"  BY <1>1, <1>2 DEF MemoryInv, CpuInv
<1>4. SlotInv(p) /\ MapInv(p) /\ TableInv(p)  BY DEF MemoryInv, ProcInv
<1>5. vm[p] # None  BY <1>3, <1>4 DEF SlotInv
<1>6. free \in SUBSET Page /\ sz[p] \in 0 .. KERNBASE
      /\ call[p] \in CallState
  BY DEF MemoryInv, TypeOK
<1> QED  BY <1>1, <1>3, <1>4, <1>5, <1>6, TablesApart

-----------------------------------------------------------------------------
(* The steps *)

LEMMA Assemble ==
  ASSUME MemoryInv, TypeOK', CpuInv', ChildInv', PartInv', NEW p \in Proc, ProcInv(p)',
         \A q \in Proc : q # p => Same(q)
  PROVE  MemoryInv'
<1>1. \A q \in Proc : q # p => ProcInv(q)'  BY SameProc DEF MemoryInv
<1> QED  BY <1>1 DEF MemoryInv

LEMMA StutterStep ==
  ASSUME MemoryInv, UNCHANGED vars
  PROVE  MemoryInv'
<1>1. TypeOK'  BY DEF MemoryInv, TypeOK, vars
<1>2. CpuInv'  BY DEF MemoryInv, CpuInv, vars
<1>3. ChildInv'  BY DEF MemoryInv, ChildInv, vars
<1>4. PartInv'  BY DEF MemoryInv, PartInv, Own, vars
<1>5. \A q \in Proc : Same(q)  BY DEF Same, vars
<1>6. \A q \in Proc : ProcInv(q)'  BY <1>5, SameProc DEF MemoryInv
<1> QED  BY <1>1, <1>2, <1>3, <1>4, <1>6 DEF MemoryInv

\* The sizes that are mapped after deallocuvm().
LEMMA DeallocMapped ==
  ASSUME NEW as \in AddressSpace, NEW fr \in SUBSET Page, NEW hi \in Nat, NEW lo \in Nat,
         \A a \in UserPage : as.pte[a] # None => Addr(a) < hi,
         \A a \in UserPage : Addr(a) < lo => as.pte[a] # None
  PROVE  Mapped(deallocuvm(as, fr, hi, lo).as, lo)
<1> DEFINE d == deallocuvm(as, fr, hi, lo)
<1>1. \A b \in UserPage :
        d.as.pte[b] # None <=> as.pte[b] # None /\ ~(lo <= Addr(b) /\ Addr(b) < hi)
  BY DeallocFacts
<1> HIDE DEF d
<1>2. \A b \in UserPage : Addr(b) \in Nat  BY UserPageFacts, AddrFacts
<1>3. ASSUME NEW b \in UserPage PROVE d.as.pte[b] # None <=> Addr(b) < lo
  <2>1. Addr(b) \in Nat /\ (as.pte[b] # None => Addr(b) < hi) /\ (Addr(b) < lo => as.pte[b] # None)
    BY <1>2
  <2>2. d.as.pte[b] # None <=> as.pte[b] # None /\ ~(lo <= Addr(b) /\ Addr(b) < hi)  BY <1>1
  <2>3. lo <= Addr(b) <=> ~(Addr(b) < lo)  BY <2>1
  <2> QED  BY <2>1, <2>2, <2>3, Zenon
<1> QED  BY <1>3 DEF Mapped, d

\* A CPU that loads the table of the process it runs.
LEMMA SwitchFacts ==
  ASSUME MemoryInv, NEW p \in Proc, NEW as \in AddressSpace
  PROVE  /\ switchuvm(p, as) \in [CPU -> Page \cup {kpgdir}]
         /\ \A c \in CPU : switchuvm(p, as)[c] = IF cpu[c] = p THEN as.dir ELSE cr3[c]
BY DEF MemoryInv, TypeOK, switchuvm, AddressSpace

\* sbrk() of a negative number.
LEMMA ShrinkStep ==
  ASSUME MemoryInv, NEW p \in Proc, Shrink(p)
  PROVE  MemoryInv'
<1>1. /\ call[p].at = "user" /\ state[p] = "RUNNING" /\ vm[p] # None /\ vm[p] \in AddressSpace
      /\ free \in SUBSET Page /\ sz[p] \in 0 .. KERNBASE
      /\ call[p] \in CallState /\ SlotInv(p) /\ MapInv(p)
  BY RunningFacts DEF Shrink
<1>2. PICK n \in {d \in Delta : d < 0} :
        LET newsz == (sz[p] + n) % Wrap
            d == deallocuvm(vm[p], free, sz[p], newsz)
        IN IF newsz >= sz[p]
           THEN UNCHANGED <<free, vm, sz, cr3, call>>
           ELSE /\ vm' = [vm EXCEPT ![p] = d.as] /\ free' = d.free
                /\ IF newsz = 0
                   THEN Goto(p, "fault") /\ UNCHANGED <<sz, cr3>>
                   ELSE /\ sz' = [sz EXCEPT ![p] = newsz]
                        /\ cr3' = switchuvm(p, d.as)
                        /\ UNCHANGED call
  BY DEF Shrink
<1>3. UNCHANGED <<state, kstack, new, cpu, lock>>  BY DEF Shrink, procs
<1> DEFINE newsz == (sz[p] + n) % Wrap
           d == deallocuvm(vm[p], free, sz[p], newsz)
<1>4. CASE newsz >= sz[p]
  <2>1. UNCHANGED vars  BY <1>2, <1>3, <1>4 DEF vars
  <2> QED  BY <2>1, StutterStep
<1>5. CASE ~(newsz >= sz[p])
  <2>1. newsz \in Nat /\ newsz < sz[p] /\ sz[p] \in Nat
    <3>1. Wrap \in Nat \ {0} /\ n \in Int /\ sz[p] \in Nat
      <4>1. KERNBASE \in Nat \ {0} /\ n \in Int  BY <1>2, MemoryAssumption
      <4> QED  BY <1>1, <4>1 DEF Wrap
    <3>2. newsz \in Nat  BY <3>1
    <3> HIDE DEF newsz
    <3> QED  BY <1>5, <3>1, <3>2
  <2>2. /\ vm' = [vm EXCEPT ![p] = d.as] /\ free' = d.free
        /\ \/ newsz = 0 /\ Goto(p, "fault") /\ UNCHANGED <<sz, cr3>>
           \/ newsz # 0 /\ sz' = [sz EXCEPT ![p] = newsz] /\ cr3' = switchuvm(p, d.as) /\ UNCHANGED call
    BY <1>2, <1>5
  <2> HIDE DEF newsz
  <2>3. Trades(vm[p], free, d.as, d.free)  BY <1>1, <2>1, DeallocFacts
  <2>4. d.as \in AddressSpace /\ d.free \subseteq Page /\ d.as.dir = vm[p].dir
    BY <2>3 DEF Trades
  <2>5. Mapped(vm[p], sz[p])  BY <1>1 DEF MapInv
  <2>6. Mapped(d.as, newsz)
    <3>1. \A a \in UserPage : Addr(a) \in Nat  BY UserPageFacts, AddrFacts
    <3>2. /\ \A a \in UserPage : vm[p].pte[a] # None => Addr(a) < sz[p]
          /\ \A a \in UserPage : Addr(a) < newsz => vm[p].pte[a] # None
      BY <2>1, <2>5, <3>1 DEF Mapped
    <3> QED  BY <1>1, <2>1, <3>2, DeallocMapped
  <2> HIDE DEF d
  <2>7. TypeOK'
    <3>1. vm' \in [Proc -> AddressSpace \cup {None}]  BY <2>2, <2>4 DEF MemoryInv, TypeOK
    <3>2. sz' \in [Proc -> 0 .. KERNBASE]
      <4>1. newsz \in 0 .. KERNBASE  BY <1>1, <2>1, MemoryAssumption
      <4> QED  BY <2>2, <4>1 DEF MemoryInv, TypeOK
    <3>3. call' \in [Proc -> CallState]
      <4>1. At("fault") \in CallState  BY DEF At, CallState, Label
      <4> QED  BY <2>2, <4>1 DEF MemoryInv, TypeOK, Goto
    <3>4. cr3' \in [CPU -> Page \cup {kpgdir}]
      BY <2>2, <2>4, SwitchFacts DEF MemoryInv, TypeOK
    <3> QED  BY <1>3, <2>2, <2>4, <3>1, <3>2, <3>3, <3>4 DEF MemoryInv, TypeOK
  <2>8. vm'[p] = d.as /\ \A q \in Proc : q # p => vm'[q] = vm[q]
    BY <2>2 DEF MemoryInv, TypeOK
  <2>9. PartInv' /\ TableInv(p)'  BY <1>1, <1>3, <2>2, <2>3, <2>7, <2>8, VmTraded
  <2>10. \A q \in Proc : q # p => Same(q)
    BY <1>3, <2>2, <2>8 DEF Same, Goto, MemoryInv, TypeOK
  <2>11. \/ call'[p] = At("fault") /\ sz'[p] = sz[p]
         \/ call'[p] = call[p] /\ sz'[p] = newsz
    BY <2>2 DEF Goto, MemoryInv, TypeOK
  <2>12. d.as # None  BY <2>4, NoneAssumption
  <2>13. SlotInv(p)'
    BY <1>1, <1>3, <2>8, <2>11, <2>12 DEF SlotInv, At
  <2>14. MapInv(p)'
    BY <1>1, <1>3, <2>6, <2>8, <2>11 DEF MapInv, At
  <2>15. ChildInv'
    <3>1. \A q \in Proc : call'[q].at = "copy" => call[q].at = "copy" /\ call'[q].child = call[q].child
      BY <1>1, <2>10, <2>11 DEF Same, At
    <3> QED  BY <1>3, <3>1, SameChild DEF MemoryInv
  <2>16. CpuInv'
    <3>1. \A c \in CPU : cpu[c] # None => cpu[c] \in Proc /\ cr3[c] = vm[cpu[c]].dir
      BY DEF MemoryInv, TypeOK, CpuInv
    <3>2. p # None  BY MemoryAssumption
    <3>3. \A c \in CPU : /\ cpu[c] # None => cr3'[c] = vm'[cpu[c]].dir
                         /\ cpu[c] = None => cr3'[c] = cr3[c]
      BY <2>2, <2>4, <2>8, <3>1, <3>2, SwitchFacts
    <3> QED  BY <1>3, <3>3, SameCpu DEF MemoryInv
  <2> QED  BY <2>7, <2>9, <2>10, <2>13, <2>14, <2>15, <2>16, Assemble DEF ProcInv
<1> QED  BY <1>4, <1>5

\* A step that only changes p's call, its new table and the free pages.
LEMMA CallStep ==
  ASSUME MemoryInv, NEW p \in Proc, UNCHANGED <<state, kstack, vm, sz, cpu, cr3, lock>>,
         \A q \in Proc : q # p => new'[q] = new[q] /\ call'[q] = call[q],
         call'[p].at = "copy" => call[p].at = "copy" /\ call'[p].child = call[p].child,
         TypeOK', PartInv', SlotInv(p)', MapInv(p)', TableInv(p)'
  PROVE  MemoryInv'
<1>1. \A q \in Proc : q # p => Same(q)  BY DEF Same
<1>2. ChildInv'
  <2>1. \A q \in Proc : call'[q].at = "copy" => call[q].at = "copy" /\ call'[q].child = call[q].child
    BY <1>1 DEF Same
  <2> QED  BY <2>1, SameChild DEF MemoryInv
<1>3. CpuInv'  BY DEF MemoryInv, CpuInv
<1> QED  BY <1>1, <1>2, <1>3, Assemble DEF ProcInv

\* sbrk() of a positive number, up to allocuvm()'s loop.
LEMMA GrowBegins ==
  ASSUME MemoryInv, NEW p \in Proc, Grow(p)
  PROVE  MemoryInv'
<1>1. /\ call[p].at = "user" /\ state[p] = "RUNNING" /\ vm[p] # None
      /\ sz[p] \in 0 .. KERNBASE
      /\ call[p] \in CallState /\ SlotInv(p) /\ MapInv(p) /\ TableInv(p)
  BY RunningFacts DEF Grow
<1>2. PICK n \in {d \in Delta : d > 0} :
        /\ sz[p] + n < KERNBASE
        /\ call' = [call EXCEPT ![p].at = "grow",
                      ![p].a = PGROUNDUP(sz[p]) \div PGSIZE, ![p].end = sz[p] + n]
  BY DEF Grow
<1>3. UNCHANGED <<free, state, kstack, vm, sz, new, cpu, cr3, lock>>
  BY DEF Grow, procs, cpus
<1>4. n \in Int /\ n > 0 /\ KERNBASE \in Nat  BY MemoryAssumption
<1> DEFINE end == sz[p] + n
           k == Pages(sz[p])
<1>5. sz[p] \in Nat /\ end \in Nat /\ sz[p] < end /\ end < KERNBASE  BY <1>1, <1>2, <1>4
<1>6. k \in Nat /\ PGROUNDUP(sz[p]) = Addr(k) /\ \A a \in Nat : sz[p] <= Addr(a) <=> k <= a
  BY <1>5, PagesFacts
<1>7. call' = [call EXCEPT ![p].at = "grow", ![p].a = k, ![p].end = end]
  BY <1>2 DEF Pages
<1> HIDE DEF k, end
<1>8. call'[p] = [call[p] EXCEPT !.at = "grow", !.a = k, !.end = end]
      /\ call' \in [Proc -> CallState] /\ \A q \in Proc : q # p => call'[q] = call[q]
  BY <1>1, <1>5, <1>6, <1>7 DEF MemoryInv, TypeOK, CallState, Label
<1>9. call'[p].at = "grow" /\ call'[p].a = k /\ call'[p].end = end
  BY <1>1, <1>8 DEF CallState
<1>10. TypeOK'  BY <1>3, <1>8 DEF MemoryInv, TypeOK
<1>11. PartInv'  BY <1>3 DEF MemoryInv, PartInv, Own
<1>12. SlotInv(p)'  BY <1>1, <1>3, <1>9 DEF SlotInv
<1>13. MapInv(p)'
  <2>1. Mapped(vm[p], sz[p])  BY <1>1 DEF MapInv
  <2>2. \A a \in UserPage : a \in Nat /\ Addr(a) \in Nat  BY UserPageFacts, AddrFacts
  <2>3. Upto(vm[p], k, end)  BY <1>5, <1>6, <2>1, <2>2 DEF Mapped, Upto
  <2>4. sz[p] <= Addr(k)  BY <1>6
  <2> QED  BY <1>3, <1>5, <1>9, <2>3, <2>4 DEF MapInv
<1>14. TableInv(p)'  BY <1>1, <1>3 DEF TableInv
<1> QED  BY <1>3, <1>8, <1>9, <1>10, <1>11, <1>12, <1>13, <1>14, CallStep

\* A page number that allocuvm() or copyuvm() reaches.
LEMMA InRange ==
  ASSUME NEW a \in Nat, NEW hi \in 0 .. KERNBASE, Addr(a) < hi
  PROVE  a \in UserPage
<1>1. KERNBASE \in Nat /\ Addr(a) < hi /\ Addr(a) \in Nat  BY MemoryAssumption, AddrFacts
<1>2. Addr(a) < KERNBASE  BY <1>1
<1> QED  BY <1>2, UserPageFacts

\* The loop has one page more.
LEMMA UptoNext ==
  ASSUME NEW as, NEW as1, NEW a \in UserPage, NEW hi \in Nat, Upto(as, a, hi), Addr(a) < hi,
         \A b \in UserPage : as1.pte[b] # None <=> b = a \/ as.pte[b] # None
  PROVE  Upto(as1, a + 1, hi) /\ as.pte[a] = None
<1>1. \A b \in UserPage : b \in Nat  BY UserPageFacts
<1>2. as.pte[a] = None
  <2>1. ~(a < a)  BY <1>1
  <2> QED  BY <2>1 DEF Upto
<1>3. ASSUME NEW b \in UserPage
      PROVE  (as1.pte[b] # None <=> b < a + 1) /\ (as1.pte[b] # None => Addr(b) < hi)
  <2>1. (as.pte[b] # None <=> b < a) /\ (as.pte[b] # None => Addr(b) < hi)  BY DEF Upto
  <2>2. as1.pte[b] # None <=> b = a \/ as.pte[b] # None  OBVIOUS
  <2>3. b < a + 1 <=> b = a \/ b < a  BY <1>1
  <2> QED  BY <2>1, <2>2, <2>3
<1> QED  BY <1>2, <1>3 DEF Upto

\* The loop has reached its end.
LEMMA UptoEnd ==
  ASSUME NEW as, NEW a \in Nat, NEW hi \in Nat, Upto(as, a, hi), ~(Addr(a) < hi)
  PROVE  Mapped(as, hi)
<1>1. \A b \in UserPage : b \in Nat /\ Addr(b) \in Nat  BY UserPageFacts, AddrFacts
<1>2. Addr(a) \in Nat /\ hi <= Addr(a)  BY AddrFacts
<1>3. \A b \in UserPage : b < a <=> Addr(b) < Addr(a)  BY <1>1, AddrFacts
<1>4. ASSUME NEW b \in UserPage PROVE as.pte[b] # None <=> Addr(b) < hi
  <2>1. (as.pte[b] # None <=> b < a) /\ (as.pte[b] # None => Addr(b) < hi)  BY DEF Upto
  <2>2. Addr(b) < hi => b < a  BY <1>1, <1>2, <1>3
  <2> QED  BY <2>1, <2>2
<1> QED  BY <1>4 DEF Mapped

\* A round of allocuvm()'s loop in growproc(), or its end.
LEMMA GrowStepStep ==
  ASSUME MemoryInv, NEW p \in Proc, GrowStep(p)
  PROVE  MemoryInv'
<1> DEFINE a == call[p].a
           end == call[p].end
           m == mappage(p, vm[p], free, a, TRUE)
           d == deallocuvm(vm[p], free, end, sz[p])
<1>1. /\ call[p].at = "grow" /\ state[p] = "RUNNING" /\ vm[p] # None /\ vm[p] \in AddressSpace
      /\ free \in SUBSET Page /\ sz[p] \in 0 .. KERNBASE
      /\ call[p] \in CallState /\ SlotInv(p) /\ MapInv(p) /\ TableInv(p)
  BY RunningFacts DEF GrowStep
<1>2. UNCHANGED <<state, kstack, new, cpu, lock>>  BY DEF GrowStep, procs
<1>3. /\ Upto(vm[p], a, end) /\ sz[p] <= end /\ end < KERNBASE /\ sz[p] <= Addr(a)
      /\ a \in Nat /\ end \in Nat /\ sz[p] \in Nat /\ KERNBASE \in Nat /\ end \in 0 .. KERNBASE
  <2>1. a \in Nat /\ end \in Nat /\ sz[p] \in Nat /\ KERNBASE \in Nat
    BY <1>1, MemoryAssumption DEF CallState
  <2>2. Upto(vm[p], a, end) /\ sz[p] <= end /\ end < KERNBASE /\ sz[p] <= Addr(a)
    BY <1>1 DEF MapInv
  <2> QED  BY <2>1, <2>2
<1>4. \A c \in CPU : cpu[c] # None => cpu[c] \in Proc /\ cr3[c] = vm[cpu[c]].dir
  BY DEF MemoryInv, TypeOK, CpuInv
<1>5. p # None  BY MemoryAssumption
<1>6. At("user") \in CallState /\ At("user").at = "user" /\ At("user").a = 0
  BY DEF At, CallState, Label
<1>7. CASE /\ ~(Addr(a) < end)
           /\ sz' = [sz EXCEPT ![p] = end]
           /\ cr3' = switchuvm(p, vm[p])
           /\ Goto(p, "user")
           /\ UNCHANGED <<free, vm>>
  <2> HIDE DEF a, end, m, d
  <2>1. Mapped(vm[p], end)  BY <1>3, <1>7, UptoEnd
  <2>2. call' \in [Proc -> CallState] /\ call'[p] = At("user")
        /\ \A q \in Proc : q # p => call'[q] = call[q]
    BY <1>6, <1>7 DEF Goto, MemoryInv, TypeOK
  <2>3. sz' \in [Proc -> 0 .. KERNBASE] /\ sz'[p] = end /\ \A q \in Proc : q # p => sz'[q] = sz[q]
    BY <1>3, <1>7 DEF MemoryInv, TypeOK
  <2>4. cr3' \in [CPU -> Page \cup {kpgdir}]
        /\ \A c \in CPU : cr3'[c] = IF cpu[c] = p THEN vm[p].dir ELSE cr3[c]
    BY <1>1, <1>7, SwitchFacts
  <2>5. TypeOK'  BY <1>2, <1>7, <2>2, <2>3, <2>4 DEF MemoryInv, TypeOK
  <2>6. PartInv'  BY <1>2, <1>7 DEF MemoryInv, PartInv, Own
  <2>7. \A q \in Proc : q # p => Same(q)  BY <1>2, <1>7, <2>2, <2>3 DEF Same
  <2>8. SlotInv(p)'  BY <1>1, <1>2, <1>6, <1>7, <2>2 DEF SlotInv
  <2>9. MapInv(p)'  BY <1>6, <1>7, <2>1, <2>2, <2>3 DEF MapInv
  <2>10. TableInv(p)'  BY <1>1, <1>2, <1>7 DEF TableInv
  <2>11. ChildInv'
    <3>1. \A q \in Proc : call'[q].at = "copy" => call[q].at = "copy" /\ call'[q].child = call[q].child
      BY <1>6, <2>2
    <3> QED  BY <1>2, <3>1, SameChild DEF MemoryInv
  <2>12. CpuInv'
    <3>1. \A c \in CPU : /\ cpu[c] # None => cr3'[c] = vm'[cpu[c]].dir
                         /\ cpu[c] = None => cr3'[c] = cr3[c]
      BY <1>4, <1>5, <1>7, <2>4
    <3> QED  BY <1>2, <3>1, SameCpu DEF MemoryInv
  <2> QED  BY <2>5, <2>6, <2>7, <2>8, <2>9, <2>10, <2>11, <2>12, Assemble DEF ProcInv
<1>8. CASE /\ Addr(a) < end
           /\ vm' = [vm EXCEPT ![p] = IF m.st = "ok" THEN m.as ELSE d.as]
           /\ free' = IF m.st = "ok" THEN m.free ELSE d.free
           /\ call' = [call EXCEPT ![p] =
                         IF m.st = "ok" THEN [call[p] EXCEPT !.a = a + 1]
                         ELSE At(IF m.st = "fail" THEN "user" ELSE "panic")]
           /\ UNCHANGED <<sz, cr3>>
  <2>1. a \in UserPage /\ TRUE \in BOOLEAN
    <3> HIDE DEF a, end
    <3> QED  BY <1>3, <1>8, InRange
  <2>2. /\ m.st \in {"ok", "fail", "panic"}
        /\ m.st = "panic" => vm[p].pte[a] # None
        /\ m.st = "ok" =>
             /\ Trades(vm[p], free, m.as, m.free)
             /\ \A b \in UserPage : m.as.pte[b] # None <=> b = a \/ vm[p].pte[b] # None
    <3>1. m = mappage(p, vm[p], free, a, TRUE)  OBVIOUS
    <3> HIDE DEF a, m
    <3>2. Maps(vm[p], free, a, m)  BY <1>1, <2>1, <3>1, MappageFacts
    <3> QED  BY <3>2 DEF Maps
  <2>3. vm[p].pte[a] = None
    <3> HIDE DEF a, end
    <3> QED  BY <1>3, <2>1, UserPageFacts DEF Upto
  <2>4. Trades(vm[p], free, d.as, d.free)
    <3> HIDE DEF end
    <3> QED  BY <1>1, <1>3, DeallocFacts
  <2>5. Mapped(d.as, sz[p])
    <3> HIDE DEF end, a
    <3>1. \A b \in UserPage : b \in Nat /\ Addr(b) \in Nat /\ (b < a <=> Addr(b) < Addr(a))
      BY <1>3, UserPageFacts, AddrFacts
    <3>2. Addr(a) \in Nat  BY <1>3, AddrFacts
    <3>3. \A b \in UserPage : vm[p].pte[b] # None => Addr(b) < end  BY <1>3 DEF Upto
    <3>4. \A b \in UserPage : Addr(b) < sz[p] => b < a  BY <1>3, <3>1, <3>2
    <3>5. \A b \in UserPage : Addr(b) < sz[p] => vm[p].pte[b] # None  BY <1>3, <3>4 DEF Upto
    <3> QED  BY <1>1, <1>3, <3>3, <3>5, DeallocMapped
  <2>6. m.st = "ok" => Upto(m.as, a + 1, end)
    <3> HIDE DEF m, a, end
    <3> QED  BY <1>3, <1>8, <2>1, <2>2, UptoNext
  <2>7. \/ /\ m.st = "ok" /\ vm' = [vm EXCEPT ![p] = m.as] /\ free' = m.free
           /\ call' = [call EXCEPT ![p] = [call[p] EXCEPT !.a = a + 1]]
        \/ /\ m.st = "fail" /\ vm' = [vm EXCEPT ![p] = d.as] /\ free' = d.free
           /\ call' = [call EXCEPT ![p] = At("user")]
    <3>1. m.st = "ok" \/ m.st = "fail"  BY <2>2, <2>3
    <3> HIDE DEF m, d
    <3>2. CASE m.st = "ok"
      <4>1. vm' = [vm EXCEPT ![p] = m.as] /\ free' = m.free  BY <1>8, <3>2
      <4>2. call' = [call EXCEPT ![p] = [call[p] EXCEPT !.a = a + 1]]  BY <1>8, <3>2
      <4> QED  BY <3>2, <4>1, <4>2
    <3>3. CASE m.st = "fail"
      <4>1. vm' = [vm EXCEPT ![p] = d.as] /\ free' = d.free  BY <1>8, <3>3
      <4>2. call' = [call EXCEPT ![p] = At("user")]  BY <1>8, <3>3
      <4> QED  BY <3>3, <4>1, <4>2
    <3> QED  BY <3>1, <3>2, <3>3
  <2> HIDE DEF m, d, a, end
  <2>8. PICK as : /\ Trades(vm[p], free, as, free') /\ vm' = [vm EXCEPT ![p] = as]
                  /\ \/ /\ call' = [call EXCEPT ![p] = [call[p] EXCEPT !.a = a + 1]]
                        /\ Upto(as, a + 1, end)
                     \/ call' = [call EXCEPT ![p] = At("user")] /\ Mapped(as, sz[p])
    BY <2>2, <2>4, <2>5, <2>6, <2>7
  <2>9. as \in AddressSpace /\ free' \subseteq Page /\ as.dir = vm[p].dir /\ as # None
    BY <2>8, NoneAssumption DEF Trades
  <2>10. vm' \in [Proc -> AddressSpace \cup {None}] /\ vm'[p] = as
         /\ \A q \in Proc : q # p => vm'[q] = vm[q]
    BY <2>8, <2>9 DEF MemoryInv, TypeOK
  <2>11. /\ call' \in [Proc -> CallState] /\ \A q \in Proc : q # p => call'[q] = call[q]
         /\ \/ /\ call'[p].at = "grow" /\ call'[p].a = a + 1 /\ call'[p].end = end
               /\ Upto(as, a + 1, end)
            \/ call'[p] = At("user") /\ Mapped(as, sz[p])
    <3>1. call \in [Proc -> CallState]  BY DEF MemoryInv, TypeOK
    <3>2. CASE call' = [call EXCEPT ![p] = At("user")] /\ Mapped(as, sz[p])
      BY <1>6, <3>1, <3>2
    <3>3. CASE call' = [call EXCEPT ![p] = [call[p] EXCEPT !.a = a + 1]] /\ Upto(as, a + 1, end)
      <4> DEFINE r == [call[p] EXCEPT !.a = a + 1]
      <4>1. r \in CallState /\ r.at = "grow" /\ r.a = a + 1 /\ r.end = end
        BY <1>1, <1>3 DEF CallState, end
      <4> HIDE DEF r
      <4>2. call' = [call EXCEPT ![p] = r] /\ Upto(as, a + 1, end)  BY <3>3 DEF r
      <4> QED  BY <3>1, <4>1, <4>2
    <3> QED  BY <2>8, <3>2, <3>3
  <2>12. TypeOK'  BY <1>2, <1>8, <2>9, <2>10, <2>11 DEF MemoryInv, TypeOK
  <2>13. PartInv' /\ TableInv(p)'  BY <1>1, <1>2, <2>8, <2>10, <2>12, VmTraded
  <2>14. \A q \in Proc : q # p => Same(q)  BY <1>2, <1>8, <2>10, <2>11 DEF Same
  <2>15. SlotInv(p)'  BY <1>1, <1>2, <1>6, <2>9, <2>10, <2>11 DEF SlotInv
  <2>16. MapInv(p)'
    <3>1. CASE /\ call'[p].at = "grow" /\ call'[p].a = a + 1 /\ call'[p].end = end
               /\ Upto(as, a + 1, end)
      <4>1. sz[p] <= Addr(a + 1)
        <5>1. Addr(a + 1) = Addr(a) + PGSIZE /\ Addr(a) \in Nat /\ PGSIZE \in Nat
          BY <1>3, AddrFacts, MemoryAssumption
        <5> QED  BY <1>3, <5>1
      <4> QED  BY <1>3, <1>8, <2>10, <3>1, <4>1 DEF MapInv
    <3>2. CASE call'[p] = At("user") /\ Mapped(as, sz[p])
      BY <1>6, <1>8, <2>10, <3>2 DEF MapInv
    <3> QED  BY <2>11, <3>1, <3>2
  <2>17. ChildInv'
    <3>1. \A q \in Proc : call'[q].at = "copy" => call[q].at = "copy" /\ call'[q].child = call[q].child
      BY <1>6, <2>11
    <3> QED  BY <1>2, <3>1, SameChild DEF MemoryInv
  <2>18. CpuInv'
    <3>1. \A c \in CPU : cpu[c] # None => cr3'[c] = vm'[cpu[c]].dir
      BY <1>4, <1>8, <2>9, <2>10
    <3> QED  BY <1>2, <1>8, <3>1, SameCpu DEF MemoryInv
  <2> QED  BY <2>12, <2>13, <2>14, <2>15, <2>16, <2>17, <2>18, Assemble DEF ProcInv
<1>9. Addr(a) >= end <=> ~(Addr(a) < end)
  <2>1. Addr(a) \in Nat  BY <1>3, AddrFacts
  <2> HIDE DEF a, end
  <2> QED  BY <1>3, <2>1
<1> QED  BY <1>7, <1>8, <1>9 DEF GrowStep, Addr

\* A step that changes two processes.
LEMMA AssembleTwo ==
  ASSUME MemoryInv, TypeOK', CpuInv', ChildInv', PartInv', NEW p \in Proc, NEW q \in Proc,
         ProcInv(p)', ProcInv(q)', \A r \in Proc : r # p /\ r # q => Same(r)
  PROVE  MemoryInv'
<1>1. \A r \in Proc : r # p /\ r # q => ProcInv(r)'  BY SameProc DEF MemoryInv
<1> QED  BY <1>1 DEF MemoryInv

\* Two owners give pages to each other or to the free ones.
LEMMA TwoOwnerPart ==
  ASSUME TypeOK, PartInv, TypeOK', NEW o \in Owner, NEW u \in Owner, o # u,
         Redistributed({o, u})
  PROVE  PartInv'
BY PartStep

\* fork() takes a slot and a stack.
LEMMA ForkBegins ==
  ASSUME MemoryInv, NEW p \in Proc, Fork(p)
  PROVE  MemoryInv'
<1>1. /\ call[p].at = "user" /\ state[p] = "RUNNING" /\ vm[p] # None
      /\ free \in SUBSET Page
      /\ call[p] \in CallState /\ SlotInv(p) /\ MapInv(p) /\ TableInv(p)
  BY RunningFacts DEF Fork
<1>2. PICK q \in Proc :
        /\ state[q] = "UNUSED" /\ free # {}
        /\ state' = [state EXCEPT ![q] = "EMBRYO"]
        /\ kstack' = [kstack EXCEPT ![q] = kalloc(q, free)]
        /\ free' = free \ {kalloc(q, free)}
        /\ call' = [call EXCEPT ![p].at = "copy", ![p].child = q]
  BY DEF Fork
<1>3. UNCHANGED <<vm, sz, new, cpu, cr3, lock>>  BY DEF Fork, cpus
<1> DEFINE s == kalloc(q, free)
<1>4. s \in free /\ s \in Page /\ s # None  BY <1>1, <1>2, PickFacts, MemoryAssumption
<1>5. p # q  BY <1>1, <1>2
<1> HIDE DEF s
<1>6. call' \in [Proc -> CallState] /\ call'[p].at = "copy" /\ call'[p].child = q
      /\ call'[p].a = call[p].a /\ \A r \in Proc : r # p => call'[r] = call[r]
  <2> DEFINE z == [call[p] EXCEPT !.at = "copy", !.child = q]
  <2>1. z \in CallState /\ z.at = "copy" /\ z.child = q /\ z.a = call[p].a
    BY <1>1 DEF CallState, Label
  <2>2. call' = [call EXCEPT ![p] = z]  BY <1>2
  <2> HIDE DEF z
  <2> QED  BY <2>1, <2>2 DEF MemoryInv, TypeOK
<1>7. /\ kstack' \in [Proc -> Page \cup {None}] /\ kstack'[q] = s
      /\ \A r \in Proc : r # q => kstack'[r] = kstack[r]
  BY <1>2, <1>4 DEF MemoryInv, TypeOK, s
<1>8. state'[q] = "EMBRYO" /\ \A r \in Proc : r # q => state'[r] = state[r]
  BY <1>2 DEF MemoryInv, TypeOK
<1>9. TypeOK'
  <2>1. free' \subseteq Page  BY <1>1, <1>2
  <2>2. state' \in [Proc -> {"UNUSED", "EMBRYO", "RUNNABLE", "RUNNING", "ZOMBIE"}]
    BY <1>2 DEF MemoryInv, TypeOK
  <2> QED  BY <1>3, <1>6, <1>7, <2>1, <2>2 DEF MemoryInv, TypeOK
<1>10. SlotInv(q) /\ MapInv(q) /\ TableInv(q)  BY DEF MemoryInv, ProcInv
<1>11. kstack[q] = None /\ vm[q] = None /\ call[q].at = "user" /\ new[q] = None
  BY <1>2, <1>10 DEF SlotInv
<1>12. PartInv'
  <2>1. None \notin Page  BY MemoryAssumption
  <2>2. StackChanged(q)  BY <1>2, <1>3, <1>4, <1>7, <1>11, <2>1 DEF StackChanged, s
  <2> QED  BY <1>9, <2>2, OneOwnerPart DEF MemoryInv
<1>13. ProcInv(q)'
  <2>1. SlotInv(q)'  BY <1>3, <1>4, <1>5, <1>6, <1>7, <1>8, <1>11 DEF SlotInv
  <2>2. MapInv(q)'  BY <1>3, <1>5, <1>6, <1>10 DEF MapInv
  <2>3. TableInv(q)'  BY <1>3, <1>10 DEF TableInv
  <2> QED  BY <2>1, <2>2, <2>3 DEF ProcInv
<1>14. ProcInv(p)'
  <2>1. SlotInv(p)'  BY <1>1, <1>3, <1>5, <1>6, <1>7, <1>8 DEF SlotInv
  <2>2. MapInv(p)'
    <3>1. Mapped(vm[p], sz[p]) /\ call[p].a = 0 /\ new[p] = None
      BY <1>1 DEF MapInv, SlotInv
    <3> QED  BY <1>3, <1>6, <3>1 DEF MapInv
  <2>3. TableInv(p)'  BY <1>1, <1>3 DEF TableInv
  <2> QED  BY <2>1, <2>2, <2>3 DEF ProcInv
<1>15. \A r \in Proc : r # p /\ r # q => Same(r)  BY <1>3, <1>6, <1>7, <1>8 DEF Same
<1>16. ChildInv'
  <2>1. \A r \in Proc : r # p /\ call[r].at = "copy" => call[r].child \in Proc /\ call[r].child # q
    BY <1>2 DEF MemoryInv, ChildInv
  <2>2. (\A r \in Proc : call[r].at = "copy" =>
           call[r].child \in Proc /\ state[call[r].child] = "EMBRYO")'
    BY <1>6, <1>8, <2>1 DEF MemoryInv, ChildInv
  <2>3. (\A r, x \in Proc :
           call[r].at = "copy" /\ call[x].at = "copy" /\ r # x => call[r].child # call[x].child)'
    BY <1>6, <2>1 DEF MemoryInv, ChildInv
  <2> QED  BY <2>2, <2>3 DEF ChildInv
<1>17. CpuInv'
  <2>1. \A c \in CPU : cpu[c] # None =>
          cpu[c] \in Proc /\ cpu[c] # q /\ cr3[c] = vm[cpu[c]].dir
    BY <1>2 DEF MemoryInv, TypeOK, CpuInv
  <2> QED  BY <1>3, <1>8, <2>1, SameCpu DEF MemoryInv
<1> QED  BY <1>9, <1>12, <1>13, <1>14, <1>15, <1>16, <1>17, AssembleTwo

\* What fork() builds for.
LEMMA ChildFacts ==
  ASSUME MemoryInv, NEW p \in Proc, Running(p, "copy")
  PROVE  \E q \in Proc :
           /\ q = call[p].child /\ p # q
           /\ state[q] = "EMBRYO" /\ vm[q] = None /\ new[q] = None
           /\ call[q].at = "user" /\ kstack[q] \in Page
           /\ SlotInv(q) /\ MapInv(q) /\ TableInv(q)
           /\ \A c \in CPU : cpu[c] # None =>
                cpu[c] \in Proc /\ cpu[c] # q /\ cr3[c] = vm[cpu[c]].dir
           /\ \A r \in Proc : r # p /\ call[r].at = "copy" => call[r].child # q
<1>1. call[p].at = "copy" /\ state[p] = "RUNNING"  BY RunningFacts
<1>2. PICK q \in Proc : q = call[p].child /\ state[q] = "EMBRYO" /\ p # q
  BY <1>1 DEF MemoryInv, ChildInv
<1>3. \A r \in Proc : r # p /\ call[r].at = "copy" => call[r].child # q
  BY <1>1, <1>2 DEF MemoryInv, ChildInv
<1>4. SlotInv(q) /\ MapInv(q) /\ TableInv(q)  BY <1>2 DEF MemoryInv, ProcInv
<1>5. vm[q] = None /\ new[q] = None /\ call[q].at = "user" /\ kstack[q] # None
  BY <1>2, <1>4 DEF SlotInv
<1>6. kstack[q] \in Page  BY <1>2, <1>5 DEF MemoryInv, TypeOK
<1>7. \A c \in CPU : cpu[c] # None =>
        cpu[c] \in Proc /\ cpu[c] # q /\ cr3[c] = vm[cpu[c]].dir
  BY <1>2 DEF MemoryInv, TypeOK, CpuInv
<1> QED  BY <1>2, <1>3, <1>4, <1>5, <1>6, <1>7

\* The slot, the stack and the half-built table are given back.
LEMMA ForkFailsStep ==
  ASSUME MemoryInv, NEW p \in Proc, Running(p, "copy"), NEW fr \in SUBSET Page,
         \A pg \in Page : pg \in fr <=> pg \in free \/ pg \in PagesOf(new[p]),
         ForkFails(p, fr), UNCHANGED <<vm, sz, cpu, cr3, lock>>
  PROVE  MemoryInv'
<1>1. /\ call[p].at = "copy" /\ state[p] = "RUNNING" /\ vm[p] # None
      /\ free \in SUBSET Page
      /\ call[p] \in CallState /\ SlotInv(p) /\ MapInv(p) /\ TableInv(p)
  BY RunningFacts
<1>2. PICK q \in Proc :
        /\ q = call[p].child /\ p # q
        /\ state[q] = "EMBRYO" /\ vm[q] = None /\ new[q] = None
        /\ call[q].at = "user" /\ kstack[q] \in Page
        /\ SlotInv(q) /\ MapInv(q) /\ TableInv(q)
        /\ \A c \in CPU : cpu[c] # None =>
             cpu[c] \in Proc /\ cpu[c] # q /\ cr3[c] = vm[cpu[c]].dir
        /\ \A r \in Proc : r # p /\ call[r].at = "copy" => call[r].child # q
  BY ChildFacts
<1>3. /\ free' = fr \cup {kstack[q]}
      /\ kstack' = [kstack EXCEPT ![q] = None]
      /\ state' = [state EXCEPT ![q] = "UNUSED"]
      /\ new' = [new EXCEPT ![p] = None]
      /\ call' = [call EXCEPT ![p] = At("user")]
  BY <1>2 DEF ForkFails, Goto, kfree
<1>4. At("user") \in CallState /\ At("user").at = "user" /\ At("user").a = 0
  BY DEF At, CallState, Label
<1>5. /\ call' \in [Proc -> CallState] /\ call'[p] = At("user")
      /\ \A r \in Proc : r # p => call'[r] = call[r]
  BY <1>3, <1>4 DEF MemoryInv, TypeOK
<1>6. /\ kstack' \in [Proc -> Page \cup {None}] /\ kstack'[q] = None
      /\ \A r \in Proc : r # q => kstack'[r] = kstack[r]
  BY <1>2, <1>3 DEF MemoryInv, TypeOK
<1>7. /\ state' \in [Proc -> {"UNUSED", "EMBRYO", "RUNNABLE", "RUNNING", "ZOMBIE"}]
      /\ state'[q] = "UNUSED" /\ \A r \in Proc : r # q => state'[r] = state[r]
  BY <1>2, <1>3 DEF MemoryInv, TypeOK
<1>8. /\ new' \in [Proc -> AddressSpace \cup {None}] /\ new'[p] = None
      /\ \A r \in Proc : r # p => new'[r] = new[r]
  BY <1>3 DEF MemoryInv, TypeOK
<1>9. free' \subseteq Page  BY <1>2, <1>3
<1>10. TypeOK'  BY <1>5, <1>6, <1>7, <1>8, <1>9 DEF MemoryInv, TypeOK
<1>11. PartInv'
  <2> DEFINE o == <<p, "new">>
             u == <<q, "kstack">>
  <2>1. o \in Owner /\ u \in Owner /\ o # u  BY <1>2, OwnFacts DEF Kind
  <2>2. /\ \A r \in Proc : r # p => <<r, "new">> # o
        /\ \A r \in Proc : r # q => <<r, "kstack">> # u
    OBVIOUS
  <2>3. /\ Own(o) = PagesOf(new[p]) /\ Own(o)' = {}
        /\ Own(u) = {kstack[q]} \ {None} /\ Own(u)' = {}
    BY <1>2, <1>6, <1>8, OwnFacts, PagesOfFacts
  <2> HIDE DEF o, u
  <2>4. Own(u) = {kstack[q]}  BY <1>2, <2>3, MemoryAssumption
  <2>5. \A r \in Proc : /\ <<r, "vm">> \in {o, u} \/ vm'[r] = vm[r]
                        /\ <<r, "new">> \in {o, u} \/ new'[r] = new[r]
                        /\ <<r, "kstack">> \in {o, u} \/ kstack'[r] = kstack[r]
    BY <1>6, <1>8, <2>2 DEF o, u
  <2>6. \A pg \in Page : (pg \in free' \/ \E x \in {o, u} : pg \in Own(x)')
                           <=> (pg \in free \/ \E x \in {o, u} : pg \in Own(x))
    BY <1>3, <2>3, <2>4
  <2>7. Redistributed({o, u})  BY <2>1, <2>3, <2>5, <2>6 DEF Redistributed
  <2> QED  BY <1>10, <2>1, <2>7, TwoOwnerPart DEF MemoryInv
<1>12. ProcInv(q)'
  <2>1. SlotInv(q)'  BY <1>2, <1>5, <1>6, <1>7, <1>8 DEF SlotInv
  <2>2. MapInv(q)'  BY <1>2, <1>5, <1>8 DEF MapInv
  <2>3. TableInv(q)'  BY <1>2, <1>8 DEF TableInv
  <2> QED  BY <2>1, <2>2, <2>3 DEF ProcInv
<1>13. ProcInv(p)'
  <2>1. SlotInv(p)'  BY <1>1, <1>2, <1>4, <1>5, <1>6, <1>7, <1>8 DEF SlotInv
  <2>2. MapInv(p)'  BY <1>1, <1>4, <1>5, <1>8 DEF MapInv
  <2>3. TableInv(p)'  BY <1>1, <1>8 DEF TableInv
  <2> QED  BY <2>1, <2>2, <2>3 DEF ProcInv
<1>14. \A r \in Proc : r # p /\ r # q => Same(r)  BY <1>5, <1>6, <1>7, <1>8 DEF Same
<1>15. ChildInv'
  <2>1. \A r \in Proc : call'[r].at = "copy" =>
          /\ r # p /\ call'[r] = call[r] /\ call[r].child \in Proc /\ call[r].child # q
          /\ state[call[r].child] = "EMBRYO"
    BY <1>2, <1>4, <1>5 DEF MemoryInv, ChildInv
  <2>2. (\A r \in Proc : call[r].at = "copy" =>
           call[r].child \in Proc /\ state[call[r].child] = "EMBRYO")'
    BY <1>7, <2>1
  <2>3. (\A r, x \in Proc :
           call[r].at = "copy" /\ call[x].at = "copy" /\ r # x => call[r].child # call[x].child)'
    BY <2>1 DEF MemoryInv, ChildInv
  <2> QED  BY <2>2, <2>3 DEF ChildInv
<1>16. CpuInv'  BY <1>2, <1>7, SameCpu DEF MemoryInv
<1> QED  BY <1>2, <1>10, <1>11, <1>12, <1>13, <1>14, <1>15, <1>16, AssembleTwo

\* copyuvm() begins.
LEMMA ForkSetupStep ==
  ASSUME MemoryInv, NEW p \in Proc, ForkSetup(p)
  PROVE  MemoryInv'
<1>1. /\ call[p].at = "copy" /\ state[p] = "RUNNING" /\ vm[p] # None
      /\ free \in SUBSET Page
      /\ call[p] \in CallState /\ SlotInv(p) /\ MapInv(p) /\ TableInv(p)
  BY RunningFacts DEF ForkSetup
<1>2. new[p] = None /\ UNCHANGED <<vm, sz, cpu, cr3, lock>>  BY DEF ForkSetup, cpus
<1> DEFINE k == setupkvm(p, free)
<1>3. /\ k.st \in {"ok", "fail"}
      /\ k.st = "fail" => k.free = free
      /\ k.st = "ok" => /\ k.as \in AddressSpace /\ Apart(k.as, k.free) /\ k.free \subseteq Page
                        /\ \A b \in UserPage : k.as.pte[b] = None
                        /\ \A pg \in Page : Holds(k.as, pg) \/ pg \in k.free <=> pg \in free
  BY <1>1, SetupFacts
<1>4. \/ k.st = "fail" /\ ForkFails(p, k.free)
      \/ /\ k.st = "ok" /\ new' = [new EXCEPT ![p] = k.as] /\ free' = k.free
         /\ UNCHANGED <<state, kstack, call>>
  BY <1>3 DEF ForkSetup, procs
<1> HIDE DEF k
<1>5. CASE k.st = "fail" /\ ForkFails(p, k.free)
  <2>1. PagesOf(new[p]) = {}  BY <1>2, PagesOfFacts
  <2>2. Running(p, "copy") /\ ForkFails(p, free)  BY <1>3, <1>5 DEF ForkSetup
  <2> QED  BY <1>1, <1>2, <2>1, <2>2, ForkFailsStep
<1>6. CASE /\ k.st = "ok" /\ new' = [new EXCEPT ![p] = k.as] /\ free' = k.free
           /\ UNCHANGED <<state, kstack, call>>
  <2>1. /\ new' \in [Proc -> AddressSpace \cup {None}] /\ new'[p] = k.as
        /\ \A r \in Proc : r # p => new'[r] = new[r]
    BY <1>3, <1>6 DEF MemoryInv, TypeOK
  <2>2. TypeOK'  BY <1>2, <1>3, <1>6, <2>1 DEF MemoryInv, TypeOK
  <2>3. k.as # None  BY <1>3, <1>6, NoneAssumption
  <2>4. PartInv'
    <3>1. \A pg \in free' : pg \notin PagesOf(new'[p])
      BY <1>3, <1>6, <2>1, PagesOfFacts DEF Apart
    <3>2. \A pg \in Page : pg \in PagesOf(new'[p]) \/ pg \in free'
                             <=> pg \in PagesOf(new[p]) \/ pg \in free
      BY <1>2, <1>3, <1>6, <2>1, PagesOfFacts
    <3>3. NewChanged(p)  BY <1>2, <1>6, <2>1, <3>1, <3>2 DEF NewChanged
    <3> QED  BY <2>2, <3>3, OneOwnerPart DEF MemoryInv
  <2>5. SlotInv(p)'  BY <1>1, <1>2, <1>6, <2>1, <2>3 DEF SlotInv
  <2>6. MapInv(p)'
    <3>1. call[p].a = 0 /\ Mapped(vm[p], sz[p])  BY <1>1, <1>2 DEF MapInv
    <3>2. \A b \in UserPage : ~(b < 0)  BY UserPageFacts
    <3>3. Upto(k.as, 0, sz[p])  BY <1>3, <1>6, <3>2 DEF Upto
    <3> QED  BY <1>1, <1>2, <1>6, <2>1, <2>3, <3>1, <3>3 DEF MapInv
  <2>7. TableInv(p)'  BY <1>1, <1>2, <1>3, <1>6, <2>1 DEF TableInv, Apart
  <2> QED  BY <1>2, <1>6, <2>1, <2>2, <2>4, <2>5, <2>6, <2>7, CallStep
<1> QED  BY <1>4, <1>5, <1>6

\* A page of the child.
LEMMA ForkCopyStep ==
  ASSUME MemoryInv, NEW p \in Proc, ForkCopy(p)
  PROVE  MemoryInv'
<1> DEFINE a == call[p].a
           m == mappage(p, new[p], free, a, vm[p].pte[a].user)
<1>1. /\ call[p].at = "copy" /\ state[p] = "RUNNING" /\ vm[p] # None /\ vm[p] \in AddressSpace
      /\ free \in SUBSET Page /\ sz[p] \in 0 .. KERNBASE
      /\ call[p] \in CallState /\ SlotInv(p) /\ MapInv(p) /\ TableInv(p)
  BY RunningFacts DEF ForkCopy
<1>2. new[p] # None /\ UNCHANGED <<vm, sz, cpu, cr3, lock>> /\ Addr(a) < sz[p]
  BY DEF ForkCopy, cpus, Addr
<1>3. new[p] \in AddressSpace  BY <1>2, TablesApart
<1>4. a \in Nat /\ sz[p] \in Nat  BY <1>1, MemoryAssumption DEF CallState
<1>5. Upto(new[p], a, sz[p]) /\ Mapped(vm[p], sz[p])  BY <1>1, <1>2 DEF MapInv
<1>6. a \in UserPage
  <2> HIDE DEF a
  <2> QED  BY <1>1, <1>2, <1>4, InRange
<1>7. vm[p].pte[a] # None /\ vm[p].pte[a].user \in BOOLEAN /\ new[p].pte[a] = None
  <2> HIDE DEF a
  <2>1. vm[p].pte[a] # None  BY <1>2, <1>5, <1>6 DEF Mapped
  <2>2. vm[p].pte[a] \in PTE  BY <1>1, <1>6, <2>1 DEF AddressSpace
  <2>3. vm[p].pte[a].user \in BOOLEAN  BY <2>2 DEF PTE
  <2>4. ~(a < a)  BY <1>4
  <2> QED  BY <1>5, <1>6, <2>1, <2>3, <2>4 DEF Upto
<1>8. /\ m.st \in {"ok", "fail", "panic"}
      /\ m.st = "panic" => new[p].pte[a] # None
      /\ m.st = "fail" => m.free = free
      /\ m.st = "ok" =>
           /\ Trades(new[p], free, m.as, m.free)
           /\ \A b \in UserPage : m.as.pte[b] # None <=> b = a \/ new[p].pte[b] # None
  <2> DEFINE u == vm[p].pte[a].user
  <2>1. u \in BOOLEAN  BY <1>7
  <2> HIDE DEF a, u
  <2>2. m = mappage(p, new[p], free, a, u)  BY DEF u
  <2> HIDE DEF m
  <2>3. Maps(new[p], free, a, m)  BY <1>1, <1>3, <1>6, <2>1, <2>2, MappageFacts
  <2> QED  BY <2>3 DEF Maps
<1>9. \/ m.st = "fail" /\ ForkFails(p, freevm(new[p], m.free))
      \/ /\ m.st = "ok" /\ new' = [new EXCEPT ![p] = m.as] /\ free' = m.free
         /\ call' = [call EXCEPT ![p].a = a + 1] /\ UNCHANGED <<state, kstack>>
  <2>1. m.st = "ok" \/ m.st = "fail"  BY <1>7, <1>8
  <2>2. IF vm[p].pte[a] = None \/ m.st = "panic"
        THEN Goto(p, "panic") /\ UNCHANGED <<free, procs, new>>
        ELSE IF m.st = "fail" THEN ForkFails(p, freevm(new[p], m.free))
        ELSE /\ new' = [new EXCEPT ![p] = m.as] /\ free' = m.free
             /\ call' = [call EXCEPT ![p].a = @ + 1]
             /\ UNCHANGED procs
    BY DEF ForkCopy
  <2> HIDE DEF m
  <2> QED  BY <1>7, <2>1, <2>2 DEF procs
<1>10. CASE m.st = "fail" /\ ForkFails(p, freevm(new[p], m.free))
  <2> HIDE DEF m, a
  <2> DEFINE fr == freevm(new[p], free)
  <2>1. ForkFails(p, fr) /\ Running(p, "copy")  BY <1>8, <1>10 DEF ForkCopy
  <2>2. fr \in SUBSET Page /\ \A pg \in Page : pg \in fr <=> pg \in free \/ pg \in PagesOf(new[p])
    BY <1>1, <1>3, FreevmFacts, PagesOfFacts
  <2> HIDE DEF fr
  <2> QED  BY <1>2, <2>1, <2>2, ForkFailsStep
<1>11. CASE /\ m.st = "ok" /\ new' = [new EXCEPT ![p] = m.as] /\ free' = m.free
            /\ call' = [call EXCEPT ![p].a = a + 1] /\ UNCHANGED <<state, kstack>>
  <2> HIDE DEF m
  <2>1. Trades(new[p], free, m.as, m.free) /\ m.as \in AddressSpace /\ m.free \subseteq Page
    BY <1>8, <1>11 DEF Trades
  <2>2. /\ new' \in [Proc -> AddressSpace \cup {None}] /\ new'[p] = m.as
        /\ \A r \in Proc : r # p => new'[r] = new[r]
    BY <1>11, <2>1 DEF MemoryInv, TypeOK
  <2>3. /\ call' \in [Proc -> CallState] /\ call'[p].at = "copy" /\ call'[p].a = a + 1
        /\ call'[p].child = call[p].child /\ \A r \in Proc : r # p => call'[r] = call[r]
    <3> DEFINE z == [call[p] EXCEPT !.a = a + 1]
    <3>1. z \in CallState /\ z.at = "copy" /\ z.a = a + 1 /\ z.child = call[p].child
      BY <1>1, <1>4 DEF CallState
    <3>2. call' = [call EXCEPT ![p] = z]  BY <1>11
    <3> HIDE DEF z, a
    <3> QED  BY <3>1, <3>2 DEF MemoryInv, TypeOK
  <2>4. Upto(m.as, a + 1, sz[p])
    <3> HIDE DEF a
    <3> QED  BY <1>2, <1>4, <1>5, <1>6, <1>8, <1>11, UptoNext
  <2>5. m.as # None  BY <2>1, NoneAssumption
  <2>6. TypeOK'  BY <1>2, <1>11, <2>1, <2>2, <2>3 DEF MemoryInv, TypeOK
  <2>7. PartInv' /\ TableInv(p)'  BY <1>2, <1>11, <2>1, <2>2, <2>6, NewTraded
  <2>8. SlotInv(p)'  BY <1>1, <1>2, <1>11, <2>2, <2>3, <2>5 DEF SlotInv
  <2>9. MapInv(p)'
    <3> DEFINE b == a + 1
    <3>1. call'[p].a = b /\ Upto(m.as, b, sz[p])  BY <2>3, <2>4
    <3> HIDE DEF a, b
    <3> QED  BY <1>2, <1>5, <2>2, <2>3, <2>5, <3>1 DEF MapInv
  <2> QED  BY <1>1, <1>2, <1>11, <2>2, <2>3, <2>6, <2>7, <2>8, <2>9, CallStep
<1> QED  BY <1>9, <1>10, <1>11

\* The child gets its table.
LEMMA ForkDoneStep ==
  ASSUME MemoryInv, NEW p \in Proc, ForkDone(p)
  PROVE  MemoryInv'
<1>1. /\ call[p].at = "copy" /\ state[p] = "RUNNING" /\ vm[p] # None
      /\ free \in SUBSET Page /\ sz[p] \in 0 .. KERNBASE
      /\ call[p] \in CallState /\ SlotInv(p) /\ MapInv(p) /\ TableInv(p)
  BY RunningFacts DEF ForkDone
<1>2. PICK q \in Proc :
        /\ q = call[p].child /\ p # q
        /\ state[q] = "EMBRYO" /\ vm[q] = None /\ new[q] = None
        /\ call[q].at = "user" /\ kstack[q] \in Page
        /\ SlotInv(q) /\ MapInv(q) /\ TableInv(q)
        /\ \A c \in CPU : cpu[c] # None =>
             cpu[c] \in Proc /\ cpu[c] # q /\ cr3[c] = vm[cpu[c]].dir
        /\ \A r \in Proc : r # p /\ call[r].at = "copy" => call[r].child # q
  BY ChildFacts DEF ForkDone
<1>3. /\ new[p] # None
      /\ vm' = [vm EXCEPT ![q] = new[p]]
      /\ sz' = [sz EXCEPT ![q] = sz[p]]
      /\ state' = [state EXCEPT ![q] = "RUNNABLE"]
      /\ new' = [new EXCEPT ![p] = None]
      /\ call' = [call EXCEPT ![p] = At("user")]
      /\ UNCHANGED <<free, kstack, cpu, cr3, lock>>
  BY <1>2 DEF ForkDone, Goto, cpus
<1>4. At("user") \in CallState /\ At("user").at = "user" /\ At("user").a = 0
  BY DEF At, CallState, Label
<1>5. /\ call' \in [Proc -> CallState] /\ call'[p] = At("user")
      /\ \A r \in Proc : r # p => call'[r] = call[r]
  BY <1>3, <1>4 DEF MemoryInv, TypeOK
<1>6. new[p] \in AddressSpace  BY <1>3, TablesApart
<1>7. /\ vm' \in [Proc -> AddressSpace \cup {None}] /\ vm'[q] = new[p]
      /\ \A r \in Proc : r # q => vm'[r] = vm[r]
  BY <1>3, <1>6 DEF MemoryInv, TypeOK
<1>8. /\ new' \in [Proc -> AddressSpace \cup {None}] /\ new'[p] = None
      /\ \A r \in Proc : r # p => new'[r] = new[r]
  BY <1>3 DEF MemoryInv, TypeOK
<1>9. /\ state' \in [Proc -> {"UNUSED", "EMBRYO", "RUNNABLE", "RUNNING", "ZOMBIE"}]
      /\ state'[q] = "RUNNABLE" /\ \A r \in Proc : r # q => state'[r] = state[r]
  BY <1>3 DEF MemoryInv, TypeOK
<1>10. /\ sz' \in [Proc -> 0 .. KERNBASE] /\ sz'[q] = sz[p]
       /\ \A r \in Proc : r # q => sz'[r] = sz[r]
  BY <1>1, <1>3 DEF MemoryInv, TypeOK
<1>11. TypeOK'  BY <1>3, <1>5, <1>7, <1>8, <1>9, <1>10 DEF MemoryInv, TypeOK
<1>12. PartInv'
  <2> DEFINE o == <<p, "new">>
             u == <<q, "vm">>
  <2>1. o \in Owner /\ u \in Owner /\ o # u  BY <1>2, OwnFacts DEF Kind
  <2>2. /\ \A r \in Proc : r # p => <<r, "new">> # o
        /\ \A r \in Proc : r # q => <<r, "vm">> # u
    OBVIOUS
  <2>3. /\ Own(o) = PagesOf(new[p]) /\ Own(o)' = {}
        /\ Own(u) = {} /\ Own(u)' = PagesOf(new[p])
    <3>1. /\ Own(o) = PagesOf(new[p]) /\ Own(o)' = PagesOf(new'[p])
          /\ Own(u) = PagesOf(vm[q]) /\ Own(u)' = PagesOf(vm'[q])
      BY OwnFacts
    <3> HIDE DEF o, u
    <3> QED  BY <1>2, <1>7, <1>8, <3>1, PagesOfFacts
  <2> HIDE DEF o, u
  <2>4. \A pg \in free' : pg \notin Own(o)  BY <1>3, <2>1 DEF MemoryInv, PartInv
  <2>5. \A r \in Proc : /\ <<r, "vm">> \in {o, u} \/ vm'[r] = vm[r]
                        /\ <<r, "new">> \in {o, u} \/ new'[r] = new[r]
                        /\ <<r, "kstack">> \in {o, u} \/ kstack'[r] = kstack[r]
    BY <1>3, <1>7, <1>8, <2>2 DEF o, u
  <2>6. \A pg \in Page : (pg \in free' \/ \E x \in {o, u} : pg \in Own(x)')
                           <=> (pg \in free \/ \E x \in {o, u} : pg \in Own(x))
    BY <1>3, <2>3
  <2>7. Redistributed({o, u})  BY <2>1, <2>3, <2>4, <2>5, <2>6 DEF Redistributed
  <2> QED  BY <1>11, <2>1, <2>7, TwoOwnerPart DEF MemoryInv
<1>13. ProcInv(q)'
  <2>1. SlotInv(q)'  BY <1>2, <1>3, <1>5, <1>7, <1>8, <1>9 DEF SlotInv
  <2>2. MapInv(q)'
    <3>1. Mapped(new[p], sz[p])
      <4>1. call[p].a \in Nat /\ sz[p] \in Nat /\ Addr(call[p].a) \in Nat
        <5>1. call[p].a \in Nat /\ sz[p] \in Nat  BY <1>1, MemoryAssumption DEF CallState
        <5> QED  BY <5>1, AddrFacts
      <4>2. ~(Addr(call[p].a) < sz[p])  BY <4>1 DEF ForkDone, Addr
      <4>3. Upto(new[p], call[p].a, sz[p])  BY <1>1, <1>3 DEF MapInv
      <4> QED  BY <4>1, <4>2, <4>3, UptoEnd
    <3>2. call[q].a = 0  BY <1>2 DEF MapInv
    <3> QED  BY <1>2, <1>5, <1>7, <1>10, <3>1, <3>2 DEF MapInv
  <2>3. TableInv(q)'  BY <1>1, <1>2, <1>3, <1>7, <1>8 DEF TableInv
  <2> QED  BY <2>1, <2>2, <2>3 DEF ProcInv
<1>14. ProcInv(p)'
  <2>1. SlotInv(p)'  BY <1>1, <1>2, <1>3, <1>4, <1>5, <1>7, <1>8, <1>9 DEF SlotInv
  <2>2. MapInv(p)'
    <3>1. Mapped(vm[p], sz[p])  BY <1>1 DEF MapInv
    <3> QED  BY <1>2, <1>4, <1>5, <1>7, <1>10, <3>1 DEF MapInv
  <2>3. TableInv(p)'  BY <1>1, <1>2, <1>7, <1>8 DEF TableInv
  <2> QED  BY <2>1, <2>2, <2>3 DEF ProcInv
<1>15. \A r \in Proc : r # p /\ r # q => Same(r)
  BY <1>3, <1>5, <1>7, <1>8, <1>9, <1>10 DEF Same
<1>16. ChildInv'
  <2>1. \A r \in Proc : call'[r].at = "copy" =>
          /\ r # p /\ call'[r] = call[r] /\ call[r].child \in Proc /\ call[r].child # q
          /\ state[call[r].child] = "EMBRYO"
    BY <1>2, <1>4, <1>5 DEF MemoryInv, ChildInv
  <2>2. (\A r \in Proc : call[r].at = "copy" =>
           call[r].child \in Proc /\ state[call[r].child] = "EMBRYO")'
    BY <1>9, <2>1
  <2>3. (\A r, x \in Proc :
           call[r].at = "copy" /\ call[x].at = "copy" /\ r # x => call[r].child # call[x].child)'
    BY <2>1 DEF MemoryInv, ChildInv
  <2> QED  BY <2>2, <2>3 DEF ChildInv
<1>17. CpuInv'
  <2>1. \A c \in CPU : cpu[c] # None => state'[cpu[c]] = state[cpu[c]] /\ cr3'[c] = vm'[cpu[c]].dir
    BY <1>2, <1>3, <1>7, <1>9
  <2> QED  BY <1>3, <2>1, SameCpu DEF MemoryInv
<1> QED  BY <1>11, <1>12, <1>13, <1>14, <1>15, <1>16, <1>17, AssembleTwo

\* freevm() of the table a call builds or replaces.
LEMMA ExecBadStep ==
  ASSUME MemoryInv, NEW p \in Proc, NEW l, Running(p, l), l # "copy", new[p] # None,
         ExecBad(p), UNCHANGED <<state, kstack, vm, sz, cpu, cr3, lock>>,
         l \notin {"grow", "fault"}
  PROVE  MemoryInv'
<1>1. /\ call[p].at = l /\ state[p] = "RUNNING" /\ vm[p] # None
      /\ free \in SUBSET Page
      /\ call[p] \in CallState /\ SlotInv(p) /\ MapInv(p) /\ TableInv(p)
  BY RunningFacts
<1>2. /\ free' = freevm(new[p], free)
      /\ new' = [new EXCEPT ![p] = None]
      /\ call' = [call EXCEPT ![p] = At("user")]
  BY DEF ExecBad, Goto
<1>3. At("user") \in CallState /\ At("user").at = "user" /\ At("user").a = 0
  BY DEF At, CallState, Label
<1>4. /\ call' \in [Proc -> CallState] /\ call'[p] = At("user")
      /\ \A r \in Proc : r # p => call'[r] = call[r]
  BY <1>2, <1>3 DEF MemoryInv, TypeOK
<1>5. /\ new' \in [Proc -> AddressSpace \cup {None}] /\ new'[p] = None
      /\ \A r \in Proc : r # p => new'[r] = new[r]
  BY <1>2 DEF MemoryInv, TypeOK
<1>6. new[p] \in AddressSpace  BY TablesApart
<1>7. free' \subseteq Page /\ \A pg \in Page : pg \in free' <=> pg \in free \/ Holds(new[p], pg)
  BY <1>1, <1>2, <1>6, FreevmFacts
<1>8. TypeOK'  BY <1>4, <1>5, <1>7 DEF MemoryInv, TypeOK
<1>9. PartInv'
  <2>1. NewChanged(p)  BY <1>5, <1>6, <1>7, PagesOfFacts DEF NewChanged
  <2> QED  BY <1>8, <2>1, OneOwnerPart DEF MemoryInv
<1>10. SlotInv(p)'  BY <1>1, <1>3, <1>4, <1>5 DEF SlotInv
<1>11. MapInv(p)'
  <2>1. Mapped(vm[p], sz[p])  BY <1>1 DEF MapInv
  <2> QED  BY <1>3, <1>4, <2>1 DEF MapInv
<1>12. TableInv(p)'  BY <1>1, <1>5 DEF TableInv
<1> QED  BY <1>3, <1>4, <1>5, <1>8, <1>9, <1>10, <1>11, <1>12, CallStep

\* exec() begins.
LEMMA ExecStep ==
  ASSUME MemoryInv, NEW p \in Proc, Exec(p)
  PROVE  MemoryInv'
<1>1. /\ call[p].at = "user" /\ state[p] = "RUNNING" /\ vm[p] # None
      /\ free \in SUBSET Page
      /\ call[p] \in CallState /\ SlotInv(p) /\ MapInv(p) /\ TableInv(p)
  BY RunningFacts DEF Exec
<1> DEFINE k == setupkvm(p, free)
<1>2. /\ k.st = "ok" /\ new' = [new EXCEPT ![p] = k.as] /\ free' = k.free
      /\ call' = [call EXCEPT ![p] = At("load")]
      /\ UNCHANGED <<state, kstack, vm, sz, cpu, cr3, lock>>
  BY DEF Exec, Goto, procs, cpus
<1>3. /\ k.as \in AddressSpace /\ Apart(k.as, k.free) /\ k.free \subseteq Page
      /\ \A b \in UserPage : k.as.pte[b] = None
      /\ \A pg \in Page : Holds(k.as, pg) \/ pg \in k.free <=> pg \in free
  BY <1>1, <1>2, SetupFacts
<1> HIDE DEF k
<1>4. At("load") \in CallState /\ At("load").at = "load" /\ At("load").sz = 0
  BY DEF At, CallState, Label
<1>5. /\ call' \in [Proc -> CallState] /\ call'[p] = At("load")
      /\ \A r \in Proc : r # p => call'[r] = call[r]
  BY <1>2, <1>4 DEF MemoryInv, TypeOK
<1>6. /\ new' \in [Proc -> AddressSpace \cup {None}] /\ new'[p] = k.as
      /\ \A r \in Proc : r # p => new'[r] = new[r]
  BY <1>2, <1>3 DEF MemoryInv, TypeOK
<1>7. TypeOK'  BY <1>2, <1>3, <1>5, <1>6 DEF MemoryInv, TypeOK
<1>8. k.as # None /\ new[p] = None  BY <1>1, <1>3, NoneAssumption DEF SlotInv
<1>9. PartInv'
  <2>1. \A pg \in free' : pg \notin PagesOf(new'[p])
    BY <1>2, <1>3, <1>6, PagesOfFacts DEF Apart
  <2>2. \A pg \in Page : pg \in PagesOf(new'[p]) \/ pg \in free'
                           <=> pg \in PagesOf(new[p]) \/ pg \in free
    BY <1>2, <1>3, <1>6, <1>8, PagesOfFacts
  <2>3. NewChanged(p)  BY <1>2, <1>6, <2>1, <2>2 DEF NewChanged
  <2> QED  BY <1>7, <2>3, OneOwnerPart DEF MemoryInv
<1>10. SlotInv(p)'  BY <1>1, <1>2, <1>4, <1>5, <1>6, <1>8 DEF SlotInv
<1>11. MapInv(p)'
  <2>1. Mapped(vm[p], sz[p])  BY <1>1 DEF MapInv
  <2>2. \A b \in UserPage : ~(Addr(b) < 0)  BY UserPageFacts, AddrFacts
  <2>3. Mapped(k.as, 0)  BY <1>3, <2>2 DEF Mapped
  <2>4. 0 < KERNBASE  BY MemoryAssumption
  <2> QED  BY <1>2, <1>4, <1>5, <1>6, <2>1, <2>3, <2>4 DEF MapInv
<1>12. TableInv(p)'  BY <1>1, <1>2, <1>3, <1>6 DEF TableInv, Apart
<1> QED  BY <1>2, <1>4, <1>5, <1>6, <1>7, <1>9, <1>10, <1>11, <1>12, CallStep

\* A step of exec() that only moves on in the call.
LEMMA ExecMoves ==
  ASSUME MemoryInv, NEW p \in Proc, NEW l, Running(p, l), l \in {"load", "segment", "stack"},
         UNCHANGED <<free, new, state, kstack, vm, sz, cpu, cr3, lock>>,
         NEW c \in CallState, call' = [call EXCEPT ![p] = c],
         c.at \in {"load", "segment", "stack"},
         c.at = "load" => Mapped(new[p], c.sz) /\ c.sz < KERNBASE,
         c.at # "load" => Upto(new[p], c.a, c.end) /\ c.end < KERNBASE,
         c.at = "stack" => \E k \in Nat : c.end = Addr(k + 2)
  PROVE  MemoryInv'
<1>1. /\ call[p].at = l /\ state[p] = "RUNNING" /\ vm[p] # None
      /\ SlotInv(p) /\ MapInv(p) /\ TableInv(p)
  BY RunningFacts
<1>2. /\ call' \in [Proc -> CallState] /\ call'[p] = c
      /\ \A r \in Proc : r # p => call'[r] = call[r]
  BY DEF MemoryInv, TypeOK
<1>3. TypeOK'  BY <1>2 DEF MemoryInv, TypeOK
<1>4. PartInv'  BY DEF MemoryInv, PartInv, Own
<1>5. SlotInv(p)'  BY <1>1, <1>2 DEF SlotInv
<1>6. MapInv(p)'
  <2>1. Mapped(vm[p], sz[p])  BY <1>1 DEF MapInv
  <2> QED  BY <1>2, <2>1 DEF MapInv
<1>7. TableInv(p)'  BY <1>1 DEF TableInv
<1> QED  BY <1>2, <1>3, <1>4, <1>5, <1>6, <1>7, CallStep

\* A program header.
LEMMA ExecLoadStep ==
  ASSUME MemoryInv, NEW p \in Proc, ExecLoad(p)
  PROVE  MemoryInv'
<1>1. /\ call[p].at = "load" /\ state[p] = "RUNNING" /\ vm[p] # None
      /\ call[p] \in CallState /\ SlotInv(p) /\ MapInv(p) /\ TableInv(p)
  BY RunningFacts DEF ExecLoad
<1>2. UNCHANGED <<state, kstack, vm, sz, cpu, cr3, lock>> /\ Running(p, "load")
  BY DEF ExecLoad, procs, cpus
<1>3. new[p] # None /\ Mapped(new[p], call[p].sz) /\ call[p].sz < KERNBASE
  BY <1>1 DEF SlotInv, MapInv
<1> DEFINE s == call[p].sz
           k == Pages(s)
           top == PGROUNDUP(s)
<1>4. s \in Nat /\ KERNBASE \in Nat  BY <1>1, MemoryAssumption DEF CallState
<1>5. k \in Nat /\ top = Addr(k) /\ \A a \in Nat : s <= Addr(a) <=> k <= a
  <2> HIDE DEF s
  <2> QED  BY <1>4, PagesFacts
<1>6. CASE ExecBad(p)  BY <1>2, <1>3, <1>6, ExecBadStep
<1>7. ASSUME NEW end \in Nat, NEW z \in Nat, NEW l \in {"segment", "stack"},
             ~(end >= KERNBASE), z = s \/ (z = top /\ z <= end), PGROUNDUP(z) \div PGSIZE = k,
             l = "stack" => z <= end /\ \E j \in Nat : end = Addr(j + 2),
             call' = [call EXCEPT ![p].sz = z,
                        ![p].at = IF end < z THEN @ ELSE l,
                        ![p].a = PGROUNDUP(z) \div PGSIZE, ![p].end = end],
             UNCHANGED <<free, new>>
      PROVE  MemoryInv'
  <2> DEFINE at1 == IF end < z THEN "load" ELSE l
             c == [call[p] EXCEPT !.sz = z, !.at = at1, !.a = k, !.end = end]
  <2>1. call' = [call EXCEPT ![p] = c]
    <3> HIDE DEF k, s, top
    <3> QED  BY <1>1, <1>7
  <2>2. at1 \in {"load", l}  OBVIOUS
  <2> HIDE DEF k, s, top, at1
  <2>3. c \in CallState /\ c.at = at1 /\ c.sz = z /\ c.a = k /\ c.end = end
    BY <1>1, <1>5, <1>7, <2>2 DEF CallState, Label
  <2> HIDE DEF c
  <2>4. end < KERNBASE  BY <1>4, <1>7
  <2>5. at1 = "load" => z = s  BY <1>7 DEF at1
  <2>6. at1 # "load" => at1 = l /\ z <= end  BY <1>7 DEF at1
  <2>7. ASSUME at1 # "load" PROVE Upto(new[p], k, end)
    <3>1. \A a \in UserPage : a \in Nat /\ Addr(a) \in Nat  BY UserPageFacts, AddrFacts
    <3>2. s <= end
      <4>1. s <= Addr(k) /\ Addr(k) \in Nat  BY <1>5, AddrFacts
      <4> QED  BY <1>4, <1>5, <1>7, <2>6, <2>7, <4>1
    <3>3. ASSUME NEW a \in UserPage
          PROVE  (new[p].pte[a] # None <=> a < k) /\ (new[p].pte[a] # None => Addr(a) < end)
      <4>1. new[p].pte[a] # None <=> Addr(a) < s  BY <1>3 DEF Mapped, s
      <4>2. Addr(a) < s <=> a < k  BY <1>4, <1>5, <3>1
      <4>3. Addr(a) < s => Addr(a) < end  BY <1>4, <1>7, <3>1, <3>2
      <4> QED  BY <4>1, <4>2, <4>3
    <3> QED  BY <3>3 DEF Upto
  <2>8. at1 = "load" => Mapped(new[p], z) /\ z < KERNBASE  BY <1>3, <2>5 DEF s
  <2>9. at1 = "stack" => \E j \in Nat : end = Addr(j + 2)  BY <1>7, <2>6
  <2> QED  BY <1>2, <1>7, <2>1, <2>2, <2>3, <2>4, <2>7, <2>8, <2>9, ExecMoves
<1>8. ASSUME NEW e \in Segment, ExecAlloc(p, "segment", s, e) PROVE MemoryInv'
  <2>1. e \in Nat  BY MemoryAssumption
  <2>2. CASE e >= KERNBASE
    <3>1. ExecBad(p)  BY <1>8, <2>2 DEF ExecAlloc
    <3> QED  BY <1>6, <3>1
  <2>3. CASE ~(e >= KERNBASE)
    <3>1. /\ call' = [call EXCEPT ![p].sz = s,
                        ![p].at = IF e < s THEN @ ELSE "segment",
                        ![p].a = PGROUNDUP(s) \div PGSIZE, ![p].end = e]
          /\ UNCHANGED <<free, new>>
      BY <1>8, <2>3 DEF ExecAlloc
    <3>2. PGROUNDUP(s) \div PGSIZE = k  BY DEF Pages
    <3> HIDE DEF k, s, top
    <3> QED  BY <1>4, <1>7, <2>1, <2>3, <3>1, <3>2
  <2> QED  BY <2>2, <2>3
<1>9. ASSUME ExecAlloc(p, "stack", top, top + 2 * PGSIZE) PROVE MemoryInv'
  <2> DEFINE e == top + 2 * PGSIZE
  <2> HIDE DEF k, s, top
  <2>1. top \in Nat /\ PGSIZE \in Nat  BY <1>5, AddrFacts, MemoryAssumption
  <2>2. e \in Nat /\ top <= e  BY <2>1
  <2>3. e = Addr(k + 2)
    <3>1. Addr(k + 1) = Addr(k) + PGSIZE  BY <1>5, AddrFacts
    <3>2. k + 1 \in Nat /\ (k + 1) + 1 = k + 2  BY <1>5
    <3>3. Addr((k + 1) + 1) = Addr(k + 1) + PGSIZE
      <4> DEFINE j == k + 1
      <4>1. j \in Nat  BY <3>2
      <4> HIDE DEF j
      <4>2. Addr(j + 1) = Addr(j) + PGSIZE  BY <4>1, AddrFacts
      <4> QED  BY <4>2 DEF j
    <3>4. Addr(k + 2) = (Addr(k) + PGSIZE) + PGSIZE  BY <3>1, <3>2, <3>3
    <3> QED  BY <1>5, <2>1, <3>4
  <2>4. PGROUNDUP(top) \div PGSIZE = k  BY <1>5, PagesOfAddr DEF Pages
  <2> HIDE DEF e
  <2>5. ExecAlloc(p, "stack", top, e)  BY <1>9 DEF e
  <2>6. CASE e >= KERNBASE
    <3>1. ExecBad(p)  BY <2>5, <2>6 DEF ExecAlloc
    <3> QED  BY <1>6, <3>1
  <2>7. CASE ~(e >= KERNBASE)
    <3>1. /\ call' = [call EXCEPT ![p].sz = top,
                        ![p].at = IF e < top THEN @ ELSE "stack",
                        ![p].a = PGROUNDUP(top) \div PGSIZE, ![p].end = e]
          /\ UNCHANGED <<free, new>>
      BY <2>5, <2>7 DEF ExecAlloc
    <3> QED  BY <1>5, <1>7, <2>1, <2>2, <2>3, <2>4, <2>7, <3>1
  <2> QED  BY <2>6, <2>7
<1> QED  BY <1>6, <1>8, <1>9 DEF ExecLoad

\* A round of allocuvm()'s loop in exec(), or its end.
LEMMA ExecAllocStepStep ==
  ASSUME MemoryInv, NEW p \in Proc, ExecAllocStep(p)
  PROVE  MemoryInv'
<1> DEFINE a == call[p].a
           end == call[p].end
           l == call[p].at
           more == Addr(a) < end
           m == mappage(p, new[p], free, a, TRUE)
<1>1. /\ Running(p, l) /\ l \in {"segment", "stack"} /\ state[p] = "RUNNING" /\ vm[p] # None
      /\ free \in SUBSET Page
      /\ call[p] \in CallState /\ SlotInv(p) /\ MapInv(p) /\ TableInv(p)
  <2>1. PICK x \in {"segment", "stack"} : Running(p, x)  BY DEF ExecAllocStep
  <2>2. l = x  BY <2>1 DEF Running
  <2> QED  BY <2>1, <2>2, RunningFacts
<1>2. UNCHANGED <<state, kstack, vm, sz, cpu, cr3, lock>>  BY DEF ExecAllocStep, procs, cpus
<1>3. a \in Nat /\ end \in Nat /\ KERNBASE \in Nat /\ Addr(a) \in Nat
  <2>1. a \in Nat /\ end \in Nat  BY <1>1 DEF CallState
  <2> HIDE DEF a, end
  <2> QED  BY <2>1, MemoryAssumption, AddrFacts
<1>4. new[p] # None /\ Upto(new[p], a, end) /\ end < KERNBASE
      /\ (l = "stack" => \E k \in Nat : end = Addr(k + 2)) /\ Mapped(vm[p], sz[p])
  BY <1>1 DEF SlotInv, MapInv
<1>5. new[p] \in AddressSpace  BY <1>4, TablesApart
<1>6. end \in 0 .. KERNBASE  BY <1>3, <1>4
<1>7. more => /\ m.st \in {"ok", "fail"}
              /\ m.st = "ok" =>
                   /\ Trades(new[p], free, m.as, m.free)
                   /\ Upto(m.as, a + 1, end)
  <2> SUFFICES ASSUME more
               PROVE  /\ m.st \in {"ok", "fail"}
                      /\ m.st = "ok" =>
                           /\ Trades(new[p], free, m.as, m.free)
                           /\ Upto(m.as, a + 1, end)
    OBVIOUS
  <2> HIDE DEF a, end
  <2>1. a \in UserPage /\ TRUE \in BOOLEAN  BY <1>3, <1>6, InRange
  <2>2. /\ m.st \in {"ok", "fail", "panic"}
        /\ m.st = "panic" => new[p].pte[a] # None
        /\ m.st = "ok" =>
             /\ Trades(new[p], free, m.as, m.free)
             /\ \A b \in UserPage : m.as.pte[b] # None <=> b = a \/ new[p].pte[b] # None
    <3>1. m = mappage(p, new[p], free, a, TRUE)  OBVIOUS
    <3> HIDE DEF m
    <3>2. Maps(new[p], free, a, m)  BY <1>1, <1>5, <2>1, <3>1, MappageFacts
    <3> QED  BY <3>2 DEF Maps
  <2>3. new[p].pte[a] = None
    <3>1. ~(a < a)  BY <1>3
    <3> QED  BY <1>4, <2>1, <3>1 DEF Upto
  <2> HIDE DEF m
  <2>4. m.st = "ok" => Upto(m.as, a + 1, end)  BY <1>3, <1>4, <2>1, <2>2, UptoNext
  <2> QED  BY <2>2, <2>3, <2>4
<1>8. \/ /\ more /\ m.st = "ok" /\ new' = [new EXCEPT ![p] = m.as] /\ free' = m.free
         /\ call' = [call EXCEPT ![p].a = a + 1]
      \/ ExecBad(p)
      \/ /\ ~more /\ l = "stack"
         /\ call' = [call EXCEPT ![p].sz = end, ![p].at = "args"]
         /\ new' = [new EXCEPT ![p] = clearpteu(new[p], end \div PGSIZE - 2)]
         /\ UNCHANGED free
      \/ /\ ~more /\ l = "segment"
         /\ \E r \in loaduvm(new[p], end) :
              \/ r = "fail" /\ ExecBad(p)
              \/ /\ r # "fail"
                 /\ call' = [call EXCEPT ![p].sz = end, ![p].at = IF r = "ok" THEN "load" ELSE r]
                 /\ UNCHANGED <<free, new>>
  <2>1. CASE more
    <3>1. CASE m.st = "ok"
      <4>1. /\ new' = [new EXCEPT ![p] = m.as] /\ free' = m.free
            /\ call' = [call EXCEPT ![p].a = @ + 1]
        <5> HIDE DEF m
        <5> QED  BY <2>1, <3>1 DEF ExecAllocStep, m, Addr
      <4> QED  BY <2>1, <3>1, <4>1
    <3>2. CASE m.st = "fail"  BY <2>1, <3>2 DEF ExecAllocStep, Addr
    <3> QED  BY <1>7, <2>1, <3>1, <3>2
  <2>2. CASE ~more
    <3>1. CASE end = 0  BY <2>2, <3>1 DEF ExecAllocStep, Addr
    <3>2. CASE end # 0 /\ l = "stack"
      <4>1. /\ call' = [call EXCEPT ![p].sz = end, ![p].at = "args"]
            /\ new' = [new EXCEPT ![p] = clearpteu(new[p], end \div PGSIZE - 2)]
            /\ UNCHANGED free
        BY <2>2, <3>2 DEF ExecAllocStep, Addr
      <4> QED  BY <2>2, <3>2, <4>1
    <3>3. CASE end # 0 /\ l = "segment"
      <4>1. \E r \in loaduvm(new[p], end) :
              IF r = "fail" THEN ExecBad(p)
              ELSE /\ call' = [call EXCEPT ![p].sz = end, ![p].at = IF r = "ok" THEN "load" ELSE r]
                   /\ UNCHANGED <<free, new>>
        BY <2>2, <3>3 DEF ExecAllocStep, Addr
      <4> QED  BY <2>2, <3>3, <4>1
    <3> QED  BY <1>1, <3>1, <3>2, <3>3
  <2> QED  BY <2>1, <2>2
<1>9. CASE ExecBad(p)  BY <1>1, <1>2, <1>4, <1>9, ExecBadStep
<1>10. CASE /\ more /\ m.st = "ok" /\ new' = [new EXCEPT ![p] = m.as] /\ free' = m.free
            /\ call' = [call EXCEPT ![p].a = a + 1]
  <2> HIDE DEF m
  <2>1. Trades(new[p], free, m.as, m.free) /\ m.as \in AddressSpace /\ m.free \subseteq Page
    BY <1>7, <1>10 DEF Trades
  <2>2. /\ new' \in [Proc -> AddressSpace \cup {None}] /\ new'[p] = m.as
        /\ \A r \in Proc : r # p => new'[r] = new[r]
    BY <1>10, <2>1 DEF MemoryInv, TypeOK
  <2>3. /\ call' \in [Proc -> CallState] /\ call'[p].at = call[p].at /\ call'[p].a = a + 1
        /\ call'[p].end = call[p].end /\ \A r \in Proc : r # p => call'[r] = call[r]
    <3> DEFINE z == [call[p] EXCEPT !.a = a + 1]
    <3>1. z \in CallState /\ z.at = call[p].at /\ z.a = a + 1 /\ z.end = call[p].end
      BY <1>1, <1>3 DEF CallState
    <3>2. call' = [call EXCEPT ![p] = z]  BY <1>10
    <3> HIDE DEF z, a
    <3> QED  BY <3>1, <3>2 DEF MemoryInv, TypeOK
  <2>4. m.as # None  BY <2>1, NoneAssumption
  <2>5. TypeOK'  BY <1>2, <1>10, <2>1, <2>2, <2>3 DEF MemoryInv, TypeOK
  <2>6. PartInv' /\ TableInv(p)'  BY <1>2, <1>4, <1>10, <2>1, <2>2, <2>5, NewTraded
  <2>7. SlotInv(p)'  BY <1>1, <1>2, <2>2, <2>3, <2>4 DEF SlotInv
  <2>8. MapInv(p)'
    <3> DEFINE b == a + 1
    <3>1. call'[p].a = b /\ Upto(m.as, b, call[p].end)  BY <1>7, <1>10, <2>3
    <3>2. /\ call[p].end < KERNBASE /\ call[p].at \in {"segment", "stack"}
          /\ call[p].at = "stack" => \E k \in Nat : call[p].end = Addr(k + 2)
      BY <1>1, <1>4
    <3> HIDE DEF a, b, end, l
    <3> QED  BY <1>2, <1>4, <2>2, <2>3, <3>1, <3>2 DEF MapInv
  <2> QED  BY <1>1, <1>2, <2>2, <2>3, <2>5, <2>6, <2>7, <2>8, CallStep
<1>11. ~more => Mapped(new[p], end)
  <2> HIDE DEF a, end
  <2> QED  BY <1>3, <1>4, UptoEnd
<1>12. CASE /\ ~more /\ l = "stack"
            /\ call' = [call EXCEPT ![p].sz = end, ![p].at = "args"]
            /\ new' = [new EXCEPT ![p] = clearpteu(new[p], end \div PGSIZE - 2)]
            /\ UNCHANGED free
  <2>1. PICK k \in Nat : end = Addr(k + 2)  BY <1>4, <1>12
  <2>2. end \div PGSIZE - 2 = k
    <3> DEFINE j == k + 2
    <3>1. j \in Nat /\ j - 2 = k  OBVIOUS
    <3> HIDE DEF j
    <3>2. Addr(j) \div PGSIZE = j  BY <3>1, PagesOfAddr
    <3> HIDE DEF end
    <3> QED  BY <2>1, <3>1, <3>2 DEF j
  <2> DEFINE as == clearpteu(new[p], k)
  <2>3. new' = [new EXCEPT ![p] = as]  BY <1>12, <2>2
  <2>4. k \in UserPage /\ new[p].pte[k] # None
    <3> HIDE DEF end, a
    <3>1. Addr(k) < Addr(k + 2)
      <4> DEFINE j == k + 2
      <4>1. j \in Nat /\ k < j  OBVIOUS
      <4> HIDE DEF j
      <4>2. Addr(k) < Addr(j)  BY <4>1, AddrFacts
      <4> QED  BY <4>2 DEF j
    <3>2. Addr(k) \in Nat /\ Addr(k) < end  BY <2>1, <3>1, AddrFacts
    <3>3. k \in UserPage  BY <1>6, <3>2, InRange
    <3> QED  BY <1>11, <1>12, <3>2, <3>3 DEF Mapped
  <2>5. /\ Trades(new[p], free, as, free)
        /\ \A b \in UserPage : as.pte[b] # None <=> new[p].pte[b] # None
    BY <1>1, <1>5, <2>4, ClearFacts
  <2> HIDE DEF as
  <2>6. as \in AddressSpace /\ as # None  BY <2>5, NoneAssumption DEF Trades
  <2>7. /\ new' \in [Proc -> AddressSpace \cup {None}] /\ new'[p] = as
        /\ \A r \in Proc : r # p => new'[r] = new[r]
    BY <2>3, <2>6 DEF MemoryInv, TypeOK
  <2>8. /\ call' \in [Proc -> CallState] /\ call'[p].at = "args" /\ call'[p].sz = call[p].end
        /\ \A r \in Proc : r # p => call'[r] = call[r]
    <3> DEFINE z == [call[p] EXCEPT !.sz = end, !.at = "args"]
    <3>1. z \in CallState /\ z.at = "args" /\ z.sz = call[p].end
      BY <1>1, <1>3 DEF CallState, Label
    <3>2. call' = [call EXCEPT ![p] = z]  BY <1>12
    <3> HIDE DEF z
    <3> QED  BY <3>1, <3>2 DEF MemoryInv, TypeOK
  <2>9. TypeOK'  BY <1>1, <1>2, <1>12, <2>7, <2>8 DEF MemoryInv, TypeOK
  <2>10. PartInv' /\ TableInv(p)'  BY <1>2, <1>4, <1>12, <2>5, <2>7, <2>9, NewTraded
  <2>11. SlotInv(p)'  BY <1>1, <1>2, <2>6, <2>7, <2>8 DEF SlotInv
  <2>12. MapInv(p)'
    <3>1. Mapped(as, call[p].end)  BY <1>11, <1>12, <2>5 DEF Mapped
    <3>2. call[p].end < KERNBASE  BY <1>4
    <3> HIDE DEF end
    <3> QED  BY <1>2, <1>4, <2>7, <2>8, <3>1, <3>2 DEF MapInv
  <2> QED  BY <1>2, <2>7, <2>8, <2>9, <2>10, <2>11, <2>12, CallStep
<1>13. CASE /\ ~more /\ l = "segment"
            /\ \E r \in loaduvm(new[p], end) :
                 \/ r = "fail" /\ ExecBad(p)
                 \/ /\ r # "fail"
                    /\ call' = [call EXCEPT ![p].sz = end, ![p].at = IF r = "ok" THEN "load" ELSE r]
                    /\ UNCHANGED <<free, new>>
  <2>1. PICK r \in loaduvm(new[p], end) :
          \/ r = "fail" /\ ExecBad(p)
          \/ /\ r # "fail"
             /\ call' = [call EXCEPT ![p].sz = end, ![p].at = IF r = "ok" THEN "load" ELSE r]
             /\ UNCHANGED <<free, new>>
    BY <1>13
  <2>2. r \in {"ok", "fail"}
    <3> HIDE DEF end
    <3>1. 0 \in Nat /\ PagesIn(0, end) \subseteq UserPage  BY DEF PagesIn
    <3>2. \A b \in PagesIn(0, end) : new[p].pte[b] # None
      BY <1>3, <1>11, <1>13, <3>1, PagesInFacts DEF Mapped
    <3> QED  BY <3>2 DEF loaduvm
  <2>3. CASE r = "fail"  BY <1>9, <2>1, <2>3
  <2>4. CASE r = "ok"
    <3> DEFINE z == [call[p] EXCEPT !.sz = end, !.at = "load"]
    <3>1. z \in CallState /\ z.at = "load" /\ z.sz = end  BY <1>1, <1>3 DEF CallState, Label
    <3>2. call' = [call EXCEPT ![p] = z] /\ UNCHANGED <<free, new>>  BY <2>1, <2>4
    <3> HIDE DEF z, end, l, a
    <3> QED  BY <1>1, <1>2, <1>4, <1>11, <1>13, <3>1, <3>2, ExecMoves
  <2> QED  BY <2>2, <2>3, <2>4
<1> QED  BY <1>8, <1>9, <1>10, <1>12, <1>13

\* The process changes to its new table.
LEMMA ExecCommitStep ==
  ASSUME MemoryInv, NEW p \in Proc, ExecCommit(p)
  PROVE  MemoryInv'
<1>1. /\ call[p].at = "args" /\ state[p] = "RUNNING" /\ vm[p] # None /\ vm[p] \in AddressSpace
      /\ call[p] \in CallState /\ SlotInv(p) /\ MapInv(p) /\ TableInv(p)
  BY RunningFacts DEF ExecCommit
<1>2. new[p] # None /\ Mapped(new[p], call[p].sz) /\ call[p].sz < KERNBASE
  BY <1>1 DEF SlotInv, MapInv
<1>3. new[p] \in AddressSpace  BY <1>2, TablesApart
<1>4. call[p].sz \in 0 .. KERNBASE  BY <1>1, <1>2, MemoryAssumption DEF CallState
<1>5. UNCHANGED <<state, kstack, cpu, lock>> /\ Running(p, "args")  BY DEF ExecCommit, procs
<1>6. \/ ExecBad(p) /\ UNCHANGED <<vm, sz, cr3>>
      \/ /\ vm' = [vm EXCEPT ![p] = new[p]]
         /\ sz' = [sz EXCEPT ![p] = call[p].sz]
         /\ cr3' = switchuvm(p, new[p])
         /\ new' = [new EXCEPT ![p] = vm[p]]
         /\ call' = [call EXCEPT ![p] = At("freeold")]
         /\ UNCHANGED free
  <2>1. \E len \in ArgLen :
          IF ~copyout(new[p], call[p].sz - len, len)
          THEN ExecBad(p) /\ UNCHANGED <<vm, sz, cr3>>
          ELSE /\ vm' = [vm EXCEPT ![p] = new[p]]
               /\ sz' = [sz EXCEPT ![p] = call[p].sz]
               /\ cr3' = switchuvm(p, new[p])
               /\ new' = [new EXCEPT ![p] = vm[p]]
               /\ Goto(p, "freeold")
               /\ UNCHANGED free
    BY DEF ExecCommit
  <2> QED  BY <2>1 DEF Goto
<1>7. CASE ExecBad(p) /\ UNCHANGED <<vm, sz, cr3>>  BY <1>2, <1>5, <1>7, ExecBadStep
<1>8. CASE /\ vm' = [vm EXCEPT ![p] = new[p]]
           /\ sz' = [sz EXCEPT ![p] = call[p].sz]
           /\ cr3' = switchuvm(p, new[p])
           /\ new' = [new EXCEPT ![p] = vm[p]]
           /\ call' = [call EXCEPT ![p] = At("freeold")]
           /\ UNCHANGED free
  <2>1. At("freeold") \in CallState /\ At("freeold").at = "freeold"
    BY DEF At, CallState, Label
  <2>2. /\ call' \in [Proc -> CallState] /\ call'[p] = At("freeold")
        /\ \A r \in Proc : r # p => call'[r] = call[r]
    BY <1>8, <2>1 DEF MemoryInv, TypeOK
  <2>3. /\ vm' \in [Proc -> AddressSpace \cup {None}] /\ vm'[p] = new[p]
        /\ \A r \in Proc : r # p => vm'[r] = vm[r]
    BY <1>3, <1>8 DEF MemoryInv, TypeOK
  <2>4. /\ new' \in [Proc -> AddressSpace \cup {None}] /\ new'[p] = vm[p]
        /\ \A r \in Proc : r # p => new'[r] = new[r]
    BY <1>1, <1>8 DEF MemoryInv, TypeOK
  <2>5. /\ sz' \in [Proc -> 0 .. KERNBASE] /\ sz'[p] = call[p].sz
        /\ \A r \in Proc : r # p => sz'[r] = sz[r]
    BY <1>4, <1>8 DEF MemoryInv, TypeOK
  <2>6. cr3' \in [CPU -> Page \cup {kpgdir}]
        /\ \A c \in CPU : cr3'[c] = IF cpu[c] = p THEN new[p].dir ELSE cr3[c]
    BY <1>3, <1>8, SwitchFacts
  <2>7. TypeOK'  BY <1>5, <1>8, <2>2, <2>3, <2>4, <2>5, <2>6 DEF MemoryInv, TypeOK
  <2>8. PartInv'
    <3> DEFINE o == <<p, "new">>
               u == <<p, "vm">>
    <3>1. o \in Owner /\ u \in Owner /\ o # u  BY OwnFacts DEF Kind
    <3>2. /\ \A r \in Proc : r # p => <<r, "new">> # o
          /\ \A r \in Proc : r # p => <<r, "vm">> # u
      OBVIOUS
    <3>3. /\ Own(o) = PagesOf(new[p]) /\ Own(o)' = PagesOf(new'[p])
          /\ Own(u) = PagesOf(vm[p]) /\ Own(u)' = PagesOf(vm'[p])
      BY OwnFacts
    <3>4. \A r \in Proc : /\ <<r, "vm">> \in {o, u} \/ vm'[r] = vm[r]
                          /\ <<r, "new">> \in {o, u} \/ new'[r] = new[r]
                          /\ <<r, "kstack">> \in {o, u} \/ kstack'[r] = kstack[r]
      BY <1>5, <2>3, <2>4, <3>2
    <3> HIDE DEF o, u
    <3>5. Own(o)' = Own(u) /\ Own(u)' = Own(o)  BY <2>3, <2>4, <3>3
    <3>6. /\ Own(o) \cap free = {} /\ Own(u) \cap free = {} /\ Own(o) \cap Own(u) = {}
      BY <3>1 DEF MemoryInv, PartInv
    <3>7. Redistributed({o, u})  BY <1>8, <3>1, <3>4, <3>5, <3>6 DEF Redistributed
    <3> QED  BY <2>7, <3>1, <3>7, TwoOwnerPart DEF MemoryInv
  <2>9. \A r \in Proc : r # p => Same(r)  BY <1>5, <2>2, <2>3, <2>4, <2>5 DEF Same
  <2>10. SlotInv(p)'  BY <1>1, <1>2, <1>5, <2>1, <2>2, <2>3, <2>4 DEF SlotInv
  <2>11. MapInv(p)'  BY <1>2, <2>1, <2>2, <2>3, <2>5 DEF MapInv
  <2>12. TableInv(p)'  BY <1>1, <1>2, <2>3, <2>4 DEF TableInv
  <2>13. ChildInv'
    <3>1. \A q \in Proc : call'[q].at = "copy" => call[q].at = "copy" /\ call'[q].child = call[q].child
      BY <2>1, <2>2
    <3> QED  BY <1>5, <3>1, SameChild DEF MemoryInv
  <2>14. CpuInv'
    <3>1. \A c \in CPU : cpu[c] # None => cpu[c] \in Proc /\ cr3[c] = vm[cpu[c]].dir
      BY DEF MemoryInv, TypeOK, CpuInv
    <3>2. p # None  BY MemoryAssumption
    <3>3. \A c \in CPU : /\ cpu[c] # None => cr3'[c] = vm'[cpu[c]].dir
                         /\ cpu[c] = None => cr3'[c] = cr3[c]
      BY <2>3, <2>6, <3>1, <3>2
    <3> QED  BY <1>5, <3>3, SameCpu DEF MemoryInv
  <2> QED  BY <2>7, <2>8, <2>9, <2>10, <2>11, <2>12, <2>13, <2>14, Assemble DEF ProcInv
<1> QED  BY <1>6, <1>7, <1>8

LEMMA ExecFreeStep ==
  ASSUME MemoryInv, NEW p \in Proc, ExecFree(p)
  PROVE  MemoryInv'
<1>1. Running(p, "freeold") /\ ExecBad(p) /\ UNCHANGED <<state, kstack, vm, sz, cpu, cr3, lock>>
  BY DEF ExecFree, procs, cpus
<1>2. call[p].at = "freeold" /\ SlotInv(p)  BY <1>1, RunningFacts
<1>3. new[p] # None  BY <1>2 DEF SlotInv
<1> QED  BY <1>1, <1>3, ExecBadStep

\* A process leaves its CPU.
LEMMA LeaveStep ==
  ASSUME MemoryInv, NEW c \in CPU, Leave(c)
  PROVE  MemoryInv'
<1>1. PICK p \in Proc : p = cpu[c]  BY DEF Leave, MemoryInv, TypeOK
<1>2. PICK s \in {"RUNNABLE", "ZOMBIE"} :
        /\ s = "ZOMBIE" => call[p].at \in {"user", "fault"}
        /\ state' = [state EXCEPT ![p] = s]
  BY <1>1 DEF Leave
<1>3. UNCHANGED <<free, kstack, vm, sz, new, call, cpu, cr3>> /\ lock = None /\ lock' = c
  BY DEF Leave
<1>4. None \notin Proc \cup CPU  BY MemoryAssumption
<1>5. state[p] = "RUNNING"  BY <1>1, <1>3, <1>4 DEF MemoryInv, CpuInv
<1>6. /\ state' \in [Proc -> {"UNUSED", "EMBRYO", "RUNNABLE", "RUNNING", "ZOMBIE"}]
      /\ state'[p] = s /\ \A r \in Proc : r # p => state'[r] = state[r]
  BY <1>2 DEF MemoryInv, TypeOK
<1>7. TypeOK'  BY <1>3, <1>6 DEF MemoryInv, TypeOK
<1>8. PartInv'  BY <1>3 DEF MemoryInv, PartInv, Own
<1>9. \A r \in Proc : r # p => Same(r)  BY <1>3, <1>6 DEF Same
<1>10. ProcInv(p)'
  <2>1. SlotInv(p) /\ MapInv(p) /\ TableInv(p)  BY DEF MemoryInv, ProcInv
  <2>2. SlotInv(p)'  BY <1>2, <1>3, <1>5, <1>6, <2>1 DEF SlotInv
  <2>3. MapInv(p)'  BY <1>3, <2>1 DEF MapInv
  <2>4. TableInv(p)'  BY <1>3, <2>1 DEF TableInv
  <2> QED  BY <2>2, <2>3, <2>4 DEF ProcInv
<1>11. ChildInv'
  <2>1. \A q \in Proc : state[q] = "EMBRYO" => state'[q] = "EMBRYO"  BY <1>5, <1>6
  <2> QED  BY <1>3, <2>1, SameChild DEF MemoryInv
<1>12. CpuInv'
  <2>1. (lock # None => cpu[lock] # None)'  BY <1>1, <1>3, <1>4
  <2>2. (\A d \in CPU : cpu[d] # None =>
           state[cpu[d]] \in IF lock = d THEN {"RUNNABLE", "ZOMBIE"} ELSE {"RUNNING"})'
    <3> SUFFICES ASSUME NEW d \in CPU, cpu[d] # None
                 PROVE  state'[cpu[d]] \in IF lock' = d THEN {"RUNNABLE", "ZOMBIE"} ELSE {"RUNNING"}
      BY <1>3
    <3>1. CASE d = c  BY <1>1, <1>3, <1>6, <3>1
    <3>2. CASE d # c
      <4>1. cpu[d] # p /\ cpu[d] \in Proc /\ state[cpu[d]] = "RUNNING"
        BY <1>1, <1>3, <1>4, <3>2 DEF MemoryInv, CpuInv, TypeOK
      <4> QED  BY <1>3, <1>6, <3>2, <4>1
    <3> QED  BY <3>1, <3>2
  <2>3. (\A d, e \in CPU : d # e /\ cpu[d] = cpu[e] => cpu[d] = None)'
    BY <1>3 DEF MemoryInv, CpuInv
  <2>4. (\A d \in CPU : cr3[d] = IF cpu[d] = None THEN kpgdir ELSE vm[cpu[d]].dir)'
    BY <1>3 DEF MemoryInv, CpuInv
  <2> QED  BY <2>1, <2>2, <2>3, <2>4 DEF CpuInv
<1> QED  BY <1>7, <1>8, <1>9, <1>10, <1>11, <1>12, Assemble

\* The scheduler, back from a process.
LEMMA SwitchkvmStep ==
  ASSUME MemoryInv, NEW c \in CPU, Switchkvm(c)
  PROVE  MemoryInv'
<1>1. /\ lock = c /\ cr3' = [cr3 EXCEPT ![c] = kpgdir] /\ cpu' = [cpu EXCEPT ![c] = None]
      /\ lock' = None /\ UNCHANGED <<free, state, kstack, vm, sz, new, call>>
  BY DEF Switchkvm, procs
<1>2. /\ cr3' \in [CPU -> Page \cup {kpgdir}] /\ cr3'[c] = kpgdir
      /\ \A d \in CPU : d # c => cr3'[d] = cr3[d]
  BY <1>1 DEF MemoryInv, TypeOK
<1>3. /\ cpu' \in [CPU -> Proc \cup {None}] /\ cpu'[c] = None
      /\ \A d \in CPU : d # c => cpu'[d] = cpu[d]
  BY <1>1 DEF MemoryInv, TypeOK
<1>4. TypeOK'  BY <1>1, <1>2, <1>3 DEF MemoryInv, TypeOK
<1>5. PartInv'  BY <1>1 DEF MemoryInv, PartInv, Own
<1>6. \A r \in Proc : ProcInv(r)'
  <2>1. \A r \in Proc : Same(r)  BY <1>1 DEF Same
  <2> QED  BY <2>1, SameProc DEF MemoryInv
<1>7. ChildInv'  BY <1>1 DEF MemoryInv, ChildInv
<1>8. CpuInv'
  <2>1. (\A d \in CPU : cpu[d] # None =>
           state[cpu[d]] \in IF lock = d THEN {"RUNNABLE", "ZOMBIE"} ELSE {"RUNNING"})'
    <3> SUFFICES ASSUME NEW d \in CPU, cpu'[d] # None PROVE state'[cpu'[d]] = "RUNNING"
      BY <1>1, MemoryAssumption
    <3>1. d # c /\ cpu'[d] = cpu[d]  BY <1>3
    <3> QED  BY <1>1, <3>1 DEF MemoryInv, CpuInv
  <2>2. (\A d, e \in CPU : d # e /\ cpu[d] = cpu[e] => cpu[d] = None)'
    BY <1>3 DEF MemoryInv, CpuInv
  <2>3. (\A d \in CPU : cr3[d] = IF cpu[d] = None THEN kpgdir ELSE vm[cpu[d]].dir)'
    BY <1>1, <1>2, <1>3 DEF MemoryInv, CpuInv
  <2> QED  BY <1>1, <2>1, <2>2, <2>3 DEF CpuInv
<1> QED  BY <1>4, <1>5, <1>6, <1>7, <1>8 DEF MemoryInv

\* The scheduler takes a process.
LEMMA ScheduleStep ==
  ASSUME MemoryInv, NEW c \in CPU, Schedule(c)
  PROVE  MemoryInv'
<1>1. PICK p \in Proc :
        /\ state[p] = "RUNNABLE"
        /\ state' = [state EXCEPT ![p] = "RUNNING"]
        /\ cpu' = [cpu EXCEPT ![c] = p]
        /\ cr3' = [cr3 EXCEPT ![c] = vm[p].dir]
  BY DEF Schedule
<1>2. cpu[c] = None /\ lock = None /\ UNCHANGED <<free, kstack, vm, sz, new, call, lock>>
  BY DEF Schedule
<1>3. SlotInv(p) /\ MapInv(p) /\ TableInv(p)  BY DEF MemoryInv, ProcInv
<1>4. vm[p] # None /\ vm[p] \in AddressSpace
  <2>1. vm[p] # None  BY <1>1, <1>3 DEF SlotInv
  <2> QED  BY <2>1, TablesApart
<1>5. vm[p].dir \in Page  BY <1>4 DEF AddressSpace
<1>6. /\ state' \in [Proc -> {"UNUSED", "EMBRYO", "RUNNABLE", "RUNNING", "ZOMBIE"}]
      /\ state'[p] = "RUNNING" /\ \A r \in Proc : r # p => state'[r] = state[r]
  BY <1>1 DEF MemoryInv, TypeOK
<1>7. /\ cr3' \in [CPU -> Page \cup {kpgdir}] /\ cr3'[c] = vm[p].dir
      /\ \A d \in CPU : d # c => cr3'[d] = cr3[d]
  BY <1>1, <1>5 DEF MemoryInv, TypeOK
<1>8. /\ cpu' \in [CPU -> Proc \cup {None}] /\ cpu'[c] = p
      /\ \A d \in CPU : d # c => cpu'[d] = cpu[d]
  BY <1>1 DEF MemoryInv, TypeOK
<1>9. TypeOK'  BY <1>2, <1>6, <1>7, <1>8 DEF MemoryInv, TypeOK
<1>10. PartInv'  BY <1>2 DEF MemoryInv, PartInv, Own
<1>11. \A r \in Proc : r # p => Same(r)  BY <1>2, <1>6 DEF Same
<1>12. ProcInv(p)'
  <2>1. SlotInv(p)'  BY <1>1, <1>2, <1>3, <1>6 DEF SlotInv
  <2>2. MapInv(p)'  BY <1>2, <1>3 DEF MapInv
  <2>3. TableInv(p)'  BY <1>2, <1>3 DEF TableInv
  <2> QED  BY <2>1, <2>2, <2>3 DEF ProcInv
<1>13. ChildInv'
  <2>1. \A q \in Proc : state[q] = "EMBRYO" => state'[q] = "EMBRYO"  BY <1>1, <1>6
  <2> QED  BY <1>2, <2>1, SameChild DEF MemoryInv
<1>14. CpuInv'
  <2>1. \A d \in CPU : d # c /\ cpu[d] # None =>
          cpu[d] \in Proc /\ cpu[d] # p /\ state[cpu[d]] = "RUNNING" /\ cr3[d] = vm[cpu[d]].dir
    BY <1>1, <1>2, MemoryAssumption DEF MemoryInv, CpuInv, TypeOK
  <2>2. (\A d \in CPU : cpu[d] # None =>
           state[cpu[d]] \in IF lock = d THEN {"RUNNABLE", "ZOMBIE"} ELSE {"RUNNING"})'
    <3> SUFFICES ASSUME NEW d \in CPU, cpu'[d] # None PROVE state'[cpu'[d]] = "RUNNING"
      BY <1>2, MemoryAssumption
    <3> QED  BY <1>6, <1>8, <2>1
  <2>3. (\A d, e \in CPU : d # e /\ cpu[d] = cpu[e] => cpu[d] = None)'
    BY <1>8, <2>1 DEF MemoryInv, CpuInv
  <2>4. (\A d \in CPU : cr3[d] = IF cpu[d] = None THEN kpgdir ELSE vm[cpu[d]].dir)'
    BY <1>2, <1>7, <1>8, MemoryAssumption DEF MemoryInv, CpuInv
  <2> QED  BY <1>2, <2>2, <2>3, <2>4 DEF CpuInv
<1> QED  BY <1>9, <1>10, <1>11, <1>12, <1>13, <1>14, Assemble

\* wait() frees a zombie.
LEMMA WaitStep ==
  ASSUME MemoryInv, NEW p \in Proc, Wait(p)
  PROVE  MemoryInv'
<1>1. PICK q \in Proc :
        /\ state[q] = "ZOMBIE"
        /\ free' = freevm(vm[q], free \cup {kstack[q]})
        /\ kstack' = [kstack EXCEPT ![q] = None]
        /\ vm' = [vm EXCEPT ![q] = None]
        /\ state' = [state EXCEPT ![q] = "UNUSED"]
        /\ call' = [call EXCEPT ![q] = At("user")]
  BY DEF Wait, kfree
<1>2. lock = None /\ UNCHANGED <<sz, new, cpu, cr3, lock>>  BY DEF Wait, cpus
<1>3. SlotInv(q) /\ MapInv(q) /\ TableInv(q)  BY DEF MemoryInv, ProcInv
<1>4. vm[q] # None /\ kstack[q] # None /\ call[q].at \in {"user", "fault"} /\ new[q] = None
  BY <1>1, <1>3 DEF SlotInv
<1>5. vm[q] \in AddressSpace /\ kstack[q] \in Page /\ free \in SUBSET Page
  BY <1>4, TablesApart DEF MemoryInv, TypeOK
<1>6. /\ free' \subseteq Page
      /\ \A pg \in Page : pg \in free' <=> pg \in free \/ pg = kstack[q] \/ pg \in PagesOf(vm[q])
  <2> DEFINE fr == free \cup {kstack[q]}
  <2>1. fr \in SUBSET Page  BY <1>5
  <2>2. \A pg : pg \in fr <=> pg \in free \/ pg = kstack[q]  OBVIOUS
  <2>3. free' = freevm(vm[q], fr)  BY <1>1
  <2> HIDE DEF fr
  <2>4. free' \subseteq Page /\ \A pg \in Page : pg \in free' <=> pg \in fr \/ Holds(vm[q], pg)
    BY <1>5, <2>1, <2>3, FreevmFacts
  <2> QED  BY <1>5, <2>2, <2>4, PagesOfFacts
<1>7. At("user") \in CallState /\ At("user").at = "user" /\ At("user").a = 0
  BY DEF At, CallState, Label
<1>8. /\ call' \in [Proc -> CallState] /\ call'[q] = At("user")
      /\ \A r \in Proc : r # q => call'[r] = call[r]
  BY <1>1, <1>7 DEF MemoryInv, TypeOK
<1>9. /\ kstack' \in [Proc -> Page \cup {None}] /\ kstack'[q] = None
      /\ \A r \in Proc : r # q => kstack'[r] = kstack[r]
  BY <1>1 DEF MemoryInv, TypeOK
<1>10. /\ vm' \in [Proc -> AddressSpace \cup {None}] /\ vm'[q] = None
       /\ \A r \in Proc : r # q => vm'[r] = vm[r]
  BY <1>1 DEF MemoryInv, TypeOK
<1>11. /\ state' \in [Proc -> {"UNUSED", "EMBRYO", "RUNNABLE", "RUNNING", "ZOMBIE"}]
       /\ state'[q] = "UNUSED" /\ \A r \in Proc : r # q => state'[r] = state[r]
  BY <1>1 DEF MemoryInv, TypeOK
<1>12. TypeOK'  BY <1>2, <1>6, <1>8, <1>9, <1>10, <1>11 DEF MemoryInv, TypeOK
<1>13. PartInv'
  <2> DEFINE o == <<q, "vm">>
             u == <<q, "kstack">>
  <2>1. o \in Owner /\ u \in Owner /\ o # u  BY OwnFacts DEF Kind
  <2>2. /\ \A r \in Proc : r # q => <<r, "vm">> # o
        /\ \A r \in Proc : r # q => <<r, "kstack">> # u
    OBVIOUS
  <2>3. /\ Own(o) = PagesOf(vm[q]) /\ Own(o)' = PagesOf(vm'[q])
        /\ Own(u) = {kstack[q]} \ {None} /\ Own(u)' = {kstack'[q]} \ {None}
    BY OwnFacts
  <2>4. \A r \in Proc : /\ <<r, "vm">> \in {o, u} \/ vm'[r] = vm[r]
                        /\ <<r, "new">> \in {o, u} \/ new'[r] = new[r]
                        /\ <<r, "kstack">> \in {o, u} \/ kstack'[r] = kstack[r]
    BY <1>2, <1>9, <1>10, <2>2
  <2> HIDE DEF o, u
  <2>5. Own(o)' = {} /\ Own(u)' = {} /\ Own(u) = {kstack[q]}
    BY <1>4, <1>9, <1>10, <2>3, PagesOfFacts
  <2>6. \A pg \in Page : (pg \in free' \/ \E x \in {o, u} : pg \in Own(x)')
                           <=> (pg \in free \/ \E x \in {o, u} : pg \in Own(x))
    BY <1>6, <2>3, <2>5
  <2>7. Redistributed({o, u})  BY <2>1, <2>4, <2>5, <2>6 DEF Redistributed
  <2> QED  BY <1>12, <2>1, <2>7, TwoOwnerPart DEF MemoryInv
<1>14. ProcInv(q)'
  <2>1. SlotInv(q)'  BY <1>2, <1>4, <1>7, <1>8, <1>9, <1>10, <1>11 DEF SlotInv
  <2>2. MapInv(q)'  BY <1>7, <1>8, <1>10 DEF MapInv
  <2>3. TableInv(q)'  BY <1>2, <1>3, <1>10 DEF TableInv
  <2> QED  BY <2>1, <2>2, <2>3 DEF ProcInv
<1>15. \A r \in Proc : r # q => Same(r)  BY <1>2, <1>8, <1>9, <1>10, <1>11 DEF Same
<1>16. ChildInv'
  <2>1. \A r \in Proc : /\ call'[r].at = "copy" => call[r].at = "copy"
                        /\ call'[r].at = "copy" => call'[r].child = call[r].child
                        /\ state[r] = "EMBRYO" => state'[r] = "EMBRYO"
    BY <1>1, <1>7, <1>8, <1>11
  <2> QED  BY <2>1, SameChild DEF MemoryInv
<1>17. CpuInv'
  <2>1. \A c \in CPU : cpu[c] # None =>
          cpu[c] \in Proc /\ cpu[c] # q /\ cr3[c] = vm[cpu[c]].dir
    BY <1>1, <1>2, MemoryAssumption DEF MemoryInv, CpuInv, TypeOK
  <2>2. \A c \in CPU : cpu[c] # None => state'[cpu[c]] = state[cpu[c]] /\ cr3'[c] = vm'[cpu[c]].dir
    BY <1>2, <1>10, <1>11, <2>1
  <2> QED  BY <1>2, <2>2, SameCpu DEF MemoryInv
<1> QED  BY <1>12, <1>13, <1>14, <1>15, <1>16, <1>17, Assemble

-----------------------------------------------------------------------------
(* The theorems *)

\* userinit() finds the five pages it needs.
LEMMA InitFacts ==
  LET k == setupkvm(initproc, Page)
      s == kalloc(initproc, k.free)
      u == inituvm(k.as, k.free \ {s})
  IN /\ s \in Page /\ s \notin u.free /\ u.free \subseteq Page
     /\ u.as \in AddressSpace /\ Apart(u.as, u.free)
     /\ ~Holds(u.as, s)
     /\ \A pg \in Page : pg \in u.free \/ Holds(u.as, pg) \/ pg = s
     /\ Mapped(u.as, PGSIZE)
<1> DEFINE k == setupkvm(initproc, Page)
           s == kalloc(initproc, k.free)
           fr == k.free \ {s}
           u == inituvm(k.as, k.free \ {s})
<1>1. initproc \in Proc /\ IsFiniteSet(Page) /\ Cardinality(Page) \in Nat /\ Cardinality(Page) >= 5
  BY MemoryAssumption, FS_CardinalityType
<1>2. /\ k.st = "ok" /\ k.free \subseteq Page
      /\ k.as \in AddressSpace /\ Apart(k.as, k.free)
      /\ \A b \in UserPage : k.as.pte[b] = None
      /\ \A pg \in Page : Holds(k.as, pg) \/ pg \in k.free <=> pg \in Page
      /\ \E d \in Page : \E e \in Page \ {d} : k.free = Page \ {d, e}
  <2>1. Cardinality(Page) >= 2 /\ Page \in SUBSET Page  BY <1>1
  <2> QED  BY <1>1, <2>1, SetupFacts
<1> HIDE DEF k
<1>3. IsFiniteSet(k.free) /\ Cardinality(k.free) \in Nat /\ Cardinality(k.free) >= 3
  <2>1. PICK d \in Page, e \in Page : e # d /\ k.free = Page \ {d, e}  BY <1>2
  <2>2. IsFiniteSet(Page \ {d}) /\ Cardinality(Page \ {d}) = Cardinality(Page) - 1
    BY <1>1, FS_RemoveElement
  <2>3. e \in Page \ {d} /\ k.free = (Page \ {d}) \ {e}  BY <2>1
  <2> DEFINE S == Page \ {d}
  <2>4. IsFiniteSet(S) /\ e \in S /\ k.free = S \ {e} /\ Cardinality(S) = Cardinality(Page) - 1
    BY <2>2, <2>3
  <2> HIDE DEF S
  <2>5. IsFiniteSet(k.free) /\ Cardinality(k.free) = Cardinality(S) - 1
    BY <2>4, FS_RemoveElement
  <2> QED  BY <1>1, <2>4, <2>5
<1>4. s \in k.free
  <2>1. k.free # {}  BY <1>3, FS_EmptySet
  <2> QED  BY <1>1, <1>2, <2>1, PickFacts
<1> HIDE DEF s
<1>5. IsFiniteSet(fr) /\ Cardinality(fr) = Cardinality(k.free) - 1
  BY <1>3, <1>4, FS_RemoveElement
<1>6. fr \in SUBSET Page /\ s \notin fr /\ (\A pg : pg \in k.free <=> pg \in fr \/ pg = s)
  BY <1>2, <1>4
<1>7. u = mappage(initproc, k.as, fr, 0, TRUE)  BY DEF inituvm
<1> HIDE DEF fr, u
<1>8. ~AtMostOne(fr)
  <2> SUFFICES ASSUME NEW x, fr \subseteq {x} PROVE FALSE
    BY DEF AtMostOne
  <2>1. IsFiniteSet({x}) /\ Cardinality({x}) = 1  BY FS_Singleton
  <2>2. Cardinality(fr) <= 1  BY <2>1, FS_Subset
  <2> QED  BY <1>3, <1>5, <2>2
<1>9. 0 \in UserPage /\ TRUE \in BOOLEAN
  <2>1. 0 \in Nat /\ Addr(0) < KERNBASE  BY AddrFacts, MemoryAssumption
  <2> QED  BY <2>1, UserPageFacts
<1>10. /\ u.st = "ok" /\ Trades(k.as, fr, u.as, u.free)
       /\ \A b \in UserPage : u.as.pte[b] # None <=> b = 0
  <2> DEFINE m == mappage(initproc, k.as, fr, 0, TRUE)
  <2>1. /\ m.st \in {"ok", "fail", "panic"}
        /\ m.st = "panic" => k.as.pte[0] # None
        /\ m.st = "fail" => m.free = fr /\ AtMostOne(fr)
        /\ m.st = "ok" =>
             /\ Trades(k.as, fr, m.as, m.free)
             /\ \A b \in UserPage : m.as.pte[b] # None <=> b = 0 \/ k.as.pte[b] # None
    <3>1. k.as \in AddressSpace  BY <1>2
    <3>2. m = mappage(initproc, k.as, fr, 0, TRUE)  OBVIOUS
    <3> HIDE DEF m
    <3>3. Maps(k.as, fr, 0, m)  BY <1>1, <1>6, <1>9, <3>1, <3>2, MappageFacts
    <3> QED  BY <3>3 DEF Maps
  <2> HIDE DEF m
  <2>2. m.st = "ok"  BY <1>2, <1>8, <1>9, <2>1
  <2>3. u = m  BY <1>7 DEF m
  <2> QED  BY <1>2, <2>1, <2>2, <2>3
<1>11. Apart(k.as, fr) /\ ~Holds(k.as, s)  BY <1>2, <1>4, <1>6 DEF Apart
<1>12. /\ u.as \in AddressSpace /\ Apart(u.as, u.free) /\ u.free \subseteq Page
       /\ \A pg \in Page : Holds(u.as, pg) \/ pg \in u.free <=> Holds(k.as, pg) \/ pg \in fr
  BY <1>10, <1>11 DEF Trades
<1>13. s \in Page /\ s \notin u.free /\ ~Holds(u.as, s)  BY <1>2, <1>4, <1>6, <1>11, <1>12
<1>14. \A pg \in Page : pg \in u.free \/ Holds(u.as, pg) \/ pg = s  BY <1>2, <1>6, <1>12
<1>15. Mapped(u.as, PGSIZE)
  <2>1. ASSUME NEW b \in UserPage PROVE b = 0 <=> Addr(b) < PGSIZE
    <3>1. b \in Nat  BY UserPageFacts
    <3>2. PGSIZE \in Nat /\ 1 \in Nat /\ Addr(1) = PGSIZE  BY MemoryAssumption DEF Addr
    <3>3. b < 1 <=> Addr(b) < Addr(1)  BY <3>1, <3>2, AddrFacts
    <3> QED  BY <3>1, <3>2, <3>3
  <2> QED  BY <1>10, <2>1 DEF Mapped
<1> QED  BY <1>12, <1>13, <1>14, <1>15 DEF u, fr, s, k

LEMMA InitMemory ==
  ASSUME Init
  PROVE  MemoryInv
<1> DEFINE k == setupkvm(initproc, Page)
           s == kalloc(initproc, k.free)
           u == inituvm(k.as, k.free \ {s})
<1>1. /\ s \in Page /\ s \notin u.free /\ u.free \subseteq Page
      /\ u.as \in AddressSpace /\ Apart(u.as, u.free)
      /\ ~Holds(u.as, s)
      /\ \A pg \in Page : pg \in u.free \/ Holds(u.as, pg) \/ pg = s
      /\ Mapped(u.as, PGSIZE)
  BY InitFacts
<1>2. /\ free = u.free
      /\ state = [p \in Proc |-> IF p = initproc THEN "RUNNABLE" ELSE "UNUSED"]
      /\ kstack = [p \in Proc |-> IF p = initproc THEN s ELSE None]
      /\ vm = [p \in Proc |-> IF p = initproc THEN u.as ELSE None]
      /\ sz = [p \in Proc |-> IF p = initproc THEN PGSIZE ELSE 0]
      /\ new = [p \in Proc |-> None]
      /\ call = [p \in Proc |-> At("user")]
      /\ cpu = [c \in CPU |-> None]
      /\ cr3 = [c \in CPU |-> kpgdir]
      /\ lock = None
  BY DEF Init
<1> HIDE DEF k, s, u
<1>3. initproc \in Proc /\ None \notin Page /\ None \notin Proc \cup CPU /\ u.as # None
  BY <1>1, MemoryAssumption, NoneAssumption
<1>4. At("user") \in CallState /\ At("user").at = "user" /\ At("user").a = 0
  BY DEF At, CallState, Label
<1>5. PGSIZE \in 0 .. KERNBASE /\ 0 \in 0 .. KERNBASE  BY MemoryAssumption
<1>6. TypeOK  BY <1>1, <1>2, <1>3, <1>4, <1>5 DEF TypeOK
<1>7. CpuInv  BY <1>2 DEF CpuInv
<1>8. ChildInv  BY <1>2, <1>4 DEF ChildInv
<1>9. ASSUME NEW p \in Proc PROVE ProcInv(p)
  <2>1. SlotInv(p)  BY <1>1, <1>2, <1>3, <1>4 DEF SlotInv
  <2>2. MapInv(p)  BY <1>1, <1>2, <1>4 DEF MapInv
  <2>3. TableInv(p)  BY <1>1, <1>2 DEF TableInv, Apart
  <2> QED  BY <2>1, <2>2, <2>3 DEF ProcInv
<1>10. PartInv
  <2> DEFINE o == <<initproc, "vm">>
             x == <<initproc, "kstack">>
  <2>1. o \in Owner /\ x \in Owner  BY <1>3, OwnFacts DEF Kind
  <2>2. Own(o) = PagesOf(u.as) /\ Own(x) = {s}  BY <1>1, <1>2, <1>3, OwnFacts
  <2>3. \A pg : pg \in PagesOf(u.as) => pg \in Page /\ pg \notin u.free /\ pg # s
    BY <1>1, <1>3, PagesOfFacts DEF Apart
  <2>4. \A y \in Owner : y = o \/ y = x \/ Own(y) = {}
    <3> SUFFICES ASSUME NEW y \in Owner, y # o, y # x PROVE Own(y) = {}
      OBVIOUS
    <3>1. PICK p \in Proc : y = <<p, "vm">> \/ y = <<p, "new">> \/ y = <<p, "kstack">>
      BY OwnFacts
    <3>2. CASE y = <<p, "vm">>
      <4>1. p # initproc  BY <3>2
      <4>2. vm[p] = None  BY <1>2, <4>1
      <4> QED  BY <3>2, <4>2, OwnFacts, PagesOfFacts
    <3>3. CASE y = <<p, "new">>
      <4>1. new[p] = None  BY <1>2
      <4> QED  BY <3>3, <4>1, OwnFacts, PagesOfFacts
    <3>4. CASE y = <<p, "kstack">>
      <4>1. p # initproc  BY <3>4
      <4>2. kstack[p] = None  BY <1>2, <4>1
      <4> QED  BY <3>4, <4>2, OwnFacts
    <3> QED  BY <3>1, <3>2, <3>3, <3>4
  <2> HIDE DEF o, x
  <2>5. \A y \in Owner : Own(y) \cap free = {}  BY <1>1, <1>2, <2>2, <2>3, <2>4
  <2>6. \A y, z \in Owner : y # z => Own(y) \cap Own(z) = {}  BY <2>2, <2>3, <2>4
  <2>7. \A pg \in Page : pg \in free \/ \E y \in Owner : pg \in Own(y)
    BY <1>1, <1>2, <1>3, <2>1, <2>2, PagesOfFacts
  <2> QED  BY <2>5, <2>6, <2>7 DEF PartInv
<1> QED  BY <1>6, <1>7, <1>8, <1>9, <1>10 DEF MemoryInv

\* A step keeps the invariant.
LEMMA NextMemory ==
  ASSUME MemoryInv, [Next]_vars
  PROVE  MemoryInv'
<1>1. CASE UNCHANGED vars  BY <1>1, StutterStep
<1>2. ASSUME NEW p \in Proc, sys_sbrk(p) \/ GrowStep(p) PROVE MemoryInv'
  BY <1>2, ShrinkStep, GrowBegins, GrowStepStep DEF sys_sbrk
<1>3. ASSUME NEW p \in Proc, Fork(p) \/ ForkSetup(p) \/ ForkCopy(p) \/ ForkDone(p)
      PROVE  MemoryInv'
  BY <1>3, ForkBegins, ForkSetupStep, ForkCopyStep, ForkDoneStep
<1>4. ASSUME NEW p \in Proc, \/ Exec(p) \/ ExecLoad(p) \/ ExecAllocStep(p)
                             \/ ExecCommit(p) \/ ExecFree(p) \/ Wait(p)
      PROVE  MemoryInv'
  BY <1>4, ExecStep, ExecLoadStep, ExecAllocStepStep, ExecCommitStep, ExecFreeStep, WaitStep
<1>5. ASSUME NEW c \in CPU, Leave(c) \/ Switchkvm(c) \/ Schedule(c) PROVE MemoryInv'
  BY <1>5, LeaveStep, SwitchkvmStep, ScheduleStep
<1> QED  BY <1>1, <1>2, <1>3, <1>4, <1>5 DEF Next

\* The inductive invariant of memory: what every process owns by its state, which
\* pages its tables map at every point of sbrk(), fork() and exec(), and that
\* every page is free or has one owner.
THEOREM MemoryInvariant == Spec => []MemoryInv
<1>1. Init => MemoryInv  BY InitMemory
<1>2. MemoryInv /\ [Next]_vars => MemoryInv'  BY NextMemory
<1> QED  BY <1>1, <1>2, PTL DEF Spec

\* Page tables, sizes and calls keep their types.
THEOREM MemoryTypeCorrect == Spec => []TypeOK
<1>1. MemoryInv => TypeOK  BY DEF MemoryInv
<1> QED  BY <1>1, MemoryInvariant, PTL

\* Outside growproc() a process has exactly the pages below its size, and no
\* copyuvm(), mappages() or loaduvm() panics, whichever allocation fails.
THEOREM SizesAreMapped == Spec => []MappedBelowSize
<1>1. MemoryInv => MappedBelowSize
  <2> SUFFICES ASSUME MemoryInv, NEW p \in Proc
               PROVE  /\ call[p].at # "panic"
                      /\ vm[p] # None /\ call[p].at \notin {"grow", "fault"} =>
                           \A a \in UserPage : vm[p].pte[a] # None <=> a * PGSIZE < sz[p]
    BY DEF MappedBelowSize
  <2>1. SlotInv(p) /\ MapInv(p)  BY DEF MemoryInv, ProcInv
  <2>2. call[p].at # "panic"  BY <2>1 DEF SlotInv
  <2>3. vm[p] # None /\ call[p].at \notin {"grow", "fault"} => Mapped(vm[p], sz[p])
    BY <2>1 DEF MapInv
  <2> QED  BY <2>2, <2>3 DEF Mapped, Addr
<1> QED  BY <1>1, MemoryInvariant, PTL

\* No CPU has a freed page table loaded: exec() loads the new directory before
\* it frees the old one, and the scheduler loads kpgdir before wait() can run.
THEOREM LoadedTablesLive == Spec => []LoadedTableLive
<1>1. MemoryInv => LoadedTableLive
  <2> SUFFICES ASSUME MemoryInv, NEW c \in CPU, cr3[c] # kpgdir
               PROVE  \E p \in Proc : vm[p] # None /\ cr3[c] = vm[p].dir
    BY DEF LoadedTableLive
  <2>1. cpu[c] # None /\ cpu[c] \in Proc /\ cr3[c] = vm[cpu[c]].dir
    BY DEF MemoryInv, CpuInv, TypeOK
  <2>2. state[cpu[c]] \in {"RUNNABLE", "ZOMBIE", "RUNNING"}  BY <2>1 DEF MemoryInv, CpuInv
  <2>3. SlotInv(cpu[c])  BY <2>1 DEF MemoryInv, ProcInv
  <2>4. vm[cpu[c]] # None  BY <2>2, <2>3 DEF SlotInv
  <2> QED  BY <2>1, <2>4
<1> QED  BY <1>1, MemoryInvariant, PTL

\* A page of an injective table is at one place.
LEMMA SpotFacts ==
  ASSUME NEW as \in AddressSpace, NEW pg \in Page
  PROVE  /\ Holds(as, pg) <=> \E l \in Spot : PageAt(as, l) = pg
         /\ Injective(as) => \A l, x \in Spot : PageAt(as, l) = pg /\ PageAt(as, x) = pg => l = x
<1>1. as.tab \in [Table -> Page \cup {None}] /\ as.pte \in [UserPage -> PTE \cup {None}]
  BY DEF AddressSpace
<1>2. None \notin Page  BY MemoryAssumption
<1>3. /\ <<"dir", 0>> \in Spot /\ <<"ktab", 0>> \in Spot
      /\ \A t \in Table : <<"tab", t>> \in Spot
      /\ \A a \in UserPage : <<"pte", a>> \in Spot
  BY DEF Spot
<1>4. ASSUME NEW l \in Spot
      PROVE  \/ l = <<"dir", 0>> \/ l = <<"ktab", 0>>
             \/ \E t \in Table : l = <<"tab", t>>
             \/ \E a \in UserPage : l = <<"pte", a>>
  <2>1. CASE l \in {"tab"} \X Table
    <3>1. PICK s \in {"tab"}, t \in Table : l = <<s, t>>  BY <2>1
    <3> QED  BY <3>1
  <2>2. CASE l \in {"pte"} \X UserPage
    <3>1. PICK s \in {"pte"}, a \in UserPage : l = <<s, a>>  BY <2>2
    <3> QED  BY <3>1
  <2> QED  BY <2>1, <2>2, Zenon DEF Spot
<1>5. /\ PageAt(as, <<"dir", 0>>) = as.dir /\ PageAt(as, <<"ktab", 0>>) = as.ktab
      /\ \A t \in Table : PageAt(as, <<"tab", t>>) = as.tab[t]
      /\ \A a \in UserPage : PageAt(as, <<"pte", a>>) = IF as.pte[a] = None THEN None ELSE as.pte[a].pa
  BY DEF PageAt
<1>6. Holds(as, pg) <=> \E l \in Spot : PageAt(as, l) = pg
  <2>1. ASSUME Holds(as, pg) PROVE \E l \in Spot : PageAt(as, l) = pg
    BY <1>3, <1>5, <2>1 DEF Holds
  <2>2. ASSUME NEW l \in Spot, PageAt(as, l) = pg PROVE Holds(as, pg)
    <3>1. CASE l = <<"dir", 0>> \/ l = <<"ktab", 0>>  BY <1>5, <2>2, <3>1 DEF Holds
    <3>2. CASE \E t \in Table : l = <<"tab", t>>  BY <1>5, <2>2, <3>2 DEF Holds
    <3>3. CASE \E a \in UserPage : l = <<"pte", a>>
      <4>1. PICK a \in UserPage : l = <<"pte", a>>  BY <3>3
      <4>2. as.pte[a] # None /\ as.pte[a].pa = pg  BY <1>2, <1>5, <2>2, <4>1
      <4> QED  BY <4>2 DEF Holds
    <3> QED  BY <1>4, <3>1, <3>2, <3>3
  <2> QED  BY <2>1, <2>2
<1>7. ASSUME Injective(as), NEW l \in Spot, NEW x \in Spot, PageAt(as, l) = pg, PageAt(as, x) = pg
      PROVE  l = x
  <2> DEFINE Kinds(y) == \/ y = <<"dir", 0>> /\ pg = as.dir
                         \/ y = <<"ktab", 0>> /\ pg = as.ktab
                         \/ \E t \in Table : y = <<"tab", t>> /\ as.tab[t] = pg
                         \/ \E a \in UserPage : y = <<"pte", a>> /\ as.pte[a] # None /\ as.pte[a].pa = pg
  <2>1. ASSUME NEW y \in Spot, PageAt(as, y) = pg PROVE Kinds(y)
    <3>1. CASE y = <<"dir", 0>>  BY <1>5, <2>1, <3>1
    <3>2. CASE y = <<"ktab", 0>>  BY <1>5, <2>1, <3>2
    <3>3. CASE \E t \in Table : y = <<"tab", t>>  BY <1>5, <2>1, <3>3
    <3>4. CASE \E a \in UserPage : y = <<"pte", a>>
      <4>1. PICK a \in UserPage : y = <<"pte", a>>  BY <3>4
      <4>2. as.pte[a] # None /\ as.pte[a].pa = pg  BY <1>2, <1>5, <2>1, <4>1
      <4> QED  BY <4>1, <4>2
    <3> QED  BY <1>4, <3>1, <3>2, <3>3, <3>4
  <2>2. Kinds(l) /\ Kinds(x)  BY <1>7, <2>1
  <2>3. CASE pg = as.dir  BY <1>7, <2>2, <2>3 DEF Injective
  <2>4. CASE pg = as.ktab  BY <1>7, <2>2, <2>4 DEF Injective
  <2>5. CASE \E t \in Table : l = <<"tab", t>> /\ as.tab[t] = pg
    <3>1. PICK t \in Table : l = <<"tab", t>> /\ as.tab[t] = pg  BY <2>5
    <3>2. \E w \in Table : x = <<"tab", w>> /\ as.tab[w] = pg
      BY <1>7, <2>2, <3>1 DEF Injective
    <3>3. PICK w \in Table : x = <<"tab", w>> /\ as.tab[w] = pg  BY <3>2
    <3> QED  BY <1>2, <1>7, <3>1, <3>3 DEF Injective
  <2>6. CASE \E a \in UserPage : l = <<"pte", a>> /\ as.pte[a] # None /\ as.pte[a].pa = pg
    <3>1. PICK a \in UserPage : l = <<"pte", a>> /\ as.pte[a] # None /\ as.pte[a].pa = pg
      BY <2>6
    <3>2. /\ pg # as.dir /\ pg # as.ktab /\ \A t \in Table : as.tab[t] # pg
      BY <1>7, <3>1 DEF Injective
    <3>3. PICK b \in UserPage : x = <<"pte", b>> /\ as.pte[b] # None /\ as.pte[b].pa = pg
      BY <2>2, <3>2
    <3>4. a = b  BY <1>7, <3>1, <3>3 DEF Injective
    <3> QED  BY <3>1, <3>3, <3>4
  <2> QED  BY <2>2, <2>3, <2>4, <2>5, <2>6
<1> QED  BY <1>6, <1>7

\* No page leaks and none is shared, whichever allocation of fork(), exec() or
\* sbrk() fails and however the calls interleave.
THEOREM PagesOwnedOnce == Spec => []OwnedOnce
<1>1. MemoryInv => OwnedOnce
  <2> SUFFICES ASSUME MemoryInv, NEW pg \in Page
               PROVE  Cardinality(Uses(pg)) = (IF pg \in free THEN 0 ELSE 1)
    BY DEF OwnedOnce
  <2> DEFINE VmUse(u) == \E p \in Proc, l \in Spot :
                           u = <<p, "vm", l>> /\ vm[p] # None /\ PageAt(vm[p], l) = pg
             NewUse(u) == \E p \in Proc, l \in Spot :
                            u = <<p, "new", l>> /\ new[p] # None /\ PageAt(new[p], l) = pg
             StackUse(u) == \E p \in Proc : u = <<p, "kstack">> /\ kstack[p] = pg
  <2>1. \A u : u \in Uses(pg) <=> VmUse(u) \/ NewUse(u) \/ StackUse(u)  BY DEF Uses
  <2>2. None \notin Page /\ free \subseteq Page  BY MemoryAssumption DEF MemoryInv, TypeOK
  <2>3. \A p \in Proc : <<p, "vm">> \in Owner /\ <<p, "new">> \in Owner /\ <<p, "kstack">> \in Owner
    BY OwnFacts DEF Kind
  <2>4. ASSUME NEW p \in Proc
        PROVE  /\ vm[p] # None => vm[p] \in AddressSpace /\ Injective(vm[p])
               /\ new[p] # None => new[p] \in AddressSpace /\ Injective(new[p])
    BY TablesApart DEF Apart
  <2>5. ASSUME NEW p \in Proc, NEW l \in Spot, vm[p] # None, PageAt(vm[p], l) = pg
        PROVE  pg \in Own(<<p, "vm">>) /\ \A m \in Spot : PageAt(vm[p], m) = pg => m = l
    <3>1. vm[p] \in AddressSpace /\ Injective(vm[p])  BY <2>4, <2>5
    <3>2. Holds(vm[p], pg) /\ \A m \in Spot : PageAt(vm[p], m) = pg => m = l
      BY <2>5, <3>1, SpotFacts
    <3>3. pg \in PagesOf(vm[p])  BY <3>1, <3>2, PagesOfFacts
    <3> QED  BY <3>2, <3>3, OwnFacts
  <2>6. ASSUME NEW p \in Proc, NEW l \in Spot, new[p] # None, PageAt(new[p], l) = pg
        PROVE  pg \in Own(<<p, "new">>) /\ \A m \in Spot : PageAt(new[p], m) = pg => m = l
    <3>1. new[p] \in AddressSpace /\ Injective(new[p])  BY <2>4, <2>6
    <3>2. Holds(new[p], pg) /\ \A m \in Spot : PageAt(new[p], m) = pg => m = l
      BY <2>6, <3>1, SpotFacts
    <3>3. pg \in PagesOf(new[p])  BY <3>1, <3>2, PagesOfFacts
    <3> QED  BY <3>2, <3>3, OwnFacts
  <2>7. ASSUME NEW p \in Proc, kstack[p] = pg PROVE pg \in Own(<<p, "kstack">>)
    BY <2>2, <2>7, OwnFacts
  <2> DEFINE OwnerOf(u) == <<u[1], u[2]>>
  <2>8. ASSUME NEW u \in Uses(pg)
        PROVE  /\ OwnerOf(u) \in Owner /\ pg \in Own(OwnerOf(u))
               /\ \A x \in Uses(pg) : OwnerOf(x) = OwnerOf(u) => x = u
    <3>1. CASE VmUse(u)
      <4>1. PICK p \in Proc, l \in Spot : u = <<p, "vm", l>> /\ vm[p] # None /\ PageAt(vm[p], l) = pg
        BY <3>1
      <4>2. OwnerOf(u) = <<p, "vm">>  BY <4>1
      <4>3. ASSUME NEW x \in Uses(pg), OwnerOf(x) = OwnerOf(u) PROVE x = u
        <5>1. x[1] = p /\ x[2] = "vm"  BY <4>2, <4>3
        <5>2. VmUse(x)  BY <2>1, <5>1
        <5>3. PICK q \in Proc, m \in Spot : x = <<q, "vm", m>> /\ PageAt(vm[q], m) = pg
          BY <5>2
        <5>4. q = p  BY <5>1, <5>3
        <5>5. m = l  BY <2>5, <4>1, <5>3, <5>4
        <5> QED  BY <4>1, <5>3, <5>4, <5>5
      <4> QED  BY <2>3, <2>5, <4>1, <4>2, <4>3
    <3>2. CASE NewUse(u)
      <4>1. PICK p \in Proc, l \in Spot : u = <<p, "new", l>> /\ new[p] # None /\ PageAt(new[p], l) = pg
        BY <3>2
      <4>2. OwnerOf(u) = <<p, "new">>  BY <4>1
      <4>3. ASSUME NEW x \in Uses(pg), OwnerOf(x) = OwnerOf(u) PROVE x = u
        <5>1. x[1] = p /\ x[2] = "new"  BY <4>2, <4>3
        <5>2. NewUse(x)  BY <2>1, <5>1
        <5>3. PICK q \in Proc, m \in Spot : x = <<q, "new", m>> /\ PageAt(new[q], m) = pg
          BY <5>2
        <5>4. q = p  BY <5>1, <5>3
        <5>5. m = l  BY <2>6, <4>1, <5>3, <5>4
        <5> QED  BY <4>1, <5>3, <5>4, <5>5
      <4> QED  BY <2>3, <2>6, <4>1, <4>2, <4>3
    <3>3. CASE StackUse(u)
      <4>1. PICK p \in Proc : u = <<p, "kstack">> /\ kstack[p] = pg  BY <3>3
      <4>2. OwnerOf(u) = <<p, "kstack">>  BY <4>1
      <4>3. ASSUME NEW x \in Uses(pg), OwnerOf(x) = OwnerOf(u) PROVE x = u
        <5>1. x[1] = p /\ x[2] = "kstack"  BY <4>2, <4>3
        <5>2. StackUse(x)  BY <2>1, <5>1
        <5>3. PICK q \in Proc : x = <<q, "kstack">>  BY <5>2
        <5>4. q = p  BY <5>1, <5>3
        <5> QED  BY <4>1, <5>3, <5>4
      <4> QED  BY <2>3, <2>7, <4>1, <4>2, <4>3
    <3> QED  BY <2>1, <3>1, <3>2, <3>3
  <2>9. ASSUME NEW o \in Owner, pg \in Own(o) PROVE \E u : u \in Uses(pg)
    <3>1. PICK p \in Proc : o = <<p, "vm">> \/ o = <<p, "new">> \/ o = <<p, "kstack">>
      BY OwnFacts
    <3>2. CASE o = <<p, "vm">>
      <4>1. pg \in PagesOf(vm[p])  BY <2>9, <3>2, OwnFacts
      <4>2. vm[p] # None  BY <4>1, PagesOfFacts
      <4>3. Holds(vm[p], pg) /\ vm[p] \in AddressSpace  BY <2>4, <4>1, <4>2, PagesOfFacts
      <4>4. PICK l \in Spot : PageAt(vm[p], l) = pg  BY <4>3, SpotFacts
      <4>5. VmUse(<<p, "vm", l>>)  BY <4>2, <4>4
      <4> QED  BY <2>1, <4>5
    <3>3. CASE o = <<p, "new">>
      <4>1. pg \in PagesOf(new[p])  BY <2>9, <3>3, OwnFacts
      <4>2. new[p] # None  BY <4>1, PagesOfFacts
      <4>3. Holds(new[p], pg) /\ new[p] \in AddressSpace  BY <2>4, <4>1, <4>2, PagesOfFacts
      <4>4. PICK l \in Spot : PageAt(new[p], l) = pg  BY <4>3, SpotFacts
      <4>5. NewUse(<<p, "new", l>>)  BY <4>2, <4>4
      <4> QED  BY <2>1, <4>5
    <3>4. CASE o = <<p, "kstack">>
      <4>1. kstack[p] = pg  BY <2>9, <3>4, OwnFacts
      <4>2. StackUse(<<p, "kstack">>)  BY <4>1
      <4> QED  BY <2>1, <4>2
    <3> QED  BY <3>1, <3>2, <3>3, <3>4
  <2> HIDE DEF OwnerOf, VmUse, NewUse, StackUse
  <2>10. CASE pg \in free
    <3>1. \A o \in Owner : pg \notin Own(o)  BY <2>10 DEF MemoryInv, PartInv
    <3>2. Uses(pg) = {}  BY <2>8, <3>1
    <3> QED  BY <2>10, <3>2, FS_EmptySet
  <2>11. CASE pg \notin free
    <3>1. PICK o \in Owner : pg \in Own(o)  BY <2>11 DEF MemoryInv, PartInv
    <3>2. PICK u : u \in Uses(pg)  BY <2>9, <3>1
    <3>3. ASSUME NEW x \in Uses(pg) PROVE x = u
      <4>1. OwnerOf(x) = OwnerOf(u)  BY <2>8, <3>2 DEF MemoryInv, PartInv
      <4> QED  BY <2>8, <3>2, <4>1
    <3>4. Uses(pg) = {u}  BY <3>2, <3>3
    <3> QED  BY <2>11, <3>4, FS_Singleton
  <2> QED  BY <2>10, <2>11
<1> QED  BY <1>1, MemoryInvariant, PTL

\* A set of natural numbers has a smallest element.
LEMMA MinOfNat ==
  ASSUME NEW S \in SUBSET Nat, S # {}
  PROVE  Min(S) \in S /\ \A y \in S : Min(S) <= y
<1> DEFINE R == {ss \in Nat \X Nat : ss[1] < ss[2]}
<1>1. IsWellFoundedOn(R, Nat)  BY NatLessThanWellFounded, Zenon DEF OpToRel
<1>2. \A x, y \in Nat : y < x => <<y, x>> \in R  OBVIOUS
<1> HIDE DEF R
<1>3. PICK x \in S : \A y \in S : ~(<<y, x>> \in R)  BY <1>1, WFMin, Zenon
<1>4. ASSUME NEW y \in S PROVE x <= y
  <2>1. x \in Nat /\ y \in Nat /\ ~(<<y, x>> \in R)  BY <1>3
  <2>2. ~(y < x)  BY <1>2, <2>1, Zenon
  <2> QED  BY <2>1, <2>2
<1> QED  BY <1>4 DEF Min

-----------------------------------------------------------------------------
(* System call arguments *)

\* The process's memory, and the strings in it.
ArgsTypeOK == procsz \in 0 .. Top /\ nul \subseteq 0 .. procsz - 1

\* A sum that starts inside the memory does not wrap.
LEMMA U32Facts ==
  /\ \A k \in Int : u32(k) \in 0 .. 2 * Top - 1
  /\ \A k \in UInt : u32(k) = k
<1>1. Top \in Nat \ {0}  BY ArgsAssumption
<1> QED  BY <1>1 DEF u32, UInt

\* The tests of fetchint() and argptr(), without remainders.
LEMMA TestFacts ==
  ASSUME ArgsTypeOK, NEW i \in UInt, NEW k \in -Top .. Top
  PROVE  ~(k < 0 \/ i >= procsz \/ u32(i + k) > procsz)
           <=> k >= 0 /\ i + k <= procsz /\ i < procsz
<1>1. Top \in Nat \ {0} /\ procsz \in 0 .. Top /\ i \in Nat /\ k \in Int
  BY ArgsAssumption DEF ArgsTypeOK, UInt
<1>2. CASE k >= 0 /\ i < procsz
  <2>1. i + k \in UInt  BY <1>1, <1>2 DEF UInt
  <2>2. u32(i + k) = i + k  BY <2>1, U32Facts
  <2> QED  BY <1>1, <1>2, <2>2
<1>3. CASE ~(k >= 0 /\ i < procsz)  BY <1>1, <1>3
<1> QED  BY <1>2, <1>3

\* The end that fetchstr() finds.
LEMMA FetchstrFacts ==
  ASSUME ArgsTypeOK, NEW i \in UInt
  PROVE  IF \E s \in nul : s >= i
         THEN i + fetchstr(i) \in nul /\ (i .. i + fetchstr(i) - 1) \cap nul = {}
         ELSE fetchstr(i) = -1
<1> DEFINE ends == {s \in nul : s >= i}
           m == Min(ends)
<1>1. procsz \in Nat /\ i \in Nat /\ \A s \in nul : s \in Nat /\ s < procsz
  BY ArgsAssumption DEF ArgsTypeOK, UInt
<1>2. CASE ends = {}
  <2>1. fetchstr(i) = -1  BY <1>2 DEF fetchstr
  <2> QED  BY <1>2, <2>1
<1>3. CASE ends # {}
  <2>1. ends \in SUBSET Nat  BY <1>1
  <2>2. m \in ends /\ \A s \in ends : m <= s
    <3> HIDE DEF ends
    <3> QED  BY <1>3, <2>1, MinOfNat
  <2>3. i < procsz  BY <1>1, <2>2
  <2>4. fetchstr(i) = m - i
    <3>1. ~(i >= procsz)  BY <1>1, <2>3
    <3> QED  BY <1>3, <3>1 DEF fetchstr
  <2>5. m \in Nat /\ m \in nul  BY <2>1, <2>2
  <2> HIDE DEF m
  <2>6. i + (m - i) = m  BY <1>1, <2>5
  <2>7. ASSUME NEW s \in nul, s \in i .. m - 1 PROVE FALSE
    <3>1. s \in ends /\ s \in Nat /\ s < m  BY <1>1, <2>5, <2>7
    <3>2. m <= s  BY <2>2, <3>1
    <3> QED  BY <2>5, <3>1, <3>2
  <2>8. (i .. m - 1) \cap nul = {}  BY <2>7
  <2>9. \E s \in nul : s >= i  BY <1>3
  <2>10. i + fetchstr(i) = m /\ i + fetchstr(i) - 1 = m - 1  BY <1>1, <2>4, <2>5, <2>6
  <2> QED  BY <2>5, <2>8, <2>9, <2>10
<1> QED  BY <1>2, <1>3

LEMMA ArgsStep == ArgsTypeOK /\ ArgsInside /\ [ArgsNext]_argVars => (ArgsTypeOK /\ ArgsInside)'
<1> SUFFICES ASSUME ArgsTypeOK, ArgsInside, [ArgsNext]_argVars
             PROVE  ArgsTypeOK' /\ ArgsInside'
  OBVIOUS
<1>a. Top \in Nat \ {0} /\ Word \in 1 .. Top  BY ArgsAssumption
<1>1. CASE UNCHANGED argVars
  <2>1. procsz' = procsz /\ nul' = nul /\ arg' = arg  BY <1>1 DEF argVars
  <2> QED  BY <2>1 DEF ArgsTypeOK, ArgsInside
<1>2. CASE ArgInt
  <2>1. PICK esp \in UInt, k \in 0 .. 2 :
          Did("word", esp + Word + Word * k, Word, argint(esp, k))
    BY <1>2 DEF ArgInt
  <2> DEFINE x == esp + Word + Word * k
             i == u32(x)
  <2>2. x \in Int
    <3>1. Word * k \in Int  BY <1>a
    <3> QED  BY <1>a, <3>1 DEF UInt
  <2>3. argint(esp, k) = fetchint(i)  BY DEF argint
  <2>4. /\ arg' = [kind |-> "word", addr |-> x, len |-> Word, res |-> fetchint(i)]
        /\ procsz' = procsz /\ nul' = nul
    BY <2>1, <2>3 DEF Did
  <2> HIDE DEF x
  <2>5. i \in UInt  BY <2>2, U32Facts DEF UInt
  <2> HIDE DEF i
  <2>6. ~(Word < 0 \/ i >= procsz \/ u32(i + Word) > procsz)
           <=> Word >= 0 /\ i + Word <= procsz /\ i < procsz
    <3>1. Word \in -Top .. Top  BY <1>a
    <3> QED  BY <2>5, <3>1, TestFacts
  <2>7. fetchint(i) = IF Word >= 0 /\ i + Word <= procsz /\ i < procsz THEN 0 ELSE -1
    BY <1>a, <2>6 DEF fetchint
  <2>8. /\ arg'.kind = "word" /\ u32(arg'.addr) = i /\ arg'.len = Word /\ arg'.res = fetchint(i)
    BY <2>4 DEF i
  <2> QED  BY <2>4, <2>7, <2>8 DEF ArgsTypeOK, ArgsInside
<1>3. CASE ArgPtr
  <2>1. PICK i \in UInt, k \in Int_ : Did("buffer", i, k, argptr(i, k))  BY <1>3 DEF ArgPtr
  <2>2. /\ arg' = [kind |-> "buffer", addr |-> i, len |-> k, res |-> argptr(i, k)]
        /\ procsz' = procsz /\ nul' = nul
    BY <2>1 DEF Did
  <2>3. ~Outside(i, k) <=> k >= 0 /\ i + k <= procsz /\ i < procsz
    <3>1. k \in -Top .. Top  BY <1>a DEF Int_
    <3> QED  BY <3>1, TestFacts DEF Outside
  <2>4. argptr(i, k) = IF k >= 0 /\ i + k <= procsz /\ i < procsz THEN 0 ELSE -1
    BY <2>3 DEF argptr
  <2>5. u32(i) = i  BY U32Facts
  <2>6. /\ arg'.kind = "buffer" /\ u32(arg'.addr) = i /\ arg'.len = k /\ arg'.res = argptr(i, k)
    BY <2>2, <2>5
  <2> QED  BY <2>2, <2>4, <2>6 DEF ArgsTypeOK, ArgsInside
<1>4. CASE ArgStr
  <2>1. PICK i \in UInt : Did("string", i, 0, fetchstr(i))  BY <1>4 DEF ArgStr
  <2>2. /\ arg' = [kind |-> "string", addr |-> i, len |-> 0, res |-> fetchstr(i)]
        /\ procsz' = procsz /\ nul' = nul
    BY <2>1 DEF Did
  <2>3. u32(i) = i  BY U32Facts
  <2>4. arg'.kind = "string" /\ u32(arg'.addr) = i /\ arg'.res = fetchstr(i)  BY <2>2, <2>3
  <2>5. IF \E s \in nul : s >= i
        THEN i + fetchstr(i) \in nul /\ (i .. i + fetchstr(i) - 1) \cap nul = {}
        ELSE fetchstr(i) = -1
    BY FetchstrFacts
  <2>6. ArgsInside'
    <3> DEFINE f == fetchstr(i)
    <3> HIDE DEF f
    <3>1. IF \E s \in nul' : s >= i
          THEN i + f \in nul' /\ (i .. i + f - 1) \cap nul' = {}
          ELSE f = -1
      BY <2>2, <2>5 DEF f
    <3> QED  BY <2>4, <3>1 DEF ArgsInside, f
  <2> QED  BY <2>2, <2>6 DEF ArgsTypeOK
<1> QED  BY <1>1, <1>2, <1>3, <1>4 DEF ArgsNext

\* The tests of a system call's arguments accept exactly what lies in the
\* process's memory, for every size of the address space (fetchint, argptr,
\* fetchstr).
THEOREM ArgsAreInside == ArgsSpec => []ArgsInside
<1>1. ArgsInit => ArgsTypeOK /\ ArgsInside
  BY ArgsAssumption DEF ArgsInit, ArgsTypeOK, ArgsInside
<1>2. ArgsTypeOK /\ ArgsInside /\ [ArgsNext]_argVars => (ArgsTypeOK /\ ArgsInside)'
  BY ArgsStep
<1> QED  BY <1>1, <1>2, PTL DEF ArgsSpec

=============================================================================
