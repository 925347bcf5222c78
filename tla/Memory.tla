------------------------------- MODULE Memory -------------------------------
(***************************************************************************)
(* Physical pages (kalloc.c), page tables (vm.c), exec() (exec.c), and the *)
(* use fork(), growproc(), exit(), wait() and the scheduler make of them   *)
(* (proc.c, sysproc.c).                                                    *)
(*                                                                         *)
(* Processes run on the CPUs and lose them at any point, so that kalloc()  *)
(* fails in every place where it can: every page that a loop allocates is  *)
(* a step, while giving pages back is one step per call.  Addresses are    *)
(* unsigned integers, PGSIZE to a page; the kernel's half of a page table  *)
(* costs one page, and one page table holds NPTENTRIES user pages.  What a *)
(* page contains is left out; Pick says which free page kalloc() returns.  *)
(***************************************************************************)
EXTENDS Integers, Sequences, FiniteSets

CONSTANTS Proc, initproc, CPU,
          None,             \* no page, no process, no CPU
          Page,             \* physical pages
          Pick(_, _),       \* which of the free pages a process gets
          kpgdir,           \* the scheduler's page table, never freed
          PGSIZE, NPTENTRIES, KERNBASE,
          Delta,            \* arguments of sbrk()
          Segment,          \* ends of the program segments exec() may load
          Preempt,          \* bound: where a timer interrupt may take the CPU
          ArgLen            \* lengths of the arguments exec() pushes

Wrap == 2 * KERNBASE        \* 2^32
UserPage == 0 .. KERNBASE \div PGSIZE - 1
Table == {a \div NPTENTRIES : a \in UserPage}

ASSUME MemoryAssumption ==
  /\ initproc \in Proc /\ {None, kpgdir} \cap Page = {} /\ None \notin Proc \cup CPU
  /\ IsFiniteSet(Page) /\ Cardinality(Page) >= 5    \* userinit() needs five
  /\ \A p \in Proc, S \in SUBSET Page : S # {} => Pick(p, S) \in S
  /\ PGSIZE \in Nat \ {0} /\ NPTENTRIES \in Nat \ {0}
  /\ KERNBASE \in Nat \ {0} /\ KERNBASE % PGSIZE = 0
  /\ Delta \subseteq Int /\ Segment \subseteq Nat /\ ArgLen \subseteq Nat

\* A page table: the directory, the page of the kernel half, the page-table
\* pages of the user half, and the present PTEs with their PTE_U bit.
PTE == [pa : Page, user : BOOLEAN]
AddressSpace ==
  [dir : Page, ktab : Page, tab : [Table -> Page \cup {None}],
   pte : [UserPage -> PTE \cup {None}]]

ASSUME NoneAssumption == None \notin PTE /\ None \notin AddressSpace

VARIABLES
  free,     \* the pages on kmem.freelist
  state,    \* p->state
  kstack,   \* p->kstack
  vm,       \* the table p->pgdir points to, or None
  sz,       \* p->sz
  new,      \* the table that p's fork() or exec() builds, or None
  call,     \* where p is in its system call, with its local variables
  cpu,      \* the process a CPU runs, or None
  cr3,      \* the directory a CPU has loaded
  lock      \* the CPU that holds ptable.lock, or None

vars == <<free, state, kstack, vm, sz, new, call, cpu, cr3, lock>>

At(l) == [at |-> l, a |-> 0, end |-> 0, sz |-> 0, child |-> None]

-----------------------------------------------------------------------------
(* vm.c on a page table and the free pages: a result is a record of both   *)

PGROUNDUP(n) == ((n + PGSIZE - 1) \div PGSIZE) * PGSIZE

\* The page kalloc() takes for process p: any free page will do.
kalloc(p, fr) == Pick(p, fr)

\* kfree() of the pages in S.
kfree(fr, S) == fr \cup S

\* The pages that allocuvm() adds and deallocuvm() removes.
PagesIn(lo, hi) == {a \in UserPage : PGROUNDUP(lo) <= a * PGSIZE /\ a * PGSIZE < hi}

\* A directory and the kernel's mappings, or nothing at all.
setupkvm(p, fr) ==
  IF Cardinality(fr) < 2 THEN [st |-> "fail", as |-> None, free |-> fr]
  ELSE LET d == kalloc(p, fr)
           k == kalloc(p, fr \ {d})
       IN [st |-> "ok", free |-> fr \ {d, k},
           as |-> [dir |-> d, ktab |-> k, tab |-> [t \in Table |-> None],
                   pte |-> [a \in UserPage |-> None]]]

\* kalloc() and mappages() of one page at page number a; walkpgdir() may need
\* a page for the page table.  On failure the page is given back.
mappage(p, as, fr, a, user) ==
  LET t == a \div NPTENTRIES
      mem == kalloc(p, fr)
      pgtab == IF as.tab[t] = None THEN kalloc(p, fr \ {mem}) ELSE as.tab[t]
  IN IF fr = {} \/ (as.tab[t] = None /\ fr = {mem})
     THEN [st |-> "fail", as |-> as, free |-> fr]
     ELSE IF as.pte[a] # None THEN [st |-> "panic", as |-> as, free |-> fr]
     ELSE [st |-> "ok", free |-> fr \ {mem, pgtab},
           as |-> [as EXCEPT !.tab[t] = pgtab, !.pte[a] = [pa |-> mem, user |-> user]]]

\* Faulty variant of deallocuvm.
NoDealloc(as, fr, oldsz, newsz) == [as |-> as, free |-> fr]

deallocuvm(as, fr, oldsz, newsz) ==
  LET gone == {a \in PagesIn(newsz, oldsz) : as.pte[a] # None}
  IN [as |-> [as EXCEPT !.pte = [a \in UserPage |->
                                   IF a \in gone THEN None ELSE @[a]]],
      free |-> kfree(fr, {as.pte[a].pa : a \in gone})]

\* Faulty variant of freevm: the page-table pages are forgotten.
FreeUserOnly(as, fr) == kfree(deallocuvm(as, fr, KERNBASE, 0).free, {as.dir, as.ktab})

freevm(as, fr) ==
  kfree(deallocuvm(as, fr, KERNBASE, 0).free,
        {as.tab[t] : t \in {t \in Table : as.tab[t] # None}} \cup {as.dir, as.ktab})

clearpteu(as, a) == [as EXCEPT !.pte[a].user = FALSE]

\* What loaduvm() of a segment that ends at s may return: the file may be short.
loaduvm(as, s) ==
  IF \E a \in PagesIn(0, s) : as.pte[a] = None THEN {"panic"} ELSE {"ok", "fail"}

\* copyout(): every page of va .. va + len - 1 must be a user page.
copyout(as, va, len) ==
  \A a \in UserPage :
    (a + 1) * PGSIZE > va /\ a * PGSIZE < va + len =>
      as.pte[a] # None /\ as.pte[a].user

-----------------------------------------------------------------------------

\* The first process's page.
inituvm(as, fr) == mappage(initproc, as, fr, 0, TRUE)

\* userinit(): initcode's page table, with one page.
Init ==
  LET k == setupkvm(initproc, Page)
      s == kalloc(initproc, k.free)
      u == inituvm(k.as, k.free \ {s})
  IN /\ free = u.free
     /\ state = [p \in Proc |-> IF p = initproc THEN "RUNNABLE" ELSE "UNUSED"]
     /\ kstack = [p \in Proc |-> IF p = initproc THEN s ELSE None]
     /\ vm = [p \in Proc |-> IF p = initproc THEN u.as ELSE None]
     /\ sz = [p \in Proc |-> IF p = initproc THEN PGSIZE ELSE 0]
     /\ new = [p \in Proc |-> None]
     /\ call = [p \in Proc |-> At("user")]
     /\ cpu = [c \in CPU |-> None]
     /\ cr3 = [c \in CPU |-> kpgdir]
     /\ lock = None

Running(p, l) == \E c \in CPU : cpu[c] = p /\ lock # c /\ call[p].at = l
Goto(p, l) == call' = [call EXCEPT ![p] = At(l)]

\* switchuvm(): the CPU that runs p loads the directory of as.
switchuvm(p, as) == [c \in CPU |-> IF cpu[c] = p THEN as.dir ELSE cr3[c]]

procs == <<state, kstack>>
cpus == <<cpu, cr3, lock>>

-----------------------------------------------------------------------------
(* sys_sbrk() and growproc() *)

\* growproc(n) with n <= 0 ends at once.  sz + n wraps: deallocuvm() then does
\* nothing and the call succeeds.  When the new size is 0 the pages are freed,
\* but growproc() takes the result for a failure and leaves sz and cr3 alone;
\* the process has no code left and faults.
Shrink(p) ==
  /\ Running(p, "user")
  /\ \E n \in {d \in Delta : d < 0} :
       LET newsz == (sz[p] + n) % Wrap
           d == deallocuvm(vm[p], free, sz[p], newsz)
       IN IF newsz >= sz[p]
          THEN UNCHANGED <<free, vm, sz, cr3, call>>
          ELSE /\ vm' = [vm EXCEPT ![p] = d.as] /\ free' = d.free
               /\ IF newsz = 0
                  THEN Goto(p, "fault") /\ UNCHANGED <<sz, cr3>>
                  ELSE /\ sz' = [sz EXCEPT ![p] = newsz]
                       /\ cr3' = switchuvm(p, d.as)
                       /\ UNCHANGED call
  /\ UNCHANGED <<procs, new, cpu, lock>>

\* growproc(n) with n > 0: allocuvm() fails at once beyond KERNBASE.
Grow(p) ==
  /\ Running(p, "user")
  /\ \E n \in {d \in Delta : d > 0} :
       /\ sz[p] + n < KERNBASE
       /\ call' = [call EXCEPT ![p].at = "grow",
                     ![p].a = PGROUNDUP(sz[p]) \div PGSIZE, ![p].end = sz[p] + n]
  /\ UNCHANGED <<free, procs, vm, sz, new, cpus>>

\* One round of allocuvm()'s loop for growproc(), or its end.
GrowStep(p) ==
  /\ Running(p, "grow")
  /\ LET m == mappage(p, vm[p], free, call[p].a, TRUE)
         d == deallocuvm(vm[p], free, call[p].end, sz[p])
     IN \/ /\ call[p].a * PGSIZE >= call[p].end
           /\ sz' = [sz EXCEPT ![p] = call[p].end]
           /\ cr3' = switchuvm(p, vm[p])
           /\ Goto(p, "user")
           /\ UNCHANGED <<free, vm>>
        \/ /\ call[p].a * PGSIZE < call[p].end
           /\ vm' = [vm EXCEPT ![p] = IF m.st = "ok" THEN m.as ELSE d.as]
           /\ free' = IF m.st = "ok" THEN m.free ELSE d.free
           /\ call' = [call EXCEPT ![p] =
                         IF m.st = "ok" THEN [call[p] EXCEPT !.a = call[p].a + 1]
                         ELSE At(IF m.st = "fail" THEN "user" ELSE "panic")]
           /\ UNCHANGED <<sz, cr3>>
  /\ UNCHANGED <<procs, new, cpu, lock>>

sys_sbrk(p) == Shrink(p) \/ Grow(p)

-----------------------------------------------------------------------------
(* fork() *)

\* allocproc(): a slot and its kernel stack, or failure.
Fork(p) ==
  /\ Running(p, "user") /\ lock = None
  /\ \E q \in Proc :
       /\ state[q] = "UNUSED"
       /\ free # {}
       /\ state' = [state EXCEPT ![q] = "EMBRYO"]
       /\ kstack' = [kstack EXCEPT ![q] = kalloc(q, free)]
       /\ free' = free \ {kalloc(q, free)}
       /\ call' = [call EXCEPT ![p].at = "copy", ![p].child = q]
  /\ UNCHANGED <<vm, sz, new, cpus>>

\* copyuvm() failed: the child's slot and stack are given back.
ForkFails(p, fr) ==
  LET q == call[p].child
  IN /\ free' = kfree(fr, {kstack[q]})
     /\ kstack' = [kstack EXCEPT ![q] = None]
     /\ state' = [state EXCEPT ![q] = "UNUSED"]
     /\ new' = [new EXCEPT ![p] = None]
     /\ Goto(p, "user")

\* copyuvm(): setupkvm().
ForkSetup(p) ==
  /\ Running(p, "copy") /\ new[p] = None
  /\ LET k == setupkvm(p, free)
     IN IF k.st = "fail"
        THEN ForkFails(p, k.free)
        ELSE /\ new' = [new EXCEPT ![p] = k.as] /\ free' = k.free
             /\ UNCHANGED <<procs, call>>
  /\ UNCHANGED <<vm, sz, cpus>>

\* copyuvm(): one page, with the parent's flags.
ForkCopy(p) ==
  /\ Running(p, "copy") /\ new[p] # None /\ call[p].a * PGSIZE < sz[p]
  /\ LET a == call[p].a
         m == mappage(p, new[p], free, a, vm[p].pte[a].user)
     IN IF vm[p].pte[a] = None \/ m.st = "panic"
        THEN Goto(p, "panic") /\ UNCHANGED <<free, procs, new>>
        ELSE IF m.st = "fail" THEN ForkFails(p, freevm(new[p], m.free))
        ELSE /\ new' = [new EXCEPT ![p] = m.as] /\ free' = m.free
             /\ call' = [call EXCEPT ![p].a = @ + 1]
             /\ UNCHANGED procs
  /\ UNCHANGED <<vm, sz, cpus>>

\* The rest of fork(): the child becomes RUNNABLE.
ForkDone(p) ==
  /\ Running(p, "copy") /\ new[p] # None /\ call[p].a * PGSIZE >= sz[p]
  /\ lock = None
  /\ LET q == call[p].child
     IN /\ vm' = [vm EXCEPT ![q] = new[p]]
        /\ sz' = [sz EXCEPT ![q] = sz[p]]
        /\ state' = [state EXCEPT ![q] = "RUNNABLE"]
  /\ new' = [new EXCEPT ![p] = None]
  /\ Goto(p, "user")
  /\ UNCHANGED <<free, kstack, cpus>>

-----------------------------------------------------------------------------
(* exec() *)

\* bad: the new table is freed and the call fails.
ExecBad(p) ==
  /\ free' = freevm(new[p], free)
  /\ new' = [new EXCEPT ![p] = None]
  /\ Goto(p, "user")

\* The ELF header is right; setupkvm().
Exec(p) ==
  /\ Running(p, "user")
  /\ LET k == setupkvm(p, free)
     IN /\ k.st = "ok"
        /\ new' = [new EXCEPT ![p] = k.as] /\ free' = k.free
        /\ Goto(p, "load")
  /\ UNCHANGED <<procs, vm, sz, cpus>>

\* allocuvm(pgdir, oldsz, newsz) for exec(), up to its loop.
ExecAlloc(p, l, oldsz, newsz) ==
  IF newsz >= KERNBASE THEN ExecBad(p)
  ELSE /\ call' = [call EXCEPT ![p].sz = oldsz,
                     ![p].at = IF newsz < oldsz THEN @ ELSE l,
                     ![p].a = PGROUNDUP(oldsz) \div PGSIZE, ![p].end = newsz]
       /\ UNCHANGED <<free, new>>

\* The next program header: a segment that ends at s, a bad header, or no more
\* headers and the two pages of the stack.
ExecLoad(p) ==
  /\ Running(p, "load")
  /\ LET top == PGROUNDUP(call[p].sz)
     IN \/ \E s \in Segment : ExecAlloc(p, "segment", call[p].sz, s)
        \/ ExecBad(p)
        \/ ExecAlloc(p, "stack", top, top + 2 * PGSIZE)
  /\ UNCHANGED <<procs, vm, sz, cpus>>

\* One round of allocuvm()'s loop for exec(), or its end: a size of 0 counts
\* as a failure, and the page below the stack loses PTE_U.
ExecAllocStep(p) ==
  /\ Running(p, "segment") \/ Running(p, "stack")
  /\ LET end == call[p].end
         more == call[p].a * PGSIZE < end
         m == mappage(p, new[p], free, call[p].a, TRUE)
     IN CASE more /\ m.st = "ok" ->
               /\ new' = [new EXCEPT ![p] = m.as] /\ free' = m.free
               /\ call' = [call EXCEPT ![p].a = @ + 1]
          [] more /\ m.st = "panic" ->
               Goto(p, "panic") /\ UNCHANGED <<free, new>>
          [] (more /\ m.st = "fail") \/ (~more /\ end = 0) -> ExecBad(p)
          [] ~more /\ end # 0 /\ call[p].at = "stack" ->
               /\ call' = [call EXCEPT ![p].sz = end, ![p].at = "args"]
               /\ new' = [new EXCEPT ![p] = clearpteu(new[p], end \div PGSIZE - 2)]
               /\ UNCHANGED free
          [] ~more /\ end # 0 /\ call[p].at = "segment" ->
               \E r \in loaduvm(new[p], end) :
                 IF r = "fail" THEN ExecBad(p)
                 ELSE /\ call' = [call EXCEPT ![p].sz = end,
                                    ![p].at = IF r = "ok" THEN "load" ELSE r]
                      /\ UNCHANGED <<free, new>>
  /\ UNCHANGED <<procs, vm, sz, cpus>>

\* The arguments are copied to the stack: too long ones meet the page without
\* PTE_U.  Then commit: the old table stays until cr3 holds the new one.
ExecCommit(p) ==
  /\ Running(p, "args")
  /\ \E len \in ArgLen :
       IF ~copyout(new[p], call[p].sz - len, len)
       THEN ExecBad(p) /\ UNCHANGED <<vm, sz, cr3>>
       ELSE /\ vm' = [vm EXCEPT ![p] = new[p]]
            /\ sz' = [sz EXCEPT ![p] = call[p].sz]
            /\ cr3' = switchuvm(p, new[p])
            /\ new' = [new EXCEPT ![p] = vm[p]]
            /\ Goto(p, "freeold")
            /\ UNCHANGED free
  /\ UNCHANGED <<procs, cpu, lock>>

\* freevm(oldpgdir).
ExecFree(p) ==
  /\ Running(p, "freeold")
  /\ ExecBad(p)
  /\ UNCHANGED <<procs, vm, sz, cpus>>

-----------------------------------------------------------------------------
(* exit(), wait() and the scheduler *)

\* exit() and a timer interrupt's yield(): the process gives up its CPU with
\* ptable.lock held, and the CPU still uses its page table.  The bound
\* Preempt says where the timer strikes; CPUs interleave calls anyway.
Leave(c) ==
  /\ cpu[c] # None /\ lock = None
  /\ \E s \in {"RUNNABLE", "ZOMBIE"} :
       /\ CASE s = "RUNNABLE" -> call[cpu[c]].at \in Preempt
            [] s = "ZOMBIE" -> cpu[c] # initproc /\ call[cpu[c]].at \in {"user", "fault"}
       /\ state' = [state EXCEPT ![cpu[c]] = s]
  /\ lock' = c
  /\ UNCHANGED <<free, kstack, vm, sz, new, call, cpu, cr3>>

\* Faulty variant of Switchkvm: the process's page table stays loaded.
StayLoaded(c) ==
  /\ lock = c
  /\ cpu' = [cpu EXCEPT ![c] = None]
  /\ lock' = None
  /\ UNCHANGED <<free, procs, vm, sz, new, call, cr3>>

\* The scheduler after swtch(): switchkvm(), and in the end it releases
\* ptable.lock.
Switchkvm(c) ==
  /\ lock = c
  /\ cr3' = [cr3 EXCEPT ![c] = kpgdir]
  /\ cpu' = [cpu EXCEPT ![c] = None]
  /\ lock' = None
  /\ UNCHANGED <<free, procs, vm, sz, new, call>>

\* The scheduler before swtch(): switchuvm().
Schedule(c) ==
  /\ cpu[c] = None /\ lock = None
  /\ \E p \in Proc :
       /\ state[p] = "RUNNABLE"
       /\ state' = [state EXCEPT ![p] = "RUNNING"]
       /\ cpu' = [cpu EXCEPT ![c] = p]
       /\ cr3' = [cr3 EXCEPT ![c] = vm[p].dir]
  /\ UNCHANGED <<free, kstack, vm, sz, new, call, lock>>

\* wait() finds a zombie child (who is whose parent is Proc's matter).
Wait(p) ==
  /\ Running(p, "user") /\ lock = None
  /\ \E q \in Proc :
       /\ state[q] = "ZOMBIE"
       /\ free' = freevm(vm[q], kfree(free, {kstack[q]}))
       /\ kstack' = [kstack EXCEPT ![q] = None]
       /\ vm' = [vm EXCEPT ![q] = None]
       /\ state' = [state EXCEPT ![q] = "UNUSED"]
       /\ call' = [call EXCEPT ![q] = At("user")]
  /\ UNCHANGED <<sz, new, cpus>>

\* init never calls sbrk().
Next ==
  \/ \E p \in Proc \ {initproc} : sys_sbrk(p) \/ GrowStep(p)
  \/ \E p \in Proc :
       \/ Fork(p) \/ ForkSetup(p) \/ ForkCopy(p) \/ ForkDone(p)
       \/ Exec(p) \/ ExecLoad(p) \/ ExecAllocStep(p) \/ ExecCommit(p) \/ ExecFree(p)
       \/ Wait(p)
  \/ \E c \in CPU : Leave(c) \/ Switchkvm(c) \/ Schedule(c)

Spec == Init /\ [][Next]_vars

-----------------------------------------------------------------------------
(* Properties *)

Label == {"user", "grow", "copy", "load", "segment", "stack", "args", "freeold", "fault",
          "panic"}
CallState == [at : Label, a : Nat, end : Nat, sz : Nat, child : Proc \cup {None}]

TypeOK ==
  /\ free \subseteq Page
  /\ state \in [Proc -> {"UNUSED", "EMBRYO", "RUNNABLE", "RUNNING", "ZOMBIE"}]
  /\ kstack \in [Proc -> Page \cup {None}]
  /\ vm \in [Proc -> AddressSpace \cup {None}] /\ new \in [Proc -> AddressSpace \cup {None}]
  /\ sz \in [Proc -> 0 .. KERNBASE]
  /\ call \in [Proc -> CallState]
  /\ cpu \in [CPU -> Proc \cup {None}] /\ cr3 \in [CPU -> Page \cup {kpgdir}]
  /\ lock \in CPU \cup {None}

\* The places of a page table, and the page as has at place l, or None.
Spot == {<<"dir", 0>>, <<"ktab", 0>>} \cup ({"tab"} \X Table) \cup ({"pte"} \X UserPage)
PageAt(as, l) ==
  CASE l[1] = "dir" -> as.dir
    [] l[1] = "ktab" -> as.ktab
    [] l[1] = "tab" -> as.tab[l[2]]
    [] l[1] = "pte" -> IF as.pte[l[2]] = None THEN None ELSE as.pte[l[2]].pa

\* Where page pg is in use.
Uses(pg) ==
  {u \in {p \in Proc : vm[p] # None} \X {"vm"} \X Spot : PageAt(vm[u[1]], u[3]) = pg}
    \cup {u \in {p \in Proc : new[p] # None} \X {"new"} \X Spot : PageAt(new[u[1]], u[3]) = pg}
    \cup {u \in Proc \X {"kstack"} : kstack[u[1]] = pg}

\* No page leaks and none is shared: every page is free or used in exactly one
\* place, whatever allocation of fork(), exec() or sbrk() failed (kalloc, vm.c,
\* the error paths of exec, copyuvm, allocuvm and fork).
OwnedOnce == \A pg \in Page : Cardinality(Uses(pg)) = (IF pg \in free THEN 0 ELSE 1)

\* Outside growproc() a process has exactly the pages below its size, so that
\* no copyuvm() or allocuvm() panics because a page is missing or there already,
\* also after a failed call (growproc's roll back, exec's sizes).
MappedBelowSize ==
  \A p \in Proc :
    /\ call[p].at # "panic"
    /\ vm[p] # None /\ call[p].at \notin {"grow", "fault"} =>
         \A a \in UserPage : vm[p].pte[a] # None <=> a * PGSIZE < sz[p]

\* A CPU never has a page table loaded that has been freed (exec's switchuvm
\* before freevm, the scheduler's switchkvm before it releases ptable.lock).
LoadedTableLive ==
  \A c \in CPU : cr3[c] = kpgdir \/ cr3[c] \in {vm[p].dir : p \in {p \in Proc : vm[p] # None}}

=============================================================================
