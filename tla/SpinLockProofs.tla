--------------------------- MODULE SpinLockProofs ---------------------------
(***************************************************************************)
(* Mutual exclusion, interrupt masking and the absence of spinning on a    *)
(* thread that is not running, for every number of CPUs, threads and locks.*)
(* SpinInv is inductive: one lemma per action of SpinLock, one step per    *)
(* part of SpinInv.                                                        *)
(***************************************************************************)
EXTENDS SpinLock, FiniteSetTheorems, TLAPS

\* Where contexts are.  A thread is on one CPU, or has called swtch(), or is
\* new; a scheduler that is not running waits in swtch() and owns nothing.
RunInv ==
  /\ \A c, d \in CPU : running[c] = running[d] => c = d
  /\ \A c \in CPU : running[c] \in CPU => running[c] = c
  /\ \A x \in Thread : (\A c \in CPU : running[c] # x) <=> pc[x] \in {"swtch", "new"}
  /\ \A x \in Thread : pc[x] \in {"swtch", "new"} => held[x] = {}
  /\ \A c \in CPU : /\ pc[c] \notin {"swtch", "new"}
                    /\ running[c] # c => /\ pc[c] = "run" /\ held[c] = {}
                                         /\ mode[c] = "code"

\* The locks a context holds are in the kernel's lock order, and so is the one
\* it asks for.  A scheduler outside of handlers takes ptable.lock only.
Chain(S) ==
  \/ S = {}
  \/ \E l \in Lock : S = {l}
  \/ \E l, m \in Lock : l # m /\ Nests(l, m) /\ S = {l, m}

HeldInv ==
  \A x \in Context :
    /\ Chain(held[x])
    /\ pc[x] # "panic"
    /\ pc[x] \in {"push", "spin", "got", "clear", "pop"} <=> lk[x] # None
    /\ pc[x] \in {"push", "spin", "got"} =>
         lk[x] \notin held[x] /\ \A l \in held[x] : Nests(l, lk[x])
    /\ pc[x] = "clear" => lk[x] \in held[x]
    /\ pc[x] = "top" => x \in CPU /\ held[x] = {} /\ mode[x] = "code"
    /\ x \in CPU /\ mode[x] = "code" =>
         /\ held[x] \subseteq {ptlock}
         /\ pc[x] \in {"push", "spin", "got", "clear"} => lk[x] = ptlock
         /\ pc[x] = "pop" => held[x] = {}

\* l->cpu is the CPU that runs the holder of l, but for the time between the
\* two stores of release().
CpuFieldInv ==
  \A c \in CPU, l \in Lock :
    /\ l \in held[running[c]] =>
         \/ lkcpu[l] = c
         \/ pc[running[c]] = "clear" /\ lk[running[c]] = l
    /\ lkcpu[l] = c => /\ l \in held[running[c]]
                       /\ ~(pc[running[c]] = "clear" /\ lk[running[c]] = l)

\* 1 while the context is inside acquire() or release() with interrupts pushed
\* for a lock it does not hold.
Extra(x) == IF pc[x] \in {"spin", "got", "pop"} THEN 1 ELSE 0

\* c->ncli counts the locks of the context that c runs, and interrupts are on
\* only if it is 0.
CountInv ==
  \A c \in CPU :
    /\ ncli[c] = Cardinality(held[running[c]]) + Extra(running[c])
    /\ c \in flagIF => ncli[c] = 0

\* What pushcli() found and popcli() will restore: in a handler interrupts are
\* off, in a process outside of forkret() they are on.
FlagInv ==
  /\ \A c \in CPU : LET x == running[c] IN
       /\ mode[x] = "irq" => /\ c \notin flagIF
                             /\ pc[x] = "push" /\ ncli[c] = 0 => x \notin eflags
                             /\ ncli[c] > 0 => c \notin intena
       /\ mode[x] = "code" /\ x \in Thread =>
            /\ ncli[c] = 0 => c \in flagIF
            /\ pc[x] = "push" /\ ncli[c] = 0 => x \in eflags
            /\ ncli[c] > 0 => c \in intena
  /\ \A x \in Thread : pc[x] = "swtch" => /\ mode[x] = "irq" => x \notin saved
                                          /\ mode[x] = "code" => x \in saved
  /\ \A x \in Thread : pc[x] = "new" => mode[x] = "forkret"

\* What a handler goes back to.
BelowInv ==
  \A x \in Context :
    /\ mode[x] = "irq" =>
         /\ below[x].mode # "irq"
         /\ below[x].pc = "push" <=> below[x].lk # None
         /\ below[x].pc = "top" => x \in CPU /\ below[x].mode = "code"
         /\ x \in CPU /\ below[x].pc = "push" => below[x].lk = ptlock
         /\ x \in Thread /\ below[x].pc = "push" /\ below[x].mode = "code" => below[x].on
    /\ mode[x] # "irq" => below[x] = Idle
    /\ x \in CPU => mode[x] # "forkret" /\ below[x].mode = "code"

SpinInv ==
  /\ TypeOK
  /\ RunInv
  /\ HeldInv
  /\ MutualExclusion
  /\ CpuFieldInv
  /\ CountInv
  /\ FlagInv
  /\ BelowInv
-----------------------------------------------------------------------------
(* The locks of one context *)

LEMMA ChainCardinality ==
  ASSUME NEW S, Chain(S)
  PROVE  /\ S \subseteq Lock /\ IsFiniteSet(S)
         /\ Cardinality(S) \in 0..2
         /\ Cardinality(S) = 0 <=> S = {}
<1>1. CASE S = {}
  BY <1>1, FS_EmptySet
<1>2. ASSUME NEW l \in Lock, S = {l} PROVE S \subseteq Lock /\ IsFiniteSet(S) /\ Cardinality(S) = 1
  BY <1>2, FS_Singleton
<1>3. ASSUME NEW l \in Lock, NEW m \in Lock, l # m, S = {l, m}
      PROVE  S \subseteq Lock /\ IsFiniteSet(S) /\ Cardinality(S) = 2
  <2>1. S = {l} \cup {m}  BY <1>3
  <2>2. IsFiniteSet({l}) /\ Cardinality({l}) = 1  BY FS_Singleton
  <2>3. IsFiniteSet(S) /\ Cardinality(S) = 2  BY <1>3, <2>1, <2>2, FS_AddElement
  <2> QED  BY <1>3, <2>3
<1> QED  BY <1>1, <1>2, <1>3 DEF Chain

\* A lock that is in order extends the chain, and the chain was short.
LEMMA ChainAdd ==
  ASSUME NEW S, Chain(S), NEW l \in Lock, l \notin S, \A m \in S : Nests(m, l)
  PROVE  /\ Chain(S \cup {l})
         /\ Cardinality(S \cup {l}) = Cardinality(S) + 1
         /\ Cardinality(S) \in 0..1
<1>1. Cardinality(S \cup {l}) = Cardinality(S) + 1
  BY ChainCardinality, FS_AddElement
<1>2. CASE S = {}
  BY <1>1, <1>2, FS_EmptySet DEF Chain
<1>3. ASSUME NEW k \in Lock, S = {k} PROVE Chain(S \cup {l}) /\ Cardinality(S) = 1
  <2>1. k # l /\ Nests(k, l) /\ S \cup {l} = {k, l}  BY <1>3
  <2> QED  BY <1>3, <2>1, FS_Singleton DEF Chain
<1>4. ASSUME NEW k \in Lock, NEW m \in Lock, k # m, Nests(k, m), S = {k, m} PROVE FALSE
  BY <1>4, SpinAssumption DEF Nests
<1> QED  BY <1>1, <1>2, <1>3, <1>4 DEF Chain

\* Locks are released in any order.
LEMMA ChainRemove ==
  ASSUME NEW S, Chain(S), NEW l \in S
  PROVE  /\ Chain(S \ {l})
         /\ Cardinality(S \ {l}) = Cardinality(S) - 1
<1>1. Cardinality(S \ {l}) = Cardinality(S) - 1
  BY ChainCardinality, FS_RemoveElement
<1>2. ASSUME NEW k \in Lock, S = {k} PROVE S \ {l} = {}
  BY <1>2
<1>3. ASSUME NEW k \in Lock, NEW m \in Lock, S = {k, m}
      PROVE  S \ {l} = {} \/ S \ {l} = {k} \/ S \ {l} = {m}
  BY <1>3
<1> QED  BY <1>1, <1>2, <1>3 DEF Chain

\* The sets that sched() and scheduler() pass around.
LEMMA ChainSmall ==
  ASSUME NEW S
  PROVE  /\ S = {} => Chain(S) /\ Cardinality(S) = 0
         /\ S = {ptlock} => Chain(S) /\ Cardinality(S) = 1
BY SpinAssumption, FS_EmptySet, FS_Singleton DEF Chain

\* What CountInv says of a context outside of acquire() and release().
LEMMA Counted ==
  ASSUME SpinInv, NEW c \in CPU, NEW x, running[c] = x, pc[x] \in {"run", "top"}
  PROVE  /\ held[x] = {} => ncli[c] = 0
         /\ held[x] = {ptlock} => ncli[c] = 1 /\ c \notin flagIF
<1>1. ncli[c] = Cardinality(held[x]) + 0  BY DEF SpinInv, CountInv, Extra
<1>2. c \in flagIF => ncli[c] = 0  BY DEF SpinInv, CountInv
<1>3. held[x] = {} => Cardinality(held[x]) = 0  BY ChainSmall
<1>4. held[x] = {ptlock} => Cardinality(held[x]) = 1  BY ChainSmall
<1> QED  BY <1>1, <1>2, <1>3, <1>4

-----------------------------------------------------------------------------
(* Every action preserves SpinInv *)


\* pushcli() reads the flags: the lock asked for is in order.
LEMMA ReadEflagsInv ==
  ASSUME SpinInv, NEW c \in CPU, NEW x \in Context, ReadEflags(c, x)
  PROVE  SpinInv'
<1> USE SpinAssumption DEF SpinInv, TypeOK, Context, ReadEflags, At, Goto, MayAcquire, Set
<1>0. running[c] = x /\ \A d \in CPU : d # c => running[d] # x  BY DEF RunInv
<1>1. TypeOK'  BY DEF Labels, Modes
<1>2. RunInv'  BY DEF RunInv
<1>3. HeldInv'  BY DEF HeldInv, RunInv
<1>4. MutualExclusion'  BY DEF MutualExclusion, Owns
<1>5. CpuFieldInv'  BY DEF CpuFieldInv
<1>6. CountInv'  BY DEF CountInv, Extra
<1>7. FlagInv'  BY <1>0 DEF FlagInv, CountInv
<1>8. BelowInv'  BY DEF BelowInv
<1> QED  BY <1>1, <1>2, <1>3, <1>4, <1>5, <1>6, <1>7, <1>8

\* pushcli() turns interrupts off; the lock is not one of this CPU's.
LEMMA CliInv ==
  ASSUME SpinInv, NEW c \in CPU, NEW x \in Context, Cli(c, x)
  PROVE  SpinInv'
<1> USE SpinAssumption DEF SpinInv, TypeOK, Context, Cli, At, Goto, PushedFlag, Set, holding
<1>0. running[c] = x /\ \A d \in CPU : d # c => running[d] # x  BY DEF RunInv
<1>1. TypeOK'
  <2>1. lk[x] \in Lock /\ Cardinality(held[x]) \in 0..1  BY ChainAdd DEF HeldInv
  <2>2. ncli[c] + 1 \in 0..2  BY <1>0, <2>1 DEF CountInv, Extra
  <2> QED  BY <2>2 DEF Labels, Modes
<1>2. RunInv'  BY DEF RunInv
<1>3. HeldInv'  BY DEF HeldInv, CpuFieldInv
<1>4. MutualExclusion'  BY DEF MutualExclusion, Owns
<1>5. CpuFieldInv'  BY DEF CpuFieldInv
<1>6. CountInv'
  <2>1. Cardinality(held[x]) \in Nat  BY ChainCardinality DEF HeldInv
  <2>2. pc'[x] = "spin"  BY <1>3 DEF HeldInv
  <2> QED  BY <1>0, <2>1, <2>2 DEF CountInv, Extra
<1>7. FlagInv'  BY DEF FlagInv
<1>8. BelowInv'  BY DEF BelowInv
<1> QED  BY <1>1, <1>2, <1>3, <1>4, <1>5, <1>6, <1>7, <1>8

\* The exchange takes a lock that nobody owns.
LEMMA XchgInv ==
  ASSUME SpinInv, NEW c \in CPU, NEW x \in Context, Xchg(c, x)
  PROVE  SpinInv'
<1> USE SpinAssumption DEF SpinInv, TypeOK, Context, Xchg, At, Goto
<1>0. running[c] = x /\ \A d \in CPU : d # c => running[d] # x  BY DEF RunInv
<1>1. TypeOK'  BY DEF Labels, Modes, HeldInv
<1>2. RunInv'  BY DEF RunInv
<1>3. HeldInv'  BY DEF HeldInv
<1>4. MutualExclusion'  BY DEF MutualExclusion, Owns
<1>5. CpuFieldInv'  BY DEF CpuFieldInv
<1>6. CountInv'  BY DEF CountInv, Extra
<1>7. FlagInv'  BY DEF FlagInv
<1>8. BelowInv'  BY DEF BelowInv
<1> QED  BY <1>1, <1>2, <1>3, <1>4, <1>5, <1>6, <1>7, <1>8

\* acquire() returns.
LEMMA SetCpuInv ==
  ASSUME SpinInv, NEW c \in CPU, NEW x \in Context, SetCpu(c, x)
  PROVE  SpinInv'
<1> USE SpinAssumption DEF SpinInv, TypeOK, Context, SetCpu, At, Goto
<1>0. running[c] = x /\ \A d \in CPU : d # c => running[d] # x  BY DEF RunInv
<1>1. TypeOK'  BY DEF Labels, Modes, HeldInv
<1>2. RunInv'  BY DEF RunInv
<1>3. HeldInv'
  <2>1. lk[x] \in Lock /\ Chain(held[x] \cup {lk[x]})  BY ChainAdd DEF HeldInv
  <2> QED  BY <2>1 DEF HeldInv
<1>4. MutualExclusion'  BY DEF MutualExclusion, Owns
<1>5. CpuFieldInv'
  <2>1. lk[x] \in Lock /\ lk[x] \notin held[x]  BY DEF HeldInv
  <2>2. \A y \in Context : y # x => lk[x] \notin held[y]  BY DEF MutualExclusion, Owns
  <2> QED  BY <1>0, <2>1, <2>2 DEF CpuFieldInv
<1>6. CountInv'
  <2>1. Cardinality(held[x] \cup {lk[x]}) = Cardinality(held[x]) + 1  BY ChainAdd DEF HeldInv
  <2>2. Cardinality(held[x]) \in Nat  BY ChainCardinality DEF HeldInv
  <2> QED  BY <1>0, <2>1, <2>2 DEF CountInv, Extra
<1>7. FlagInv'  BY DEF FlagInv
<1>8. BelowInv'  BY DEF BelowInv
<1> QED  BY <1>1, <1>2, <1>3, <1>4, <1>5, <1>6, <1>7, <1>8

\* release() finds the lock held by its CPU.
LEMMA ClearCpuInv ==
  ASSUME SpinInv, NEW c \in CPU, NEW x \in Context, NEW l \in Lock, ClearCpu(c, x, l)
  PROVE  SpinInv'
<1> USE SpinAssumption DEF SpinInv, TypeOK, Context, ClearCpu, At, Goto, holding
<1>0. running[c] = x /\ \A d \in CPU : d # c => running[d] # x  BY DEF RunInv
<1>1. TypeOK'  BY DEF Labels, Modes
<1>2. RunInv'  BY DEF RunInv
<1>3. HeldInv'
  <2>1. lkcpu[l] = c /\ l \in locked
    BY <1>0 DEF CpuFieldInv, MutualExclusion, Owns
  <2> QED  BY <2>1 DEF HeldInv
<1>4. MutualExclusion'  BY DEF MutualExclusion, Owns
<1>5. CpuFieldInv'
  <2>1. lkcpu[l] = c /\ l \in locked
    BY <1>0 DEF CpuFieldInv, MutualExclusion, Owns
  <2>2. \A y \in Context : y # x => l \notin held[y]  BY DEF MutualExclusion, Owns
  <2> QED  BY <1>0, <2>1, <2>2 DEF CpuFieldInv
<1>6. CountInv'  BY DEF CountInv, Extra
<1>7. FlagInv'  BY DEF FlagInv
<1>8. BelowInv'  BY DEF BelowInv
<1> QED  BY <1>1, <1>2, <1>3, <1>4, <1>5, <1>6, <1>7, <1>8

\* The lock is free.
LEMMA UnlockInv ==
  ASSUME SpinInv, NEW c \in CPU, NEW x \in Context, Unlock(c, x)
  PROVE  SpinInv'
<1> USE SpinAssumption DEF SpinInv, TypeOK, Context, Unlock, At, Goto
<1>0. running[c] = x /\ \A d \in CPU : d # c => running[d] # x  BY DEF RunInv
<1>1. TypeOK'  BY DEF Labels, Modes
<1>2. RunInv'  BY DEF RunInv
<1>3. HeldInv'
  <2>1. lk[x] \in Lock /\ Chain(held[x] \ {lk[x]})  BY ChainRemove DEF HeldInv
  <2> QED  BY <2>1 DEF HeldInv
<1>4. MutualExclusion'
  <2>1. lk[x] \in held[x]  BY DEF HeldInv
  <2>2. \A y \in Context : y # x => ~Owns(y, lk[x])  BY <2>1 DEF MutualExclusion, Owns
  <2>3. \A y \in Context, l \in Lock : Owns(y, l)' <=> Owns(y, l) /\ l # lk[x]
    BY <2>1, <2>2 DEF Owns
  <2> QED  BY <2>3 DEF MutualExclusion
<1>5. CpuFieldInv'
  <2>1. lk[x] \in held[x]  BY DEF HeldInv
  <2>2. \A y \in Context : y # x => lk[x] \notin held[y]  BY <2>1 DEF MutualExclusion, Owns
  <2>3. \A d \in CPU : lkcpu[lk[x]] # d  BY <1>0, <2>1, <2>2 DEF CpuFieldInv
  <2> QED  BY <1>0, <2>1, <2>2, <2>3 DEF CpuFieldInv
<1>6. CountInv'
  <2>1. Cardinality(held[x] \ {lk[x]}) = Cardinality(held[x]) - 1  BY ChainRemove DEF HeldInv
  <2>2. Cardinality(held[x]) \in Nat  BY ChainCardinality DEF HeldInv
  <2> QED  BY <1>0, <2>1, <2>2 DEF CountInv, Extra
<1>7. FlagInv'  BY DEF FlagInv
<1>8. BelowInv'  BY DEF BelowInv
<1> QED  BY <1>1, <1>2, <1>3, <1>4, <1>5, <1>6, <1>7, <1>8

\* popcli() restores the flag only when the last lock is gone.
LEMMA PopCliInv ==
  ASSUME SpinInv, NEW c \in CPU, NEW x \in Context, PopCli(c, x)
  PROVE  SpinInv'
<1> USE SpinAssumption DEF SpinInv, TypeOK, Context, PopCli, At, Goto, PoppedIF
<1>0. running[c] = x /\ \A d \in CPU : d # c => running[d] # x  BY DEF RunInv
<1>1. TypeOK'
  <2>1. Cardinality(held[x]) \in 0..2  BY ChainCardinality DEF HeldInv
  <2>2. ncli[c] = Cardinality(held[x]) + 1  BY <1>0 DEF CountInv, Extra
  <2>3. ncli[c] - 1 \in 0..2  BY <2>1, <2>2
  <2> QED  BY <2>3 DEF Labels, Modes
<1>2. RunInv'  BY DEF RunInv
<1>3. HeldInv'
  <2>1. Cardinality(held[x]) \in 0..2 /\ (Cardinality(held[x]) = 0 <=> held[x] = {})
    BY ChainCardinality DEF HeldInv
  <2>2. ncli[c] = Cardinality(held[x]) + 1 /\ c \notin flagIF  BY <1>0, <2>1 DEF CountInv, Extra
  <2>3. x = c /\ mode[x] = "code" => held[x] = {}
    BY <1>0, <2>2 DEF HeldInv
  <2> QED  BY <2>1, <2>2, <2>3 DEF HeldInv
<1>4. MutualExclusion'  BY DEF MutualExclusion, Owns
<1>5. CpuFieldInv'  BY DEF CpuFieldInv
<1>6. CountInv'
  <2>1. Cardinality(held[x]) \in 0..2  BY ChainCardinality DEF HeldInv
  <2> QED  BY <1>0, <2>1 DEF CountInv, Extra
<1>7. FlagInv'  BY DEF FlagInv
<1>8. BelowInv'  BY DEF BelowInv
<1> QED  BY <1>1, <1>2, <1>3, <1>4, <1>5, <1>6, <1>7, <1>8

\* An interrupt finds a context without locks.
LEMMA InterruptInv ==
  ASSUME SpinInv, NEW c \in CPU, NEW x \in Context, Interrupt(c, x)
  PROVE  SpinInv'
<1> USE SpinAssumption DEF SpinInv, TypeOK, Context, Interrupt, Goto
<1>0. running[c] = x /\ \A d \in CPU : d # c => running[d] # x  BY DEF RunInv
<1>1. TypeOK'  BY DEF Labels, Modes
<1>2. RunInv'  BY DEF RunInv
<1>3. HeldInv'  BY DEF HeldInv
<1>4. MutualExclusion'  BY DEF MutualExclusion, Owns
<1>5. CpuFieldInv'  BY DEF CpuFieldInv
<1>6. CountInv'  BY DEF CountInv, Extra
<1>7. FlagInv'  BY <1>0 DEF FlagInv, CountInv
<1>8. BelowInv'
  <2>1. mode[x] # "irq" /\ ncli[c] = 0 /\ below[x] = Idle  BY <1>0 DEF FlagInv, CountInv, BelowInv
  <2>2. /\ below'[x].mode = mode[x] /\ below'[x].pc = pc[x] /\ below'[x].lk = lk[x]
        /\ below'[x].on = (x \in eflags) /\ mode'[x] = "irq"
    OBVIOUS
  <2>3. x \in Thread /\ pc[x] = "push" /\ mode[x] = "code" => x \in eflags
    BY <1>0, <2>1 DEF FlagInv
  <2>4. x \in CPU => mode[x] = "code"  BY <2>1 DEF BelowInv, Modes
  <2>5. /\ pc[x] = "push" <=> lk[x] # None
        /\ pc[x] = "top" => x \in CPU /\ mode[x] = "code"
        /\ x \in CPU /\ pc[x] = "push" => lk[x] = ptlock
    BY <2>4 DEF HeldInv
  <2>6. BelowInv!(x)'
    BY ONLY <2>1, <2>2, <2>3, <2>4, <2>5 DEF BelowInv
  <2>7. \A y \in Context \ {x} : mode'[y] = mode[y] /\ below'[y] = below[y]  OBVIOUS
  <2>8. ASSUME NEW y \in Context \ {x} PROVE BelowInv!(y)'
    BY ONLY BelowInv, <2>7, <2>8 DEF BelowInv
  <2> QED  BY ONLY <2>6, <2>8 DEF BelowInv
<1> QED  BY <1>1, <1>2, <1>3, <1>4, <1>5, <1>6, <1>7, <1>8

\* The handler goes back to where it came from.
LEMMA IretInv ==
  ASSUME SpinInv, NEW c \in CPU, NEW x \in Context, Iret(c, x)
  PROVE  SpinInv'
<1> USE SpinAssumption DEF SpinInv, TypeOK, Context, Iret, At, Goto, Set, Idle
<1>0. running[c] = x /\ \A d \in CPU : d # c => running[d] # x  BY DEF RunInv
<1>1. TypeOK'  BY DEF Labels, Modes
<1>2. RunInv'  BY DEF RunInv
<1>3. HeldInv'  BY DEF HeldInv, BelowInv
<1>4. MutualExclusion'
  <2>1. \A y \in Context, l \in Lock : Owns(y, l)' <=> Owns(y, l)  BY DEF Owns, BelowInv
  <2> QED  BY <2>1 DEF MutualExclusion
<1>5. CpuFieldInv'  BY DEF CpuFieldInv
<1>6. CountInv'
  <2>1. ncli[c] = 0  BY <1>0, Counted
  <2>2. pc'[x] \in {"run", "push", "top"}  OBVIOUS
  <2> QED  BY <1>0, <2>1, <2>2, ChainSmall DEF CountInv, Extra
<1>7. FlagInv'
  <2>1. ncli[c] = 0  BY <1>0, Counted
  <2>2. mode'[x] # "irq" /\ c \in flagIF'  BY DEF BelowInv
  <2>3. x \in Thread /\ mode'[x] = "code" /\ pc'[x] = "push" => x \in eflags'
    BY DEF BelowInv
  <2>4. \A d \in CPU \ {c} : /\ running[d] # x /\ (d \in flagIF' <=> d \in flagIF)
                            /\ mode'[running[d]] = mode[running[d]] /\ pc'[running[d]] = pc[running[d]]
                            /\ (running[d] \in eflags' <=> running[d] \in eflags)
    BY <1>0
  <2>5. \A y \in Thread : pc'[y] \in {"swtch", "new"} => y # x /\ mode'[y] = mode[y] /\ pc[y] = pc'[y]
    OBVIOUS
  <2> QED  BY <1>0, <2>1, <2>2, <2>3, <2>4, <2>5 DEF FlagInv
<1>8. BelowInv'  BY DEF BelowInv
<1> QED  BY <1>1, <1>2, <1>3, <1>4, <1>5, <1>6, <1>7, <1>8

\* The scheduler enables interrupts without a lock.
LEMMA StiInv ==
  ASSUME SpinInv, NEW c \in CPU, Sti(c)
  PROVE  SpinInv'
<1> USE SpinAssumption DEF SpinInv, TypeOK, Context, Sti, At, Goto
<1>0. running[c] = c /\ \A d \in CPU : d # c => running[d] # c  BY DEF RunInv
<1>1. TypeOK'  BY DEF Labels, Modes
<1>2. RunInv'  BY DEF RunInv
<1>3. HeldInv'  BY DEF HeldInv
<1>4. MutualExclusion'  BY DEF MutualExclusion, Owns
<1>5. CpuFieldInv'  BY DEF CpuFieldInv
<1>6. CountInv'
  <2>0. held[c] = {}  BY DEF HeldInv
  <2>1. ncli[c] = 0 /\ held[c] = {}  BY <1>0, <2>0, Counted
  <2> QED  BY <1>0, <2>1, ChainSmall DEF CountInv, Extra
<1>7. FlagInv'  BY <1>0 DEF FlagInv, HeldInv
<1>8. BelowInv'  BY DEF BelowInv
<1> QED  BY <1>1, <1>2, <1>3, <1>4, <1>5, <1>6, <1>7, <1>8

\* The lock goes over to the scheduler of the CPU.
LEMMA SchedInv ==
  ASSUME SpinInv, NEW c \in CPU, NEW x \in Context, Sched(c, x)
  PROVE  SpinInv'
<1> USE SpinAssumption DEF SpinInv, TypeOK, Context, Sched, At, Goto, Set, holding
<1>0. running[c] = x /\ x # c /\ c \in Context /\ \A d \in CPU : d # c => running[d] # x /\ running[d] # c  BY DEF RunInv
<1>a. held[c] = {} /\ pc[c] = "run" /\ mode[c] = "code" /\ lk[c] = None  BY <1>0 DEF RunInv, HeldInv
<1>b. holding(c, ptlock) /\ ncli[c] = 1 /\ c \notin flagIF
  <2>1. ptlock \in locked /\ lkcpu[ptlock] = c
    BY <1>0 DEF CpuFieldInv, MutualExclusion, Owns
  <2>2. ncli[c] = 1 /\ c \notin flagIF  BY <1>0, Counted
  <2> QED  BY <2>1, <2>2
<1>c. /\ running' = [running EXCEPT ![c] = c]
      /\ held' = [held EXCEPT ![x] = {}, ![c] = {ptlock}]
      /\ saved' = Set(saved, x, c \in intena)
      /\ Goto(x, "swtch")
  BY <1>b
<1>1. TypeOK'  BY <1>0, <1>a, <1>b, <1>c DEF Labels, Modes
<1>2. RunInv'  BY <1>0, <1>a, <1>b, <1>c DEF RunInv
<1>3. HeldInv'  BY <1>0, <1>a, <1>b, <1>c, ChainSmall DEF HeldInv
<1>4. MutualExclusion'
  <2>1. \A y \in Context, l \in Lock :
          Owns(y, l)' <=> IF y = x THEN FALSE ELSE IF y = c THEN Owns(x, l) ELSE Owns(y, l)
    BY <1>0, <1>a, <1>b, <1>c DEF Owns
  <2>2. \A l \in Lock : ~Owns(c, l)  BY <1>a DEF Owns
  <2>3. ASSUME NEW l \in Lock PROVE /\ \A y, z \in Context : Owns(y, l)' /\ Owns(z, l)' => y = z
                                   /\ l \in locked' <=> \E y \in Context : Owns(y, l)'
    <3>1. \A y, z \in Context : Owns(y, l) /\ Owns(z, l) => y = z  BY DEF MutualExclusion
    <3>2. l \in locked <=> \E y \in Context : Owns(y, l)  BY DEF MutualExclusion
    <3>3. \A y, z \in Context : Owns(y, l)' /\ Owns(z, l)' => y = z
      BY <1>0, <2>1, <2>2, <3>1
    <3>4. (\E y \in Context : Owns(y, l)') <=> \E y \in Context : Owns(y, l)
      BY <1>0, <2>1, <2>2
    <3> QED  BY <3>2, <3>3, <3>4
  <2> QED  BY <2>3 DEF MutualExclusion
<1>5. CpuFieldInv'  BY <1>0, <1>a, <1>b, <1>c DEF CpuFieldInv
<1>6. CountInv'  BY <1>0, <1>a, <1>b, <1>c, ChainSmall DEF CountInv, Extra
<1>7. FlagInv'  BY <1>0, <1>a, <1>b, <1>c, ChainSmall DEF FlagInv, CountInv, Extra
<1>8. BelowInv'  BY <1>0, <1>a, <1>b, <1>c DEF BelowInv
<1> QED  BY <1>1, <1>2, <1>3, <1>4, <1>5, <1>6, <1>7, <1>8

\* The scheduler passes the lock, and its flag, to a thread.
LEMMA SwitchInv ==
  ASSUME SpinInv, NEW c \in CPU, NEW x \in Context, Switch(c, x)
  PROVE  SpinInv'
<1> USE SpinAssumption DEF SpinInv, TypeOK, Context, Switch, At, Goto, Set, Restored
<1>0. c # x /\ running[c] = c /\ \A d \in CPU : running[d] # x  BY DEF RunInv
<1>a. held[x] = {} /\ lk[x] = None  BY DEF RunInv, HeldInv
<1>b. \A d \in CPU : d # c => running[d] # c  BY <1>0 DEF RunInv
<1>1. TypeOK'  BY <1>0, <1>a, <1>b DEF Labels, Modes
<1>2. RunInv'  BY <1>0, <1>a, <1>b DEF RunInv
<1>3. HeldInv'  BY <1>0, <1>a, <1>b, ChainSmall DEF HeldInv
<1>4. MutualExclusion'
  <2>1. \A y \in Context, l \in Lock :
          Owns(y, l)' <=> IF y = c THEN FALSE ELSE IF y = x THEN Owns(c, l) ELSE Owns(y, l)
    BY <1>0, <1>a, <1>b DEF Owns
  <2>2. \A l \in Lock : ~Owns(x, l)  BY <1>a DEF Owns
  <2>3. ASSUME NEW l \in Lock PROVE /\ \A y, z \in Context : Owns(y, l)' /\ Owns(z, l)' => y = z
                                   /\ l \in locked' <=> \E y \in Context : Owns(y, l)'
    <3>1. \A y, z \in Context : Owns(y, l) /\ Owns(z, l) => y = z  BY DEF MutualExclusion
    <3>2. l \in locked <=> \E y \in Context : Owns(y, l)  BY DEF MutualExclusion
    <3>3. \A y, z \in Context : Owns(y, l)' /\ Owns(z, l)' => y = z
      BY <1>0, <2>1, <2>2, <3>1
    <3>4. (\E y \in Context : Owns(y, l)') <=> \E y \in Context : Owns(y, l)
      BY <1>0, <2>1, <2>2
    <3> QED  BY <3>2, <3>3, <3>4
  <2> QED  BY <2>3 DEF MutualExclusion
<1>5. CpuFieldInv'  BY <1>0, <1>a, <1>b DEF CpuFieldInv
<1>6. CountInv'  BY <1>0, <1>a, <1>b, ChainSmall DEF CountInv, Extra
<1>7. FlagInv'
  <2>1. ncli[c] = 1 /\ c \notin flagIF  BY <1>0, Counted
  <2>2. /\ mode[x] = "irq" => pc[x] = "swtch" /\ c \notin intena'
        /\ mode[x] = "code" => pc[x] = "swtch" /\ c \in intena'
    BY DEF FlagInv
  <2>3. \A d \in CPU \ {c} : /\ running'[d] = running[d] /\ running[d] # x
                            /\ pc'[running[d]] = pc[running[d]] /\ (d \in intena' <=> d \in intena)
    BY <1>0
  <2>4. running'[c] = x /\ pc'[x] = "run"  OBVIOUS
  <2>5. \A y \in Thread : pc'[y] \in {"swtch", "new"} =>
          y # x /\ pc[y] = pc'[y] /\ (y \in saved' <=> y \in saved)
    OBVIOUS
  <2> QED  BY <2>1, <2>2, <2>3, <2>4, <2>5 DEF FlagInv
<1>8. BelowInv'  BY <1>0, <1>a, <1>b DEF BelowInv
<1> QED  BY <1>1, <1>2, <1>3, <1>4, <1>5, <1>6, <1>7, <1>8

-----------------------------------------------------------------------------
(* The theorems *)

LEMMA InitSpin == Init => SpinInv
<1> SUFFICES ASSUME Init PROVE SpinInv  OBVIOUS
<1> USE SpinAssumption DEF Init, Context, Idle
<1>1. TypeOK  BY DEF TypeOK, Labels, Modes
<1>2. RunInv /\ CpuFieldInv /\ FlagInv /\ BelowInv  BY DEF RunInv, CpuFieldInv, FlagInv, BelowInv
<1>3. HeldInv  BY ChainSmall DEF HeldInv
<1>4. MutualExclusion  BY DEF MutualExclusion, Owns
<1>5. CountInv  BY ChainSmall DEF CountInv, Extra
<1> QED  BY <1>1, <1>2, <1>3, <1>4, <1>5 DEF SpinInv

LEMMA NextSpin == SpinInv /\ [Next]_vars => SpinInv'
<1> SUFFICES ASSUME SpinInv, [Next]_vars PROVE SpinInv'  OBVIOUS
<1>1. CASE UNCHANGED vars
  BY <1>1 DEF SpinInv, TypeOK, RunInv, HeldInv, MutualExclusion, Owns, CpuFieldInv, CountInv,
              Extra, FlagInv, BelowInv, vars
<1>2. ASSUME NEW c \in CPU, NEW x \in Context, Spin(c, x) PROVE UNCHANGED vars
  BY <1>2 DEF Spin
<1> QED  BY <1>1, <1>2, ReadEflagsInv, CliInv, XchgInv, SetCpuInv, ClearCpuInv, UnlockInv,
            PopCliInv, InterruptInv, IretInv, StiInv, SchedInv, SwitchInv DEF Next

\* SpinInv is an invariant of every instance.
THEOREM SpinInvariant == Spec => []SpinInv
BY InitSpin, NextSpin, PTL DEF Spec

\* Type correctness: ncli never exceeds 2 and never becomes negative, so pushcli()
\* and popcli() are paired on every CPU.
THEOREM SpinTypeCorrect == Spec => []TypeOK
<1>1. SpinInv => TypeOK  BY DEF SpinInv
<1> QED  BY <1>1, SpinInvariant, PTL

\* Two contexts are never inside the same lock, and a lock is marked as locked
\* exactly while one is (acquire(), release()).
THEOREM MutuallyExclusive == Spec => []MutualExclusion
<1>1. SpinInv => MutualExclusion  BY DEF SpinInv
<1> QED  BY <1>1, SpinInvariant, PTL

\* Interrupts are off while a lock is held, no panic of the lock code is
\* reached, and the last release() restores what the first acquire() found, also
\* for a thread that sched() has moved to another CPU.
THEOREM InterruptsAreRestored == Spec => []InterruptsRestored
<1>1. ASSUME SpinInv PROVE InterruptsRestored
  <2> USE <1>1 DEF SpinInv, TypeOK, Context
  <2>1. \A y \in Context : Cardinality(held[y]) \in 0..2 /\ (Cardinality(held[y]) = 0 <=> held[y] = {})
    BY ChainCardinality DEF HeldInv
  <2>2. Masked
    <3> SUFFICES ASSUME NEW c \in CPU,
                        held[running[c]] # {} \/ pc[running[c]] \in {"spin", "got", "pop"}
                 PROVE  /\ c \notin flagIF
                        /\ ncli[c] = Cardinality(held[running[c]]) + Extra(running[c])
      BY DEF Masked, Extra
    <3>1. ncli[c] = Cardinality(held[running[c]]) + Extra(running[c])  BY DEF CountInv
    <3>2. running[c] \in Context  OBVIOUS
    <3>3. ncli[c] # 0  BY <2>1, <3>1, <3>2 DEF Extra
    <3> QED  BY <3>1, <3>3 DEF CountInv
  <2>3. \A y \in Context : pc[y] # "panic"  BY DEF HeldInv
  <2>4. ASSUME NEW c \in CPU, running[c] \in Thread, pc[running[c]] = "run",
               held[running[c]] = {}, mode[running[c]] # "forkret"
        PROVE  c \in flagIF <=> mode[running[c]] = "code"
    <3>1. ncli[c] = 0  BY <2>1, <2>4 DEF CountInv, Extra
    <3> QED  BY <2>4, <3>1 DEF FlagInv, Modes
  <2> QED  BY <2>2, <2>3, <2>4 DEF InterruptsRestored
<1> QED  BY <1>1, SpinInvariant, PTL

\* The owner of a lock that somebody spins for is running, and waits itself only
\* for locks further up in the kernel's lock order.
THEOREM SpinsOnRunner == Spec => []SpinOnRunner
<1>1. ASSUME SpinInv PROVE SpinOnRunner
  <2> USE <1>1, SpinAssumption DEF SpinInv, TypeOK, Context
  <2> SUFFICES ASSUME NEW x \in Context, pc[x] = "spin", lk[x] \in locked
               PROVE  \E c \in CPU : /\ Owns(running[c], lk[x])
                                     /\ pc[running[c]] = "spin" => Nests(lk[x], lk[running[c]])
    BY DEF SpinOnRunner
  <2>1. PICK y \in Context : Owns(y, lk[x])  BY DEF MutualExclusion
  <2>2. PICK c \in CPU : running[c] = y
    <3>1. CASE y \in Thread  BY <2>1, <3>1 DEF RunInv, Owns
    <3>2. CASE y \in CPU  BY <2>1, <3>2 DEF RunInv, Owns
    <3> QED  BY <3>1, <3>2
  <2>3. pc[y] = "spin" => Nests(lk[x], lk[y])  BY <2>1 DEF HeldInv, Owns
  <2> QED  BY <2>1, <2>2, <2>3
<1> QED  BY <1>1, SpinInvariant, PTL
=============================================================================
