------------------------------ MODULE SpinLock ------------------------------
(***************************************************************************)
(* Spinlocks and interrupt masking (spinlock.c), together with the two     *)
(* places of the kernel that make them delicate: interrupt handlers that   *)
(* take locks, and sched(), which moves a thread that holds ptable.lock,   *)
(* with its memory of whether interrupts were on, from one CPU to another. *)
(*                                                                         *)
(* A context is a process's kernel thread or the scheduler thread of a     *)
(* CPU, which is named after its CPU.  Acquire and release are split at    *)
(* the instructions between which an interrupt or another CPU may come in. *)
(***************************************************************************)
EXTENDS Integers, FiniteSets

CONSTANTS CPU, Thread,
          Lock,
          ptlock,    \* ptable.lock
          kmlock,    \* kmem.lock
          None

Context == Thread \cup CPU

ASSUME SpinAssumption ==
  /\ Thread \cap CPU = {}
  /\ ptlock \in Lock /\ kmlock \in Lock \ {ptlock}
  /\ None \notin CPU \cup Lock

VARIABLES
  locked,    \* the locks l with l->locked = 1
  lkcpu,     \* l->cpu
  flagIF,    \* the CPUs with interrupts on (FL_IF)
  ncli,      \* c->ncli
  intena,    \* the CPUs c with c->intena set
  running,   \* the context a CPU executes
  pc,        \* where the context is
  lk,        \* the lock that acquire() or release() is working on
  eflags,    \* contexts whose pushcli() has read interrupts as on
  held,      \* the locks the context has acquired
  mode,      \* whether the context is in an interrupt handler or in forkret()
  below,     \* what the handler has interrupted
  saved      \* sched's local intena: threads for which it is set

vars == <<locked, lkcpu, flagIF, ncli, intena, running, pc, lk, eflags, held,
          mode, below, saved>>

\* "run" is any code outside of acquire(), release() and swtch(); a thread
\* that has never run is "new"; "top" is the head of scheduler's loop.
Labels == {"run", "push", "spin", "got", "clear", "pop", "swtch", "new", "top",
           "panic"}

\* "code" is a process in user mode or in a system call, or scheduler().
Modes == {"code", "irq", "forkret"}

\* Nothing is interrupted.
Idle == [pc |-> "run", lk |-> None, on |-> FALSE, mode |-> "code"]

TypeOK ==
  /\ locked \subseteq Lock
  /\ lkcpu \in [Lock -> CPU \cup {None}]
  /\ flagIF \subseteq CPU /\ intena \subseteq CPU
  /\ ncli \in [CPU -> 0..2]
  /\ running \in [CPU -> Context]
  /\ pc \in [Context -> Labels]
  /\ lk \in [Context -> Lock \cup {None}]
  /\ held \in [Context -> SUBSET Lock]
  /\ mode \in [Context -> Modes]
  /\ below \in [Context -> [pc : {"run", "push", "top"}, lk : Lock \cup {None},
                            on : BOOLEAN, mode : Modes]]
  /\ eflags \subseteq Context
  /\ saved \subseteq Thread

\* Every CPU enters scheduler() with interrupts off.  A new thread starts in
\* forkret(), on its way to user mode as if out of a trap.
Init ==
  /\ locked  = {}
  /\ lkcpu   = [l \in Lock |-> None]
  /\ flagIF  = {}
  /\ ncli    = [c \in CPU |-> 0]
  /\ intena  = {}
  /\ running = [c \in CPU |-> c]
  /\ pc      = [x \in Context |-> IF x \in CPU THEN "top" ELSE "new"]
  /\ lk      = [x \in Context |-> None]
  /\ eflags  = {}
  /\ held    = [x \in Context |-> {}]
  /\ mode    = [x \in Context |-> IF x \in CPU THEN "code" ELSE "forkret"]
  /\ below   = [x \in Context |-> Idle]
  /\ saved   = {}

-----------------------------------------------------------------------------
(* Helpers *)

At(c, x, l) == running[c] = x /\ pc[x] = l

Goto(x, l) == pc' = [pc EXCEPT ![x] = l]

holding(c, l) == l \in locked /\ lkcpu[l] = c

\* Faulty variant of MayAcquire: locks are nested in any order.
MayAcquireAny(c, x) ==
  IF x = c /\ mode[x] = "code" THEN {ptlock} \ held[x] ELSE Lock \ held[x]

\* Lock m may be taken with l held: sleep() and wakeup() take ptable.lock under
\* their callers' locks, and wait() calls kfree() under ptable.lock.
Nests(l, m) == \/ (m = ptlock /\ l # kmlock)
               \/ (l = ptlock /\ m = kmlock)

\* The locks that context x may ask for.  scheduler() itself takes ptable.lock.
MayAcquire(c, x) ==
  IF x = c /\ mode[x] = "code" THEN {ptlock} \ held[x]
  ELSE {m \in Lock \ held[x] : \A l \in held[x] : Nests(l, m)}

\* The value pushcli() leaves in c->intena.
PushedFlag(c, x) == IF ncli[c] = 0 THEN x \in eflags ELSE c \in intena

\* The interrupt flags after popcli() has decremented ncli.
PoppedIF(c) == IF ncli[c] - 1 = 0 /\ c \in intena THEN flagIF \cup {c} ELSE flagIF

\* Put c into the set S or take it out.
Set(S, c, b) == IF b THEN S \cup {c} ELSE S \ {c}

-----------------------------------------------------------------------------
(* acquire() *)

\* pushcli: readeflags(); interrupts may still be on.
ReadEflags(c, x) ==
  /\ At(c, x, "run")
  /\ \E l \in MayAcquire(c, x) : lk' = [lk EXCEPT ![x] = l]
  /\ eflags' = Set(eflags, x, c \in flagIF)
  /\ Goto(x, "push")
  /\ UNCHANGED <<locked, lkcpu, flagIF, ncli, intena, running, held, mode,
                 below, saved>>

\* The rest of pushcli, and the test for a lock this CPU already holds.
Cli(c, x) ==
  /\ At(c, x, "push")
  /\ flagIF' = flagIF \ {c}
  /\ intena' = Set(intena, c, PushedFlag(c, x))
  /\ ncli' = [ncli EXCEPT ![c] = @ + 1]
  /\ Goto(x, IF holding(c, lk[x]) THEN "panic" ELSE "spin")
  /\ eflags' = eflags \ {x}
  /\ UNCHANGED <<locked, lkcpu, running, lk, held, mode, below, saved>>

\* Faulty variant of Xchg: the lock's old value is not looked at.
XchgBlind(c, x) ==
  /\ At(c, x, "spin")
  /\ locked' = locked \cup {lk[x]}
  /\ Goto(x, "got")
  /\ UNCHANGED <<lkcpu, flagIF, ncli, intena, running, lk, eflags, held, mode,
                 below, saved>>

\* xchg finds the lock free.
Xchg(c, x) ==
  /\ At(c, x, "spin")
  /\ lk[x] \notin locked
  /\ locked' = locked \cup {lk[x]}
  /\ Goto(x, "got")
  /\ UNCHANGED <<lkcpu, flagIF, ncli, intena, running, lk, eflags, held, mode,
                 below, saved>>

\* xchg finds it locked, and loops.
Spin(c, x) ==
  /\ At(c, x, "spin") /\ lk[x] \in locked
  /\ UNCHANGED vars

\* lk->cpu = mycpu(); acquire() returns.
SetCpu(c, x) ==
  /\ At(c, x, "got")
  /\ lkcpu' = [lkcpu EXCEPT ![lk[x]] = c]
  /\ held' = [held EXCEPT ![x] = @ \cup {lk[x]}]
  /\ lk' = [lk EXCEPT ![x] = None]
  /\ Goto(x, "run")
  /\ UNCHANGED <<locked, flagIF, ncli, intena, running, eflags, mode,
                 below, saved>>

-----------------------------------------------------------------------------
(* release() *)

\* The test of holding() and lk->cpu = 0.
ClearCpu(c, x, l) ==
  /\ At(c, x, "run") /\ l \in held[x]
  /\ lk' = [lk EXCEPT ![x] = l]
  /\ lkcpu' = [lkcpu EXCEPT ![l] = None]
  /\ Goto(x, IF holding(c, l) THEN "clear" ELSE "panic")
  /\ UNCHANGED <<locked, flagIF, ncli, intena, running, eflags, held, mode,
                 below, saved>>

\* lk->locked = 0.
Unlock(c, x) ==
  /\ At(c, x, "clear")
  /\ locked' = locked \ {lk[x]}
  /\ held' = [held EXCEPT ![x] = @ \ {lk[x]}]
  /\ Goto(x, "pop")
  /\ UNCHANGED <<lkcpu, flagIF, ncli, intena, running, lk, eflags, mode,
                 below, saved>>

\* popcli; the scheduler goes back to the head of its loop.
PopCli(c, x) ==
  /\ At(c, x, "pop")
  /\ ncli' = [ncli EXCEPT ![c] = @ - 1]
  /\ flagIF' = PoppedIF(c)
  /\ Goto(x, IF c \in flagIF \/ ncli[c] < 1 THEN "panic"
             ELSE IF x = c /\ mode[x] = "code" THEN "top" ELSE "run")
  /\ lk' = [lk EXCEPT ![x] = None]
  /\ UNCHANGED <<locked, lkcpu, intena, running, eflags, held, mode,
                 below, saved>>

-----------------------------------------------------------------------------
(* Interrupts *)

\* The interrupt gate turns interrupts off; the handler starts.
Interrupt(c, x) ==
  /\ running[c] = x /\ c \in flagIF
  /\ pc[x] \in {"run", "push", "top"}
  /\ flagIF' = flagIF \ {c}
  /\ mode' = [mode EXCEPT ![x] = "irq"]
  /\ below' = [below EXCEPT ![x] = [pc |-> pc[x], lk |-> lk[x], on |-> x \in eflags,
                                   mode |-> mode[x]]]
  /\ lk' = [lk EXCEPT ![x] = None]
  /\ eflags' = eflags \ {x}
  /\ Goto(x, "run")
  /\ UNCHANGED <<locked, lkcpu, ncli, intena, running, held, saved>>

\* iret at the end of a handler, or out of forkret() to user mode: interrupts
\* are on in the eflags that it restores.
Iret(c, x) ==
  /\ At(c, x, "run") /\ mode[x] # "code" /\ held[x] = {}
  /\ flagIF' = flagIF \cup {c}
  /\ mode' = [mode EXCEPT ![x] = below[x].mode]
  /\ lk' = [lk EXCEPT ![x] = below[x].lk]
  /\ eflags' = Set(eflags, x, below[x].on)
  /\ below' = [below EXCEPT ![x] = Idle]
  /\ Goto(x, below[x].pc)
  /\ UNCHANGED <<locked, lkcpu, ncli, intena, running, held, saved>>

-----------------------------------------------------------------------------
(* sched() and scheduler() *)

\* scheduler: sti() at the head of the loop.
Sti(c) ==
  /\ At(c, c, "top")
  /\ flagIF' = flagIF \cup {c}
  /\ Goto(c, "run")
  /\ UNCHANGED <<locked, lkcpu, ncli, intena, running, lk, eflags, held, mode,
                 below, saved>>

\* sched: the thread's ptable.lock goes over to the scheduler of its CPU.
Sched(c, x) ==
  /\ x \in Thread /\ At(c, x, "run") /\ held[x] = {ptlock}
  /\ IF ~holding(c, ptlock) \/ ncli[c] # 1 \/ c \in flagIF
     THEN /\ Goto(x, "panic")
          /\ UNCHANGED <<running, held, saved>>
     ELSE /\ saved' = Set(saved, x, c \in intena)
          /\ running' = [running EXCEPT ![c] = c]
          /\ held' = [held EXCEPT ![x] = {}, ![c] = {ptlock}]
          /\ Goto(x, "swtch")
  /\ UNCHANGED <<locked, lkcpu, flagIF, ncli, intena, lk, eflags, mode, below>>

\* Faulty variant of Restored: sched() does not restore intena.
NotRestored(c, x) == intena

\* mycpu()->intena after the switch to x; forkret() restores nothing.
Restored(c, x) ==
  IF pc[x] = "swtch" THEN Set(intena, c, x \in saved) ELSE intena

\* scheduler: switch to a thread, which goes on after its swtch().
Switch(c, x) ==
  /\ At(c, c, "run") /\ held[c] = {ptlock} /\ mode[c] = "code"
  /\ x \in Thread /\ pc[x] \in {"swtch", "new"}
  /\ running' = [running EXCEPT ![c] = x]
  /\ held' = [held EXCEPT ![c] = {}, ![x] = {ptlock}]
  /\ intena' = Restored(c, x)
  /\ saved' = saved \ {x}
  /\ Goto(x, "run")
  /\ UNCHANGED <<locked, lkcpu, flagIF, ncli, lk, eflags, mode, below>>

-----------------------------------------------------------------------------

Next ==
  \E c \in CPU :
    \/ Sti(c)
    \/ \E x \in Context :
         \/ ReadEflags(c, x) \/ Cli(c, x) \/ Xchg(c, x) \/ Spin(c, x) \/ SetCpu(c, x)
         \/ \E l \in Lock : ClearCpu(c, x, l)
         \/ Unlock(c, x) \/ PopCli(c, x)
         \/ Interrupt(c, x) \/ Iret(c, x)
         \/ Sched(c, x) \/ Switch(c, x)

Spec == Init /\ [][Next]_vars

-----------------------------------------------------------------------------
(* Properties *)

\* The context owns the lock, from a successful xchg to the clearing store.
Owns(x, l) == l \in held[x] \/ (pc[x] = "got" /\ lk[x] = l)

\* A lock has one owner at most, and is marked as locked while it has one.
MutualExclusion ==
  \A l \in Lock :
    /\ \A x, y \in Context : Owns(x, l) /\ Owns(y, l) => x = y
    /\ l \in locked <=> \E x \in Context : Owns(x, l)

\* No interrupt is taken while a lock is held: the CPU has interrupts off and
\* counts the locks it holds, although threads change CPUs between pushcli() and
\* popcli().
Masked ==
  \A c \in CPU : LET x == running[c] IN
    held[x] # {} \/ pc[x] \in {"spin", "got", "pop"} =>
      /\ c \notin flagIF
      /\ ncli[c] = Cardinality(held[x])
                     + IF pc[x] \in {"spin", "got", "pop"} THEN 1 ELSE 0

\* Interrupts are off while a lock is held, none of the panics of acquire(),
\* release(), popcli() and sched() is reached, and whenever no lock is held a
\* process runs with interrupts on and a handler with interrupts off: release()
\* restores what acquire() found, also after a sched() that came back on another
\* CPU.  (forkret() is no such place: it takes over the intena that the thread
\* before it has left on its CPU.)
InterruptsRestored ==
  /\ Masked
  /\ \A x \in Context : pc[x] # "panic"
  /\ \A c \in CPU : LET x == running[c] IN
       x \in Thread /\ pc[x] = "run" /\ held[x] = {} /\ mode[x] # "forkret" =>
         (c \in flagIF <=> mode[x] = "code")

\* Nobody spins for ever if critical sections end: the owner of the lock that x
\* spins for is on a CPU, and spins itself only for a lock further up in the
\* kernel's lock order, which has no cycle.
SpinOnRunner ==
  \A x \in Context : pc[x] = "spin" /\ lk[x] \in locked =>
    \E c \in CPU :
      /\ Owns(running[c], lk[x])
      /\ (pc[running[c]] = "spin" => Nests(lk[x], lk[running[c]]))

=============================================================================
