--------------------------------- MODULE Proc ---------------------------------
(***************************************************************************)
(* The process table of xv6: fork, exit, wait, kill, yield and the per-CPU *)
(* scheduler of proc.c, entered from user mode the way trap.c does.        *)
(*                                                                         *)
(* A process is a slot of ptable.proc[]; 0 stands for a null pointer.      *)
(* Every CPU either runs its scheduler thread (proc[c] = 0) or the kernel  *)
(* or user code of process proc[c].  A critical section under ptable.lock  *)
(* that does not give up the CPU is one step; one that calls sched() keeps *)
(* the lock over several steps and hands it to the scheduler thread, as    *)
(* the code does.  Statements outside the lock are steps of their own.     *)
(***************************************************************************)
EXTENDS Integers

CONSTANTS NPROC,     \* number of slots of ptable.proc[]
          CPU,       \* the CPUs
          NoCpu,     \* "no CPU": ptable.lock is free
          MaxPid,    \* bound: user code forks only while nextpid <= MaxPid
          KillPids,  \* the arguments user code passes to kill()
          InitCalls  \* the calls the first process makes (init.c)

Slot     == 1 .. NPROC
SlotOr0  == 0 .. NPROC
initproc == 1

\* System calls of user code; "fault" is a trap that user code causes.
Calls == {"fork", "exit", "wait", "kill", "fault"}

ASSUME ProcAssumption ==
  /\ NPROC \in Nat \ {0}
  /\ NoCpu \notin CPU
  /\ MaxPid \in Nat
  /\ KillPids \subseteq Nat
  /\ InitCalls \subseteq Calls

VARIABLES
  lock,     \* the CPU that holds ptable.lock, or NoCpu
  nextpid,
  state,    \* p->state
  pid,      \* p->pid, 0 if none
  parent,   \* p->parent, 0 if null
  chan,     \* p->chan: the process whose exit is awaited, 0 if none
  killed,   \* the processes p with p->killed set
  kstack,   \* the processes p with a kernel stack, p->kstack
  ctx,      \* p->context: the caller of sched() the next swtch returns to
  pc,       \* what the process's thread does next
  np,       \* fork's local variable np
  proc,     \* c->proc, 0 while the scheduler thread runs on c
  cursor    \* scheduler's loop variable p on c, 0 outside the locked loop

vars == <<lock, nextpid, state, pid, parent, chan, killed, kstack, ctx, pc,
          np, proc, cursor>>

ProcStates == {"UNUSED", "EMBRYO", "SLEEPING", "RUNNABLE", "RUNNING", "ZOMBIE"}
Contexts   == {"none", "forkret", "yield", "sleep", "exit"}
Labels     == {"user", "ret", "fork", "kstack", "copy", "run", "exit", "wait",
               "scan", "kill", "panic"}

TypeOK ==
  /\ lock    \in CPU \cup {NoCpu}
  /\ nextpid \in Nat
  /\ state   \in [Slot -> ProcStates]
  /\ pid     \in [Slot -> Nat]
  /\ parent  \in [Slot -> SlotOr0]
  /\ chan    \in [Slot -> SlotOr0]
  /\ killed  \subseteq Slot
  /\ kstack  \subseteq Slot
  /\ ctx     \in [Slot -> Contexts]
  /\ pc      \in [Slot -> Labels]
  /\ np      \in [Slot -> SlotOr0]
  /\ proc    \in [CPU -> SlotOr0]
  /\ cursor  \in [CPU -> 0 .. NPROC + 1]

\* main() has run userinit() and every CPU has reached scheduler().
Init ==
  /\ lock    = NoCpu
  /\ nextpid = 2
  /\ state   = [p \in Slot |-> IF p = initproc THEN "RUNNABLE" ELSE "UNUSED"]
  /\ pid     = [p \in Slot |-> IF p = initproc THEN 1 ELSE 0]
  /\ parent  = [p \in Slot |-> 0]
  /\ chan    = [p \in Slot |-> 0]
  /\ killed  = {}
  /\ kstack  = {initproc}
  /\ ctx     = [p \in Slot |-> IF p = initproc THEN "forkret" ELSE "none"]
  /\ pc      = [p \in Slot |-> "user"]
  /\ np      = [p \in Slot |-> 0]
  /\ proc    = [c \in CPU |-> 0]
  /\ cursor  = [c \in CPU |-> 0]

-------------------------------------------------------------------------------
(* Helpers *)

\* The table scans of the code stop at the first slot that matches.
IsFirst(q, S) == q \in S /\ \A r \in S : q <= r

\* CPU c executes code of p, outside sched(), at label l.
At(c, p, l) == proc[c] = p /\ ctx[p] = "none" /\ pc[p] = l

Goto(p, l) == pc' = [pc EXCEPT ![p] = l]

\* Faulty variant of Wake: wake nobody.
WakeNone(s) == s

\* The new state of a process that wakeup1() or kill() has found.
Wake(s) == IF s = "SLEEPING" THEN "RUNNABLE" ELSE s

\* wakeup1 on every channel of the set ch, applied to the states st.
wakeup1(ch, st) ==
  [q \in Slot |-> IF chan[q] \in ch THEN Wake(st[q]) ELSE st[q]]

havekids(p) == \E q \in Slot : parent[q] = p

\* The children of p that wait() can reap.
Zombies(p) == {q \in Slot : parent[q] = p /\ state[q] = "ZOMBIE"}

\* Faulty variant of Adopt: only the zombies are passed on.
AdoptZombies(p) ==
  [q \in Slot |-> IF q \in Zombies(p) THEN initproc ELSE parent[q]]

\* The parents after exit() has passed p's children to init.
Adopt(p) == [q \in Slot |-> IF parent[q] = p THEN initproc ELSE parent[q]]

CallsOf(p) == IF p = initproc THEN InitCalls ELSE Calls

-------------------------------------------------------------------------------
(* User mode and trap() *)

\* INT T_SYSCALL: a killed process exits instead of making the call.
Syscall(c, p, call) ==
  /\ At(c, p, "user")
  /\ call \in CallsOf(p) \ {"fault"}
  /\ call = "fork" => nextpid <= MaxPid
  /\ Goto(p, IF p \in killed THEN "exit" ELSE call)
  /\ UNCHANGED <<lock, nextpid, state, pid, parent, chan, killed, kstack, ctx,
                 np, proc, cursor>>

\* Any other trap from user mode marks the process killed and exits it.
Fault(c, p) ==
  /\ At(c, p, "user")
  /\ "fault" \in CallsOf(p)
  /\ killed' = killed \cup {p}
  /\ Goto(p, "exit")
  /\ UNCHANGED <<lock, nextpid, state, pid, parent, chan, kstack, ctx, np,
                 proc, cursor>>

\* The way back to user mode, after a system call or an interrupt.
TrapReturn(c, p) ==
  /\ At(c, p, "ret")
  /\ Goto(p, IF p \in killed THEN "exit" ELSE "user")
  /\ UNCHANGED <<lock, nextpid, state, pid, parent, chan, killed, kstack, ctx,
                 np, proc, cursor>>

\* A timer interrupt: interrupts are on wherever the process holds no lock.
\* From user mode a killed process exits; otherwise the process yields, and
\* one that was in user mode looks at killed again on its way back.
Timer(c, p) ==
  /\ proc[c] = p /\ ctx[p] = "none" /\ state[p] = "RUNNING"
  /\ pc[p] \notin {"scan", "panic"}
  /\ \/ /\ pc[p] = "user" /\ p \in killed
        /\ Goto(p, "exit")
        /\ UNCHANGED <<lock, state, ctx>>
     \/ /\ ~(pc[p] = "user" /\ p \in killed)
        /\ lock = NoCpu
        /\ lock' = c
        /\ state' = [state EXCEPT ![p] = "RUNNABLE"]
        /\ ctx' = [ctx EXCEPT ![p] = "yield"]
        /\ Goto(p, IF pc[p] = "user" THEN "ret" ELSE pc[p])
  /\ UNCHANGED <<nextpid, pid, parent, chan, killed, kstack, np, proc, cursor>>

-------------------------------------------------------------------------------
(* fork() *)

\* allocproc: claim the first UNUSED slot under the lock.
AllocProc(c, p) ==
  /\ At(c, p, "fork")
  /\ lock = NoCpu
  /\ LET unused == {q \in Slot : state[q] = "UNUSED"} IN
     \/ \E q \in unused :
          /\ IsFirst(q, unused)
          /\ state' = [state EXCEPT ![q] = "EMBRYO"]
          /\ pid' = [pid EXCEPT ![q] = nextpid]
          /\ nextpid' = nextpid + 1
          /\ np' = [np EXCEPT ![p] = q]
          /\ Goto(p, "kstack")
     \/ /\ unused = {}
        /\ Goto(p, "ret")
        /\ UNCHANGED <<state, pid, nextpid, np>>
  /\ UNCHANGED <<lock, parent, chan, killed, kstack, ctx, proc, cursor>>

\* allocproc after the lock: the kernel stack; kalloc() may fail.
AllocStack(c, p) ==
  /\ At(c, p, "kstack")
  /\ \/ /\ kstack' = kstack \cup {np[p]}
        /\ ctx' = [ctx EXCEPT ![np[p]] = "forkret"]
        /\ Goto(p, "copy")
        /\ UNCHANGED <<state, np>>
     \/ /\ kstack' = kstack \ {np[p]}
        /\ state' = [state EXCEPT ![np[p]] = "UNUSED"]
        /\ np' = [np EXCEPT ![p] = 0]
        /\ Goto(p, "ret")
        /\ UNCHANGED ctx
  /\ UNCHANGED <<lock, nextpid, pid, parent, chan, killed, proc, cursor>>

\* Faulty variant of CopyProc: when copyuvm() fails the stack is not freed.
CopyProcLeak(c, p) ==
  /\ At(c, p, "copy")
  /\ state' = [state EXCEPT ![np[p]] = "UNUSED"]
  /\ np' = [np EXCEPT ![p] = 0]
  /\ Goto(p, "ret")
  /\ UNCHANGED <<lock, nextpid, pid, parent, chan, killed, kstack, ctx, proc,
                 cursor>>

\* fork up to its second acquire; copyuvm() may fail.
CopyProc(c, p) ==
  /\ At(c, p, "copy")
  /\ \/ /\ parent' = [parent EXCEPT ![np[p]] = p]
        /\ pc' = [pc EXCEPT ![p] = "run", ![np[p]] = "user"]
        /\ UNCHANGED <<state, kstack, np>>
     \/ /\ kstack' = kstack \ {np[p]}
        /\ state' = [state EXCEPT ![np[p]] = "UNUSED"]
        /\ np' = [np EXCEPT ![p] = 0]
        /\ Goto(p, "ret")
        /\ UNCHANGED parent
  /\ UNCHANGED <<lock, nextpid, pid, chan, killed, ctx, proc, cursor>>

\* fork's last critical section makes the child runnable.
StartChild(c, p) ==
  /\ At(c, p, "run")
  /\ lock = NoCpu
  /\ state' = [state EXCEPT ![np[p]] = "RUNNABLE"]
  /\ np' = [np EXCEPT ![p] = 0]
  /\ Goto(p, "ret")
  /\ UNCHANGED <<lock, nextpid, pid, parent, chan, killed, kstack, ctx, proc,
                 cursor>>

-------------------------------------------------------------------------------
(* exit(), wait(), kill() *)

\* exit from its acquire to sched(): wake the parent, pass the children to
\* init (waking init if one of them is a zombie), become a zombie.
Exit(c, p) ==
  /\ At(c, p, "exit")
  /\ p # initproc
  /\ lock = NoCpu
  /\ lock' = c
  /\ LET heirs == IF Zombies(p) # {} THEN {initproc} ELSE {}
     IN state' = [wakeup1({parent[p]} \cup heirs, state) EXCEPT ![p] = "ZOMBIE"]
  /\ parent' = Adopt(p)
  /\ ctx' = [ctx EXCEPT ![p] = "exit"]
  /\ UNCHANGED <<nextpid, pid, chan, killed, kstack, pc, np, proc, cursor>>

\* panic("init exiting"): the CPU spins for ever.
InitExit(c, p) ==
  /\ At(c, p, "exit")
  /\ p = initproc
  /\ Goto(p, "panic")
  /\ UNCHANGED <<lock, nextpid, state, pid, parent, chan, killed, kstack, ctx,
                 np, proc, cursor>>

\* Faulty variant of WaitAcquire: the children are scanned without the lock.
WaitAcquireNoLock(c, p) ==
  /\ At(c, p, "wait")
  /\ Goto(p, "scan")
  /\ UNCHANGED <<lock, nextpid, state, pid, parent, chan, killed, kstack, ctx,
                 np, proc, cursor>>

\* wait: acquire(&ptable.lock).
WaitAcquire(c, p) ==
  /\ At(c, p, "wait")
  /\ lock = NoCpu
  /\ lock' = c
  /\ Goto(p, "scan")
  /\ UNCHANGED <<nextpid, state, pid, parent, chan, killed, kstack, ctx, np,
                 proc, cursor>>

\* One turn of wait's loop finds a zombie child and frees its slot ...
WaitReap(c, p) ==
  /\ At(c, p, "scan")
  /\ \E q \in Slot :
       /\ IsFirst(q, Zombies(p))
       /\ kstack' = kstack \ {q}
       /\ pid'    = [pid EXCEPT ![q] = 0]
       /\ parent' = [parent EXCEPT ![q] = 0]
       /\ killed' = killed \ {q}
       /\ state'  = [state EXCEPT ![q] = "UNUSED"]
  /\ lock' = NoCpu
  /\ Goto(p, "ret")
  /\ UNCHANGED <<nextpid, chan, ctx, np, proc, cursor>>

\* (faulty variant of WaitFail: no release before the return)
WaitFailNoRelease(c, p) ==
  /\ At(c, p, "scan")
  /\ Zombies(p) = {}
  /\ ~havekids(p) \/ p \in killed
  /\ Goto(p, "ret")
  /\ UNCHANGED <<lock, nextpid, state, pid, parent, chan, killed, kstack, ctx,
                 np, proc, cursor>>

\* ... or gives up because there is no child or the caller was killed ...
WaitFail(c, p) ==
  /\ At(c, p, "scan")
  /\ Zombies(p) = {}
  /\ ~havekids(p) \/ p \in killed
  /\ lock' = NoCpu
  /\ Goto(p, "ret")
  /\ UNCHANGED <<nextpid, state, pid, parent, chan, killed, kstack, ctx, np,
                 proc, cursor>>

\* ... or sleeps on its own proc structure, still holding the lock.
WaitSleep(c, p) ==
  /\ At(c, p, "scan")
  /\ Zombies(p) = {}
  /\ havekids(p) /\ p \notin killed
  /\ chan' = [chan EXCEPT ![p] = p]
  /\ state' = [state EXCEPT ![p] = "SLEEPING"]
  /\ ctx' = [ctx EXCEPT ![p] = "sleep"]
  /\ UNCHANGED <<lock, nextpid, pid, parent, killed, kstack, pc, np, proc,
                 cursor>>

\* kill(k): mark the first process with that pid, wake it if it sleeps.
Kill(c, p, k) ==
  /\ At(c, p, "kill")
  /\ lock = NoCpu
  /\ LET hits == {q \in Slot : pid[q] = k} IN
     \/ \E q \in hits :
          /\ IsFirst(q, hits)
          /\ killed' = killed \cup {q}
          /\ state' = [state EXCEPT ![q] = Wake(@)]
     \/ /\ hits = {}
        /\ UNCHANGED <<killed, state>>
  /\ Goto(p, "ret")
  /\ UNCHANGED <<lock, nextpid, pid, parent, chan, kstack, ctx, np, proc,
                 cursor>>

-------------------------------------------------------------------------------
(* sched() and scheduler() *)

\* swtch to the scheduler thread, which clears c->proc; the lock goes along.
Sched(c, p) ==
  /\ proc[c] = p /\ ctx[p] # "none" /\ state[p] # "RUNNING"
  /\ lock = c
  /\ proc' = [proc EXCEPT ![c] = 0]
  /\ UNCHANGED <<lock, nextpid, state, pid, parent, chan, killed, kstack, ctx,
                 pc, np, cursor>>

\* The code after sched(): forkret and yield release the lock, sleep clears
\* chan and returns into wait's loop with the lock held.
Resume(c, p) ==
  /\ proc[c] = p /\ ctx[p] # "none" /\ state[p] = "RUNNING"
  /\ lock = c
  /\ IF ctx[p] = "sleep"
     THEN chan' = [chan EXCEPT ![p] = 0] /\ UNCHANGED lock
     ELSE lock' = NoCpu /\ UNCHANGED chan
  /\ ctx' = [ctx EXCEPT ![p] = "none"]
  /\ UNCHANGED <<nextpid, state, pid, parent, killed, kstack, pc, np, proc,
                 cursor>>

\* scheduler: start a pass over the table.
SchedAcquire(c) ==
  /\ proc[c] = 0 /\ cursor[c] = 0
  /\ lock = NoCpu
  /\ lock' = c
  /\ cursor' = [cursor EXCEPT ![c] = 1]
  /\ UNCHANGED <<nextpid, state, pid, parent, chan, killed, kstack, ctx, pc,
                 np, proc>>

\* The slots the rest of the pass would run.
Ready(c) == {q \in Slot : q >= cursor[c] /\ state[q] = "RUNNABLE"}

\* Faulty variant of SchedRun: the pass goes on with the same slot.
SchedRunAgain(c) ==
  /\ proc[c] = 0 /\ cursor[c] # 0 /\ lock = c
  /\ \E q \in Slot :
       /\ IsFirst(q, Ready(c))
       /\ proc' = [proc EXCEPT ![c] = q]
       /\ state' = [state EXCEPT ![q] = "RUNNING"]
       /\ cursor' = [cursor EXCEPT ![c] = q]
  /\ UNCHANGED <<lock, nextpid, pid, parent, chan, killed, kstack, ctx, pc, np>>

\* Switch to the next RUNNABLE process of the pass.
SchedRun(c) ==
  /\ proc[c] = 0 /\ cursor[c] # 0 /\ lock = c
  /\ \E q \in Slot :
       /\ IsFirst(q, Ready(c))
       /\ proc' = [proc EXCEPT ![c] = q]
       /\ state' = [state EXCEPT ![q] = "RUNNING"]
       /\ cursor' = [cursor EXCEPT ![c] = q + 1]
  /\ UNCHANGED <<lock, nextpid, pid, parent, chan, killed, kstack, ctx, pc, np>>

\* The pass ends: release(&ptable.lock).
SchedRelease(c) ==
  /\ proc[c] = 0 /\ cursor[c] # 0 /\ lock = c
  /\ Ready(c) = {}
  /\ lock' = NoCpu
  /\ cursor' = [cursor EXCEPT ![c] = 0]
  /\ UNCHANGED <<nextpid, state, pid, parent, chan, killed, kstack, ctx, pc, np,
                 proc>>

-------------------------------------------------------------------------------

\* The kernel thread of p on CPU c, outside of interrupts and sched().
ThreadStep(c, p) ==
  \/ TrapReturn(c, p)
  \/ AllocProc(c, p) \/ AllocStack(c, p) \/ CopyProc(c, p) \/ StartChild(c, p)
  \/ Exit(c, p) \/ InitExit(c, p)
  \/ WaitAcquire(c, p) \/ WaitReap(c, p) \/ WaitFail(c, p) \/ WaitSleep(c, p)
  \/ \E k \in KillPids : Kill(c, p, k)

\* The scheduler thread of CPU c and the switches to and from it.
SchedStep(c) ==
  \/ SchedAcquire(c) \/ SchedRun(c) \/ SchedRelease(c)
  \/ \E p \in Slot : Sched(c, p) \/ Resume(c, p)

\* What user code does on CPU c.
UserStep(c) ==
  \E p \in Slot : (\E call \in Calls : Syscall(c, p, call)) \/ Fault(c, p)

Tick(c) == \E p \in Slot : Timer(c, p)

Next ==
  \E c \in CPU :
    \/ SchedStep(c) \/ UserStep(c) \/ Tick(c)
    \/ \E p \in Slot : ThreadStep(c, p)

Spec == Init /\ [][Next]_vars

-------------------------------------------------------------------------------
(* Properties *)

\* p's kernel stack is in use or holds a saved context.
Live(p) == state[p] \in {"SLEEPING", "RUNNABLE", "RUNNING", "ZOMBIE"}

\* The critical sections of CPU c that span several steps: scheduler's pass
\* over the table, wait's loop, and everything around a swtch.
Inside(c) ==
  IF proc[c] = 0 THEN cursor[c] # 0
  ELSE ctx[proc[c]] # "none" \/ pc[proc[c]] = "scan"

\* The process p is in fork(), between allocproc's claim and the child's start.
Forking(p) == pc[p] \in {"kstack", "copy", "run"}

\* A CPU never executes on a kernel stack that wait() has freed or that another
\* CPU executes on, although exit() still runs on the stack after it has made
\* the process a zombie its parent may reap (proc.c, exit, wait, sched).
StackSafety ==
  \A c \in CPU : proc[c] # 0 =>
    /\ Live(proc[c]) /\ proc[c] \in kstack
    /\ \A d \in CPU \ {c} : proc[d] # proc[c]

\* ptable.lock is held by exactly the CPU that is inside such a section, also
\* when the acquire and the release are done by different threads on either
\* side of a swtch: the panics of acquire, release and sched cannot fire.
LockHandoff == \A c \in CPU : lock = c <=> Inside(c)

\* A process that the table shows as running is on a CPU, and one that is on no
\* CPU but may be scheduled has a saved context to return to.
ContextSaved ==
  \A p \in Slot : Live(p) /\ (\A c \in CPU : proc[c] # p) =>
    state[p] # "RUNNING" /\ ctx[p] # "none"

\* Every process but init has a parent that is able to reap it: exit() leaves
\* no process whose parent is gone, whatever its children are doing.
OrphansAdopted ==
  \A p \in Slot \ {initproc} : Live(p) =>
    /\ parent[p] \notin {0, p}
    /\ state[parent[p]] \in {"SLEEPING", "RUNNABLE", "RUNNING"}

\* No wakeup is lost: a process asleep in wait() has children, none of which is
\* a zombie, and has not been killed.
NoLostWakeup ==
  \A p \in Slot : state[p] = "SLEEPING" =>
    /\ chan[p] = p /\ p \notin killed
    /\ havekids(p)
    /\ \A q \in Slot : parent[q] = p => state[q] # "ZOMBIE"

\* A pid names at most one slot, so kill() hits the process it was meant for;
\* this covers the pids that failed forks leave behind in UNUSED slots.
PidsUnique ==
  /\ \A p, q \in Slot : p # q /\ pid[p] = pid[q] => pid[p] = 0
  /\ \A p \in Slot : state[p] # "UNUSED" => pid[p] # 0

\* fork's error paths and wait leak nothing: an EMBRYO slot belongs to exactly
\* one fork() in progress and a free slot has no kernel stack and no parent.
NoSlotLeak ==
  \A q \in Slot :
    /\ state[q] = "EMBRYO" =>
         \E p \in Slot : /\ Forking(p) /\ np[p] = q
                         /\ \A r \in Slot \ {p} : Forking(r) => np[r] # q
    /\ state[q] = "UNUSED" => q \notin kstack /\ parent[q] = 0

-------------------------------------------------------------------------------
(* The inductive invariant of ProcProofs *)

\* A process is on at most one CPU; RUNNING processes are on one; a CPU that
\* runs a process is in the middle of its scheduler's pass.
CpuInv ==
  /\ \A c \in CPU : proc[c] # 0 => Live(proc[c]) /\ cursor[c] # 0
  /\ \A c, d \in CPU : proc[c] # 0 /\ proc[c] = proc[d] => c = d
  /\ \A p \in Slot : state[p] = "RUNNING" => \E c \in CPU : proc[c] = p

\* How state, saved context and program counter of a process go together.
ThreadInv ==
  \A p \in Slot : Live(p) =>
    /\ p \in kstack
    /\ ctx[p] = "none" => state[p] = "RUNNING"
    /\ ctx[p] = "exit" <=> state[p] = "ZOMBIE"
    /\ ctx[p] = "sleep" => pc[p] = "scan"
    /\ ctx[p] \in {"yield", "forkret"} => pc[p] # "scan"
    /\ state[p] = "SLEEPING" => ctx[p] = "sleep"
    /\ state[p] = "ZOMBIE" => pc[p] = "exit"

\* A fork in progress owns its EMBRYO slot.
ForkInv ==
  /\ \A p \in Slot : Forking(p) =>
       /\ state[p] \in {"RUNNABLE", "RUNNING"}
       /\ np[p] \in Slot /\ state[np[p]] = "EMBRYO"
       /\ pc[p] # "kstack" => np[p] \in kstack /\ ctx[np[p]] = "forkret"
       /\ IF pc[p] = "run" THEN parent[np[p]] = p /\ pc[np[p]] = "user"
                           ELSE parent[np[p]] = 0
  /\ \A p, q \in Slot : Forking(p) /\ Forking(q) /\ np[p] = np[q] => p = q
  /\ \A q \in Slot : state[q] = "EMBRYO" =>
       \E p \in Slot : Forking(p) /\ np[p] = q

\* Parents can reap their children; init never dies; free slots own nothing.
FamilyInv ==
  /\ state[initproc] \in {"SLEEPING", "RUNNABLE", "RUNNING"}
  /\ OrphansAdopted
  /\ \A q \in Slot : state[q] = "UNUSED" => q \notin kstack /\ parent[q] = 0

\* Pids come from the counter.
PidInv ==
  /\ nextpid > 0
  /\ \A p \in Slot : pid[p] < nextpid
  /\ PidsUnique

ProcInv ==
  /\ TypeOK
  /\ LockHandoff
  /\ CpuInv
  /\ ThreadInv
  /\ ForkInv
  /\ FamilyInv
  /\ NoLostWakeup
  /\ PidInv

-------------------------------------------------------------------------------
(* Liveness *)

\* A CPU keeps executing its scheduler thread and the code around swtch, where
\* interrupts are off; a pending timer interrupt stays
\* latched and is delivered once interrupts are on; a thread that is given time
\* slices again and again gets on with its code in one of them, and so does
\* init with its loop of wait() calls (init.c).
Fairness ==
  /\ \A c \in CPU : WF_vars(SchedStep(c)) /\ SF_vars(Tick(c))
  /\ \A p \in Slot : SF_vars(\E c \in CPU : ThreadStep(c, p))
  /\ SF_vars(\E c \in CPU : Syscall(c, initproc, "wait"))

FairSpec == Spec /\ Fairness

\* Every process that is ready to run gets a CPU.
RunnableRuns ==
  \A p \in Slot : state[p] = "RUNNABLE" ~> state[p] = "RUNNING"

\* A killed process leaves the system, wherever the kill found it.
KilledExits ==
  \A p \in Slot \ {initproc} :
    p \in killed /\ Live(p) ~> state[p] \in {"ZOMBIE", "UNUSED"}

\* The zombies that init inherits are reaped.
OrphanReaped ==
  \A p \in Slot :
    state[p] = "ZOMBIE" /\ parent[p] = initproc ~> state[p] = "UNUSED"

===============================================================================
