----------------------------- MODULE ProcProofs -----------------------------
(***************************************************************************)
(* The safety of the process table for every number of slots and CPUs.     *)
(* ProcInv is inductive: one lemma per action of Proc, one step per part   *)
(* of ProcInv.  The properties of Proc follow from it.                     *)
(***************************************************************************)
EXTENDS Proc, TLAPS

\* Null is no slot and the first slot is init's.  The proofs below use these
\* facts in place of the definition of Slot.
LEMMA SlotFacts ==
  /\ 0 \notin Slot
  /\ SlotOr0 = Slot \cup {0}
  /\ initproc \in Slot
BY ProcAssumption DEF Slot, SlotOr0, initproc

\* A system call only moves the process's control; exit() for a killed one.
LEMMA SyscallInv ==
  ASSUME ProcInv, NEW c \in CPU, NEW p \in Slot, NEW call \in Calls,
         Syscall(c, p, call)
  PROVE  ProcInv'
<1> USE SlotFacts DEF ProcInv, TypeOK, Syscall, At, Goto
<1>1. TypeOK'  BY DEF Labels, Calls
<1>2. LockHandoff'  BY DEF LockHandoff, Inside, Calls
<1>3. CpuInv'  BY DEF CpuInv, Live
<1>4. ThreadInv'  BY DEF ThreadInv, Live
<1>5. ForkInv'  BY DEF ForkInv, Forking, Calls
<1>6. FamilyInv'  BY DEF FamilyInv, OrphansAdopted, Live
<1>7. NoLostWakeup'  BY DEF NoLostWakeup, havekids
<1>8. PidInv'  BY DEF PidInv, PidsUnique
<1> QED  BY <1>1, <1>2, <1>3, <1>4, <1>5, <1>6, <1>7, <1>8

\* A trap from user mode: the mark is put on a process that is not asleep.
LEMMA FaultInv ==
  ASSUME ProcInv, NEW c \in CPU, NEW p \in Slot, Fault(c, p)
  PROVE  ProcInv'
<1> USE SlotFacts DEF ProcInv, TypeOK, Fault, At, Goto
<1>1. TypeOK'  BY DEF Labels
<1>2. LockHandoff'  BY DEF LockHandoff, Inside
<1>3. CpuInv'  BY DEF CpuInv, Live
<1>4. ThreadInv'  BY DEF ThreadInv, Live
<1>5. ForkInv'  BY DEF ForkInv, Forking
<1>6. FamilyInv'  BY DEF FamilyInv, OrphansAdopted, Live
<1>7. NoLostWakeup'  BY DEF NoLostWakeup, havekids, ThreadInv, Live
<1>8. PidInv'  BY DEF PidInv, PidsUnique
<1> QED  BY <1>1, <1>2, <1>3, <1>4, <1>5, <1>6, <1>7, <1>8

\* The return to user mode.
LEMMA TrapReturnInv ==
  ASSUME ProcInv, NEW c \in CPU, NEW p \in Slot, TrapReturn(c, p)
  PROVE  ProcInv'
<1> USE SlotFacts DEF ProcInv, TypeOK, TrapReturn, At, Goto
<1>1. TypeOK'  BY DEF Labels
<1>2. LockHandoff'  BY DEF LockHandoff, Inside
<1>3. CpuInv'  BY DEF CpuInv, Live
<1>4. ThreadInv'  BY DEF ThreadInv, Live
<1>5. ForkInv'  BY DEF ForkInv, Forking
<1>6. FamilyInv'  BY DEF FamilyInv, OrphansAdopted, Live
<1>7. NoLostWakeup'  BY DEF NoLostWakeup, havekids
<1>8. PidInv'  BY DEF PidInv, PidsUnique
<1> QED  BY <1>1, <1>2, <1>3, <1>4, <1>5, <1>6, <1>7, <1>8

\* The timer interrupt: yield() takes the lock into sched().
LEMMA TimerInv ==
  ASSUME ProcInv, NEW c \in CPU, NEW p \in Slot, Timer(c, p)
  PROVE  ProcInv'
<1> USE SlotFacts DEF ProcInv, TypeOK, Timer, Goto
<1>1. TypeOK'  BY DEF Labels, ProcStates, Contexts
<1>2. LockHandoff'  BY ProcAssumption DEF LockHandoff, Inside, CpuInv
<1>3. CpuInv'  BY DEF CpuInv, Live
<1>4. ThreadInv'  BY DEF ThreadInv, Live
<1>5. ForkInv'  BY DEF ForkInv, Forking
<1>6. FamilyInv'  BY DEF FamilyInv, OrphansAdopted, Live
<1>7. NoLostWakeup'  BY DEF NoLostWakeup, havekids
<1>8. PidInv'  BY DEF PidInv, PidsUnique
<1> QED  BY <1>1, <1>2, <1>3, <1>4, <1>5, <1>6, <1>7, <1>8

\* allocproc() claims a slot that no other fork() owns.
LEMMA AllocProcInv ==
  ASSUME ProcInv, NEW c \in CPU, NEW p \in Slot, AllocProc(c, p)
  PROVE  ProcInv'
<1> USE SlotFacts DEF ProcInv, TypeOK, AllocProc, At, Goto
<1>1. TypeOK'  BY DEF Labels, ProcStates, IsFirst
<1>2. LockHandoff'  BY DEF LockHandoff, Inside, IsFirst
<1>3. CpuInv'  BY DEF CpuInv, Live, IsFirst
<1>4. ThreadInv'  BY DEF ThreadInv, Live, IsFirst
<1>5. ForkInv'  BY DEF ForkInv, Forking, ThreadInv, FamilyInv, CpuInv, IsFirst
<1>6. FamilyInv'  BY DEF FamilyInv, OrphansAdopted, Live, IsFirst
<1>7. NoLostWakeup'  BY DEF NoLostWakeup, havekids, IsFirst
<1>8. PidInv'  BY DEF PidInv, PidsUnique, IsFirst
<1> QED  BY <1>1, <1>2, <1>3, <1>4, <1>5, <1>6, <1>7, <1>8

\* allocproc() outside the lock touches only the slot the fork() owns.
LEMMA AllocStackInv ==
  ASSUME ProcInv, NEW c \in CPU, NEW p \in Slot, AllocStack(c, p)
  PROVE  ProcInv'
<1> USE SlotFacts DEF ProcInv, TypeOK, AllocStack, At, Goto
<1>1. TypeOK'
  BY DEF Labels, ProcStates, Contexts, CpuInv, Live, ForkInv, Forking
<1>2. LockHandoff'  BY DEF LockHandoff, Inside, CpuInv, Live, ForkInv, Forking
<1>3. CpuInv'  BY DEF CpuInv, Live, ForkInv, Forking
<1>4. ThreadInv'  BY DEF ThreadInv, Live, ForkInv, Forking
<1>5. ForkInv'  BY DEF ForkInv, Forking
<1>6. FamilyInv'  BY DEF FamilyInv, OrphansAdopted, Live, ForkInv, Forking
<1>7. NoLostWakeup'  BY DEF NoLostWakeup, havekids
<1>8. PidInv'  BY DEF PidInv, PidsUnique
<1> QED  BY <1>1, <1>2, <1>3, <1>4, <1>5, <1>6, <1>7, <1>8

\* fork() outside the lock touches only the slot the fork() owns.
LEMMA CopyProcInv ==
  ASSUME ProcInv, NEW c \in CPU, NEW p \in Slot, CopyProc(c, p)
  PROVE  ProcInv'
<1> USE SlotFacts DEF ProcInv, TypeOK, CopyProc, At, Goto
<1>1. TypeOK'  BY DEF Labels, ProcStates
<1>2. LockHandoff'  BY DEF LockHandoff, Inside, ForkInv, Forking
<1>3. CpuInv'  BY DEF CpuInv, Live, ForkInv, Forking
<1>4. ThreadInv'  BY DEF ThreadInv, Live, ForkInv, Forking
<1>5. ForkInv'  BY DEF ForkInv, Forking
<1>6. FamilyInv'  BY DEF FamilyInv, OrphansAdopted, Live, ForkInv, Forking
<1>7. NoLostWakeup'  BY DEF NoLostWakeup, havekids, ForkInv, Forking
<1>8. PidInv'  BY DEF PidInv, PidsUnique
<1> QED  BY <1>1, <1>2, <1>3, <1>4, <1>5, <1>6, <1>7, <1>8

\* The child that fork() starts has a stack, a context and a living parent.
LEMMA StartChildInv ==
  ASSUME ProcInv, NEW c \in CPU, NEW p \in Slot, StartChild(c, p)
  PROVE  ProcInv'
<1> USE SlotFacts DEF ProcInv, TypeOK, StartChild, At, Goto
<1>1. TypeOK'  BY DEF TypeOK, Labels, ProcStates, Contexts
<1>2. LockHandoff'  BY DEF LockHandoff, Inside
<1>3. CpuInv'  BY DEF CpuInv, Live
<1>4. ThreadInv'  BY DEF ThreadInv, Live, ForkInv, Forking
<1>5. ForkInv'  BY DEF ForkInv, Forking
<1>6. FamilyInv'  BY DEF FamilyInv, OrphansAdopted, Live, ForkInv, Forking
<1>7. NoLostWakeup'  BY DEF NoLostWakeup, havekids
<1>8. PidInv'  BY DEF PidInv, PidsUnique, ForkInv, Forking
<1> QED  BY <1>1, <1>2, <1>3, <1>4, <1>5, <1>6, <1>7, <1>8

\* exit() wakes whoever has to reap the zombie and the orphans.
LEMMA ExitInv ==
  ASSUME ProcInv, NEW c \in CPU, NEW p \in Slot, Exit(c, p)
  PROVE  ProcInv'
<1> USE SlotFacts DEF ProcInv, TypeOK, Exit, Adopt, At
<1>1. TypeOK'  BY DEF ProcStates, Contexts, wakeup1, Wake
<1>2. LockHandoff'  BY ProcAssumption DEF LockHandoff, Inside, CpuInv
<1>3. CpuInv'  BY DEF CpuInv, Live, wakeup1, Wake
<1>4. ThreadInv'  BY DEF ThreadInv, Live, CpuInv, wakeup1, Wake
<1>5. ForkInv'  BY DEF ForkInv, Forking, Live, CpuInv, wakeup1, Wake
<1>6. FamilyInv'  BY DEF FamilyInv, OrphansAdopted, Live, CpuInv, wakeup1, Wake
<1>7. NoLostWakeup'
  <2> SUFFICES ASSUME NEW q \in Slot, state'[q] = "SLEEPING"
               PROVE  /\ chan[q] = q /\ q \notin killed
                      /\ havekids(q)'
                      /\ \A r \in Slot : parent'[r] = q => state'[r] # "ZOMBIE"
    BY DEF NoLostWakeup
  <2>1. q # p /\ state[q] = "SLEEPING" /\ chan[q] # parent[p]
    BY DEF wakeup1, Wake
  <2>2. q = initproc => Zombies(p) = {} \/ chan[q] # q
    BY <2>1 DEF wakeup1, Wake
  <2>3. chan[q] = q /\ q \notin killed /\ havekids(q)
    BY <2>1 DEF NoLostWakeup
  <2>4. havekids(q)'
    BY <2>1, <2>3 DEF havekids
  <2>5. ASSUME NEW r \in Slot, parent'[r] = q, state'[r] = "ZOMBIE"
        PROVE  FALSE
    <3>1. r = p \/ state[r] = "ZOMBIE"
      BY <2>5 DEF wakeup1, Wake
    <3>2. r # p
      BY <2>1, <2>3, <2>5 DEF FamilyInv, OrphansAdopted, CpuInv
    <3>3. parent[r] # q
      BY <2>1, <3>1, <3>2 DEF NoLostWakeup
    <3>4. parent[r] = p /\ q = initproc
      BY <2>5, <3>3
    <3> QED  BY <2>2, <2>3, <3>1, <3>2, <3>4 DEF Zombies
  <2> QED  BY <2>3, <2>4, <2>5
<1>8. PidInv'  BY DEF PidInv, PidsUnique, CpuInv, Live, wakeup1, Wake
<1> QED  BY <1>1, <1>2, <1>3, <1>4, <1>5, <1>6, <1>7, <1>8

\* The panic of init's exit().
LEMMA InitExitInv ==
  ASSUME ProcInv, NEW c \in CPU, NEW p \in Slot, InitExit(c, p)
  PROVE  ProcInv'
<1> USE SlotFacts DEF ProcInv, TypeOK, InitExit, At, Goto
<1>1. TypeOK'  BY DEF Labels
<1>2. LockHandoff'  BY DEF LockHandoff, Inside
<1>3. CpuInv'  BY DEF CpuInv, Live
<1>4. ThreadInv'  BY DEF ThreadInv, Live
<1>5. ForkInv'  BY DEF ForkInv, Forking
<1>6. FamilyInv'  BY DEF FamilyInv, OrphansAdopted, Live
<1>7. NoLostWakeup'  BY DEF NoLostWakeup, havekids
<1>8. PidInv'  BY DEF PidInv, PidsUnique
<1> QED  BY <1>1, <1>2, <1>3, <1>4, <1>5, <1>6, <1>7, <1>8

\* wait() takes the lock for its scan.
LEMMA WaitAcquireInv ==
  ASSUME ProcInv, NEW c \in CPU, NEW p \in Slot, WaitAcquire(c, p)
  PROVE  ProcInv'
<1> USE SlotFacts DEF ProcInv, TypeOK, WaitAcquire, At, Goto
<1>1. TypeOK'  BY DEF Labels
<1>2. LockHandoff'  BY ProcAssumption DEF LockHandoff, Inside, CpuInv
<1>3. CpuInv'  BY DEF CpuInv, Live
<1>4. ThreadInv'  BY DEF ThreadInv, Live
<1>5. ForkInv'  BY DEF ForkInv, Forking
<1>6. FamilyInv'  BY DEF FamilyInv, OrphansAdopted, Live
<1>7. NoLostWakeup'  BY DEF NoLostWakeup, havekids
<1>8. PidInv'  BY DEF PidInv, PidsUnique
<1> QED  BY <1>1, <1>2, <1>3, <1>4, <1>5, <1>6, <1>7, <1>8

\* wait() frees a zombie that is on no CPU: one in exit() has the lock.
LEMMA WaitReapInv ==
  ASSUME ProcInv, NEW c \in CPU, NEW p \in Slot, WaitReap(c, p)
  PROVE  ProcInv'
<1> USE SlotFacts DEF ProcInv, TypeOK, WaitReap, At, Goto
<1>1. TypeOK'  BY DEF Labels, ProcStates
<1>2. LockHandoff'  BY ProcAssumption DEF LockHandoff, Inside
<1>3. CpuInv'
  <2> PICK q \in Slot : /\ state[q] = "ZOMBIE"
                        /\ state' = [state EXCEPT ![q] = "UNUSED"]
    BY DEF IsFirst, Zombies
  <2>1. \A d \in CPU : proc[d] # q
    BY DEF LockHandoff, Inside, ThreadInv, Live
  <2> QED  BY <2>1 DEF CpuInv, Live
<1>4. ThreadInv'  BY DEF ThreadInv, Live
<1>5. ForkInv'  BY DEF ForkInv, Forking, IsFirst, Zombies
<1>6. FamilyInv'  BY DEF FamilyInv, OrphansAdopted, Live, IsFirst, Zombies
<1>7. NoLostWakeup'  BY DEF NoLostWakeup, havekids, IsFirst, Zombies
<1>8. PidInv'  BY DEF PidInv, PidsUnique
<1> QED  BY <1>1, <1>2, <1>3, <1>4, <1>5, <1>6, <1>7, <1>8

\* wait() without a child to wait for.
LEMMA WaitFailInv ==
  ASSUME ProcInv, NEW c \in CPU, NEW p \in Slot, WaitFail(c, p)
  PROVE  ProcInv'
<1> USE SlotFacts DEF ProcInv, TypeOK, WaitFail, At, Goto
<1>1. TypeOK'  BY DEF Labels
<1>2. LockHandoff'  BY ProcAssumption DEF LockHandoff, Inside
<1>3. CpuInv'  BY DEF CpuInv, Live
<1>4. ThreadInv'  BY DEF ThreadInv, Live
<1>5. ForkInv'  BY DEF ForkInv, Forking
<1>6. FamilyInv'  BY DEF FamilyInv, OrphansAdopted, Live
<1>7. NoLostWakeup'  BY DEF NoLostWakeup, havekids
<1>8. PidInv'  BY DEF PidInv, PidsUnique
<1> QED  BY <1>1, <1>2, <1>3, <1>4, <1>5, <1>6, <1>7, <1>8

\* wait() goes to sleep with no zombie child and without a kill pending.
LEMMA WaitSleepInv ==
  ASSUME ProcInv, NEW c \in CPU, NEW p \in Slot, WaitSleep(c, p)
  PROVE  ProcInv'
<1> USE SlotFacts DEF ProcInv, TypeOK, WaitSleep, At
<1>1. TypeOK'  BY DEF ProcStates, Contexts
<1>2. LockHandoff'  BY DEF LockHandoff, Inside
<1>3. CpuInv'  BY DEF CpuInv, Live
<1>4. ThreadInv'  BY DEF ThreadInv, Live, CpuInv
<1>5. ForkInv'  BY DEF ForkInv, Forking, Live, CpuInv
<1>6. FamilyInv'  BY DEF FamilyInv, OrphansAdopted, Live, CpuInv
<1>7. NoLostWakeup'  BY DEF NoLostWakeup, havekids, Zombies
<1>8. PidInv'  BY DEF PidInv, PidsUnique, CpuInv, Live
<1> QED  BY <1>1, <1>2, <1>3, <1>4, <1>5, <1>6, <1>7, <1>8

\* kill() wakes the process it marks.
LEMMA KillInv ==
  ASSUME ProcInv, NEW c \in CPU, NEW p \in Slot, NEW k \in KillPids, Kill(c, p, k)
  PROVE  ProcInv'
<1> USE SlotFacts DEF ProcInv, TypeOK, Kill, Wake, At, Goto
<1>1. TypeOK'  BY DEF Labels, ProcStates, IsFirst
<1>2. LockHandoff'  BY DEF LockHandoff, Inside
<1>3. CpuInv'  BY DEF CpuInv, Live, IsFirst
<1>4. ThreadInv'  BY DEF ThreadInv, Live, IsFirst
<1>5. ForkInv'  BY DEF ForkInv, Forking, IsFirst
<1>6. FamilyInv'  BY DEF FamilyInv, OrphansAdopted, Live, IsFirst
<1>7. NoLostWakeup'  BY DEF NoLostWakeup, havekids, IsFirst
<1>8. PidInv'  BY DEF PidInv, PidsUnique, IsFirst
<1> QED  BY <1>1, <1>2, <1>3, <1>4, <1>5, <1>6, <1>7, <1>8

\* The switch to the scheduler thread passes the lock on.
LEMMA SchedInv ==
  ASSUME ProcInv, NEW c \in CPU, NEW p \in Slot, Sched(c, p)
  PROVE  ProcInv'
<1> USE SlotFacts DEF ProcInv, TypeOK, Sched
<1>1. TypeOK'  OBVIOUS
<1>2. LockHandoff'  BY DEF LockHandoff, Inside, CpuInv
<1>3. CpuInv'  BY DEF CpuInv, Live
<1>4. ThreadInv'  BY DEF ThreadInv, Live
<1>5. ForkInv'  BY DEF ForkInv, Forking
<1>6. FamilyInv'  BY DEF FamilyInv, OrphansAdopted, Live
<1>7. NoLostWakeup'  BY DEF NoLostWakeup, havekids
<1>8. PidInv'  BY DEF PidInv, PidsUnique
<1> QED  BY <1>1, <1>2, <1>3, <1>4, <1>5, <1>6, <1>7, <1>8

\* The switch back: sleep() keeps the lock, yield() and forkret() release it.
LEMMA ResumeInv ==
  ASSUME ProcInv, NEW c \in CPU, NEW p \in Slot, Resume(c, p)
  PROVE  ProcInv'
<1> USE SlotFacts DEF ProcInv, TypeOK, Resume
<1>1. TypeOK'  BY DEF Contexts
<1>2. LockHandoff'
  <2>1. IF ctx[p] = "sleep" THEN pc[p] = "scan" ELSE pc[p] # "scan"
    BY DEF ThreadInv, Live, Contexts
  <2>2. \A d \in CPU : d # c => proc[d] # p /\ ~Inside(d)
    BY DEF LockHandoff, CpuInv
  <2>3. \A d \in CPU : d # c => ~Inside(d)'
    BY <2>2 DEF Inside
  <2>4. Inside(c)' <=> ctx[p] = "sleep"
    BY <2>1 DEF Inside
  <2> QED  BY <2>3, <2>4, ProcAssumption DEF LockHandoff
<1>3. CpuInv'  BY DEF CpuInv, Live
<1>4. ThreadInv'  BY DEF ThreadInv, Live
<1>5. ForkInv'  BY DEF ForkInv, Forking
<1>6. FamilyInv'  BY DEF FamilyInv, OrphansAdopted, Live
<1>7. NoLostWakeup'  BY DEF NoLostWakeup, havekids
<1>8. PidInv'  BY DEF PidInv, PidsUnique
<1> QED  BY <1>1, <1>2, <1>3, <1>4, <1>5, <1>6, <1>7, <1>8

\* A scheduler begins its pass.
LEMMA SchedAcquireInv ==
  ASSUME ProcInv, NEW c \in CPU, SchedAcquire(c)
  PROVE  ProcInv'
<1> USE SlotFacts DEF ProcInv, TypeOK, SchedAcquire
<1>1. TypeOK'  BY ProcAssumption
<1>2. LockHandoff'  BY ProcAssumption DEF LockHandoff, Inside
<1>3. CpuInv'  BY DEF CpuInv, Live
<1>4. ThreadInv'  BY DEF ThreadInv, Live
<1>5. ForkInv'  BY DEF ForkInv, Forking
<1>6. FamilyInv'  BY DEF FamilyInv, OrphansAdopted, Live
<1>7. NoLostWakeup'  BY DEF NoLostWakeup, havekids
<1>8. PidInv'  BY DEF PidInv, PidsUnique
<1> QED  BY <1>1, <1>2, <1>3, <1>4, <1>5, <1>6, <1>7, <1>8

\* The process a scheduler picks is on no CPU: its context is saved.
LEMMA SchedRunInv ==
  ASSUME ProcInv, NEW c \in CPU, SchedRun(c)
  PROVE  ProcInv'
<1> USE SlotFacts DEF ProcInv, TypeOK, SchedRun
<1>1. TypeOK'
  <2> PICK q \in Slot : /\ proc' = [proc EXCEPT ![c] = q]
                        /\ state' = [state EXCEPT ![q] = "RUNNING"]
                        /\ cursor' = [cursor EXCEPT ![c] = q + 1]
    OBVIOUS
  <2>1. q + 1 \in 0 .. NPROC + 1
    BY ProcAssumption DEF Slot
  <2> QED  BY <2>1 DEF ProcStates
<1>2. LockHandoff'  BY DEF LockHandoff, Inside, ThreadInv, Live, IsFirst, Ready
<1>3. CpuInv'
  <2> PICK q \in Slot : /\ state[q] = "RUNNABLE"
                        /\ proc' = [proc EXCEPT ![c] = q]
                        /\ state' = [state EXCEPT ![q] = "RUNNING"]
                        /\ cursor' = [cursor EXCEPT ![c] = q + 1]
    BY DEF IsFirst, Ready
  <2>1. \A d \in CPU : proc[d] # q
    BY DEF LockHandoff, Inside, ThreadInv, Live
  <2>2. q + 1 # 0
    BY ProcAssumption DEF Slot
  <2> QED  BY <2>1, <2>2 DEF CpuInv, Live
<1>4. ThreadInv'  BY DEF ThreadInv, Live, IsFirst, Ready
<1>5. ForkInv'  BY DEF ForkInv, Forking, IsFirst, Ready
<1>6. FamilyInv'  BY DEF FamilyInv, OrphansAdopted, Live, IsFirst, Ready
<1>7. NoLostWakeup'  BY DEF NoLostWakeup, havekids
<1>8. PidInv'  BY DEF PidInv, PidsUnique, IsFirst, Ready
<1> QED  BY <1>1, <1>2, <1>3, <1>4, <1>5, <1>6, <1>7, <1>8

\* A scheduler ends its pass.
LEMMA SchedReleaseInv ==
  ASSUME ProcInv, NEW c \in CPU, SchedRelease(c)
  PROVE  ProcInv'
<1> USE SlotFacts DEF ProcInv, TypeOK, SchedRelease
<1>1. TypeOK'  BY ProcAssumption
<1>2. LockHandoff'  BY ProcAssumption DEF LockHandoff, Inside
<1>3. CpuInv'  BY DEF CpuInv, Live
<1>4. ThreadInv'  BY DEF ThreadInv, Live
<1>5. ForkInv'  BY DEF ForkInv, Forking
<1>6. FamilyInv'  BY DEF FamilyInv, OrphansAdopted, Live
<1>7. NoLostWakeup'  BY DEF NoLostWakeup, havekids
<1>8. PidInv'  BY DEF PidInv, PidsUnique
<1> QED  BY <1>1, <1>2, <1>3, <1>4, <1>5, <1>6, <1>7, <1>8

-----------------------------------------------------------------------------

\* What main() and userinit() leave satisfies the invariant.
LEMMA InitInv == Init => ProcInv
<1> SUFFICES ASSUME Init PROVE ProcInv
  OBVIOUS
<1> USE SlotFacts DEF Init
<1>1. TypeOK
  BY ProcAssumption DEF TypeOK, ProcStates, Contexts, Labels
<1>2. LockHandoff  BY ProcAssumption DEF LockHandoff, Inside
<1>3. CpuInv  BY DEF CpuInv
<1>4. ThreadInv  BY DEF ThreadInv, Live
<1>5. ForkInv  BY DEF ForkInv, Forking
<1>6. FamilyInv  BY DEF FamilyInv, OrphansAdopted, Live
<1>7. NoLostWakeup  BY DEF NoLostWakeup
<1>8. PidInv  BY DEF PidInv, PidsUnique
<1> QED  BY <1>1, <1>2, <1>3, <1>4, <1>5, <1>6, <1>7, <1>8 DEF ProcInv

\* Every step of the kernel preserves the invariant.
LEMMA NextInv == ProcInv /\ [Next]_vars => ProcInv'
<1> SUFFICES ASSUME ProcInv, [Next]_vars PROVE ProcInv'
  OBVIOUS
<1>1. CASE UNCHANGED vars
  BY <1>1 DEF vars, ProcInv, TypeOK, LockHandoff, Inside, CpuInv, Live,
              ThreadInv, ForkInv, Forking, FamilyInv, OrphansAdopted,
              NoLostWakeup, havekids, PidInv, PidsUnique
<1>2. CASE Next
  <2> PICK c \in CPU : \/ SchedStep(c) \/ UserStep(c) \/ Tick(c)
                       \/ \E p \in Slot : ThreadStep(c, p)
    BY <1>2 DEF Next
  <2>1. CASE SchedStep(c)
    BY <2>1, SchedAcquireInv, SchedRunInv, SchedReleaseInv, SchedInv, ResumeInv
       DEF SchedStep
  <2>2. CASE UserStep(c)
    BY <2>2, SyscallInv, FaultInv DEF UserStep
  <2>3. CASE Tick(c)
    BY <2>3, TimerInv DEF Tick
  <2>4. ASSUME NEW p \in Slot, ThreadStep(c, p) PROVE ProcInv'
    BY <2>4, TrapReturnInv, AllocProcInv, AllocStackInv, CopyProcInv,
       StartChildInv, ExitInv, InitExitInv, WaitAcquireInv, WaitReapInv,
       WaitFailInv, WaitSleepInv, KillInv DEF ThreadStep
  <2> QED  BY <2>1, <2>2, <2>3, <2>4
<1> QED  BY <1>1, <1>2

\* ProcInv, the conjunction of how proc.c keeps table, CPUs and lock together,
\* holds in every reachable state, for any NPROC and any set of CPUs.
THEOREM Invariance == Spec => []ProcInv
BY InitInv, NextInv, PTL DEF Spec

\* Every field of the process table and of the CPUs keeps its type.
THEOREM TypeCorrect == Spec => []TypeOK
<1>1. ProcInv => TypeOK  BY DEF ProcInv
<1> QED  BY <1>1, Invariance, PTL

\* No CPU runs on a freed kernel stack, and no two CPUs on the same one.
THEOREM StacksSafe == Spec => []StackSafety
<1>1. ProcInv => StackSafety
  BY SlotFacts DEF ProcInv, TypeOK, StackSafety, CpuInv, ThreadInv
<1> QED  BY <1>1, Invariance, PTL

\* Ptable.lock is held exactly inside the critical sections, across swtch too.
THEOREM LockHandedOff == Spec => []LockHandoff
<1>1. ProcInv => LockHandoff  BY DEF ProcInv
<1> QED  BY <1>1, Invariance, PTL

\* A process that is on no CPU is not RUNNING and has a context to return to.
THEOREM ContextsSaved == Spec => []ContextSaved
<1>1. ProcInv => ContextSaved
  BY DEF ProcInv, ContextSaved, CpuInv, ThreadInv
<1> QED  BY <1>1, Invariance, PTL

\* exit() leaves no process without a parent that can reap it.
THEOREM NoOrphans == Spec => []OrphansAdopted
<1>1. ProcInv => OrphansAdopted  BY DEF ProcInv, FamilyInv
<1> QED  BY <1>1, Invariance, PTL

\* A process asleep in wait() has something to wait for.
THEOREM WakeupsArrive == Spec => []NoLostWakeup
<1>1. ProcInv => NoLostWakeup  BY DEF ProcInv
<1> QED  BY <1>1, Invariance, PTL

\* A pid names one slot at most.
THEOREM PidsDistinct == Spec => []PidsUnique
<1>1. ProcInv => PidsUnique  BY DEF ProcInv, PidInv
<1> QED  BY <1>1, Invariance, PTL

\* An EMBRYO slot belongs to one fork(), a free slot owns nothing.
THEOREM SlotsAccounted == Spec => []NoSlotLeak
<1>1. ProcInv => NoSlotLeak
  <2> SUFFICES ASSUME ProcInv, NEW q \in Slot
               PROVE  /\ state[q] = "EMBRYO" =>
                           \E p \in Slot :
                             /\ Forking(p) /\ np[p] = q
                             /\ \A r \in Slot \ {p} : Forking(r) => np[r] # q
                      /\ state[q] = "UNUSED" => q \notin kstack /\ parent[q] = 0
    BY DEF NoSlotLeak
  <2> QED  BY DEF ProcInv, ForkInv, FamilyInv
<1> QED  BY <1>1, Invariance, PTL

=============================================================================
