-------------------------------- MODULE Pipe --------------------------------
(***************************************************************************)
(* Pipes (pipe.c): a ring buffer shared by the processes that hold its two *)
(* ends, with the spinlock p->lock, and sleep() / wakeup() / kill() of     *)
(* proc.c on the channels &p->nread and &p->nwrite.                        *)
(*                                                                         *)
(* The counters nread and nwrite are unsigned and wrap at Wrap (2^32 in    *)
(* the code).  A process that calls sleep() goes to sleep and gives up     *)
(* p->lock in one step, because it holds ptable.lock meanwhile; its test   *)
(* of p->killed just before is a step of its own, because kill() holds     *)
(* ptable.lock only.                                                       *)
(***************************************************************************)
EXTENDS Integers, Sequences, FiniteSets

CONSTANTS Writer, Reader,  \* the processes that hold the write and read end
          Nobody,          \* p->lock is free
          Byte,
          PIPESIZE,
          Wrap,            \* the unsigned counters wrap here
          MaxLen,          \* bound: bytes of one read() or write()
          Killable         \* processes that somebody may kill()

Process == Writer \cup Reader

ASSUME PipeAssumption ==
  /\ Writer \cap Reader = {} /\ Nobody \notin Process
  /\ Killable \subseteq Process
  /\ PIPESIZE \in Nat \ {0} /\ MaxLen \in Nat
  /\ Wrap \in Nat /\ Wrap > PIPESIZE /\ Wrap % PIPESIZE = 0

VARIABLES
  lock,       \* the process that holds p->lock, or Nobody
  data,       \* p->data
  nread, nwrite,
  readopen, writeopen,
  freed,      \* kfree((char*)p) has been called, as 0 or 1
  holders,    \* the processes that still have their end open
  pc,         \* what each process does next
  left,       \* bytes the process's read() or write() has still to copy
  killed      \* the processes with p->killed set

vars == <<lock, data, nread, nwrite, readopen, writeopen, freed, holders, pc,
          left, killed>>

Labels == {"user", "enter", "loop", "copy", "sleep", "asleep", "closed"}

TypeOK ==
  /\ lock \in Process \cup {Nobody}
  /\ data \in [0 .. PIPESIZE - 1 -> Byte]
  /\ nread \in 0 .. Wrap - 1 /\ nwrite \in 0 .. Wrap - 1
  /\ readopen \in {0, 1} /\ writeopen \in {0, 1} /\ freed \in {0, 1}
  /\ holders \subseteq Process
  /\ pc \in [Process -> Labels]
  /\ left \in [Process -> 0 .. MaxLen]
  /\ killed \subseteq Process

\* After pipealloc() and the fork()s that share the two ends.
Init ==
  /\ lock = Nobody
  /\ data \in [0 .. PIPESIZE - 1 -> Byte]
  /\ nread = 0 /\ nwrite = 0
  /\ readopen = 1 /\ writeopen = 1 /\ freed = 0
  /\ holders = Process
  /\ pc = [p \in Process |-> "user"]
  /\ left = [p \in Process |-> 0]
  /\ killed = {}

-----------------------------------------------------------------------------
(* Helpers *)

Empty == nread = nwrite

\* Faulty variant of Full: off by one.
Overfull == nwrite = (nread + PIPESIZE + 1) % Wrap

Full  == nwrite = (nread + PIPESIZE) % Wrap

Goto(p, l) == pc' = [pc EXCEPT ![p] = l]

\* Faulty variant of wakeup.
NoWakeup(S, l) == l

\* wakeup(&p->nread) wakes the readers in S = Reader, wakeup(&p->nwrite) the
\* writers; l is the control state it is applied to.
wakeup(S, l) ==
  [q \in Process |-> IF q \in S /\ l[q] = "asleep" THEN "enter" ELSE l[q]]

buffer == <<data, nread, nwrite>>
ends   == <<readopen, writeopen, freed, holders>>

-----------------------------------------------------------------------------
(* System calls *)

\* read(fd, addr, n) or write(fd, addr, n) by a process that holds the end.
Call(p) ==
  /\ pc[p] = "user" /\ p \in holders /\ p \notin killed
  /\ \E n \in 1 .. MaxLen : left' = [left EXCEPT ![p] = n]
  /\ Goto(p, "enter")
  /\ UNCHANGED <<lock, buffer, ends, killed>>

\* acquire(&p->lock), at the start and after sleep().
Enter(p) ==
  /\ pc[p] = "enter" /\ lock = Nobody
  /\ lock' = p
  /\ Goto(p, "loop")
  /\ UNCHANGED <<buffer, ends, left, killed>>

\* sleep(): the process is asleep and p->lock is free.
Sleep(p) ==
  /\ pc[p] = "sleep"
  /\ lock' = Nobody
  /\ Goto(p, "asleep")
  /\ UNCHANGED <<buffer, ends, left, killed>>

\* kill(): wakes a process that is asleep by now.
Kill(p) ==
  /\ p \in Killable \ killed /\ pc[p] # "closed"
  /\ killed' = killed \cup {p}
  /\ Goto(p, IF pc[p] = "asleep" THEN "enter" ELSE pc[p])
  /\ UNCHANGED <<lock, buffer, ends, left>>

\* One byte of pipewrite's loop.
WriteByte(p) ==
  /\ p \in Writer /\ pc[p] = "loop" /\ left[p] > 0 /\ ~Full
  /\ \E b \in Byte : data' = [data EXCEPT ![nwrite % PIPESIZE] = b]
  /\ nwrite' = (nwrite + 1) % Wrap
  /\ left' = [left EXCEPT ![p] = @ - 1]
  /\ UNCHANGED <<lock, nread, ends, pc, killed>>

\* The pipe is full: give up, or wake the readers and go to sleep.
WriteFull(p) ==
  /\ p \in Writer /\ pc[p] = "loop" /\ left[p] > 0 /\ Full
  /\ IF readopen = 0 \/ p \in killed
     THEN /\ lock' = Nobody
          /\ left' = [left EXCEPT ![p] = 0]
          /\ Goto(p, "user")
     ELSE /\ pc' = wakeup(Reader, [pc EXCEPT ![p] = "sleep"])
          /\ UNCHANGED <<lock, left>>
  /\ UNCHANGED <<buffer, ends, killed>>

\* All n bytes are written.
WriteDone(p) ==
  /\ p \in Writer /\ pc[p] = "loop" /\ left[p] = 0
  /\ pc' = wakeup(Reader, [pc EXCEPT ![p] = "user"])
  /\ lock' = Nobody
  /\ UNCHANGED <<buffer, ends, left, killed>>

\* The test of piperead's first loop: wait for data or for the last writer.
ReadTest(p) ==
  /\ p \in Reader /\ pc[p] = "loop"
  /\ IF Empty /\ writeopen = 1
     THEN IF p \in killed
          THEN /\ lock' = Nobody
               /\ left' = [left EXCEPT ![p] = 0]
               /\ Goto(p, "user")
          ELSE Goto(p, "sleep") /\ UNCHANGED <<lock, left>>
     ELSE Goto(p, "copy") /\ UNCHANGED <<lock, left>>
  /\ UNCHANGED <<buffer, ends, killed>>

\* One byte of piperead's second loop.
ReadByte(p) ==
  /\ pc[p] = "copy" /\ left[p] > 0 /\ ~Empty
  /\ nread' = (nread + 1) % Wrap
  /\ left' = [left EXCEPT ![p] = @ - 1]
  /\ UNCHANGED <<lock, data, nwrite, ends, pc, killed>>

ReadDone(p) ==
  /\ pc[p] = "copy" /\ (left[p] = 0 \/ Empty)
  /\ pc' = wakeup(Writer, [pc EXCEPT ![p] = "user"])
  /\ left' = [left EXCEPT ![p] = 0]
  /\ lock' = Nobody
  /\ UNCHANGED <<buffer, ends, killed>>

-----------------------------------------------------------------------------
(* close() and exit() *)

\* fileclose() of one of several references to an end.
CloseShared(p, side) ==
  /\ pc[p] = "user" /\ p \in holders
  /\ p \in side /\ holders \cap side # {p}
  /\ holders' = holders \ {p}
  /\ Goto(p, "closed")
  /\ UNCHANGED <<lock, buffer, readopen, writeopen, freed, left, killed>>

\* fileclose() of the last reference calls pipeclose().
pipeclose(p) ==
  /\ pc[p] = "user" /\ lock = Nobody
  /\ \/ /\ holders \cap Writer = {p}
        /\ writeopen' = 0 /\ UNCHANGED readopen
        /\ pc' = wakeup(Reader, [pc EXCEPT ![p] = "closed"])
     \/ /\ holders \cap Reader = {p}
        /\ readopen' = 0 /\ UNCHANGED writeopen
        /\ pc' = wakeup(Writer, [pc EXCEPT ![p] = "closed"])
  /\ holders' = holders \ {p}
  /\ freed' = IF readopen' = 0 /\ writeopen' = 0 THEN 1 ELSE freed
  /\ UNCHANGED <<lock, buffer, left, killed>>

-----------------------------------------------------------------------------

Close(p) == pipeclose(p) \/ CloseShared(p, Writer) \/ CloseShared(p, Reader)

PipeStep(p) ==
  \/ Enter(p) \/ Sleep(p)
  \/ WriteByte(p) \/ WriteFull(p) \/ WriteDone(p)
  \/ ReadTest(p) \/ ReadByte(p) \/ ReadDone(p)

Next == \E p \in Process : PipeStep(p) \/ Call(p) \/ Close(p) \/ Kill(p)

Spec == Init /\ [][Next]_vars

-----------------------------------------------------------------------------
(* Properties *)

\* The number of bytes in the ring, computed the way the counters wrap.
Count == (nwrite - nread) % Wrap

Contents == [i \in 1 .. Count |-> data[(nread + i - 1) % PIPESIZE]]

Queue == INSTANCE Fifo WITH
  Capacity <- PIPESIZE,
  queue <- Contents,
  ends <- (IF readopen = 1 THEN {"read"} ELSE {})
            \cup (IF writeopen = 1 THEN {"write"} ELSE {})

\* The ring buffer is a bounded FIFO queue, also when the counters wrap and
\* when several writers and readers take turns (pipewrite, piperead).
IsFifo == Queue!Spec

-----------------------------------------------------------------------------
(* Liveness *)

\* The kernel runs every process inside piperead() or pipewrite(), and a
\* process that waits for p->lock gets it in the end.  That a process in user
\* mode calls again or closes its end is what the peers may rely on: one that
\* keeps its end open and idle may well block the others for ever.
Fairness ==
  \A p \in Process : SF_vars(PipeStep(p)) /\ SF_vars(Call(p) \/ Close(p))

FairSpec == Spec /\ Fairness

\* Readers and writers never wait for each other: a read ends, and among writers,
\* whom nothing keeps from overtaking one another, somebody's write ends; unless a
\* writer is killed: it returns without a wakeup for the bytes it has written, and
\* may leave the reader asleep (pipewrite, piperead, pipeclose).
CallsEnd ==
  [](killed \cap Writer = {}) =>
    /\ \A p \in Reader : pc[p] = "enter" ~> pc[p] = "user"
    /\ (\E p \in Writer : pc[p] = "enter") ~> (\E p \in Writer : pc[p] = "user")

=============================================================================
