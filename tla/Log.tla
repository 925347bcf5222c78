--------------------------------- MODULE Log ---------------------------------
(***************************************************************************)
(* The redo log of xv6 (log.c), with the part of the buffer cache (bio.c)  *)
(* it depends on: a clean buffer may be recycled at any time, a dirty one  *)
(* is pinned until its block has been written home.                        *)
(*                                                                         *)
(* Processes make file system calls: begin_op(), a few block updates of    *)
(* the form bread / modify / log_write / brelse, end_op().  What runs      *)
(* under log.lock is one step, and so is one disk write; the test at the   *)
(* head of log_write() is made without the lock and is a step of its own.  *)
(* A crash may happen between any two steps and is followed by recovery.   *)
(***************************************************************************)
EXTENDS Integers, Sequences, FiniteSets

CONSTANTS Process,     \* processes that make file system calls
          Block,       \* numbers of the blocks outside the log
          Data,        \* contents of a block
          Initial,     \* the contents of every block at first
          Absent,      \* "not in the buffer cache"
          MAXOPBLOCKS, \* blocks a file system call changes, at most
          OPS          \* calls the log has room for (3 in param.h)

\* param.h, and the number of log blocks, header included, that mkfs.c puts
\* into the superblock.
LOGSIZE == MAXOPBLOCKS * OPS
nlog    == LOGSIZE

ASSUME LogAssumption ==
  /\ IsFiniteSet(Process) /\ IsFiniteSet(Block)
  /\ Initial \in Data
  /\ Absent \notin Data \cup Block
  /\ MAXOPBLOCKS \in Nat \ {0} /\ OPS \in Nat \ {0}

VARIABLES
  \* memory
  pc,          \* what each process does next
  tail,        \* loop variable of write_log() and install_trans()
  target,      \* the buffer a process has locked to change it
  wrote,       \* the blocks a process has changed in this system call
  lh,          \* log.lh: the block numbers of the transaction
  outstanding, \* log.outstanding
  committing,  \* log.committing
  buf,         \* the buffer cache
  dirty,       \* the blocks with B_DIRTY set
  \* disk
  header,      \* block numbers of the log's header block
  logblock,    \* the log's data blocks
  disk         \* all other blocks

memory == <<pc, tail, target, wrote, lh, outstanding, committing, buf, dirty>>
stable == <<header, logblock, disk>>
vars   == <<memory, stable>>

Labels == {"down", "idle", "begin_op", "sleep", "op", "check", "append",
           "write_log", "write_head", "install", "erase", "finish",
           "read_head", "reinstall", "reerase", "panic"}

\* The capacity of the log: one of its blocks is the header.
LogSlot == 1 .. nlog - 1

TypeOK ==
  /\ pc \in [Process -> Labels]
  /\ tail \in [Process -> 1 .. LOGSIZE + 1]
  /\ target \in [Process -> Block \cup {Absent}]
  /\ wrote \in [Process -> SUBSET Block]
  /\ lh \in Seq(Block) /\ header \in Seq(Block)
  /\ outstanding \in Nat
  /\ committing \in {0, 1}
  /\ buf \in [Block -> Data \cup {Absent}]
  /\ dirty \subseteq Block
  /\ logblock \in [LogSlot -> Data]
  /\ disk \in [Block -> Data]

\* Control after power-on: the process p is about to run initlog().
Boot(p) == [q \in Process |-> IF q = p THEN "read_head" ELSE "down"]

\* mkfs leaves an empty log.
Init ==
  /\ \E p \in Process : pc = Boot(p)
  /\ tail        = [q \in Process |-> 1]
  /\ target      = [q \in Process |-> Absent]
  /\ wrote       = [q \in Process |-> {}]
  /\ lh          = << >>
  /\ outstanding = 0
  /\ committing  = 0
  /\ buf         = [b \in Block |-> Absent]
  /\ dirty       = {}
  /\ header      = << >>
  /\ logblock    = [i \in LogSlot |-> Initial]
  /\ disk        = [b \in Block |-> Initial]

------------------------------------------------------------------------------
(* Helpers *)

Goto(p, l) == pc' = [pc EXCEPT ![p] = l]

\* Faulty variant of wakeup.
NoWakeup(l) == l

\* wakeup(&log), applied to the control state l of the processes.
wakeup(l) == [q \in Process |-> IF l[q] = "sleep" THEN "begin_op" ELSE l[q]]

\* The buffer of b is locked by a process that is changing it.
Locked(b) ==
  \E p \in Process : pc[p] \in {"check", "append", "panic"} /\ target[p] = b

\* The contents that bread(b) returns.
Cached(b) == IF buf[b] = Absent THEN disk[b] ELSE buf[b]

\* Faulty variant of MustWait: the reservation leaves out the call that wants to
\* start.
MustWaitLess == \/ committing = 1
                \/ Len(lh) + outstanding * MAXOPBLOCKS > LOGSIZE

\* begin_op's two reasons to wait.
MustWait == \/ committing = 1
            \/ Len(lh) + (outstanding + 1) * MAXOPBLOCKS > LOGSIZE

------------------------------------------------------------------------------
(* The buffer cache *)

\* A process reads b, without a transaction or in one.
Read(b) ==
  /\ \E p \in Process : pc[p] \in {"idle", "op"}
  /\ buf[b] = Absent
  /\ buf' = [buf EXCEPT ![b] = disk[b]]
  /\ UNCHANGED <<pc, tail, target, wrote, lh, outstanding, committing, dirty,
                 stable>>

\* bget() recycles the buffer of b for another block.
Evict(b) ==
  /\ buf[b] # Absent /\ b \notin dirty /\ ~Locked(b)
  /\ buf' = [buf EXCEPT ![b] = Absent]
  /\ UNCHANGED <<pc, tail, target, wrote, lh, outstanding, committing, dirty,
                 stable>>

------------------------------------------------------------------------------
(* File system calls *)

Start(p) ==
  /\ pc[p] = "idle"
  /\ Goto(p, "begin_op")
  /\ UNCHANGED <<tail, target, wrote, lh, outstanding, committing, buf, dirty,
                 stable>>

\* One turn of begin_op's loop.
begin_op(p) ==
  /\ pc[p] = "begin_op"
  /\ \/ /\ MustWait
        /\ Goto(p, "sleep")
        /\ UNCHANGED outstanding
     \/ /\ ~MustWait
        /\ outstanding' = outstanding + 1
        /\ Goto(p, "op")
  /\ UNCHANGED <<tail, target, wrote, lh, committing, buf, dirty, stable>>

\* kill() makes a sleeping process go round begin_op's loop once more.
KillWake(p) ==
  /\ pc[p] = "sleep"
  /\ Goto(p, "begin_op")
  /\ UNCHANGED <<tail, target, wrote, lh, outstanding, committing, buf, dirty,
                 stable>>

\* bread(b) and the change of its data; the buffer stays locked.
Modify(p, b, d) ==
  /\ pc[p] = "op"
  /\ b \in wrote[p] \/ Cardinality(wrote[p]) < MAXOPBLOCKS
  /\ ~Locked(b)
  /\ buf' = [buf EXCEPT ![b] = d]
  /\ target' = [target EXCEPT ![p] = b]
  /\ wrote' = [wrote EXCEPT ![p] = @ \cup {b}]
  /\ Goto(p, "check")
  /\ UNCHANGED <<tail, lh, outstanding, committing, dirty, stable>>

\* log_write before it acquires log.lock: the tests that may panic.
log_write_check(p) ==
  /\ pc[p] = "check"
  /\ Goto(p, IF Len(lh) >= LOGSIZE \/ Len(lh) >= nlog - 1 \/ outstanding < 1
             THEN "panic" ELSE "append")
  /\ UNCHANGED <<tail, target, wrote, lh, outstanding, committing, buf, dirty,
                 stable>>

\* log_write under log.lock, with log absorption, and the caller's brelse().
log_write(p) ==
  /\ pc[p] = "append"
  /\ lh' = IF \E i \in 1 .. Len(lh) : lh[i] = target[p] THEN lh
           ELSE Append(lh, target[p])
  /\ dirty' = dirty \cup {target[p]}
  /\ target' = [target EXCEPT ![p] = Absent]
  /\ Goto(p, "op")
  /\ UNCHANGED <<tail, wrote, outstanding, committing, buf, stable>>

\* end_op up to its first release; "write_log" is the start of commit().
\* An empty transaction skips the disk writes of commit().
end_op(p) ==
  /\ pc[p] = "op"
  /\ outstanding' = outstanding - 1
  /\ wrote' = [wrote EXCEPT ![p] = {}]
  /\ committing' = IF outstanding' = 0 THEN 1 ELSE committing
  /\ pc' = IF committing = 1 THEN [pc EXCEPT ![p] = "panic"]
           ELSE IF outstanding' # 0 THEN wakeup([pc EXCEPT ![p] = "idle"])
           ELSE IF lh # << >> THEN [pc EXCEPT ![p] = "write_log"]
           ELSE [pc EXCEPT ![p] = "finish"]
  /\ UNCHANGED <<tail, target, lh, buf, dirty, stable>>

------------------------------------------------------------------------------
(* commit() *)

\* The end of one turn of a loop over the blocks of the transaction.
NextTurn(p, l) ==
  IF tail[p] = Len(lh)
  THEN tail' = [tail EXCEPT ![p] = 1] /\ Goto(p, l)
  ELSE tail' = [tail EXCEPT ![p] = @ + 1] /\ UNCHANGED pc

\* Faulty variant of write_log: commit() forgets the first write_head().
write_log_only(p) ==
  /\ pc[p] = "write_log"
  /\ tail[p] \in LogSlot
  /\ logblock' = [logblock EXCEPT ![tail[p]] = Cached(lh[tail[p]])]
  /\ NextTurn(p, "install")
  /\ UNCHANGED <<target, wrote, lh, outstanding, committing, buf, dirty, header,
                 disk>>

\* One turn of write_log's loop: a cached block is copied to the log.  The
\* model ends where the copy would leave the log (see LogFits).
write_log(p) ==
  /\ pc[p] = "write_log"
  /\ tail[p] \in LogSlot
  /\ LET b == lh[tail[p]] IN
       /\ ~Locked(b)
       /\ buf' = [buf EXCEPT ![b] = Cached(b)]
       /\ logblock' = [logblock EXCEPT ![tail[p]] = Cached(b)]
  /\ NextTurn(p, "write_head")
  /\ UNCHANGED <<target, wrote, lh, outstanding, committing, dirty, header,
                 disk>>

\* write_head: the transaction commits.
write_head(p) ==
  /\ pc[p] = "write_head"
  /\ header' = lh
  /\ Goto(p, "install")
  /\ UNCHANGED <<tail, target, wrote, lh, outstanding, committing, buf, dirty,
                 logblock, disk>>

\* One turn of install_trans's loop: a log block is copied home; the end of
\* the disk write clears B_DIRTY.
install_trans(p) ==
  /\ pc[p] \in {"install", "reinstall"} /\ lh # << >>
  /\ LET b == lh[tail[p]] IN
       /\ ~Locked(b)
       /\ buf' = [buf EXCEPT ![b] = logblock[tail[p]]]
       /\ disk' = [disk EXCEPT ![b] = logblock[tail[p]]]
       /\ dirty' = dirty \ {b}
  /\ NextTurn(p, IF pc[p] = "install" THEN "erase" ELSE "reerase")
  /\ UNCHANGED <<target, wrote, lh, outstanding, committing, header, logblock>>

\* Faulty variant of Erase: no second write_head().
EraseMemory(p) ==
  /\ pc[p] = "erase"
  /\ lh' = << >>
  /\ Goto(p, "finish")
  /\ UNCHANGED <<tail, target, wrote, outstanding, committing, buf, dirty,
                 stable>>

\* commit's last two statements: log.lh.n = 0; write_head().
Erase(p) ==
  /\ pc[p] = "erase"
  /\ lh' = << >> /\ header' = << >>
  /\ Goto(p, "finish")
  /\ UNCHANGED <<tail, target, wrote, outstanding, committing, buf, dirty,
                 logblock, disk>>

\* end_op after commit(): let the waiting system calls in.
end_commit(p) ==
  /\ pc[p] = "finish"
  /\ committing' = 0
  /\ pc' = wakeup([pc EXCEPT ![p] = "idle"])
  /\ UNCHANGED <<tail, target, wrote, lh, outstanding, buf, dirty, stable>>

------------------------------------------------------------------------------
(* Crash and recovery *)

\* The machine loses its memory and starts again.
Crash ==
  /\ \E p \in Process : pc' = Boot(p)
  /\ tail'        = [q \in Process |-> 1]
  /\ target'      = [q \in Process |-> Absent]
  /\ wrote'       = [q \in Process |-> {}]
  /\ lh'          = << >>
  /\ outstanding' = 0
  /\ committing'  = 0
  /\ buf'         = [b \in Block |-> Absent]
  /\ dirty'       = {}
  /\ UNCHANGED stable

\* recover_from_log: read_head(); an empty log has no blocks to install.
read_head(p) ==
  /\ pc[p] = "read_head"
  /\ lh' = header
  /\ Goto(p, IF header = << >> THEN "reerase" ELSE "reinstall")
  /\ UNCHANGED <<tail, target, wrote, outstanding, committing, buf, dirty,
                 stable>>

\* Clear the log; from now on there are processes.
Recovered(p) ==
  /\ pc[p] = "reerase"
  /\ lh' = << >> /\ header' = << >>
  /\ pc' = [q \in Process |-> "idle"]
  /\ UNCHANGED <<tail, target, wrote, outstanding, committing, buf, dirty,
                 logblock, disk>>

------------------------------------------------------------------------------

\* Steps of a process inside a file system call, inside commit() or recovery.
KernelStep(p) ==
  \/ begin_op(p) \/ log_write_check(p) \/ log_write(p)
  \/ write_log(p) \/ write_head(p) \/ install_trans(p) \/ Erase(p)
  \/ end_commit(p) \/ read_head(p) \/ Recovered(p)

CallStep(p) ==
  \/ Start(p) \/ end_op(p) \/ KillWake(p)
  \/ \E b \in Block, d \in Data : Modify(p, b, d)

Next ==
  \/ \E p \in Process : KernelStep(p) \/ CallStep(p)
  \/ \E b \in Block : Read(b) \/ Evict(b)
  \/ Crash

Spec == Init /\ [][Next]_vars

------------------------------------------------------------------------------
(* Properties *)

\* The processes between begin_op() and end_op().
Active == {p \in Process : \/ pc[p] \in {"op", "check", "append"}
                           \/ pc[p] = "panic" /\ target[p] # Absent}

\* What a crash right now would leave of b after recovery.
AfterRecovery(b) ==
  IF \E i \in 1 .. Len(header) : header[i] = b
  THEN logblock[CHOOSE i \in 1 .. Len(header) : header[i] = b]
  ELSE disk[b]

\* What a process that reads b gets.
Visible(b) == IF buf[b] = Absent THEN AfterRecovery(b) ELSE buf[b]

AbstractDisk ==
  INSTANCE AtomicDisk WITH durable <- [b \in Block |-> AfterRecovery(b)],
                           current <- [b \in Block |-> Visible(b)],
                           active  <- Active

\* The log implements the atomic disk: whatever the interleaving of system
\* calls, commit, buffer recycling, crashes and crashes during recovery, the
\* disk recovers to the contents at the last commit (commit, recover_from_log).
AtomicUpdates == AbstractDisk!Spec

\* The updates that the active calls may still make: <<p, i>> stands for the i-th
\* block that p changes.
Promised ==
  {t \in Active \X (1 .. MAXOPBLOCKS) : t[2] > Cardinality(wrote[t[1]])}

\* The reservations of begin_op() cover what the active calls may still log, so
\* the header array block[LOGSIZE] never overflows (begin_op, log_write).
SpaceReserved == Len(lh) + Cardinality(Promised) <= LOGSIZE

------------------------------------------------------------------------------
(* Liveness *)

\* The kernel runs every process that can run; a system call ends after
\* finitely many updates.
Fairness ==
  \A p \in Process : WF_vars(KernelStep(p)) /\ SF_vars(end_op(p))

FairSpec == Spec /\ Fairness

\* A call that waits in begin_op() gets another chance to start.
SleeperWakes == \A p \in Process : pc[p] = "sleep" ~> pc[p] # "sleep"

\* Unless crashes go on for ever, a transaction that a commit or a crash has
\* left in the on-disk log is installed and erased, and a commit ends.
LogDrains ==
  <>[][~Crash]_vars => /\ header # << >> ~> header = << >>
                       /\ committing = 1 ~> committing = 0

==============================================================================
