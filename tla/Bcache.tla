------------------------------- MODULE Bcache -------------------------------
(***************************************************************************)
(* The buffer cache (bio.c), the sleep locks of its buffers (sleeplock.c)  *)
(* and the IDE driver with its queue and interrupt handler (ide.c).        *)
(*                                                                         *)
(* A step is what a process does under one hold of bcache.lock, of a sleep *)
(* lock's spinlock or of idelock.  sleep() gives up that lock and suspends *)
(* the process in one step (module Proc shows that no wakeup comes between)*)
(* and a woken process tests its condition again.                          *)
(***************************************************************************)
EXTENDS Naturals, Sequences, FiniteSets, SequencesExt

CONSTANTS
  Proc, Buf, Block, Value,
  Zero,        \* the contents of a buffer when the kernel starts
  None,
  Before,      \* pairs of blocks: the second may be read with the first held
  MaxHold,     \* how many buffers a process holds at once
  MaxPinned,   \* how many buffers log_write() keeps dirty at once
  DiskFails    \* whether the drive may report an error on a read

ASSUME BcacheAssumption ==
  /\ Zero \in Value /\ None \notin Proc \cup Buf \cup Block \cup Value
  /\ Before \subseteq Block \X Block
  /\ MaxHold \in Nat /\ MaxPinned \in Nat /\ DiskFails \in BOOLEAN

VARIABLES
  blk,       \* the block a buffer is for (b->dev, b->blockno)
  valid,     \* the buffers with B_VALID
  dirty,     \* the buffers with B_DIRTY
  refcnt,    \* b->refcnt
  mru,       \* bcache.head's list, most recently used first
  owner,     \* the process that has the buffer's sleep lock
  data,      \* b->data
  idequeue,  \* the driver's queue
  cmd,       \* the command the drive works on
  disk,      \* what is on the drive
  pc,        \* where a process is
  want,      \* the argument of its bread()
  buf,       \* the buffer that bread(), bwrite() or brelse() works on
  held       \* the buffers it has got from bread()

cache == <<blk, refcnt, mru>>
drive == <<idequeue, cmd, disk>>
vars == <<blk, valid, dirty, refcnt, mru, owner, data, idequeue, cmd, disk,
          pc, want, buf, held>>

\* "client" is any code outside of the cache; a process sleeps at "locksleep"
\* in acquiresleep() and at "io" in iderw().
Labels == {"client", "bget", "lock", "locksleep", "check", "io", "iotest",
           "rel", "panic"}

Command == [blk : Block, write : BOOLEAN, val : Value]

TypeOK ==
  /\ blk \in [Buf -> Block \cup {None}]
  /\ valid \subseteq Buf /\ dirty \subseteq Buf
  /\ refcnt \in [Buf -> 0..Cardinality(Proc) * MaxHold]
  /\ Len(mru) = Cardinality(Buf) /\ ToSet(mru) = Buf
  /\ owner \in [Buf -> Proc \cup {None}]
  /\ data \in [Buf -> Value] /\ disk \in [Block -> Value]
  /\ IsInjective(idequeue) /\ ToSet(idequeue) \subseteq Buf
  /\ cmd \in Command \cup {None}
  /\ pc \in [Proc -> Labels]
  /\ want \in [Proc -> Block \cup {None}]
  /\ buf \in [Proc -> Buf \cup {None}]
  /\ held \in [Proc -> SUBSET Buf]

\* binit(): the list is in the order of the array, backwards.  No client ever
\* asks for the block (device 0, number 0) that the zeroed buffers are for.
Init ==
  /\ blk = [b \in Buf |-> None]
  /\ valid = {} /\ dirty = {}
  /\ refcnt = [b \in Buf |-> 0]
  /\ mru = SetToSeq(Buf)
  /\ owner = [b \in Buf |-> None]
  /\ data = [b \in Buf |-> Zero]
  /\ idequeue = <<>> /\ cmd = None
  /\ disk \in [Block -> Value]
  /\ pc = [p \in Proc |-> "client"]
  /\ want = [p \in Proc |-> None]
  /\ buf = [p \in Proc |-> None]
  /\ held = [p \in Proc |-> {}]

-----------------------------------------------------------------------------
(* Helpers *)

Goto(p, l) == pc' = [pc EXCEPT ![p] = l]

\* The control of every process after p goes to l and wakes those who sleep at
\* `from' for buffer b; they test again at `to'.
GotoAndWake(p, l, from, to, b) ==
  pc' = [q \in Proc |-> IF q = p THEN l
                        ELSE IF pc[q] = from /\ buf[q] = b THEN to ELSE pc[q]]

\* Faulty variant of Unused: pinned buffers are recycled too.
UnusedClean(b) == refcnt[b] = 0

\* The buffer may be recycled: B_DIRTY marks the ones that the log has not yet
\* written to their places.
Unused(b) == refcnt[b] = 0 /\ b \notin dirty

Cached(k) == {b \in Buf : blk[b] = k}

\* The candidates in the order of the list; bget() scans it from its tail.
Recyclable == SelectSeq(mru, Unused)

MoveToFront(s, b) == <<b>> \o SelectSeq(s, LAMBDA x : x # b)

\* The command idestart() gives to the drive for buffer b, which has contents v.
idestart(b, write, v) == [blk |-> blk[b], write |-> write, val |-> v]

\* iderw(): b goes to the end of the queue, and to the drive if it is alone.
Enqueue(b, write, v) ==
  /\ idequeue' = Append(idequeue, b)
  /\ cmd' = IF idequeue = <<>> THEN idestart(b, write, v) ELSE cmd
  /\ UNCHANGED disk

-----------------------------------------------------------------------------
(* bread() *)

\* A client that holds other buffers asks for blocks in a fixed order: those of
\* the log before all others, the free bitmap after all others.
bread(p, k) ==
  /\ pc[p] = "client" /\ Cardinality(held[p]) < MaxHold
  /\ \A b \in held[p] : <<blk[b], k>> \in Before
  /\ want' = [want EXCEPT ![p] = k]
  /\ Goto(p, "bget")
  /\ UNCHANGED <<cache, drive, valid, dirty, owner, data, buf, held>>

\* The buffer b is found for the block.
Hit(p, b) ==
  /\ buf' = [buf EXCEPT ![p] = b]
  /\ refcnt' = [refcnt EXCEPT ![b] = @ + 1]
  /\ Goto(p, "lock")
  /\ UNCHANGED <<blk, valid>>

\* The buffer b is recycled: flags = 0, refcnt = 1.
Recycle(p, b) ==
  /\ buf' = [buf EXCEPT ![p] = b]
  /\ blk' = [blk EXCEPT ![b] = want[p]]
  /\ valid' = valid \ {b}
  /\ refcnt' = [refcnt EXCEPT ![b] = 1]
  /\ Goto(p, "lock")

\* bget() up to acquiresleep().
bget(p) ==
  /\ pc[p] = "bget"
  /\ IF Cached(want[p]) # {}
     THEN \E b \in Cached(want[p]) : Hit(p, b)
     ELSE IF Recyclable # <<>>
     THEN Recycle(p, Last(Recyclable))
     ELSE Goto(p, "panic") /\ UNCHANGED <<buf, blk, valid, refcnt>>
  /\ want' = [want EXCEPT ![p] = None]
  /\ UNCHANGED <<drive, mru, dirty, owner, data, held>>

acquiresleep(p) ==
  /\ pc[p] = "lock"
  /\ IF owner[buf[p]] = None
     THEN owner' = [owner EXCEPT ![buf[p]] = p] /\ Goto(p, "check")
     ELSE Goto(p, "locksleep") /\ UNCHANGED owner
  /\ UNCHANGED <<cache, drive, valid, dirty, data, want, buf, held>>

\* The buffer is handed to the client.
Return(p) ==
  /\ held' = [held EXCEPT ![p] = @ \cup {buf[p]}]
  /\ buf' = [buf EXCEPT ![p] = None]
  /\ Goto(p, "client")

\* bread() after bget(): iderw() unless the buffer is valid.
CheckValid(p) ==
  /\ pc[p] = "check"
  /\ IF buf[p] \in valid
     THEN Return(p) /\ UNCHANGED drive
     ELSE /\ Enqueue(buf[p], buf[p] \in dirty, data[buf[p]])
          /\ Goto(p, "io")
          /\ UNCHANGED <<buf, held>>
  /\ UNCHANGED <<cache, valid, dirty, owner, data, want>>

\* iderw() after a wakeup.
WaitIO(p) ==
  /\ pc[p] = "iotest"
  /\ IF buf[p] \in valid \ dirty
     THEN Return(p)
     ELSE Goto(p, "io") /\ UNCHANGED <<buf, held>>
  /\ UNCHANGED <<cache, drive, valid, dirty, owner, data, want>>

-----------------------------------------------------------------------------
(* What a client does with a buffer it holds *)

\* It changes the block and has it written to the disk.
bwrite(p, b, v) ==
  /\ pc[p] = "client" /\ b \in held[p]
  /\ IF owner[b] # p
     THEN Goto(p, "panic") /\ UNCHANGED <<data, dirty, buf, drive>>
     ELSE /\ data' = [data EXCEPT ![b] = v]
          /\ dirty' = dirty \cup {b}
          /\ buf' = [buf EXCEPT ![p] = b]
          /\ Enqueue(b, TRUE, v)
          /\ Goto(p, "io")
  /\ UNCHANGED <<cache, valid, owner, want, held>>

\* It changes the block in a transaction: the log pins the buffer.
log_write(p, b, v) ==
  /\ pc[p] = "client" /\ b \in held[p]
  /\ Cardinality(dirty \cup {b}) <= MaxPinned
  /\ data' = [data EXCEPT ![b] = v]
  /\ dirty' = dirty \cup {b}
  /\ UNCHANGED <<cache, drive, valid, owner, pc, want, buf, held>>

\* Faulty variant of brelse: releasesleep() wakes nobody.
BrelseNoWakeup(p, b) ==
  /\ pc[p] = "client" /\ b \in held[p]
  /\ owner' = [owner EXCEPT ![b] = None]
  /\ buf' = [buf EXCEPT ![p] = b]
  /\ held' = [held EXCEPT ![p] = @ \ {b}]
  /\ Goto(p, "rel")
  /\ UNCHANGED <<cache, drive, valid, dirty, data, want>>

\* brelse() up to bcache.lock: releasesleep().
brelse(p, b) ==
  /\ pc[p] = "client" /\ b \in held[p]
  /\ owner' = [owner EXCEPT ![b] = None]
  /\ buf' = [buf EXCEPT ![p] = b]
  /\ held' = [held EXCEPT ![p] = @ \ {b}]
  /\ GotoAndWake(p, IF owner[b] = p THEN "rel" ELSE "panic", "locksleep", "lock", b)
  /\ UNCHANGED <<cache, drive, valid, dirty, data, want>>

\* The rest of brelse(): an unused buffer goes to the head of the list.
Unref(p) ==
  /\ pc[p] = "rel"
  /\ refcnt' = [refcnt EXCEPT ![buf[p]] = @ - 1]
  /\ mru' = IF refcnt'[buf[p]] = 0 THEN MoveToFront(mru, buf[p]) ELSE mru
  /\ buf' = [buf EXCEPT ![p] = None]
  /\ Goto(p, "client")
  /\ UNCHANGED <<drive, blk, valid, dirty, owner, data, want, held>>

-----------------------------------------------------------------------------
(* ideintr() *)

\* The drive has finished its command, a read possibly with an error, which the
\* driver takes note of only by leaving the buffer's data alone.
Finish(b, err) ==
  /\ disk' = IF cmd.write THEN [disk EXCEPT ![cmd.blk] = cmd.val] ELSE disk
  /\ data' = IF b \in dirty \/ err THEN data ELSE [data EXCEPT ![b] = disk[cmd.blk]]
  /\ valid' = valid \cup {b}
  /\ dirty' = dirty \ {b}

\* The head of the queue is done, its process is woken, the next one started.
ideintr(err) ==
  /\ idequeue # <<>> /\ cmd # None
  /\ (err => DiskFails /\ ~cmd.write)
  /\ Finish(Head(idequeue), err)
  /\ idequeue' = Tail(idequeue)
  /\ cmd' = IF Len(idequeue) > 1
            THEN LET n == idequeue[2] IN idestart(n, n \in dirty, data[n])
            ELSE None
  /\ GotoAndWake(None, "client", "io", "iotest", Head(idequeue))
  /\ UNCHANGED <<cache, owner, want, buf, held>>

-----------------------------------------------------------------------------

Client(p) ==
  \/ \E k \in Block : bread(p, k)
  \/ \E b \in Buf, v \in Value : bwrite(p, b, v) \/ log_write(p, b, v)

Kernel(p) == bget(p) \/ CheckValid(p) \/ WaitIO(p) \/ Unref(p)

Next ==
  \/ \E p \in Proc : Client(p) \/ Kernel(p) \/ acquiresleep(p)
  \/ \E p \in Proc, b \in Buf : brelse(p, b)
  \/ \E err \in BOOLEAN : ideintr(err)

Spec == Init /\ [][Next]_vars

-----------------------------------------------------------------------------
(* Properties *)

\* The contents of a block: its buffer's if that is valid, else the disk's.
Store == INSTANCE BlockStore WITH
  content <- [k \in Block |-> IF Cached(k) \cap valid # {}
                              THEN data[CHOOSE b \in Cached(k) \cap valid : TRUE]
                              ELSE disk[k]],
  view <- [p \in Proc |-> [k \in Block |->
             IF Cached(k) \cap held[p] # {}
             THEN data[CHOOSE b \in Cached(k) \cap held[p] : TRUE]
             ELSE None]]

\* bread(), bwrite(), log_write() and brelse() implement blocks with exclusive
\* access: "Return a locked buf with the contents of the indicated block", no
\* write is lost by recycling and no two processes hold a block.
IsStore == Store!Spec

-----------------------------------------------------------------------------
(* Liveness *)

\* Processes run, the drive finishes its commands, and clients release each
\* buffer they hold, whatever else they do first.  A sleep lock is not fair: who is woken again and again may find
\* it taken each time, so getting it needs strong fairness.
Fairness ==
  /\ WF_vars(\E err \in BOOLEAN : ideintr(err))
  /\ \A p \in Proc :
       /\ WF_vars(Kernel(p))
       /\ SF_vars(acquiresleep(p) /\ owner[buf[p]] = None)
       /\ WF_vars(acquiresleep(p))
       /\ \A b \in Buf : SF_vars(brelse(p, b))

FairSpec == Spec /\ Fairness

\* Every bread() returns: neither the driver's queue nor two processes that hold
\* one buffer and ask for a second one wait for ever.
BreadReturns == \A p \in Proc : pc[p] = "bget" ~> pc[p] = "client"

=============================================================================
