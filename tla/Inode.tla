------------------------------- MODULE Inode -------------------------------
(***************************************************************************)
(* The inode cache (fs.c) and the calls that create, open, link, unlink,   *)
(* read and close files (sysfile.c, file.c), in one directory, the root.   *)
(*                                                                         *)
(* A step is one hold of icache.lock, one wait for an inode's sleep lock,  *)
(* or what a process does to an inode and its dinode between two of those  *)
(* while it has the inode locked.  An inode's sleep lock is a single owner *)
(* (module Bcache has sleep locks in detail) and a call is in a transaction*)
(* (module Log), so that crashes do not come between its steps.            *)
(* nameiparent() of a one-element path locks and unlocks the directory     *)
(* that its caller locks next; the two waits are one here.                 *)
(***************************************************************************)
EXTENDS Naturals, FiniteSets

CONSTANTS
  Proc, Name,
  NInode,    \* sb.ninodes - 1: inode numbers are 1..NInode, 1 is ROOTINO
  Slash,     \* the path "/"
  None

ASSUME InodeAssumption ==
  /\ NInode \in Nat \ {0} /\ Slash \notin Name
  /\ None \notin Proc \cup (1..NInode) /\ IsFiniteSet(Proc) /\ IsFiniteSet(Name)

VARIABLES
  alloc,   \* on disk: the inodes with dip->type # 0
  dlink,   \* on disk: dip->nlink
  entry,   \* on disk: the root directory's entries
  ref,     \* ip->ref; an inode with ref 0 has no cache entry
  valid,   \* the inodes with ip->valid
  nlink,   \* ip->nlink in the cache
  lock,    \* the process that has ip->lock
  fd,      \* the inode of a process's open file
  pc,      \* where a process is
  call,    \* its system call with the path that remains to be looked up
  ip, dp,  \* the references to inodes in the call's variables
  put,     \* the reference that iput() drops
  after    \* where iput() returns to

disk == <<alloc, dlink, entry>>
icache == <<ref, valid, nlink, lock>>
vars == <<alloc, dlink, entry, ref, valid, nlink, lock, fd, pc, call, ip, dp, put, after>>

Inum == 1..NInode
Root == 1
Path == Name \cup {Slash}

\* The places where a process calls ilock(), and where it is with the lock.
Locking == [lookup |-> "dirlookup", create |-> "created", mknew |-> "init",
            open |-> "fdalloc", link |-> "count", linkdir |-> "dirlink",
            bad |-> "undo", unlink |-> "find", victim |-> "erase",
            read |-> "readi"]

Iputs == {"iput", "itest", "ifree", "inval", "iref"}

\* "panic" is where the code finds an inconsistency, "full" where ialloc() has
\* no inode left.
Labels == DOMAIN Locking \cup {Locking[l] : l \in DOMAIN Locking} \cup Iputs
            \cup {"idle", "linkput", "baddir", "drop", "panic", "full"}

TypeOK ==
  /\ alloc \subseteq Inum /\ Root \in alloc
  /\ dlink \in [Inum -> Nat] /\ nlink \in [Inum -> Nat]
  /\ entry \in [Name -> Inum \cup {None}]
  /\ ref \in [Inum -> Nat] /\ valid \subseteq Inum
  /\ lock \in [Inum -> Proc \cup {None}]
  /\ pc \in [Proc -> Labels] /\ after \in [Proc -> Labels]
  /\ call \in [Proc -> [op : {"none", "open", "creat", "link", "unlink"},
                        path : Path \cup {None}]]
  /\ fd \in [Proc -> Inum \cup {None}] /\ ip \in [Proc -> Inum \cup {None}]
  /\ dp \in [Proc -> {Root, None}] /\ put \in [Proc -> Inum \cup {None}]

NoCall == [op |-> "none", path |-> None]

\* An empty file system as mkfs leaves it; every process has the root as its
\* current directory.
Init ==
  /\ alloc = {Root} /\ dlink = [i \in Inum |-> IF i = Root THEN 1 ELSE 0]
  /\ entry = [n \in Name |-> None]
  /\ ref = [i \in Inum |-> IF i = Root THEN Cardinality(Proc) ELSE 0]
  /\ valid = {} /\ nlink = [i \in Inum |-> 0]
  /\ lock = [i \in Inum |-> None]
  /\ fd = [p \in Proc |-> None]
  /\ pc = [p \in Proc |-> "idle"] /\ after = [p \in Proc |-> "idle"]
  /\ call = [p \in Proc |-> NoCall]
  /\ ip = [p \in Proc |-> None] /\ dp = [p \in Proc |-> None]
  /\ put = [p \in Proc |-> None]

-----------------------------------------------------------------------------
(* The operations on inodes *)

Goto(p, l) == pc' = [pc EXCEPT ![p] = l]

\* iget(): a second reference finds the entry, the first one makes it invalid.
iget(i) ==
  /\ ref' = [ref EXCEPT ![i] = @ + 1]
  /\ valid' = IF ref[i] > 0 THEN valid ELSE valid \ {i}

\* The inode that process p locks next.
Target(p) == IF pc[p] \in {"lookup", "create", "linkdir", "unlink"} THEN dp[p]
             ELSE IF pc[p] = "read" THEN fd[p] ELSE ip[p]

\* ilock(): wait for the lock and read the dinode unless the entry is valid.
ilock(p) ==
  /\ pc[p] \in DOMAIN Locking
  /\ LET i == Target(p) IN
       /\ lock[i] = None
       /\ lock' = [lock EXCEPT ![i] = p]
       /\ valid' = valid \cup {i}
       /\ nlink' = IF i \in valid THEN nlink ELSE [nlink EXCEPT ![i] = dlink[i]]
       /\ Goto(p, IF ref[i] < 1 \/ i \notin valid \cup alloc THEN "panic" ELSE Locking[pc[p]])
  /\ UNCHANGED <<disk, ref, fd, call, ip, dp, put, after>>

iunlock(i) == lock' = [lock EXCEPT ![i] = None]

\* Change ip->nlink to n, and iupdate().
SetLinks(i, n) ==
  /\ nlink' = [nlink EXCEPT ![i] = n]
  /\ dlink' = [dlink EXCEPT ![i] = n]

\* Call iput(i) and continue at l.
Put(p, i, l) ==
  /\ put' = [put EXCEPT ![p] = i]
  /\ after' = [after EXCEPT ![p] = l]
  /\ Goto(p, "iput")

\* iput(dp) or iput(ip), whose variable is not used again.
PutDp(p, l) == Put(p, dp[p], l) /\ dp' = [dp EXCEPT ![p] = None]
PutIp(p, l) == Put(p, ip[p], l) /\ ip' = [ip EXCEPT ![p] = None]

\* iput(): take the lock; only an inode without links is looked at further.
iput(p) ==
  /\ pc[p] = "iput" /\ lock[put[p]] = None
  /\ IF put[p] \in valid /\ nlink[put[p]] = 0
       THEN lock' = [lock EXCEPT ![put[p]] = p] /\ Goto(p, "itest")
       ELSE lock' = lock /\ Goto(p, "iref")
  /\ UNCHANGED <<disk, ref, valid, nlink, fd, call, ip, dp, put, after>>

\* Faulty variant of LastRef: the count is not looked at.
AnyRef(i) == TRUE

LastRef(i) == ref[i] = 1

\* The count is read under icache.lock, which is given up again.
IputTest(p) ==
  /\ pc[p] = "itest"
  /\ IF LastRef(put[p]) THEN Goto(p, "ifree") /\ UNCHANGED lock
                        ELSE Goto(p, "iref") /\ iunlock(put[p])
  /\ UNCHANGED <<disk, ref, valid, nlink, fd, call, ip, dp, put, after>>

\* itrunc(), type = 0 and iupdate(): the inode is free on disk.
IputFree(p) ==
  /\ pc[p] = "ifree"
  /\ alloc' = alloc \ {put[p]}
  /\ dlink' = [dlink EXCEPT ![put[p]] = nlink[put[p]]]
  /\ Goto(p, "inval")
  /\ UNCHANGED <<entry, icache, fd, call, ip, dp, put, after>>

\* Faulty variant of Invalidate: the entry stays valid.
InvalidateNot(i) == valid' = valid

Invalidate(i) == valid' = valid \ {i}

IputInvalid(p) ==
  /\ pc[p] = "inval"
  /\ Invalidate(put[p]) /\ iunlock(put[p])
  /\ Goto(p, "iref")
  /\ UNCHANGED <<disk, ref, nlink, fd, call, ip, dp, put, after>>

\* Last part of iput(); what comes after it is a return from the call if the
\* call has no references any more.
IputRef(p) ==
  /\ pc[p] = "iref"
  /\ ref' = [ref EXCEPT ![put[p]] = @ - 1]
  /\ put' = [put EXCEPT ![p] = None] /\ after' = [after EXCEPT ![p] = "idle"]
  /\ call' = IF after[p] = "idle" THEN [call EXCEPT ![p] = NoCall] ELSE call
  /\ Goto(p, after[p])
  /\ UNCHANGED <<disk, valid, nlink, lock, fd, ip, dp>>

-----------------------------------------------------------------------------
(* Path names *)

\* namei() up to the ilock() of the directory; "/" needs no lookup.
namei(p, path, next) ==
  /\ iget(Root)
  /\ IF path = Slash
       THEN ip' = [ip EXCEPT ![p] = Root] /\ dp' = dp /\ Goto(p, next)
       ELSE ip' = ip /\ dp' = [dp EXCEPT ![p] = Root] /\ Goto(p, "lookup")
  /\ UNCHANGED <<put, after>>

\* nameiparent(): the last element of the path is left to the caller; "/" has
\* none, and the reference is given back.
nameiparent(p, path, next, fail) ==
  /\ iget(Root)
  /\ IF path = Slash
       THEN Put(p, Root, fail) /\ dp' = dp
       ELSE dp' = [dp EXCEPT ![p] = Root] /\ Goto(p, next) /\ UNCHANGED <<put, after>>

\* The rest of namei(): dirlookup() takes a reference before dp is unlocked.
Lookup(p, next) ==
  LET i == entry[call[p].path] IN
  /\ pc[p] = "dirlookup"
  /\ IF i = None THEN UNCHANGED <<ref, valid, ip>> /\ PutDp(p, "idle")
                 ELSE iget(i) /\ ip' = [ip EXCEPT ![p] = i] /\ PutDp(p, next)
  /\ iunlock(Root)
  /\ UNCHANGED <<disk, nlink, fd>>

-----------------------------------------------------------------------------
(* sys_open(), fileread(), fileclose() *)

\* sys_open() without and with O_CREATE, up to the first wait.
sys_open(p) ==
  /\ pc[p] = "idle" /\ fd[p] = None
  /\ \E path \in Path :
       \/ /\ call' = [call EXCEPT ![p] = [op |-> "open", path |-> path]]
          /\ namei(p, path, "open")
       \/ /\ call' = [call EXCEPT ![p] = [op |-> "creat", path |-> path]]
          /\ nameiparent(p, path, "create", "idle") /\ ip' = ip
  /\ UNCHANGED <<disk, nlink, lock, fd>>

OpenLookup(p) == call[p].op = "open" /\ Lookup(p, "open") /\ UNCHANGED call

Free == Inum \ alloc

\* ialloc() takes the first free dinode.
FirstFree(i) == i \in Free /\ \A j \in Free : i <= j

\* create() with the directory locked: open the file that is there, or
\* allocate an inode.
create(p) ==
  LET i == entry[call[p].path] IN
  /\ pc[p] = "created"
  /\ \/ /\ i # None /\ iget(i) /\ ip' = [ip EXCEPT ![p] = i]
        /\ iunlock(Root) /\ PutDp(p, "open")
        /\ UNCHANGED disk
     \/ /\ i = None
        /\ \E inum \in Inum :
             /\ FirstFree(inum)
             /\ iget(inum) /\ ip' = [ip EXCEPT ![p] = inum]
             /\ alloc' = alloc \cup {inum}
             /\ dlink' = [dlink EXCEPT ![inum] = 0]
        /\ Goto(p, "mknew")
        /\ UNCHANGED <<entry, lock, dp, put, after>>
     \/ /\ i = None /\ Free = {} /\ Goto(p, "full")
        /\ UNCHANGED <<disk, ref, valid, lock, ip, dp, put, after>>
  /\ UNCHANGED <<nlink, fd, call>>

\* The rest of create(), with both inodes locked.
CreateInit(p) ==
  /\ pc[p] = "init"
  /\ SetLinks(ip[p], 1)
  /\ entry' = [entry EXCEPT ![call[p].path] = ip[p]]
  /\ iunlock(Root) /\ PutDp(p, "fdalloc")
  /\ UNCHANGED <<alloc, ref, valid, fd, call, ip>>

\* The rest of sys_open() with ip locked.  It fails if there is no file or
\* descriptor left, or for a directory if the mode is not O_RDONLY.
fdalloc(p) ==
  /\ pc[p] = "fdalloc"
  /\ iunlock(ip[p])
  /\ \/ /\ fd' = [fd EXCEPT ![p] = ip[p]] /\ ip' = [ip EXCEPT ![p] = None]
        /\ call' = [call EXCEPT ![p] = NoCall]
        /\ Goto(p, "idle") /\ UNCHANGED <<put, after>>
     \/ PutIp(p, "idle") /\ UNCHANGED <<fd, call>>
  /\ UNCHANGED <<disk, ref, valid, nlink, dp>>

\* fileread() or filestat(): the inode is locked for the time of the read.
fileread(p) ==
  /\ \/ pc[p] = "idle" /\ fd[p] # None /\ Goto(p, "read") /\ UNCHANGED lock
     \/ pc[p] = "readi" /\ Goto(p, "idle") /\ iunlock(fd[p])
  /\ UNCHANGED <<disk, ref, valid, nlink, fd, call, ip, dp, put, after>>

\* fileclose() of the last reference to the file.
fileclose(p) ==
  /\ pc[p] = "idle" /\ fd[p] # None
  /\ fd' = [fd EXCEPT ![p] = None]
  /\ Put(p, fd[p], "idle")
  /\ UNCHANGED <<disk, icache, call, ip, dp>>

-----------------------------------------------------------------------------
(* sys_link() *)

sys_link(p) ==
  /\ pc[p] = "idle"
  /\ \E path \in Path :
       /\ call' = [call EXCEPT ![p] = [op |-> "link", path |-> path]]
       /\ namei(p, path, "link")
  /\ UNCHANGED <<disk, nlink, lock, fd>>

LinkLookup(p) == call[p].op = "link" /\ Lookup(p, "link") /\ UNCHANGED call

\* A directory is refused.  A file gets the new link counted before the new
\* name is looked at.
LinkCount(p) ==
  /\ pc[p] = "count"
  /\ iunlock(ip[p])
  /\ IF ip[p] = Root
       THEN PutIp(p, "idle") /\ UNCHANGED <<dlink, nlink, ref, valid, call, dp>>
       ELSE /\ SetLinks(ip[p], nlink[ip[p]] + 1)
            /\ \E path \in Path :
                 /\ call' = [call EXCEPT ![p].path = path]
                 /\ nameiparent(p, path, "linkdir", "bad") /\ ip' = ip
  /\ UNCHANGED <<alloc, entry, fd>>

\* Faulty variant of dirlink: the reference of dirlookup() is not dropped.
DirlinkNoPut(p) ==
  LET n == call[p].path IN
  /\ pc[p] = "dirlink"
  /\ IF entry[n] # None
       THEN iget(entry[n]) /\ Goto(p, "baddir") /\ UNCHANGED <<entry, lock, dp, put, after>>
       ELSE /\ entry' = [entry EXCEPT ![n] = ip[p]]
            /\ iunlock(Root) /\ PutDp(p, "linkput") /\ UNCHANGED <<ref, valid>>
  /\ UNCHANGED <<alloc, dlink, nlink, fd, call, ip>>

\* dirlink() with the directory locked: a name that exists is found, and its
\* inode put, before the directory is unlocked.
dirlink(p) ==
  LET n == call[p].path IN
  /\ pc[p] = "dirlink"
  /\ IF entry[n] # None
       THEN iget(entry[n]) /\ Put(p, entry[n], "baddir") /\ UNCHANGED <<entry, lock, dp>>
       ELSE /\ entry' = [entry EXCEPT ![n] = ip[p]]
            /\ iunlock(Root) /\ PutDp(p, "linkput") /\ UNCHANGED <<ref, valid>>
  /\ UNCHANGED <<alloc, dlink, nlink, fd, call, ip>>

LinkPut(p) ==
  /\ pc[p] = "linkput" /\ PutIp(p, "idle")
  /\ UNCHANGED <<disk, icache, fd, call, dp>>

\* dirlink() has failed: iunlockput(dp), then goto bad.
LinkFailed(p) ==
  /\ pc[p] = "baddir"
  /\ iunlock(Root) /\ PutDp(p, "bad")
  /\ UNCHANGED <<disk, ref, valid, nlink, fd, call, ip>>

\* Faulty variant of LinkUndo: the link stays counted.
LinkNoUndo(p) ==
  /\ pc[p] = "undo"
  /\ iunlock(ip[p]) /\ PutIp(p, "idle")
  /\ UNCHANGED <<disk, ref, valid, nlink, fd, call, dp>>

LinkUndo(p) ==
  /\ pc[p] = "undo"
  /\ SetLinks(ip[p], nlink[ip[p]] - 1)
  /\ iunlock(ip[p]) /\ PutIp(p, "idle")
  /\ UNCHANGED <<alloc, entry, ref, valid, fd, call, dp>>

-----------------------------------------------------------------------------
(* sys_unlink() *)

sys_unlink(p) ==
  /\ pc[p] = "idle"
  /\ \E path \in Path :
       /\ call' = [call EXCEPT ![p] = [op |-> "unlink", path |-> path]]
       /\ nameiparent(p, path, "unlink", "idle")
  /\ UNCHANGED <<disk, nlink, lock, fd, ip>>

\* With the directory locked, find the file.
UnlinkFind(p) ==
  LET i == entry[call[p].path] IN
  /\ pc[p] = "find"
  /\ IF i = None
       THEN iunlock(Root) /\ PutDp(p, "idle") /\ UNCHANGED <<ref, valid, ip>>
       ELSE /\ iget(i) /\ ip' = [ip EXCEPT ![p] = i]
            /\ Goto(p, "victim") /\ UNCHANGED <<lock, dp, put, after>>
  /\ UNCHANGED <<disk, nlink, fd, call>>

\* With both locked: the entry goes, then the directory is unlocked and put
\* while the file stays locked.
UnlinkErase(p) ==
  /\ pc[p] = "erase"
  /\ IF nlink[ip[p]] < 1
       THEN Goto(p, "panic") /\ UNCHANGED <<entry, lock, dp, put, after>>
       ELSE /\ entry' = [entry EXCEPT ![call[p].path] = None]
            /\ iunlock(Root) /\ PutDp(p, "drop")
  /\ UNCHANGED <<alloc, dlink, ref, valid, nlink, fd, call, ip>>

UnlinkDrop(p) ==
  /\ pc[p] = "drop"
  /\ SetLinks(ip[p], nlink[ip[p]] - 1)
  /\ iunlock(ip[p]) /\ PutIp(p, "idle")
  /\ UNCHANGED <<alloc, entry, ref, valid, fd, call, dp>>

-----------------------------------------------------------------------------

Next ==
  \E p \in Proc :
    \/ ilock(p) \/ iput(p) \/ IputTest(p) \/ IputFree(p) \/ IputInvalid(p) \/ IputRef(p)
    \/ sys_open(p) \/ OpenLookup(p) \/ create(p) \/ CreateInit(p) \/ fdalloc(p)
    \/ fileread(p) \/ fileclose(p)
    \/ sys_link(p) \/ LinkLookup(p) \/ LinkCount(p) \/ dirlink(p)
    \/ LinkPut(p) \/ LinkFailed(p) \/ LinkUndo(p)
    \/ sys_unlink(p) \/ UnlinkFind(p) \/ UnlinkErase(p) \/ UnlinkDrop(p)

Spec == Init /\ [][Next]_vars

-----------------------------------------------------------------------------
(* Properties *)

Pointers(i) ==
  Cardinality({p \in Proc : fd[p] = i}) + Cardinality({p \in Proc : ip[p] = i})
  + Cardinality({p \in Proc : dp[p] = i}) + Cardinality({p \in Proc : put[p] = i})
  + (IF i = Root THEN Cardinality(Proc) ELSE 0)

\* ip->ref is the number of pointers to the inode: open files, current
\* directories and the references of calls in progress, on every path through
\* sys_open(), sys_link() and sys_unlink(), also the failing ones.
RefsCounted == \A i \in Inum : ref[i] = Pointers(i)

\* Calls that have counted a link whose entry is not there yet, or that have
\* removed an entry which is still counted.
Pending(i) ==
  {p \in Proc : ip[p] = i /\
     \/ call[p].op = "link" /\ {pc[p], after[p]} \cap {"linkdir", "dirlink", "baddir", "bad", "undo"} # {}
     \/ call[p].op = "unlink" /\ {pc[p], after[p]} \cap {"drop"} # {}}

\* The link count on disk is the number of the file's directory entries, up to
\* the calls that are in between the two updates.
LinksCounted ==
  \A i \in alloc \ {Root} :
    dlink[i] = Cardinality({n \in Name : entry[n] = i}) + Cardinality(Pending(i))

\* A valid cache entry agrees with the disk and is of an allocated inode,
\* except while iput() frees it: nobody works on the copy of an inode that has
\* been freed, and possibly allocated again, meanwhile, and the panics of ilock()
\* and sys_unlink() over a free inode or a count of 0 are not reached.
CacheCoherent ==
  /\ \A i \in valid :
       ref[i] > 0 => \/ i \in alloc /\ nlink[i] = dlink[i]
                     \/ \E p \in Proc : pc[p] = "inval" /\ put[p] = i
  /\ \A p \in Proc : pc[p] # "panic"

\* iput() frees an inode only if no directory entry and no other pointer leads
\* to it, although it reads the count of references without keeping
\* icache.lock (the comment at itrunc()).
FreedUnused ==
  [][\A i \in alloc \ alloc' :
       /\ \A n \in Name : entry[n] # i
       /\ \A p \in Proc : fd[p] # i /\ ip[p] # i
       /\ Pointers(i) = 1]_vars

\* No group of processes in which each one waits for a lock of another one: what
\* the test linkunlink of usertests.c looks for.
NoWaitCycle ==
  \A S \in SUBSET Proc \ {{}} :
    \E p \in S : ~ \/ pc[p] \in DOMAIN Locking /\ lock[Target(p)] \in S
                   \/ pc[p] = "iput" /\ lock[put[p]] \in S

=============================================================================
