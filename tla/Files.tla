------------------------------- MODULE Files -------------------------------
(***************************************************************************)
(* Open files (file.c) and the descriptors that name them (sysfile.c,      *)
(* fork() and exit() of proc.c), with what a file holds: a reference to an *)
(* inode, or one end of a pipe, which lives in a page of its own (pipe.c). *)
(*                                                                         *)
(* ftable.lock and the lock of a pipe are held for a few assignments only, *)
(* so each such section is one step; closing is therefore several steps,   *)
(* and every call that fails half-way has a list of things still to undo.  *)
(***************************************************************************)
EXTENDS Integers, Sequences, FiniteSets, FiniteSetsExt

CONSTANTS Process, init,    \* init never exits
          NFILE, NOFILE,
          Page,             \* pages that pipes may get
          Inode,
          Size,             \* bytes in each file; nobody writes
          None              \* a null pointer

File == 0 .. NFILE - 1     \* the entries of ftable
Fd == 0 .. NOFILE - 1

ASSUME FilesAssumption ==
  /\ init \in Process /\ IsFiniteSet(Process)
  /\ NFILE \in Nat \ {0} /\ NOFILE \in Nat \ {0} /\ Size \in Nat
  /\ None \notin Page \cup Inode \cup Process \cup File

VARIABLES
  ref, type, writable, obj, off,   \* struct file; obj is pipe or ip
  ofile,                           \* p->ofile
  live,                            \* processes that exist
  readopen, writeopen,             \* the pipes in pages in use
  taken,                           \* pages in use
  iref,                            \* references to each inode
  ilocked,                         \* the process that holds ip->lock, or None
  pc, f0, f1, idx,                   \* each process's control state and locals
  todo,                            \* what its call has still to give back
  got                              \* the bytes read through each file, in order

ftable == <<ref, type, writable, obj, off>>
pipes == <<readopen, writeopen, taken>>
locals == <<pc, f0, f1, idx>>
filesVars == <<ftable, ofile, live, pipes, iref, ilocked, locals, todo, got>>

FilesInit ==
  /\ ref = [f \in File |-> 0] /\ type = [f \in File |-> "NONE"]
  /\ writable = [f \in File |-> FALSE] /\ obj = [f \in File |-> None]
  /\ off = [f \in File |-> 0] /\ got = [f \in File |-> <<>>]
  /\ ofile = [p \in Process |-> [fd \in Fd |-> None]]
  /\ live = {init}
  /\ readopen = {} /\ writeopen = {} /\ taken = {}
  /\ iref = [ip \in Inode |-> 0] /\ ilocked = [ip \in Inode |-> None]
  /\ pc = [p \in Process |-> "user"] /\ idx = [p \in Process |-> 0]
  /\ f0 = [p \in Process |-> None] /\ f1 = [p \in Process |-> None]
  /\ todo = [p \in Process |-> <<>>]

Goto(p, l) == pc' = [pc EXCEPT ![p] = l]
AtUser(p) == p \in live /\ pc[p] = "user"

\* The rest of the call is to give back the items of s, in this order.
Undo(p, s) == Goto(p, "undo") /\ todo' = [todo EXCEPT ![p] = s]

\* A call returns: its local variables are gone.
Return(p) ==
  /\ Goto(p, "user")
  /\ f0' = [f0 EXCEPT ![p] = None] /\ f1' = [f1 EXCEPT ![p] = None]
  /\ idx' = [idx EXCEPT ![p] = 0]

-----------------------------------------------------------------------------
(* File structures and descriptors *)

\* filealloc() takes the first free entry.
filealloc(f) ==
  /\ ref[f] = 0 /\ \A g \in 0 .. f - 1 : ref[g] # 0
  /\ ref' = [ref EXCEPT ![f] = 1]

TableFull == \A f \in File : ref[f] # 0

\* fdalloc(): the lowest free descriptor of p, or -1.
FreeFds(p) == {fd \in Fd : ofile[p][fd] = None}
fdalloc(p) == IF FreeFds(p) = {} THEN -1 ELSE Min(FreeFds(p))

\* argfd(): the descriptors that name a file.
argfd(p) == {fd \in Fd : ofile[p][fd] # None}

\* sys_dup(); filedup() comes after fdalloc().
sys_dup(p) ==
  /\ AtUser(p)
  /\ \E fd \in argfd(p) :
       /\ fdalloc(p) # -1
       /\ ofile' = [ofile EXCEPT ![p][fdalloc(p)] = ofile[p][fd]]
       /\ ref' = [ref EXCEPT ![ofile[p][fd]] = @ + 1]
  /\ UNCHANGED <<type, writable, obj, off, live, pipes, iref, ilocked, locals, todo, got>>

sys_close(p) ==
  /\ AtUser(p)
  /\ \E fd \in argfd(p) :
       /\ ofile' = [ofile EXCEPT ![p][fd] = None]
       /\ Undo(p, <<<<"file", ofile[p][fd]>>>>)
  /\ UNCHANGED <<ftable, live, pipes, iref, ilocked, f0, f1, idx, got>>

\* What the last fileclose() of f gives back once ftable.lock is released.
Owned(f) ==
  CASE type[f] = "PIPE"  -> <<<<"pipe", obj[f], writable[f]>>>>
    [] type[f] = "INODE" -> <<<<"inode", obj[f]>>>>
    [] OTHER -> <<>>

\* fileclose() up to release(&ftable.lock).  The fields of a free entry besides
\* its type keep their values in the code; nobody reads them before they are set
\* again, and the model clears them to merge such states.
fileclose(p, f) ==
  LET last == ref[f] = 1
      cleared(g, v) == IF last THEN [g EXCEPT ![f] = v] ELSE g
  IN /\ ref' = [ref EXCEPT ![f] = @ - 1]
     /\ type' = cleared(type, "NONE")
     /\ todo' = [todo EXCEPT ![p] = (IF last THEN Owned(f) ELSE <<>>) \o Tail(@)]
     /\ writable' = cleared(writable, FALSE) /\ obj' = cleared(obj, None)
     /\ off' = cleared(off, 0) /\ got' = cleared(got, <<>>)
     /\ UNCHANGED <<ofile, pipes, iref, ilocked>>

\* Faulty variant of pipeclose: the first close frees the page.
PipecloseEarly(p, g, w) ==
  /\ readopen' = IF w THEN readopen ELSE readopen \ {g}
  /\ writeopen' = IF w THEN writeopen \ {g} ELSE writeopen
  /\ taken' = taken \ {g}
  /\ todo' = [todo EXCEPT ![p] = Tail(@)]
  /\ UNCHANGED <<ftable, ofile, iref, ilocked, got>>

\* pipeclose() of one end of the pipe in page g; the last one frees the page.
pipeclose(p, g, w) ==
  LET ro == IF w THEN readopen ELSE readopen \ {g}
      wo == IF w THEN writeopen \ {g} ELSE writeopen
  IN /\ readopen' = ro /\ writeopen' = wo
     /\ taken' = IF g \in ro \cup wo THEN taken ELSE taken \ {g}
     /\ todo' = [todo EXCEPT ![p] = Tail(@)]
     /\ UNCHANGED <<ftable, ofile, iref, ilocked, got>>

\* begin_op(), iput(ff.ip), end_op().
iput(p, ip) ==
  /\ iref' = [iref EXCEPT ![ip] = @ - 1]
  /\ todo' = [todo EXCEPT ![p] = Tail(@)]
  /\ UNCHANGED <<ftable, ofile, pipes, ilocked, got>>

\* iunlockput(ip) of sys_open().
iunlockput(p, ip) ==
  /\ iref' = [iref EXCEPT ![ip] = @ - 1]
  /\ ilocked' = [ilocked EXCEPT ![ip] = None]
  /\ todo' = [todo EXCEPT ![p] = Tail(@)]
  /\ UNCHANGED <<ftable, ofile, pipes, got>>

\* ofile[fd] = 0 in exit().
ClearFd(p, fd) ==
  /\ ofile' = [ofile EXCEPT ![p][fd] = None]
  /\ todo' = [todo EXCEPT ![p] = Tail(@)]
  /\ UNCHANGED <<ftable, pipes, iref, ilocked, got>>

UndoStep(p) ==
  /\ pc[p] \in {"undo", "exit"} /\ todo[p] # <<>>
  /\ LET x == Head(todo[p])
     IN \/ x[1] = "file" /\ fileclose(p, x[2])
        \/ x[1] = "pipe" /\ pipeclose(p, x[2], x[3])
        \/ x[1] = "inode" /\ iput(p, x[2])
        \/ x[1] = "locked" /\ iunlockput(p, x[2])
        \/ x[1] = "fd" /\ ClearFd(p, x[2])
  /\ UNCHANGED <<live, locals>>

\* The call returns; after exit() the process is gone once its parent has called
\* wait() (Proc).
UndoDone(p) ==
  /\ pc[p] \in {"undo", "exit"} /\ todo[p] = <<>>
  /\ pc[p] = "exit" => argfd(p) = {}
  /\ live' = IF pc[p] = "exit" THEN live \ {p} ELSE live
  /\ Return(p)
  /\ UNCHANGED <<ftable, ofile, pipes, iref, ilocked, todo, got>>

-----------------------------------------------------------------------------
(* open *)

\* namei() or create() has found an inode and locked it.
sys_open(p) ==
  /\ AtUser(p)
  /\ \E ip \in Inode :
       /\ ilocked[ip] = None /\ ilocked' = [ilocked EXCEPT ![ip] = p]
       /\ iref' = [iref EXCEPT ![ip] = @ + 1]
       /\ f1' = [f1 EXCEPT ![p] = ip]
  /\ Goto(p, "open")
  /\ UNCHANGED <<ftable, ofile, live, pipes, f0, idx, todo, got>>

\* filealloc() and fdalloc(); without one of them the file, if there is one, and
\* the inode are given back.
OpenAlloc(p) ==
  /\ pc[p] = "open"
  /\ \/ /\ TableFull
        /\ Undo(p, <<<<"locked", f1[p]>>>>)
        /\ UNCHANGED <<ref, f0, ofile, ilocked>>
     \/ \E f \in File :
          /\ filealloc(f)
          /\ f0' = [f0 EXCEPT ![p] = f]
          /\ IF fdalloc(p) = -1
             THEN /\ Undo(p, <<<<"file", f>>, <<"locked", f1[p]>>>>)
                  /\ UNCHANGED <<ofile, ilocked>>
             ELSE /\ ofile' = [ofile EXCEPT ![p][fdalloc(p)] = f]
                  /\ ilocked' = [ilocked EXCEPT ![f1[p]] = None]
                  /\ Goto(p, "opened") /\ UNCHANGED todo
  /\ UNCHANGED <<type, writable, obj, off, live, pipes, iref, f1, idx, got>>

\* The file is filled in after end_op(), which may have waited for the disk.
OpenFill(p) ==
  LET f == f0[p]
  IN /\ pc[p] = "opened"
     /\ type' = [type EXCEPT ![f] = "INODE"]
     /\ obj' = [obj EXCEPT ![f] = f1[p]]
     /\ off' = [off EXCEPT ![f] = 0]
     /\ writable' = [writable EXCEPT ![f] = FALSE]
     /\ Return(p)
     /\ UNCHANGED <<ref, ofile, live, pipes, iref, ilocked, todo, got>>

-----------------------------------------------------------------------------
(* pipe *)

\* sys_pipe(), pipealloc(): the first filealloc().
sys_pipe(p) ==
  /\ AtUser(p)
  /\ \E f \in File :
       /\ filealloc(f)
       /\ f0' = [f0 EXCEPT ![p] = f]
  /\ Goto(p, "pipe2")
  /\ UNCHANGED <<type, writable, obj, off, ofile, live, pipes, iref, ilocked, f1, idx, todo, got>>

\* The second filealloc().
PipeFile2(p) ==
  /\ pc[p] = "pipe2"
  /\ \/ TableFull /\ Undo(p, <<<<"file", f0[p]>>>>) /\ UNCHANGED <<ref, f1>>
     \/ \E f \in File :
          /\ filealloc(f)
          /\ f1' = [f1 EXCEPT ![p] = f]
          /\ Goto(p, "page") /\ UNCHANGED todo
  /\ UNCHANGED <<type, writable, obj, off, ofile, live, pipes, iref, ilocked, f0, idx, got>>

\* Faulty variant of Descriptors: the write end is forgotten.
LoseWriteEnd(p) ==
  IF Cardinality(FreeFds(p)) < 2
  THEN Undo(p, <<<<"file", f0[p]>>>>) /\ UNCHANGED <<ofile, f0, f1, idx>>
  ELSE LET a == Min(FreeFds(p))
           b == Min(FreeFds(p) \ {a})
       IN /\ ofile' = [ofile EXCEPT ![p][a] = f0[p], ![p][b] = f1[p]]
          /\ Return(p) /\ UNCHANGED todo

\* What sys_pipe() does with the two files: descriptors for both, or none.
Descriptors(p) ==
  IF Cardinality(FreeFds(p)) < 2
  THEN /\ Undo(p, <<<<"file", f0[p]>>, <<"file", f1[p]>>>>)
       /\ UNCHANGED <<ofile, f0, f1, idx>>
  ELSE LET a == Min(FreeFds(p))
           b == Min(FreeFds(p) \ {a})
       IN /\ ofile' = [ofile EXCEPT ![p][a] = f0[p], ![p][b] = f1[p]]
          /\ Return(p) /\ UNCHANGED todo

\* kalloc(); with a page the pipe and both files are filled in.
PipePage(p) ==
  /\ pc[p] = "page"
  /\ \/ /\ taken = Page
        /\ Undo(p, <<<<"file", f0[p]>>, <<"file", f1[p]>>>>)
        /\ UNCHANGED <<type, obj, writable, pipes, ofile, f0, f1, idx>>
     \/ \E g \in Page \ taken :
          /\ taken' = taken \cup {g}
          /\ readopen' = readopen \cup {g} /\ writeopen' = writeopen \cup {g}
          /\ type' = [type EXCEPT ![f0[p]] = "PIPE", ![f1[p]] = "PIPE"]
          /\ obj' = [obj EXCEPT ![f0[p]] = g, ![f1[p]] = g]
          /\ writable' = [writable EXCEPT ![f0[p]] = FALSE, ![f1[p]] = TRUE]
          /\ Descriptors(p)
  /\ UNCHANGED <<ref, off, live, iref, ilocked, got>>

-----------------------------------------------------------------------------
(* fork and exit *)

\* fork() up to the loop over ofile; f0 is the child.
Fork(p) ==
  /\ AtUser(p)
  /\ \E c \in Process \ live :
       /\ \A q \in live : pc[q] = "fork" => f0[q] # c
       /\ f0' = [f0 EXCEPT ![p] = c]
  /\ idx' = [idx EXCEPT ![p] = 0]
  /\ Goto(p, "fork")
  /\ UNCHANGED <<ftable, ofile, live, pipes, iref, ilocked, f1, todo, got>>

\* One turn of the loop: filedup() of ofile[i].
ForkDup(p) ==
  LET f == ofile[p][idx[p]]
  IN /\ pc[p] = "fork" /\ idx[p] < NOFILE
     /\ idx' = [idx EXCEPT ![p] = @ + 1]
     /\ ofile' = [ofile EXCEPT ![f0[p]][idx[p]] = f]
     /\ IF f = None THEN UNCHANGED ref ELSE ref' = [ref EXCEPT ![f] = @ + 1]
     /\ UNCHANGED <<type, writable, obj, off, live, pipes, iref, ilocked, pc, f0, f1, todo, got>>

ForkDone(p) ==
  /\ pc[p] = "fork" /\ idx[p] = NOFILE
  /\ live' = live \cup {f0[p]}
  /\ Return(p)
  /\ UNCHANGED <<ftable, ofile, pipes, iref, ilocked, todo, got>>

\* exit() up to its loop over the descriptors.
Exit(p) ==
  /\ AtUser(p) /\ p # init
  /\ Goto(p, "exit")
  /\ UNCHANGED <<ftable, ofile, live, pipes, iref, ilocked, f0, f1, idx, todo, got>>

\* The next open descriptor: fileclose() and ofile[fd] = 0.
ExitFd(p) ==
  /\ pc[p] = "exit" /\ todo[p] = <<>> /\ argfd(p) # {}
  /\ LET fd == Min(argfd(p))
     IN todo' = [todo EXCEPT ![p] = <<<<"file", ofile[p][fd]>>, <<"fd", fd>>>>]
  /\ UNCHANGED <<ftable, ofile, live, pipes, iref, ilocked, locals, got>>

-----------------------------------------------------------------------------
(* read *)

\* Faulty variant of FileLock: reads without the inode's lock.
NoFileLock(p, ip) == UNCHANGED ilocked

\* ilock(f->ip).
FileLock(p, ip) == ilocked[ip] = None /\ ilocked' = [ilocked EXCEPT ![ip] = p]

\* fileread() of one byte; reading a pipe is in Pipe.  readi() waits for the disk
\* with the offset it was given, i.
fileread(p) ==
  /\ AtUser(p)
  /\ \E fd \in argfd(p) :
       LET f == ofile[p][fd]
       IN /\ type[f] = "INODE"
          /\ FileLock(p, obj[f])
          /\ f0' = [f0 EXCEPT ![p] = f]
          /\ idx' = [idx EXCEPT ![p] = off[f]]
  /\ Goto(p, "read")
  /\ UNCHANGED <<ftable, ofile, live, pipes, iref, f1, todo, got>>

\* f->off += r, iunlock(f->ip); nothing is read at the end of the file.
ReadDone(p) ==
  LET f == f0[p]
  IN /\ pc[p] = "read"
     /\ IF idx[p] < Size
        THEN off' = [off EXCEPT ![f] = @ + 1] /\ got' = [got EXCEPT ![f] = Append(@, idx[p])]
        ELSE UNCHANGED <<off, got>>
     /\ ilocked' = [ilocked EXCEPT ![obj[f]] = None]
     /\ Return(p)
     /\ UNCHANGED <<ref, type, writable, obj, ofile, live, pipes, iref, todo>>

FilesNext == \E p \in Process :
  \/ sys_dup(p) \/ sys_close(p) \/ UndoStep(p) \/ UndoDone(p)
  \/ sys_open(p) \/ OpenAlloc(p) \/ OpenFill(p)
  \/ sys_pipe(p) \/ PipeFile2(p) \/ PipePage(p)
  \/ Fork(p) \/ ForkDup(p) \/ ForkDone(p) \/ Exit(p) \/ ExitFd(p)
  \/ fileread(p) \/ ReadDone(p)

FilesSpec == FilesInit /\ [][FilesNext]_filesVars

-----------------------------------------------------------------------------
(* Properties *)

\* The calls that have still to give back x.
Owes(p, x) == \E k \in DOMAIN todo[p] : todo[p][k] = x
Pending(x) == {p \in Process : Owes(p, x)}

\* Descriptors that name f, without those whose file exit() has given back.
Named(f) ==
  {u \in Process \X Fd : ofile[u[1]][u[2]] = f /\ ~Owes(u[1], <<"fd", u[2]>>)}

\* The calls in progress that hold file f.
Holding(f) ==
  {p \in Process : \/ pc[p] \in {"pipe2", "page"} /\ f0[p] = f
                   \/ pc[p] = "page" /\ f1[p] = f}

\* A file's count is the number of descriptors that name it and of calls that
\* hold it or have still to close it: it is neither freed while somebody uses it
\* nor lost when a call fails half-way; and the file of a process that is not in
\* a call is filled in, so that filedup(), fileread() and filewrite() never panic
\* (filealloc, filedup, fileclose and their callers).
FileRefs ==
  /\ \A f \in File :
       ref[f] = Cardinality(Named(f)) + Cardinality(Pending(<<"file", f>>))
                + Cardinality(Holding(f))
  /\ \A p \in live : pc[p] = "user" => \A fd \in argfd(p) : type[ofile[p][fd]] # "NONE"

\* The files of an object, and the callers that hold a reference without a file.
FilesOf(t, o) == {f \in File : ref[f] > 0 /\ type[f] = t /\ obj[f] = o}
Opening(ip) == {p \in Process : pc[p] \in {"open", "opened"} /\ f1[p] = ip}

\* Every end of a pipe that counts as open has exactly one file, or a close under
\* way, and the page is in use exactly as long as an end is open; an inode has
\* one reference per file.  So nothing is given back twice or never, whichever
\* allocation of pipe() or open() fails.
ObjectsOwned ==
  /\ \A g \in Page, w \in BOOLEAN :
       Cardinality({f \in FilesOf("PIPE", g) : writable[f] = w})
         + Cardinality(Pending(<<"pipe", g, w>>))
         = IF g \in (IF w THEN writeopen ELSE readopen) THEN 1 ELSE 0
  /\ taken = readopen \cup writeopen
  /\ \A ip \in Inode :
       iref[ip] = Cardinality(FilesOf("INODE", ip)) + Cardinality(Pending(<<"inode", ip>>))
                  + Cardinality(Pending(<<"locked", ip>>)) + Cardinality(Opening(ip))

\* Processes that share an open file after dup() or fork() read each byte once,
\* in order, although each waits for the disk between taking the offset and
\* moving it on (fileread).
ReadOnce == \A f \in File : \A k \in DOMAIN got[f] : got[f][k] = k - 1

=============================================================================
