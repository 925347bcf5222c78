------------------------------ MODULE Umalloc ------------------------------
(***************************************************************************)
(* The user-level allocator (umalloc.c): a circular list of free blocks in *)
(* the order of their addresses, inside the blocks themselves.             *)
(*                                                                         *)
(* Addresses count units of a Header.  base is at 0, below the memory that *)
(* sbrk() hands out; h is a record of what a call changes.                 *)
(***************************************************************************)
EXTENDS Integers, FiniteSets, FiniteSetsExt

CONSTANTS HeapEnd,     \* sbrk() fails beyond this address
          HeaderSize,  \* bytes in a unit
          Core,        \* morecore() asks for no less (4096)
          NBytes       \* bound: arguments of malloc()

ASSUME UmallocAssumption ==
  /\ HeapEnd \in Nat /\ HeaderSize \in Nat \ {0} /\ Core \in Nat \ {0}
  /\ NBytes \subseteq Nat

base == 0
NULL == -1
Unit == 0 .. HeapEnd

VARIABLES
  heap,       \* ptr and size of the headers, and freep
  brk,        \* the end of the process's memory
  core,       \* the units that morecore() has got
  allocated   \* headers of the blocks the program has

heapVars == <<heap, brk, core, allocated>>

UmallocInit ==
  /\ heap = [ptr |-> [u \in Unit |-> NULL], size |-> [u \in Unit |-> 0], freep |-> NULL]
  /\ brk = 1 /\ core = {} /\ allocated = {}

-----------------------------------------------------------------------------
(* free() *)

\* The loop of free() ends at p: bp lies behind p, before its successor or
\* beyond an end of the list.
Place(h, p, bp) ==
  \/ bp > p /\ bp < h.ptr[p]
  \/ p >= h.ptr[p] /\ (bp > p \/ bp < h.ptr[p])

RECURSIVE FindPlace(_, _, _)
FindPlace(h, p, bp) == IF Place(h, p, bp) THEN p ELSE FindPlace(h, h.ptr[p], bp)

\* A header that is no longer one is cleared, to merge states; the code leaves it.
Gone(h, p) == [h EXCEPT !.ptr[p] = NULL, !.size[p] = 0]

\* Joins bp with the block after p, and p with bp, if they touch.
JoinUpper(h, p, bp) ==
  LET n == h.ptr[p]
  IN IF bp + h.size[bp] = n
     THEN Gone([h EXCEPT !.size[bp] = @ + h.size[n], !.ptr[bp] = h.ptr[n]], n)
     ELSE [h EXCEPT !.ptr[bp] = n]
JoinLower(h, p, bp) ==
  IF p + h.size[p] = bp
  THEN Gone([h EXCEPT !.size[p] = @ + h.size[bp], !.ptr[p] = h.ptr[bp]], bp)
  ELSE [h EXCEPT !.ptr[p] = bp]
Insert(h, p, bp) == [JoinLower(JoinUpper(h, p, bp), p, bp) EXCEPT !.freep = p]

FreeBlock(h, bp) == Insert(h, FindPlace(h, h.freep, bp), bp)

-----------------------------------------------------------------------------
(* malloc() *)

nunits(nbytes) == (nbytes + HeaderSize - 1) \div HeaderSize + 1

\* The number of units that morecore() asks for.
CoreUnits(nu) == IF nu < Core THEN Core ELSE nu

\* Faulty variant of Take: the address is taken before the size is reduced.
TakeHead(h, prevp, p, nu) ==
  IF h.size[p] = nu
  THEN [h |-> [h EXCEPT !.ptr[prevp] = h.ptr[p], !.ptr[p] = NULL, !.freep = prevp], block |-> p]
  ELSE [h |-> [h EXCEPT !.size[p] = @ - nu, !.freep = prevp], block |-> p]

\* A block of nu units from p: all of it, or its upper end.
Take(h, prevp, p, nu) ==
  IF h.size[p] = nu
  THEN [h |-> [h EXCEPT !.ptr[prevp] = h.ptr[p], !.ptr[p] = NULL, !.freep = prevp], block |-> p]
  ELSE LET b == p + h.size[p] - nu
       IN [h |-> [h EXCEPT !.size[p] = @ - nu, !.size[b] = nu, !.freep = prevp],
           block |-> b]

\* morecore(): the new memory is a block to be freed; without it malloc() fails.
More(h, b, nu) ==
  IF b + CoreUnits(nu) > HeapEnd + 1 THEN [h |-> h, brk |-> b]
  ELSE [h |-> FreeBlock([h EXCEPT !.size[b] = CoreUnits(nu)], b), brk |-> b + CoreUnits(nu)]

RECURSIVE Scan(_, _, _, _, _)

\* What is left of malloc()'s search once morecore() has returned m.
AfterMore(m, b, nu) ==
  IF m.brk = b THEN [t |-> [h |-> m.h, block |-> NULL], brk |-> b]
  ELSE Scan(m.h, m.h.freep, m.h.ptr[m.h.freep], m.brk, nu)

\* The loop of malloc(); the result has the block, or NULL.
Scan(h, prevp, p, b, nu) ==
  CASE h.size[p] >= nu -> [t |-> Take(h, prevp, p, nu), brk |-> b]
    [] h.size[p] < nu /\ p = h.freep -> AfterMore(More(h, b, nu), b, nu)
    [] OTHER -> Scan(h, p, h.ptr[p], b, nu)

\* The first call makes a list of base alone.
WithBase(h) ==
  IF h.freep # NULL THEN h
  ELSE [h EXCEPT !.ptr[base] = base, !.size[base] = 0, !.freep = base]

Malloced(r) ==
  /\ heap' = r.t.h
  /\ brk' = r.brk
  /\ core' = core \cup (brk .. r.brk - 1)
  /\ allocated' = IF r.t.block = NULL THEN allocated ELSE allocated \cup {r.t.block}

malloc ==
  \E n \in NBytes :
    LET h == WithBase(heap)
    IN Malloced(Scan(h, h.freep, h.ptr[h.freep], brk, nunits(n)))

free_ ==
  \E bp \in allocated :
    /\ heap' = FreeBlock(heap, bp)
    /\ allocated' = allocated \ {bp}
    /\ UNCHANGED <<brk, core>>

\* The program may move the end of its memory itself.
OwnSbrk ==
  /\ brk <= HeapEnd
  /\ brk' = brk + 1
  /\ UNCHANGED <<heap, core, allocated>>

UmallocNext == malloc \/ free_ \/ OwnSbrk

-----------------------------------------------------------------------------
(* Property *)

RECURSIVE ListFrom(_, _)

\* The blocks of the list, until it comes back to one that is in S.
ListFrom(p, S) == IF p \in S THEN S ELSE ListFrom(heap.ptr[p], S \cup {p})

FreeList == IF heap.freep = NULL THEN {base} ELSE ListFrom(heap.freep, {})
Body(p) == p .. p + heap.size[p] - 1

\* The blocks on the list and those the program has tile the memory that
\* morecore() got: nothing overlaps, nothing is lost; the list comes back to its
\* start in the order of addresses, and no two free blocks touch (malloc, free).
HeapTiled ==
  LET blocks == FreeList \cup allocated
  IN /\ base \in FreeList /\ FreeList \cap allocated = {}
     /\ UNION {Body(p) : p \in blocks} = core
     /\ \A p, q \in blocks : p < q => p + heap.size[p] <= q
     /\ heap.freep # NULL => \A p \in FreeList :
          heap.ptr[p] = (IF \E q \in FreeList : q > p
                         THEN Min({q \in FreeList : q > p}) ELSE base)
     /\ \A p, q \in FreeList : q # p + heap.size[p] \/ heap.size[p] = 0

=============================================================================
