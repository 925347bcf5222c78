-------------------------------- MODULE Args --------------------------------
(***************************************************************************)
(* System call arguments (syscall.c): the tests that a word, a buffer or a *)
(* string lies inside the process's memory, in unsigned arithmetic that    *)
(* wraps at 2 * Top.                                                       *)
(***************************************************************************)
EXTENDS Integers, FiniteSets, FiniteSetsExt

CONSTANTS Top,     \* KERNBASE: no process is larger
          Word     \* bytes in an int

ASSUME ArgsAssumption == Top \in Nat /\ Word \in 1 .. Top

UInt == 0 .. 2 * Top - 1
Int_ == -Top .. Top - 1
u32(n) == n % (2 * Top)

VARIABLES
  procsz,   \* p->sz
  nul,      \* the addresses that hold a 0 byte
  arg      \* the last call: what it asked for, and its result

argVars == <<procsz, nul, arg>>

ArgsInit ==
  /\ procsz \in 0 .. Top
  /\ nul \in {S \in SUBSET (0 .. procsz - 1) : Cardinality(S) <= 2}
  /\ arg = [kind |-> "none", addr |-> 0, len |-> 0, res |-> 0]

Did(k, a, n, r) ==
  /\ arg.kind = "none"
  /\ arg' = [kind |-> k, addr |-> a, len |-> n, res |-> r]
  /\ UNCHANGED <<procsz, nul>>

\* fetchint(addr): 0, or -1.
fetchint(addr) == IF addr >= procsz \/ u32(addr + Word) > procsz THEN -1 ELSE 0

\* argint(n) reads the nth word above the return address at esp.
argint(esp, n) == fetchint(u32(esp + Word + Word * n))

\* Faulty variant of Outside: only the end is tested.
EndOutside(i, size) == size < 0 \/ u32(i + size) > procsz

\* argptr()'s test of the pointer i to size bytes.
Outside(i, size) == size < 0 \/ i >= procsz \/ u32(i + size) > procsz

argptr(i, size) == IF Outside(i, size) THEN -1 ELSE 0

\* fetchstr(addr): the length of the string, or -1.
fetchstr(addr) ==
  LET ends == {s \in nul : s >= addr}
  IN IF addr >= procsz \/ ends = {} THEN -1 ELSE Min(ends) - addr

ArgInt == \E esp \in UInt, n \in 0 .. 2 :
            Did("word", esp + Word + Word * n, Word, argint(esp, n))
ArgPtr == \E i \in UInt, size \in Int_ : Did("buffer", i, size, argptr(i, size))
ArgStr == \E addr \in UInt : Did("string", addr, 0, fetchstr(addr))

ArgsNext == ArgInt \/ ArgPtr \/ ArgStr

ArgsSpec == ArgsInit /\ [][ArgsNext]_argVars

\* A call accepts an argument exactly if all of its bytes, and a string's end,
\* are in the process's memory: no sum that wraps lets the kernel touch anything
\* else, and none refuses what is valid (an empty buffer must start inside).
ArgsInside ==
  LET a == u32(arg.addr)
      inside(n) == n >= 0 /\ a + n <= procsz /\ a < procsz
  IN CASE arg.kind \in {"word", "buffer"} -> arg.res = (IF inside(arg.len) THEN 0 ELSE -1)
       [] arg.kind = "string" ->
            IF \E s \in nul : s >= a
            THEN a + arg.res \in nul /\ (a .. a + arg.res - 1) \cap nul = {}
            ELSE arg.res = -1
       [] OTHER -> TRUE

=============================================================================
