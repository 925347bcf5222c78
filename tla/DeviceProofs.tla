---------------------------- MODULE DeviceProofs ----------------------------
(***************************************************************************)
(* Time and the console for every number of processes, every range of the  *)
(* tick counter and of the console's indices, and every size of its ring.  *)
(***************************************************************************)
EXTENDS Console, Clock, SequenceTheorems, TLAPS

-----------------------------------------------------------------------------
(* Remainders *)

\* The remainder is unique.
LEMMA ModUnique ==
  ASSUME NEW m \in Nat \ {0}, NEW k \in 0 .. m - 1, NEW q \in Int
  PROVE  (m * q + k) % m = k
OBVIOUS

\* The sum of two remainders ...
LEMMA ModSum ==
  ASSUME NEW m \in Nat \ {0}, NEW a \in 0 .. m - 1, NEW k \in 0 .. m - 1
  PROVE  (a + k) % m = IF a + k < m THEN a + k ELSE a + k - m
<1>1. CASE a + k < m  BY <1>1
<1>2. CASE a + k >= m
  <2>1. a + k - m \in 0 .. m - 1  BY <1>2
  <2>2. (m * 1 + (a + k - m)) % m = a + k - m  BY ONLY <2>1, ModUnique, m \in Nat \ {0}
  <2> QED  BY <1>2, <2>2
<1> QED  BY <1>1, <1>2

\* ... and their difference.
LEMMA ModDifference ==
  ASSUME NEW m \in Nat \ {0}, NEW a \in 0 .. m - 1, NEW b \in 0 .. m - 1
  PROVE  (b - a) % m = IF a <= b THEN b - a ELSE b - a + m
<1>1. CASE a <= b  BY <1>1
<1>2. CASE b < a
  <2>1. b - a + m \in 0 .. m - 1  BY <1>2
  <2>2. (m * (-1) + (b - a + m)) % m = b - a + m  BY ONLY <2>1, ModUnique, m \in Nat \ {0}
  <2> QED  BY <1>2, <2>2
<1> QED  BY <1>1, <1>2

\* Division with remainder.
LEMMA ModDiv ==
  ASSUME NEW m \in Nat \ {0}, NEW a \in Int
  PROVE  \E q \in Int : \E k \in 0 .. m - 1 : a = m * q + k /\ a % m = k
<1> DEFINE q == a \div m
           k == a % m
<1>1. k = a - m * q  OBVIOUS
<1>2. q \in Int /\ k \in 0 .. m - 1  OBVIOUS
<1> HIDE DEF q, k
<1>3. m * q \in Int  BY <1>2
<1>4. a = m * q + k  BY <1>1, <1>2, <1>3
<1> QED  BY <1>2, <1>4 DEF k

\* A multiple of m does not change a remainder.
LEMMA ModAdd ==
  ASSUME NEW m \in Nat \ {0}, NEW a \in Int, NEW b \in Int, a % m = 0
  PROVE  (a + b) % m = b % m
<1>1. PICK q \in Int : \E k \in 0 .. m - 1 : a = m * q + k /\ a % m = k  BY ModDiv
<1>2. a = m * q  BY <1>1
<1>3. PICK u \in Int : \E k \in 0 .. m - 1 : b = m * u + k /\ b % m = k  BY ModDiv
<1>4. PICK k \in 0 .. m - 1 : b = m * u + k /\ b % m = k  BY <1>3
<1>5. m * (q + u) = m * q + m * u /\ m * q \in Int /\ m * u \in Int  OBVIOUS
<1>6. a + b = m * (q + u) + k  BY <1>2, <1>4, <1>5
<1>7. (m * (q + u) + k) % m = k  BY ModUnique
<1> QED  BY <1>4, <1>6, <1>7

\* Of m successive numbers no two have the same remainder.
LEMMA ModInjective ==
  ASSUME NEW m \in Nat \ {0}, NEW a \in Int, NEW b \in Int,
         a <= b, b < a + m, a % m = b % m
  PROVE  a = b
<1>1. PICK q \in Int : \E k \in 0 .. m - 1 : a = m * q + k /\ a % m = k  BY ModDiv
<1>2. PICK u \in Int : \E k \in 0 .. m - 1 : b = m * u + k /\ b % m = k  BY ModDiv
<1>3. PICK k \in 0 .. m - 1 : a = m * q + k /\ b = m * u + k  BY <1>1, <1>2
<1> DEFINE d == u - q
<1>4. d \in Int /\ m * d = m * u - m * q  OBVIOUS
<1>5. m * q \in Int /\ m * u \in Int  OBVIOUS
<1>6. b - a = m * d  BY <1>3, <1>4, <1>5
<1> HIDE DEF d
<1>7. 0 <= m * d /\ m * d < m  BY <1>6
<1>8. CASE d >= 1
  <2>1. m * (d - 1) >= 0  BY <1>4, <1>8
  <2>2. m * d = m + m * (d - 1)  BY <1>4
  <2> QED  BY <1>4, <1>7, <2>1, <2>2
<1>9. CASE d <= -1
  <2>1. m * (-1 - d) >= 0  BY <1>4, <1>9
  <2>2. m * d = -m - m * (-1 - d)  BY <1>4
  <2> QED  BY <1>4, <1>7, <2>1, <2>2
<1>10. CASE d = 0  BY <1>6, <1>10
<1> QED  BY <1>4, <1>8, <1>9, <1>10

-----------------------------------------------------------------------------
(* Time *)

\* The types of the clock's variables.
ClockTypeOK ==
  /\ ticks \in 0 .. TickWrap - 1
  /\ tickslock \in Sleeper \cup {Unlocked}
  /\ at \in [Sleeper -> {"user", "loop", "sleep", "asleep", "wake"}]
  /\ n \in [Sleeper -> Duration \cup {0}]
  /\ ticks0 \in [Sleeper -> 0 .. TickWrap - 1]
  /\ elapsed \in [Sleeper -> Nat]

\* The process between acquire() and release() of tickslock is its holder.
TicksLockInv == \A p \in Sleeper : at[p] \in {"loop", "sleep"} <=> tickslock = p

\* The counter has moved on by the periods that have passed, less than it can
\* count.
ElapsedInv ==
  \A p \in Sleeper : at[p] # "user" =>
    /\ elapsed[p] < TickWrap
    /\ ticks = (ticks0[p] + elapsed[p]) % TickWrap

\* Nobody who is asleep, or about to be, is due: no tick is missed.
NoTickMissed == \A p \in Sleeper : at[p] \in {"sleep", "asleep"} => ~Due(p)

ClockInv == ClockTypeOK /\ TicksLockInv /\ ElapsedInv /\ NoTickMissed

\* The unsigned difference sys_sleep() computes is the time it has waited.
LEMMA DifferenceIsElapsed ==
  ASSUME ClockTypeOK, ElapsedInv, NEW p \in Sleeper, at[p] # "user"
  PROVE  (ticks - ticks0[p]) % TickWrap = elapsed[p]
<1> DEFINE a == ticks0[p]
           d == elapsed[p]
<1>1. TickWrap \in Nat \ {0}  BY ClockAssumption
<1>2. a \in 0 .. TickWrap - 1 /\ d \in 0 .. TickWrap - 1 /\ ticks = (a + d) % TickWrap
  BY <1>1 DEF ClockTypeOK, ElapsedInv
<1> HIDE DEF a, d
<1>3. ticks = IF a + d < TickWrap THEN a + d ELSE a + d - TickWrap  BY <1>1, <1>2, ModSum
<1>4. ticks \in 0 .. TickWrap - 1  BY <1>1, <1>2, <1>3
<1>5. (ticks - a) % TickWrap = IF a <= ticks THEN ticks - a ELSE ticks - a + TickWrap
  BY <1>1, <1>2, <1>4, ModDifference
<1>6. (ticks - a) % TickWrap = d  BY <1>1, <1>2, <1>3, <1>5
<1> QED  BY <1>6 DEF a, d

LEMMA ClockInitInv == ClockInit => ClockInv
<1> SUFFICES ASSUME ClockInit PROVE ClockInv  OBVIOUS
<1> USE ClockAssumption DEF ClockInit
<1>1. ClockTypeOK  BY DEF ClockTypeOK
<1>2. TicksLockInv  BY DEF TicksLockInv
<1>3. ElapsedInv /\ NoTickMissed  BY DEF ElapsedInv, NoTickMissed
<1> QED  BY <1>1, <1>2, <1>3 DEF ClockInv

\* The timer interrupt of CPU 0 moves every waiting process one period on.
LEMMA TimerInv ==
  ASSUME ClockInv, NEW c \in Cpu, Timer(c)
  PROVE  ClockInv'
<1> USE ClockAssumption DEF ClockInv
<1>1. CASE c # 0
  <2>1. UNCHANGED clockVars  BY <1>1 DEF Timer
  <2> QED  BY <2>1 DEF clockVars, ClockTypeOK, TicksLockInv, ElapsedInv, NoTickMissed, Due
<1>2. CASE c = 0
  <2>a. /\ tickslock = Unlocked /\ ticks' = (ticks + 1) % TickWrap /\ at' = TickWakes
        /\ \A p \in Sleeper : at[p] # "user" => elapsed[p] < TickWrap - 1
        /\ elapsed' = [p \in Sleeper |-> IF at[p] = "user" THEN 0 ELSE elapsed[p] + 1]
        /\ UNCHANGED <<tickslock, n, ticks0, marked>>
    BY <1>2 DEF Timer
  <2>b. /\ at' \in [Sleeper -> {"user", "loop", "sleep", "asleep", "wake"}]
        /\ \A p \in Sleeper : at'[p] = IF at[p] = "asleep" THEN "wake" ELSE at[p]
    BY <2>a DEF TickWakes, ClockTypeOK
  <2>1. ClockTypeOK'
    <3>1. ticks' \in 0 .. TickWrap - 1  BY <2>a DEF ClockTypeOK
    <3>2. elapsed' \in [Sleeper -> Nat]  BY <2>a DEF ClockTypeOK
    <3> QED  BY <2>a, <2>b, <3>1, <3>2 DEF ClockTypeOK
  <2>2. TicksLockInv'  BY <2>a, <2>b DEF TicksLockInv
  <2>3. ElapsedInv'
    <3> SUFFICES ASSUME NEW p \in Sleeper, at'[p] # "user"
                 PROVE  /\ elapsed'[p] < TickWrap
                        /\ ticks' = (ticks0'[p] + elapsed'[p]) % TickWrap
      BY DEF ElapsedInv
    <3> DEFINE a == ticks0[p]
               d == elapsed[p]
    <3>1. at[p] # "user"  BY <2>b
    <3>2. d \in Nat /\ d + 1 < TickWrap /\ a \in 0 .. TickWrap - 1 /\ ticks = (a + d) % TickWrap
      BY <2>a, <3>1 DEF ClockTypeOK, ElapsedInv
    <3>3. elapsed'[p] = d + 1 /\ ticks0'[p] = a  BY <2>a, <3>1
    <3> HIDE DEF a, d
    <3>m. TickWrap \in Nat \ {0} /\ d \in 0 .. TickWrap - 1 /\ d + 1 \in 0 .. TickWrap - 1
      BY <3>2
    <3>4. ticks = IF a + d < TickWrap THEN a + d ELSE a + d - TickWrap
      BY <3>2, <3>m, ModSum
    <3>5. ticks' = IF ticks + 1 < TickWrap THEN ticks + 1 ELSE ticks + 1 - TickWrap
      <4>1. ticks \in 0 .. TickWrap - 1 /\ 1 \in 0 .. TickWrap - 1  BY <3>2 DEF ClockTypeOK
      <4> QED  BY <2>a, <3>m, <4>1, ModSum
    <3>6. (a + (d + 1)) % TickWrap
             = IF a + (d + 1) < TickWrap THEN a + (d + 1) ELSE a + (d + 1) - TickWrap
      BY <3>2, <3>m, ModSum
    <3>7. ticks' = (a + (d + 1)) % TickWrap  BY <3>2, <3>4, <3>5, <3>6
    <3> QED  BY <3>2, <3>3, <3>7
  <2>4. NoTickMissed'  BY <2>a, <2>b DEF NoTickMissed, TicksLockInv
  <2> QED  BY <2>1, <2>2, <2>3, <2>4
<1> QED  BY <1>1, <1>2

\* sys_sleep() reads the counter.
LEMMA SysSleepInv ==
  ASSUME ClockInv, NEW p \in Sleeper, sys_sleep(p)
  PROVE  ClockInv'
<1> USE ClockAssumption DEF ClockInv, sys_sleep, Move
<1>1. ClockTypeOK'
  <2>1. PICK d \in Duration : n' = [n EXCEPT ![p] = d]  OBVIOUS
  <2>2. n' \in [Sleeper -> Duration \cup {0}]  BY <2>1 DEF ClockTypeOK
  <2> QED  BY <2>2 DEF ClockTypeOK
<1>2. TicksLockInv'  BY DEF TicksLockInv, ClockTypeOK
<1>3. ElapsedInv'
  <2> SUFFICES ASSUME NEW q \in Sleeper, at'[q] # "user"
               PROVE  /\ elapsed'[q] < TickWrap
                      /\ ticks' = (ticks0'[q] + elapsed'[q]) % TickWrap
    BY DEF ElapsedInv
  <2>1. CASE q = p
    <3>1. ticks0'[p] = ticks /\ elapsed'[p] = 0 /\ ticks' = ticks  BY DEF ClockTypeOK
    <3>2. (ticks + 0) % TickWrap = ticks  BY DEF ClockTypeOK
    <3> QED  BY <2>1, <3>1, <3>2
  <2>2. CASE q # p  BY <2>2 DEF ElapsedInv, ClockTypeOK
  <2> QED  BY <2>1, <2>2
<1>4. NoTickMissed'
  <2>1. PICK d \in Duration : n' = [n EXCEPT ![p] = d]  OBVIOUS
  <2> QED  BY <2>1 DEF NoTickMissed, Due, ClockTypeOK
<1> QED  BY <1>1, <1>2, <1>3, <1>4

\* The test, sleep() and the way back from it.
LEMMA SleepStepInv ==
  ASSUME ClockInv, NEW p \in Sleeper, SleepStep(p) \/ SleeperKilled(p)
  PROVE  ClockInv'
<1> USE ClockAssumption DEF ClockInv, Move
<1>a. UNCHANGED <<ticks, n, ticks0, elapsed>>
  BY DEF SleepStep, SleepTest, TickSleep, TickWake, SleeperKilled
<1>b. /\ at' \in [Sleeper -> {"user", "loop", "sleep", "asleep", "wake"}]
      /\ \A q \in Sleeper \ {p} : at'[q] = at[q]
      /\ at'[p] # "user" => at[p] # "user"
  BY DEF SleepStep, SleepTest, TickSleep, TickWake, SleeperKilled, ClockTypeOK
<1>1. ClockTypeOK'
  <2>1. tickslock' \in Sleeper \cup {Unlocked}
    BY DEF SleepStep, SleepTest, TickSleep, TickWake, SleeperKilled, ClockTypeOK
  <2> QED  BY <1>a, <1>b, <2>1 DEF ClockTypeOK
<1>2. TicksLockInv'
  <2>1. CASE SleepTest(p)  BY <2>1 DEF SleepTest, TicksLockInv, ClockTypeOK
  <2>2. CASE TickSleep(p)  BY <2>2 DEF TickSleep, TicksLockInv, ClockTypeOK
  <2>3. CASE TickWake(p)  BY <2>3 DEF TickWake, TicksLockInv, ClockTypeOK
  <2>4. CASE SleeperKilled(p)  BY <2>4 DEF SleeperKilled, TicksLockInv, ClockTypeOK
  <2> QED  BY <2>1, <2>2, <2>3, <2>4 DEF SleepStep
<1>3. ElapsedInv'  BY <1>a, <1>b DEF ElapsedInv
<1>4. NoTickMissed'
  <2>1. \A q \in Sleeper : Due(q)' <=> Due(q)  BY <1>a DEF Due
  <2>2. at'[p] \in {"sleep", "asleep"} => at[p] \in {"sleep", "asleep"} \/ ~Due(p)
    BY DEF SleepStep, SleepTest, TickSleep, TickWake, SleeperKilled, ClockTypeOK
  <2> QED  BY <1>b, <2>1, <2>2 DEF NoTickMissed
<1> QED  BY <1>1, <1>2, <1>3, <1>4

LEMMA ClockStep == ClockInv /\ [ClockNext]_clockVars => ClockInv'
<1> SUFFICES ASSUME ClockInv, [ClockNext]_clockVars PROVE ClockInv'  OBVIOUS
<1>1. CASE \E c \in Cpu : Timer(c)  BY <1>1, TimerInv
<1>2. ASSUME NEW p \in Sleeper, sys_sleep(p) \/ SleepStep(p) \/ SleeperKilled(p)
      PROVE  ClockInv'
  BY <1>2, SysSleepInv, SleepStepInv
<1>3. CASE UNCHANGED clockVars
  BY <1>3 DEF ClockInv, clockVars, ClockTypeOK, TicksLockInv, ElapsedInv, NoTickMissed, Due
<1> QED  BY <1>1, <1>2, <1>3 DEF ClockNext

\* The clock's invariant: tickslock is held by whom the code says, the counter
\* measures the time every sleeper has waited, and nobody is asleep who is due.
THEOREM ClockInvariant == ClockSpec => []ClockInv
<1>1. ClockInit => ClockInv  BY ClockInitInv
<1>2. ClockInv /\ [ClockNext]_clockVars => ClockInv'  BY ClockStep
<1> QED  BY <1>1, <1>2, PTL DEF ClockSpec

\* sys_sleep() returns after its n timer periods or because of kill(), for every
\* range of the counter and every n, negative ones included.
THEOREM SleepsLongEnough == ClockSpec => SleptLongEnough
<1> DEFINE A == \A p \in Sleeper : at[p] = "loop" /\ at'[p] = "user" =>
                  p \in marked \/ elapsed[p] >= n[p] % TickWrap
<1>1. ClockInv /\ [ClockNext]_clockVars => [A]_clockVars
  <2> SUFFICES ASSUME ClockInv, [ClockNext]_clockVars, ~UNCHANGED clockVars,
                      NEW p \in Sleeper, at[p] = "loop", at'[p] = "user"
               PROVE  p \in marked \/ elapsed[p] >= n[p] % TickWrap
    OBVIOUS
  <2> USE DEF ClockInv
  <2>1. SleepTest(p)
    <3>1. ASSUME NEW c \in Cpu, Timer(c) PROVE FALSE
      BY <3>1 DEF Timer, TickWakes, clockVars, ClockTypeOK
    <3>2. ASSUME NEW q \in Sleeper, sys_sleep(q) \/ SleepStep(q) \/ SleeperKilled(q)
          PROVE  q = p /\ SleepTest(p)
      BY <3>2 DEF sys_sleep, SleepStep, SleepTest, TickSleep, TickWake, SleeperKilled, Move,
         ClockTypeOK
    <3> QED  BY <3>1, <3>2 DEF ClockNext
  <2>2. Due(p) \/ p \in marked  BY <2>1 DEF SleepTest, Move, ClockTypeOK
  <2>3. (ticks - ticks0[p]) % TickWrap = elapsed[p]  BY DifferenceIsElapsed
  <2> QED  BY <2>2, <2>3 DEF Due
<1>2. ClockSpec => []ClockInv  BY ClockInvariant
<1> QED  BY <1>1, <1>2, PTL DEF ClockSpec, SleptLongEnough

-----------------------------------------------------------------------------
(* The console's ring *)

Ring == [0 .. INPUT_BUF - 1 -> Char \cup {NoChar}]
Index == 0 .. Wrap - 1

\* The characters of the array d from index i up to j, and how many they are.
Dist(i, j) == (j - i) % Wrap
Chars(d, i, j) == [k \in 1 .. Dist(i, j) |-> d[(i + k - 1) % INPUT_BUF]]

\* Distances without remainders.
LEMMA DistFacts ==
  ASSUME NEW i \in Index, NEW j \in Index
  PROVE  /\ Dist(i, j) \in 0 .. Wrap - 1
         /\ Dist(i, j) = IF i <= j THEN j - i ELSE j - i + Wrap
<1>1. Wrap \in Nat \ {0}  BY ConsoleAssumption
<1>2. Dist(i, j) = IF i <= j THEN j - i ELSE j - i + Wrap
  BY <1>1, ModDifference DEF Dist, Index
<1> QED  BY <1>1, <1>2 DEF Index

\* An index moves by less than its range.
LEMMA IndexSum ==
  ASSUME NEW i \in Index, NEW k \in 0 .. Wrap - 1
  PROVE  (i + k) % Wrap = IF i + k < Wrap THEN i + k ELSE i + k - Wrap
<1>1. Wrap \in Nat \ {0}  BY ConsoleAssumption
<1> QED  BY <1>1, ModSum DEF Index

\* Two stretches that together fit into the ring make one.
LEMMA DistSum ==
  ASSUME NEW i \in Index, NEW j \in Index, NEW k \in Index,
         Dist(i, j) + Dist(j, k) <= INPUT_BUF
  PROVE  Dist(i, k) = Dist(i, j) + Dist(j, k)
<1>1. Wrap \in Nat /\ INPUT_BUF \in Nat /\ INPUT_BUF < Wrap  BY ConsoleAssumption
<1>2. /\ Dist(i, j) = IF i <= j THEN j - i ELSE j - i + Wrap
      /\ Dist(j, k) = IF j <= k THEN k - j ELSE k - j + Wrap
      /\ Dist(i, k) = IF i <= k THEN k - i ELSE k - i + Wrap
  BY DistFacts
<1> QED  BY <1>1, <1>2 DEF Index

\* Conversely, a stretch is split where a reader or the editor stands.
LEMMA DistStep ==
  ASSUME NEW i \in Index, NEW j \in Index
  PROVE  /\ Inc(i) \in Index
         /\ Dist(i, j) < Wrap - 1 => Dist(i, Inc(j)) = Dist(i, j) + 1
         /\ i # j => Dist(Inc(i), j) = Dist(i, j) - 1 /\ Dist(i, j) > 0
         /\ Dist(i, i) = 0
         /\ Inc(j) = (i + INPUT_BUF) % Wrap <=> Dist(i, Inc(j)) = INPUT_BUF
<1>1. Wrap \in Nat /\ INPUT_BUF \in Nat \ {0} /\ INPUT_BUF < Wrap  BY ConsoleAssumption
<1>2. 1 \in 0 .. Wrap - 1 /\ INPUT_BUF \in 0 .. Wrap - 1  BY <1>1
<1>3. /\ Inc(i) = IF i + 1 < Wrap THEN i + 1 ELSE i + 1 - Wrap
      /\ Inc(j) = IF j + 1 < Wrap THEN j + 1 ELSE j + 1 - Wrap
      /\ (i + INPUT_BUF) % Wrap = IF i + INPUT_BUF < Wrap THEN i + INPUT_BUF ELSE i + INPUT_BUF - Wrap
  BY <1>2, IndexSum DEF Inc
<1>4. Inc(i) \in Index /\ Inc(j) \in Index  BY <1>1, <1>3 DEF Index
<1>5. /\ Dist(i, j) = IF i <= j THEN j - i ELSE j - i + Wrap
      /\ Dist(i, Inc(j)) = IF i <= Inc(j) THEN Inc(j) - i ELSE Inc(j) - i + Wrap
      /\ Dist(Inc(i), j) = IF Inc(i) <= j THEN j - Inc(i) ELSE j - Inc(i) + Wrap
      /\ Dist(i, i) = IF i <= i THEN i - i ELSE i - i + Wrap
  BY <1>4, DistFacts
<1> DEFINE ii == Inc(i)
           jj == Inc(j)
           f == (i + INPUT_BUF) % Wrap
<1> HIDE DEF ii, jj, f
<1>6. Dist(i, j) < Wrap - 1 => Dist(i, jj) = Dist(i, j) + 1
  BY <1>1, <1>3, <1>5 DEF Index, jj
<1>7. i # j => Dist(ii, j) = Dist(i, j) - 1 /\ Dist(i, j) > 0
  BY <1>1, <1>3, <1>5 DEF Index, ii
<1>8. jj = f <=> Dist(i, jj) = INPUT_BUF
  <2>1. /\ jj \in 0 .. Wrap - 1 /\ i \in 0 .. Wrap - 1
        /\ f = IF i + INPUT_BUF < Wrap THEN i + INPUT_BUF ELSE i + INPUT_BUF - Wrap
        /\ Dist(i, jj) = IF i <= jj THEN jj - i ELSE jj - i + Wrap
    BY <1>3, <1>4, <1>5 DEF Index, jj, f
  <2> QED  BY <1>1, <2>1
<1>9. Dist(i, i) = 0  BY <1>5 DEF Index
<1> QED  BY <1>4, <1>6, <1>7, <1>8, <1>9 DEF ii, jj, f

\* An index that moves back stays inside the stretch it ends.
LEMMA DistBack ==
  ASSUME NEW i \in Index, NEW j \in Index, NEW m \in 0 .. Dist(i, j)
  PROVE  /\ (j - m) % Wrap \in Index
         /\ Dist(i, (j - m) % Wrap) = Dist(i, j) - m
<1>1. Wrap \in Nat \ {0}  BY ConsoleAssumption
<1>2. /\ Dist(i, j) \in 0 .. Wrap - 1
      /\ Dist(i, j) = IF i <= j THEN j - i ELSE j - i + Wrap
  BY DistFacts
<1>3. m \in 0 .. Wrap - 1  BY <1>1, <1>2
<1> DEFINE jj == (j - m) % Wrap
<1>4. jj = IF m <= j THEN j - m ELSE j - m + Wrap  BY <1>1, <1>3, ModDifference DEF Index
<1> HIDE DEF jj
<1>5. jj \in Index  BY <1>1, <1>3, <1>4 DEF Index
<1>6. Dist(i, jj) = IF i <= jj THEN jj - i ELSE jj - i + Wrap  BY <1>5, DistFacts
<1>7. Dist(i, jj) = Dist(i, j) - m  BY <1>1, <1>2, <1>3, <1>4, <1>6 DEF Index
<1> QED  BY <1>5, <1>7 DEF jj

\* A wrapped index is at the same place of the ring.
LEMMA Position ==
  ASSUME NEW i \in Index, NEW k \in 0 .. Wrap - 1
  PROVE  ((i + k) % Wrap) % INPUT_BUF = (i + k) % INPUT_BUF
<1> DEFINE j == i + k - Wrap
<1>1. INPUT_BUF \in Nat \ {0} /\ Wrap \in Int /\ Wrap % INPUT_BUF = 0  BY ConsoleAssumption
<1>2. CASE i + k < Wrap  BY <1>2, IndexSum
<1>3. CASE i + k >= Wrap
  <2>1. (i + k) % Wrap = j  BY <1>1, <1>3, IndexSum DEF Index
  <2>2. j \in Int /\ Wrap + j = i + k  BY <1>1 DEF Index
  <2> HIDE DEF j
  <2>3. (Wrap + j) % INPUT_BUF = j % INPUT_BUF  BY <1>1, <2>2, ModAdd, Zenon
  <2> QED  BY <2>1, <2>2, <2>3
<1> QED  BY <1>1, <1>2, <1>3 DEF Index

\* A stretch of the ring, as the code's indices give it.
Stretch(d, i, j) == [k \in 1 .. (j - i) % Wrap |-> d[((i + k - 1) % Wrap) % INPUT_BUF]]

LEMMA StretchChars ==
  ASSUME NEW d, NEW i \in Index, NEW j \in Index
  PROVE  Stretch(d, i, j) = Chars(d, i, j)
<1>1. Dist(i, j) \in 0 .. Wrap - 1 /\ Wrap \in Nat  BY DistFacts, ConsoleAssumption
<1>2. ASSUME NEW k \in 1 .. Dist(i, j)
      PROVE  ((i + k - 1) % Wrap) % INPUT_BUF = (i + k - 1) % INPUT_BUF
  <2> DEFINE l == k - 1
  <2>1. l \in 0 .. Wrap - 1 /\ i + k - 1 = i + l  BY <1>1 DEF Index
  <2> HIDE DEF l
  <2>2. ((i + l) % Wrap) % INPUT_BUF = (i + l) % INPUT_BUF  BY <2>1, Position
  <2> QED  BY <2>1, <2>2
<1> QED  BY <1>2 DEF Stretch, Chars, Dist

LEMMA CharsFacts ==
  ASSUME NEW d \in Ring, NEW i \in Index, NEW j \in Index
  PROVE  /\ Chars(d, i, j) \in Seq(Char \cup {NoChar}) /\ Len(Chars(d, i, j)) = Dist(i, j)
         /\ \A k \in 1 .. Dist(i, j) : Chars(d, i, j)[k] = d[(i + k - 1) % INPUT_BUF]
<1>1. Dist(i, j) \in Nat
  <2>1. Dist(i, j) \in 0 .. Wrap - 1  BY DistFacts
  <2> QED  BY <2>1
<1>2. ASSUME NEW k \in 1 .. Dist(i, j)
      PROVE  d[(i + k - 1) % INPUT_BUF] \in Char \cup {NoChar}
  <2>1. i + k - 1 \in Int  BY <1>1, ConsoleAssumption DEF Index
  <2>2. (i + k - 1) % INPUT_BUF \in 0 .. INPUT_BUF - 1  BY <2>1, ConsoleAssumption
  <2> QED  BY <2>2 DEF Ring
<1> QED  BY <1>1, <1>2 DEF Chars

\* The next place to write to holds none of the characters before it.
LEMMA OtherPlace ==
  ASSUME NEW i \in Index, NEW j \in Index, Dist(i, j) < INPUT_BUF
  PROVE  /\ j % INPUT_BUF \in 0 .. INPUT_BUF - 1
         /\ j % INPUT_BUF = (i + Dist(i, j)) % INPUT_BUF
         /\ \A k \in 1 .. Dist(i, j) :
              /\ (i + k - 1) % INPUT_BUF \in 0 .. INPUT_BUF - 1
              /\ (i + k - 1) % INPUT_BUF # j % INPUT_BUF
<1> DEFINE c == Dist(i, j)
<1>1. INPUT_BUF \in Nat \ {0} /\ Wrap \in Nat \ {0} /\ i \in Int /\ j \in Int
  BY ConsoleAssumption DEF Index
<1>2. c \in 0 .. Wrap - 1 /\ c = IF i <= j THEN j - i ELSE j - i + Wrap  BY DistFacts
<1> HIDE DEF c
<1>3. j = (i + c) % Wrap
  <2>1. (i + c) % Wrap = IF i + c < Wrap THEN i + c ELSE i + c - Wrap  BY <1>2, IndexSum
  <2> QED  BY <1>1, <1>2, <2>1 DEF Index
<1>4. ((i + c) % Wrap) % INPUT_BUF = (i + c) % INPUT_BUF  BY <1>2, Position
<1>5. ASSUME NEW k \in 1 .. c
      PROVE  /\ (i + k - 1) % INPUT_BUF \in 0 .. INPUT_BUF - 1
             /\ (i + k - 1) % INPUT_BUF # j % INPUT_BUF
  <2> DEFINE a == i + k - 1
             b == i + c
  <2>1. a \in Int /\ b \in Int /\ a <= b /\ b < a + INPUT_BUF /\ a # b
    BY <1>1, <1>2 DEF c
  <2> HIDE DEF a, b
  <2>2. a % INPUT_BUF # b % INPUT_BUF  BY <1>1, <2>1, ModInjective
  <2>3. a % INPUT_BUF \in 0 .. INPUT_BUF - 1  BY <1>1, <2>1
  <2> QED  BY <1>3, <1>4, <2>2, <2>3 DEF a, b
<1>6. j % INPUT_BUF \in 0 .. INPUT_BUF - 1  BY <1>1
<1> QED  BY <1>3, <1>4, <1>5, <1>6 DEF c

\* A character more at the end.
LEMMA RingPut ==
  ASSUME NEW d \in Ring, NEW i \in Index, NEW j \in Index, NEW c \in Char,
         Dist(i, j) < INPUT_BUF
  PROVE  Chars([d EXCEPT ![j % INPUT_BUF] = c], i, Inc(j)) = Append(Chars(d, i, j), c)
<1> DEFINE m == Dist(i, j)
           d1 == [d EXCEPT ![j % INPUT_BUF] = c]
           s == Chars(d, i, j)
           s1 == Chars(d1, i, Inc(j))
<1>1. m \in Nat /\ m < INPUT_BUF /\ Inc(j) \in Index /\ Dist(i, Inc(j)) = m + 1
  <2>1. m \in 0 .. Wrap - 1 /\ INPUT_BUF < Wrap /\ INPUT_BUF \in Nat /\ Wrap \in Nat
    BY DistFacts, ConsoleAssumption
  <2>2. Inc(j) \in Index  BY DistStep
  <2>3. m < Wrap - 1  BY <2>1
  <2> QED  BY <2>1, <2>2, <2>3, DistStep
<1>2. /\ j % INPUT_BUF \in 0 .. INPUT_BUF - 1
      /\ j % INPUT_BUF = (i + m) % INPUT_BUF
      /\ \A k \in 1 .. m : /\ (i + k - 1) % INPUT_BUF \in 0 .. INPUT_BUF - 1
                           /\ (i + k - 1) % INPUT_BUF # j % INPUT_BUF
  BY OtherPlace
<1>3. d1 \in Ring  BY DEF Ring
<1>4. /\ s \in Seq(Char \cup {NoChar}) /\ Len(s) = m
      /\ \A k \in 1 .. m : s[k] = d[(i + k - 1) % INPUT_BUF]
  BY CharsFacts
<1>5. /\ s1 \in Seq(Char \cup {NoChar}) /\ Len(s1) = m + 1
      /\ \A k \in 1 .. m + 1 : s1[k] = d1[(i + k - 1) % INPUT_BUF]
  <2> HIDE DEF d1, m
  <2>1. /\ s1 \in Seq(Char \cup {NoChar}) /\ Len(s1) = Dist(i, Inc(j))
        /\ \A k \in 1 .. Dist(i, Inc(j)) : s1[k] = d1[(i + k - 1) % INPUT_BUF]
    BY <1>1, <1>3, CharsFacts
  <2> QED  BY <1>1, <2>1
<1> HIDE DEF s, s1, m
<1>6. \A k \in 1 .. m : s1[k] = s[k]
  <2> SUFFICES ASSUME NEW k \in 1 .. m PROVE s1[k] = s[k]  OBVIOUS
  <2>1. k \in 1 .. m + 1  BY <1>1
  <2>2. s1[k] = d1[(i + k - 1) % INPUT_BUF]  BY <1>5, <2>1
  <2>3. d1[(i + k - 1) % INPUT_BUF] = d[(i + k - 1) % INPUT_BUF]  BY <1>2 DEF Ring
  <2> QED  BY <1>4, <2>2, <2>3
<1>7. s1[m + 1] = c
  <2>1. m + 1 \in 1 .. m + 1  BY <1>1
  <2>2. i + (m + 1) - 1 = i + m  BY <1>1, ConsoleAssumption DEF Index
  <2>3. s1[m + 1] = d1[(i + m) % INPUT_BUF]  BY <1>5, <2>1, <2>2
  <2> QED  BY <1>2, <2>3 DEF Ring
<1> HIDE DEF d1
<1>8. s1 = Append(s, c)
  <2> DEFINE t == Append(s, c)
  <2>1. /\ t \in Seq(Char \cup {NoChar}) /\ Len(t) = m + 1 /\ t[m + 1] = c
        /\ \A k \in 1 .. m : t[k] = s[k]
    BY <1>1, <1>4
  <2> HIDE DEF t
  <2>2. ASSUME NEW k \in 1 .. m + 1 PROVE t[k] = s1[k]
    <3>1. CASE k = m + 1  BY <1>7, <2>1, <3>1
    <3>2. CASE k \in 1 .. m  BY <1>6, <2>1, <3>2
    <3> QED  BY <1>1, <3>1, <3>2
  <2>3. t = s1  BY <1>1, <1>5, <2>1, <2>2, SeqEqual
  <2> QED  BY <2>3 DEF t
<1> QED  BY <1>8 DEF s, s1, d1

\* The characters before the last ones are not touched.
LEMMA RingKeep ==
  ASSUME NEW d \in Ring, NEW i \in Index, NEW h \in Index, NEW j \in Index, NEW c \in Char,
         Dist(i, h) + Dist(h, j) < INPUT_BUF
  PROVE  Chars([d EXCEPT ![j % INPUT_BUF] = c], i, h) = Chars(d, i, h)
<1> DEFINE d1 == [d EXCEPT ![j % INPUT_BUF] = c]
<1>1. Dist(i, h) \in Nat /\ Dist(h, j) \in Nat /\ INPUT_BUF \in Nat
  <2>1. Dist(i, h) \in 0 .. Wrap - 1 /\ Dist(h, j) \in 0 .. Wrap - 1  BY DistFacts
  <2> QED  BY <2>1, ConsoleAssumption
<1>2. Dist(i, j) = Dist(i, h) + Dist(h, j)  BY <1>1, DistSum
<1>3. \A k \in 1 .. Dist(i, j) :
        /\ (i + k - 1) % INPUT_BUF \in 0 .. INPUT_BUF - 1
        /\ (i + k - 1) % INPUT_BUF # j % INPUT_BUF
  BY <1>2, OtherPlace
<1>4. \A k \in 1 .. Dist(i, h) : d1[(i + k - 1) % INPUT_BUF] = d[(i + k - 1) % INPUT_BUF]
  <2> SUFFICES ASSUME NEW k \in 1 .. Dist(i, h)
               PROVE  d1[(i + k - 1) % INPUT_BUF] = d[(i + k - 1) % INPUT_BUF]
    OBVIOUS
  <2>1. k \in 1 .. Dist(i, j)  BY <1>1, <1>2
  <2> QED  BY <1>3, <2>1 DEF Ring
<1> HIDE DEF d1
<1>5. Chars(d1, i, h) = Chars(d, i, h)  BY <1>4 DEF Chars
<1> QED  BY <1>5 DEF d1

\* A character less at the beginning.
LEMMA RingGet ==
  ASSUME NEW d \in Ring, NEW i \in Index, NEW j \in Index, i # j
  PROVE  Chars(d, i, j) # <<>> /\ Chars(d, Inc(i), j) = Tail(Chars(d, i, j))
<1> DEFINE m == Dist(i, j)
           i1 == Inc(i)
           s == Chars(d, i, j)
           s1 == Chars(d, Inc(i), j)
<1>1. m \in Nat \ {0} /\ i1 \in Index /\ Dist(i1, j) = m - 1
  <2>1. m \in 0 .. Wrap - 1 /\ Wrap \in Nat  BY DistFacts, ConsoleAssumption
  <2>2. Inc(i) \in Index /\ Dist(Inc(i), j) = Dist(i, j) - 1 /\ Dist(i, j) > 0  BY DistStep
  <2> QED  BY <2>1, <2>2
<1>2. i1 = IF i + 1 < Wrap THEN i + 1 ELSE i + 1 - Wrap
  <2>1. 1 \in 0 .. Wrap - 1  BY ConsoleAssumption
  <2> QED  BY <2>1, IndexSum DEF Inc
<1>3. /\ s \in Seq(Char \cup {NoChar}) /\ Len(s) = m
      /\ \A k \in 1 .. m : s[k] = d[(i + k - 1) % INPUT_BUF]
  BY CharsFacts
<1>4. /\ s1 \in Seq(Char \cup {NoChar}) /\ Len(s1) = m - 1
      /\ \A k \in 1 .. m - 1 : s1[k] = d[(i1 + k - 1) % INPUT_BUF]
  <2> HIDE DEF m
  <2>1. /\ s1 \in Seq(Char \cup {NoChar}) /\ Len(s1) = Dist(i1, j)
        /\ \A k \in 1 .. Dist(i1, j) : s1[k] = d[(i1 + k - 1) % INPUT_BUF]
    BY <1>1, CharsFacts
  <2> QED  BY <1>1, <2>1
<1> HIDE DEF s, s1, m, i1
<1>5. ASSUME NEW k \in 1 .. m - 1
      PROVE  (i1 + k - 1) % INPUT_BUF = (i + (k + 1) - 1) % INPUT_BUF
  <2>a. INPUT_BUF \in Nat \ {0} /\ Wrap \in Nat /\ Wrap % INPUT_BUF = 0 /\ i \in Int /\ k \in Int
    BY <1>1, ConsoleAssumption DEF Index
  <2>1. CASE i + 1 < Wrap
    <3>1. i1 + k - 1 = i + (k + 1) - 1  BY <1>2, <2>a, <2>1
    <3> QED  BY <3>1
  <2>2. CASE i + 1 >= Wrap
    <3> DEFINE l == k - 1
    <3>1. l \in Int /\ i1 + k - 1 = l /\ i + (k + 1) - 1 = Wrap + l
      BY <1>2, <2>a, <2>2 DEF Index
    <3> HIDE DEF l
    <3>2. Wrap \in Int  BY <2>a
    <3>3. (Wrap + l) % INPUT_BUF = l % INPUT_BUF  BY <2>a, <3>1, <3>2, ModAdd
    <3> QED  BY <3>1, <3>3
  <2> QED  BY <2>a, <2>1, <2>2
<1>6. \A k \in 1 .. m - 1 : s1[k] = s[k + 1]
  <2> SUFFICES ASSUME NEW k \in 1 .. m - 1 PROVE s1[k] = s[k + 1]  OBVIOUS
  <2>1. k + 1 \in 1 .. m  BY <1>1
  <2>2. s[k + 1] = d[(i + (k + 1) - 1) % INPUT_BUF]  BY <1>3, <2>1
  <2> QED  BY <1>4, <1>5, <2>2
<1>7. s # <<>>  BY <1>1, <1>3
<1>8. s1 = Tail(s)  BY <1>1, <1>3, <1>4, <1>6, <1>7
<1> QED  BY <1>7, <1>8 DEF s, s1

\* m characters less at the end.
LEMMA RingCut ==
  ASSUME NEW d \in Ring, NEW i \in Index, NEW j \in Index, NEW m \in 0 .. Dist(i, j)
  PROVE  Chars(d, i, (j - m) % Wrap) = SubSeq(Chars(d, i, j), 1, Dist(i, j) - m)
<1> DEFINE c == Dist(i, j)
           jj == (j - m) % Wrap
           s == Chars(d, i, j)
           s1 == Chars(d, i, jj)
<1>1. c \in Nat /\ m \in 0 .. c /\ jj \in Index /\ Dist(i, jj) = c - m
  <2>1. c \in 0 .. Wrap - 1  BY DistFacts
  <2>2. (j - m) % Wrap \in Index /\ Dist(i, (j - m) % Wrap) = Dist(i, j) - m  BY DistBack
  <2> QED  BY <2>1, <2>2
<1>2. /\ s \in Seq(Char \cup {NoChar}) /\ Len(s) = c
      /\ \A k \in 1 .. c : s[k] = d[(i + k - 1) % INPUT_BUF]
  BY CharsFacts
<1> HIDE DEF c, jj
<1>3. /\ s1 \in Seq(Char \cup {NoChar}) /\ Len(s1) = c - m
      /\ \A k \in 1 .. c - m : s1[k] = d[(i + k - 1) % INPUT_BUF]
  <2>1. /\ s1 \in Seq(Char \cup {NoChar}) /\ Len(s1) = Dist(i, jj)
        /\ \A k \in 1 .. Dist(i, jj) : s1[k] = d[(i + k - 1) % INPUT_BUF]
    BY <1>1, CharsFacts
  <2> QED  BY <1>1, <2>1
<1> HIDE DEF s, s1
<1> DEFINE t == SubSeq(s, 1, c - m)
<1>4. t \in Seq(Char \cup {NoChar}) /\ Len(t) = c - m /\ \A k \in 1 .. c - m : t[k] = s[k]
  BY <1>1, <1>2
<1> HIDE DEF t
<1>5. ASSUME NEW k \in 1 .. c - m PROVE t[k] = s1[k]
  <2>1. k \in 1 .. c  BY <1>1
  <2> QED  BY <1>2, <1>3, <1>4, <2>1
<1>6. t = s1  BY <1>1, <1>3, <1>4, <1>5, SeqEqual
<1> QED  BY <1>6 DEF t, s, s1, c, jj

\* Two stretches in a row.
LEMMA RingJoin ==
  ASSUME NEW d \in Ring, NEW i \in Index, NEW h \in Index, NEW j \in Index,
         Dist(i, h) + Dist(h, j) <= INPUT_BUF
  PROVE  Chars(d, i, j) = Chars(d, i, h) \o Chars(d, h, j)
<1> DEFINE a == Dist(i, h)
           b == Dist(h, j)
           s == Chars(d, i, h)
           t == Chars(d, h, j)
           u == Chars(d, i, j)
<1>1. /\ a \in Nat /\ b \in Nat /\ a + b <= INPUT_BUF /\ Dist(i, j) = a + b
      /\ INPUT_BUF \in Nat \ {0} /\ Wrap \in Nat /\ Wrap % INPUT_BUF = 0 /\ i \in Int /\ h \in Int
      /\ a = IF i <= h THEN h - i ELSE h - i + Wrap
  <2>1. /\ Dist(i, h) \in 0 .. Wrap - 1 /\ Dist(h, j) \in 0 .. Wrap - 1
        /\ a = IF i <= h THEN h - i ELSE h - i + Wrap
    BY DistFacts
  <2>2. Dist(i, j) = Dist(i, h) + Dist(h, j)  BY DistSum
  <2> QED  BY <2>1, <2>2, ConsoleAssumption DEF Index
<1>2. /\ s \in Seq(Char \cup {NoChar}) /\ Len(s) = a
      /\ \A k \in 1 .. a : s[k] = d[(i + k - 1) % INPUT_BUF]
      /\ t \in Seq(Char \cup {NoChar}) /\ Len(t) = b
      /\ \A k \in 1 .. b : t[k] = d[(h + k - 1) % INPUT_BUF]
  BY CharsFacts
<1>3. /\ u \in Seq(Char \cup {NoChar}) /\ Len(u) = a + b
      /\ \A k \in 1 .. a + b : u[k] = d[(i + k - 1) % INPUT_BUF]
  <2> HIDE DEF a, b
  <2>1. /\ u \in Seq(Char \cup {NoChar}) /\ Len(u) = Dist(i, j)
        /\ \A k \in 1 .. Dist(i, j) : u[k] = d[(i + k - 1) % INPUT_BUF]
    BY CharsFacts
  <2> QED  BY <1>1, <2>1
<1> HIDE DEF a, b, s, t, u
<1>4. ASSUME NEW k \in 1 .. b
      PROVE  (h + k - 1) % INPUT_BUF = (i + (a + k) - 1) % INPUT_BUF
  <2>1. CASE i <= h
    <3>1. h + k - 1 = i + (a + k) - 1  BY <1>1, <2>1
    <3> QED  BY <3>1
  <2>2. CASE i > h
    <3> DEFINE l == h + k - 1
    <3>1. l \in Int /\ i + (a + k) - 1 = Wrap + l  BY <1>1, <2>2
    <3>2. Wrap \in Int  BY <1>1
    <3> HIDE DEF l
    <3>3. (Wrap + l) % INPUT_BUF = l % INPUT_BUF  BY <1>1, <3>1, <3>2, ModAdd
    <3> QED  BY <3>1, <3>3 DEF l
  <2> QED  BY <1>1, <2>1, <2>2
<1> DEFINE v == s \o t
<1>5. /\ v \in Seq(Char \cup {NoChar}) /\ Len(v) = a + b
      /\ \A k \in 1 .. a : v[k] = s[k]
      /\ \A k \in 1 .. b : v[a + k] = t[k]
  <2>1. /\ v \in Seq(Char \cup {NoChar}) /\ Len(v) = Len(s) + Len(t)
        /\ \A k \in 1 .. Len(s) + Len(t) :
             v[k] = IF k <= Len(s) THEN s[k] ELSE t[k - Len(s)]
    BY <1>2, ConcatProperties
  <2> HIDE DEF v
  <2>2. ASSUME NEW k \in 1 .. a PROVE v[k] = s[k]
    <3>1. k \in 1 .. Len(s) + Len(t) /\ k <= Len(s)  BY <1>1, <1>2
    <3> QED  BY <2>1, <3>1
  <2>3. ASSUME NEW k \in 1 .. b PROVE v[a + k] = t[k]
    <3>1. a + k \in 1 .. Len(s) + Len(t) /\ ~(a + k <= Len(s)) /\ a + k - Len(s) = k
      BY <1>1, <1>2
    <3> DEFINE l == a + k
    <3> HIDE DEF l
    <3>2. v[l] = IF l <= Len(s) THEN s[l] ELSE t[l - Len(s)]  BY <2>1, <3>1 DEF l
    <3>3. v[l] = t[l - Len(s)]  BY <3>1, <3>2 DEF l
    <3>4. l - Len(s) = k  BY <1>1, <1>2 DEF l
    <3> QED  BY <3>3, <3>4 DEF l
  <2> QED  BY <1>2, <2>1, <2>2, <2>3
<1> HIDE DEF v
<1>6. ASSUME NEW k \in 1 .. a + b PROVE v[k] = u[k]
  <2>1. CASE k <= a
    <3>1. k \in 1 .. a  BY <1>1, <2>1
    <3> QED  BY <1>2, <1>3, <1>5, <3>1
  <2>2. CASE k > a
    <3> DEFINE l == k - a
    <3>1. l \in 1 .. b /\ k = a + l  BY <1>1, <2>2
    <3> HIDE DEF l
    <3>2. v[k] = d[(h + l - 1) % INPUT_BUF]  BY <1>2, <1>5, <3>1
    <3>3. u[k] = d[(i + (a + l) - 1) % INPUT_BUF]  BY <1>3, <3>1
    <3> QED  BY <1>4, <3>1, <3>2, <3>3
  <2> QED  BY <1>1, <2>1, <2>2
<1>7. v = u  BY <1>1, <1>3, <1>5, <1>6, SeqEqual
<1> QED  BY <1>7 DEF v, u, s, t

-----------------------------------------------------------------------------
(* The console *)

\* The types of the ring and of the readers.
ConsoleTypeOK ==
  /\ buf \in Ring /\ r \in Index /\ w \in Index /\ e \in Index
  /\ lock \in Reader \cup {Nobody}
  /\ pc \in [Reader -> {"user", "enter", "loop", "sleep", "asleep"}]

\* A reader between acquire() and release() of cons.lock is its holder.
ConsoleLockInv == \A p \in Reader : pc[p] \in {"loop", "sleep"} <=> lock = p

\* Lines handed on and the line being edited fit into the ring, and a full ring
\* has something to read.
RingInv ==
  /\ Dist(r, w) + Dist(w, e) <= INPUT_BUF
  /\ Dist(r, w) + Dist(w, e) = INPUT_BUF => r # w

\* Nobody sleeps, or is about to, while there is something to read.
SleepInv == \A p \in Reader : pc[p] \in {"sleep", "asleep"} => r = w

\* The bytes that a key sends last.
KeyCode == {<<"press", "d">>, <<"press", "u">>, <<"press", "nl">>, <<"press", "bs">>,
            <<"press", "ctl">>, <<"release", "ctl">>}

\* With b still to be read, the driver will not think that a control key is
\* down when none is.
Follows(b) ==
  \/ b = <<"release", "ctl">>
  \/ b = <<"press", "ctl">> /\ held # {}
  \/ b \in KeyCode /\ b # <<"press", "ctl">> /\ ("CTL" \in shift => held # {})

KeyInv ==
  \/ bytes = <<>> /\ "E0ESC" \notin shift /\ ("CTL" \in shift => held # {})
  \/ \E b \in KeyCode : Follows(b) /\ (bytes = <<b>> \/ bytes = <<<<"E0">>, b>>)

ConsoleInv ==
  ConsoleTypeOK /\ ConsoleLockInv /\ RingInv /\ SleepInv /\ KeyInv

\* The queue and the line, before and after a step.
LEMMA BetweenChars ==
  /\ ConsoleTypeOK => /\ Between(r, w) = Chars(buf, r, w)
                      /\ Between(w, e) = Chars(buf, w, e)
  /\ r' \in Index /\ w' \in Index /\ e' \in Index =>
       /\ Between(r, w)' = Chars(buf', r', w')
       /\ Between(w, e)' = Chars(buf', w', e')
<1>1. /\ Between(r, w) = Stretch(buf, r, w)
      /\ Between(w, e) = Stretch(buf, w, e)
      /\ Between(r, w)' = Stretch(buf', r', w')
      /\ Between(w, e)' = Stretch(buf', w', e')
  BY DEF Between, Stretch
<1> QED  BY <1>1, StretchChars DEF ConsoleTypeOK

LEMMA ConsoleInitInv == ConsoleInit => ConsoleInv /\ Input!Init
<1> SUFFICES ASSUME ConsoleInit PROVE ConsoleInv /\ Input!Init  OBVIOUS
<1> USE ConsoleAssumption DEF ConsoleInit
<1>1. ConsoleTypeOK  BY DEF ConsoleTypeOK, Ring, Index
<1>2. ConsoleLockInv
  <2>1. pc = [p \in Reader |-> "user"] /\ lock = Nobody /\ Nobody \notin Reader  OBVIOUS
  <2>2. ASSUME NEW p \in Reader PROVE ~(pc[p] \in {"loop", "sleep"}) /\ ~(lock = p)
    <3>1. pc[p] = "user" /\ lock # p  BY <2>1, Zenon
    <3> QED  BY ONLY <3>1
  <2> QED  BY <2>2, Zenon DEF ConsoleLockInv
<1>3. Dist(r, w) = 0 /\ Dist(w, e) = 0  BY <1>1, DistStep DEF ConsoleTypeOK
<1>4. RingInv  BY <1>3 DEF RingInv
<1>5. SleepInv  BY DEF SleepInv
<1>6. KeyInv  BY DEF KeyInv
<1>7. Input!Init
  <2>1. Between(r, w) = Chars(buf, r, w) /\ Between(w, e) = Chars(buf, w, e)
    BY <1>1, BetweenChars
  <2>2. Len(Chars(buf, r, w)) = 0 /\ Len(Chars(buf, w, e)) = 0
        /\ Chars(buf, r, w) \in Seq(Char \cup {NoChar}) /\ Chars(buf, w, e) \in Seq(Char \cup {NoChar})
    BY <1>1, <1>3, CharsFacts DEF ConsoleTypeOK
  <2>3. Chars(buf, r, w) = <<>> /\ Chars(buf, w, e) = <<>>  BY <2>2, EmptySeq
  <2> QED  BY <2>1, <2>3 DEF Input!Init
<1> QED  BY <1>1, <1>2, <1>4, <1>5, <1>6, <1>7 DEF ConsoleInv

\* The sums behind the tests of consoleintr() and consoleread().
LEMMA RingDistances ==
  ASSUME ConsoleTypeOK, RingInv
  PROVE  /\ Dist(r, w) \in Nat /\ Dist(w, e) \in Nat
         /\ Dist(r, e) = Dist(r, w) + Dist(w, e)
         /\ (e - r) % Wrap = Dist(r, w) + Dist(w, e)
<1>1. Dist(r, w) \in 0 .. Wrap - 1 /\ Dist(w, e) \in 0 .. Wrap - 1
  BY DistFacts DEF ConsoleTypeOK
<1>2. Dist(r, e) = Dist(r, w) + Dist(w, e)  BY DistSum DEF ConsoleTypeOK, RingInv
<1> QED  BY <1>1, <1>2 DEF Dist

\* A step that leaves the ring alone keeps what it contains.
LEMMA SameInput ==
  ASSUME UNCHANGED input
  PROVE  /\ UNCHANGED <<Between(r, w), Between(w, e)>>
         /\ RingInv => RingInv'
BY DEF input, Between, RingInv, Dist

\* Characters are erased.
LEMMA BackspaceInv ==
  ASSUME ConsoleTypeOK, RingInv, NEW m \in 0 .. (e - w) % Wrap, Backspace(m)
  PROVE  e' \in Index /\ RingInv' /\ Input!Erase
<1>1. m \in 0 .. Dist(w, e) /\ e' = (e - m) % Wrap /\ UNCHANGED <<buf, r, w>>
  BY DEF Backspace, Dist
<1>2. e' \in Index /\ Dist(w, e') = Dist(w, e) - m  BY <1>1, DistBack DEF ConsoleTypeOK
<1>3. Dist(r, w) \in Nat /\ Dist(w, e) \in Nat /\ INPUT_BUF \in Nat
  BY RingDistances, ConsoleAssumption
<1>4. RingInv'
  <2>1. Dist(r, w)' = Dist(r, w) /\ Dist(w, e)' = Dist(w, e) - m  BY <1>1, <1>2 DEF Dist
  <2>2. /\ Dist(r, w) + Dist(w, e) <= INPUT_BUF
        /\ Dist(r, w) + Dist(w, e) = INPUT_BUF => r # w
    BY DEF RingInv
  <2>3. /\ Dist(r, w) + (Dist(w, e) - m) <= INPUT_BUF
        /\ Dist(r, w) + (Dist(w, e) - m) = INPUT_BUF => r # w
    BY <1>1, <1>3, <2>2
  <2> QED  BY <1>1, <2>1, <2>3 DEF RingInv
<1>5. Input!Erase
  <2>1. Between(w, e) = Chars(buf, w, e)  BY BetweenChars
  <2>2. Between(r, w)' = Between(r, w)  BY <1>1 DEF Between
  <2>3. Between(w, e)' = Chars(buf, w, (e - m) % Wrap)
    BY <1>1, <1>2, BetweenChars DEF ConsoleTypeOK
  <2>4. Chars(buf, w, (e - m) % Wrap) = SubSeq(Chars(buf, w, e), 1, Dist(w, e) - m)
    BY <1>1, RingCut DEF ConsoleTypeOK
  <2>5. Len(Between(w, e)) = Dist(w, e)  BY <2>1, CharsFacts DEF ConsoleTypeOK
  <2>6. Dist(w, e) - m \in 0 .. Len(Between(w, e))  BY <1>1, <1>3, <2>5
  <2>7. Between(w, e)' = SubSeq(Between(w, e), 1, Dist(w, e) - m)  BY <2>1, <2>3, <2>4
  <2> QED  BY <2>2, <2>6, <2>7 DEF Input!Erase
<1> QED  BY <1>2, <1>4, <1>5

\* A character is stored, and perhaps ends the line.
LEMMA StoreInv ==
  ASSUME ConsoleTypeOK, RingInv, NEW c \in Char, Store(c)
  PROVE  buf' \in Ring /\ e' \in Index /\ w' \in Index /\ RingInv' /\ Input!Type(c)
<1> DEFINE a == Dist(r, w)
           b == Dist(w, e)
<1>a. buf \in Ring /\ r \in Index /\ w \in Index /\ e \in Index  BY DEF ConsoleTypeOK
<1>b. /\ a \in Nat /\ b \in Nat /\ INPUT_BUF \in Nat /\ Wrap \in Nat /\ INPUT_BUF < Wrap
      /\ Dist(r, e) = a + b /\ (e - r) % Wrap = a + b
  BY RingDistances, ConsoleAssumption
<1>c. /\ a + b < INPUT_BUF /\ r' = r
      /\ buf' = [buf EXCEPT ![e % INPUT_BUF] = c] /\ e' = Inc(e)
      /\ EndsLine(c, Inc(e)) => w' = Inc(e)
      /\ ~EndsLine(c, Inc(e)) => w' = w
  BY <1>b DEF Store
<1>1. buf' \in Ring  BY <1>a, <1>c DEF Ring
<1>2. e' \in Index /\ Dist(r, e') = a + b + 1 /\ Dist(w, e') = b + 1 /\ Dist(e', e') = 0
  <2>1. Inc(e) \in Index /\ Dist(Inc(e), Inc(e)) = 0  BY <1>a, DistStep
  <2>2. Dist(r, e) < Wrap - 1 /\ Dist(w, e) < Wrap - 1  BY <1>b, <1>c
  <2>3. Dist(r, Inc(e)) = Dist(r, e) + 1 /\ Dist(w, Inc(e)) = Dist(w, e) + 1
    BY <1>a, <2>2, DistStep
  <2> QED  BY <1>b, <1>c, <2>1, <2>3
<1>3. EndsLine(c, Inc(e)) <=> c \in {"nl", "^D"} \/ a + b + 1 = INPUT_BUF
  <2>1. Inc(e) = (r + INPUT_BUF) % Wrap <=> Dist(r, Inc(e)) = INPUT_BUF  BY <1>a, DistStep
  <2> QED  BY <1>2, <1>c, <2>1 DEF EndsLine
<1>4. /\ Between(r, w) = Chars(buf, r, w) /\ Between(w, e) = Chars(buf, w, e)
      /\ Len(Chars(buf, r, w)) = a /\ Len(Chars(buf, w, e)) = b
      /\ Chars(buf, r, w) \in Seq(Char \cup {NoChar}) /\ Chars(buf, w, e) \in Seq(Char \cup {NoChar})
  BY <1>a, BetweenChars, CharsFacts
<1>5. w' \in Index  BY <1>a, <1>2, <1>c
<1>6. Between(r, w)' = Chars(buf', r, w') /\ Between(w, e)' = Chars(buf', w', e')
  BY <1>a, <1>2, <1>5, <1>c, BetweenChars
<1>7. Dist(r, w)' = Dist(r, w') /\ Dist(w, e)' = Dist(w', e')  BY <1>c DEF Dist
<1> DEFINE q == Chars(buf, r, w)
           l == Chars(buf, w, e)
<1>8. CASE ~EndsLine(c, Inc(e))
  <2>1. w' = w /\ c \notin {"nl", "^D"} /\ a + b + 1 # INPUT_BUF  BY <1>3, <1>8, <1>c
  <2>2. RingInv'
    <3>1. a + (b + 1) <= INPUT_BUF /\ a + (b + 1) # INPUT_BUF  BY <1>b, <1>c, <2>1
    <3> QED  BY <1>2, <1>7, <2>1, <3>1 DEF RingInv
  <2>3. Chars(buf', r, w) = q  BY <1>a, <1>c, RingKeep
  <2>4. Chars(buf', w, e') = Append(l, c)
    <3>1. b < INPUT_BUF  BY <1>b, <1>c
    <3> QED  BY <1>a, <1>c, <3>1, RingPut
  <2>5. Input!Type(c)
    <3>1. Between(r, w)' = q /\ Between(w, e)' = Append(l, c)  BY <1>6, <2>1, <2>3, <2>4
    <3> HIDE DEF q, l
    <3>2. /\ Between(r, w) = q /\ Between(w, e) = l /\ Len(q) = a /\ Len(l) = b
      BY <1>4 DEF q, l
    <3> QED  BY <1>c, <2>1, <3>1, <3>2 DEF Input!Type
  <2> QED  BY <1>1, <1>2, <1>5, <2>2, <2>5
<1>9. CASE EndsLine(c, Inc(e))
  <2>1. w' = e' /\ (c \in {"nl", "^D"} \/ a + b + 1 = INPUT_BUF)  BY <1>3, <1>9, <1>c
  <2>2. RingInv'
    <3>1. (a + b + 1) + 0 <= INPUT_BUF /\ a + b + 1 > 0  BY <1>b, <1>c
    <3>2. r # e'  BY <1>2, <3>1
    <3> QED  BY <1>2, <1>7, <1>c, <2>1, <3>1, <3>2 DEF RingInv
  <2>3. Chars(buf', r, e') = Append(q \o l, c)
    <3>1. Chars(buf, r, e) = q \o l
      <4>1. Dist(r, w) + Dist(w, e) <= INPUT_BUF  BY <1>b, <1>c
      <4> QED  BY <1>a, <4>1, RingJoin
    <3>2. Dist(r, e) < INPUT_BUF  BY <1>b, <1>c
    <3>3. Chars(buf', r, e') = Append(Chars(buf, r, e), c)  BY <1>a, <1>c, <3>2, RingPut
    <3> QED  BY <3>1, <3>3
  <2>4. Chars(buf', e', e') = <<>>
    <3>1. Len(Chars(buf', e', e')) = 0 /\ Chars(buf', e', e') \in Seq(Char \cup {NoChar})
      BY <1>1, <1>2, CharsFacts
    <3> QED  BY <3>1, EmptySeq
  <2>5. Append(q \o l, c) = q \o Append(l, c)
    <3> HIDE DEF q, l
    <3>1. q \in Seq(Char \cup {NoChar}) /\ l \in Seq(Char \cup {NoChar})  BY <1>4 DEF q, l
    <3>2. q \o l \in Seq(Char \cup {NoChar}) /\ <<c>> \in Seq(Char \cup {NoChar})  BY <3>1
    <3>3. Append(q \o l, c) = (q \o l) \o <<c>> /\ Append(l, c) = l \o <<c>>
      BY <3>1, <3>2, AppendIsConcat
    <3> QED  BY <3>1, <3>2, <3>3, ConcatAssociative
  <2>6. Input!Type(c)
    <3>1. Between(r, w)' = q \o Append(l, c) /\ Between(w, e)' = <<>>
      BY <1>6, <2>1, <2>3, <2>4, <2>5
    <3> HIDE DEF q, l
    <3>2. /\ Between(r, w) = q /\ Between(w, e) = l /\ Len(q) = a /\ Len(l) = b
      BY <1>4 DEF q, l
    <3> QED  BY <1>c, <2>1, <3>1, <3>2 DEF Input!Type
  <2> QED  BY <1>1, <1>2, <1>5, <2>2, <2>6
<1> QED  BY <1>8, <1>9

\* An interrupt for one character keeps the ring, and so does the wakeup.
LEMMA ConsoleintrInv ==
  ASSUME ConsoleTypeOK, ConsoleLockInv, RingInv, SleepInv,
         NEW c \in Char \cup {NoChar}, consoleintr(c)
  PROVE  /\ ConsoleTypeOK' /\ ConsoleLockInv' /\ RingInv' /\ SleepInv'
         /\ Input!Next \/ UNCHANGED <<Between(r, w), Between(w, e)>>
<1>a. lock = Nobody /\ lock' = lock /\ Nobody \notin Reader
  BY ConsoleAssumption DEF consoleintr
<1>b. \A p \in Reader : pc[p] \notin {"loop", "sleep"}  BY <1>a DEF ConsoleLockInv
<1>1. ASSUME ConsoleTypeOK', r' = r, w' = w, pc' = pc
      PROVE  ConsoleLockInv' /\ SleepInv'
  BY <1>1, <1>a DEF ConsoleLockInv, SleepInv
<1>2. ASSUME NEW m \in 0 .. (e - w) % Wrap, Backspace(m)
      PROVE  /\ ConsoleTypeOK' /\ ConsoleLockInv' /\ RingInv' /\ SleepInv'
             /\ Input!Next
  <2>1. e' \in Index /\ RingInv' /\ Input!Erase  BY <1>2, BackspaceInv
  <2>2. r' = r /\ w' = w /\ pc' = pc /\ buf' = buf  BY <1>2 DEF Backspace
  <2>3. ConsoleTypeOK'  BY <1>a, <2>1, <2>2 DEF ConsoleTypeOK
  <2> QED  BY <1>1, <2>1, <2>2, <2>3 DEF Input!Next
<1>3. CASE c = "^U" /\ \E m \in 0 .. (e - w) % Wrap : KillLength(m) /\ Backspace(m)
  BY <1>2, <1>3
<1>4. CASE c = "bs" /\ e # w /\ Backspace(1)
  <2>1. Dist(w, e) \in 0 .. Wrap - 1 /\ Dist(w, e) > 0
    BY <1>4, DistFacts, DistStep DEF ConsoleTypeOK
  <2>2. 1 \in 0 .. (e - w) % Wrap  BY <2>1 DEF Dist
  <2> QED  BY <1>2, <1>4, <2>2
<1>5. CASE c \notin {"^U", "bs", "^P", NoChar} /\ Store(c)
  <2>1. c \in Char  BY <1>5
  <2>2. buf' \in Ring /\ e' \in Index /\ w' \in Index /\ RingInv' /\ Input!Type(c)
    BY <1>5, <2>1, StoreInv
  <2>3. r' = r /\ (pc' = Woken \/ (w' = w /\ pc' = pc))  BY <1>5 DEF Store
  <2>4. CASE w' = w /\ pc' = pc
    <3>1. ConsoleTypeOK'  BY <1>a, <2>2, <2>3, <2>4 DEF ConsoleTypeOK
    <3> QED  BY <1>1, <2>1, <2>2, <2>3, <2>4, <3>1 DEF Input!Next
  <2>5. CASE pc' = Woken
    <3>1. /\ pc' \in [Reader -> {"user", "enter", "loop", "sleep", "asleep"}]
          /\ \A p \in Reader : pc'[p] = IF pc[p] = "asleep" THEN "enter" ELSE pc[p]
      BY <2>5 DEF Woken, ConsoleTypeOK
    <3>2. \A p \in Reader : pc'[p] \notin {"loop", "sleep", "asleep"}  BY <1>b, <3>1
    <3>3. ConsoleTypeOK'  BY <1>a, <2>2, <2>3, <3>1 DEF ConsoleTypeOK
    <3>4. ConsoleLockInv' /\ SleepInv'  BY <1>a, <3>2 DEF ConsoleLockInv, SleepInv
    <3> QED  BY <2>1, <2>2, <3>3, <3>4 DEF Input!Next
  <2> QED  BY <2>3, <2>4, <2>5
<1>6. CASE UNCHANGED <<input, pc>>
  <2>1. UNCHANGED input /\ r' = r /\ w' = w /\ e' = e /\ buf' = buf /\ pc' = pc
    BY <1>6 DEF input
  <2>2. ConsoleTypeOK'  BY <1>a, <2>1 DEF ConsoleTypeOK
  <2>3. RingInv' /\ UNCHANGED <<Between(r, w), Between(w, e)>>  BY <2>1, SameInput
  <2> QED  BY <1>1, <2>1, <2>2, <2>3
<1> QED  BY <1>3, <1>4, <1>5, <1>6 DEF consoleintr

\* Readers and kill() take characters from the front, under the lock.
LEMMA ReaderStepInv ==
  ASSUME ConsoleTypeOK, ConsoleLockInv, RingInv, SleepInv, NEW p \in Reader, ReaderStep(p)
  PROVE  /\ ConsoleTypeOK' /\ ConsoleLockInv' /\ RingInv' /\ SleepInv'
         /\ Input!Next \/ UNCHANGED <<Between(r, w), Between(w, e)>>
<1> USE ConsoleAssumption
<1>1. ASSUME UNCHANGED input,
             /\ lock' \in Reader \cup {Nobody}
             /\ pc' \in [Reader -> {"user", "enter", "loop", "sleep", "asleep"}]
             /\ ConsoleLockInv' /\ SleepInv'
      PROVE  /\ ConsoleTypeOK' /\ ConsoleLockInv' /\ RingInv' /\ SleepInv'
             /\ UNCHANGED <<Between(r, w), Between(w, e)>>
  <2>1. ConsoleTypeOK'  BY <1>1 DEF ConsoleTypeOK, input
  <2>2. RingInv' /\ UNCHANGED <<Between(r, w), Between(w, e)>>  BY <1>1, SameInput
  <2> QED  BY <1>1, <2>1, <2>2
<1>2. CASE consoleread(p)
  <2>1. UNCHANGED input /\ lock' = lock /\ pc[p] = "user" /\ pc' = [pc EXCEPT ![p] = "enter"]
    BY <1>2 DEF consoleread, Goto
  <2>2. ConsoleLockInv' /\ SleepInv'
    BY <2>1 DEF ConsoleLockInv, SleepInv, ConsoleTypeOK, input
  <2> QED  BY <1>1, <2>1, <2>2 DEF ConsoleTypeOK
<1>3. CASE ReadEnter(p)
  <2>1. UNCHANGED input /\ lock = Nobody /\ lock' = p /\ pc' = [pc EXCEPT ![p] = "loop"]
    BY <1>3 DEF ReadEnter, Goto
  <2>2. ConsoleLockInv' /\ SleepInv'
    BY <2>1 DEF ConsoleLockInv, SleepInv, ConsoleTypeOK, input
  <2> QED  BY <1>1, <2>1, <2>2 DEF ConsoleTypeOK
<1>4. CASE ReadWait(p)
  <2>1. /\ UNCHANGED input /\ pc[p] = "loop" /\ r = w
        /\ \/ lock' = Nobody /\ pc' = [pc EXCEPT ![p] = "user"]
           \/ lock' = lock /\ pc' = [pc EXCEPT ![p] = "sleep"]
    BY <1>4 DEF ReadWait, Return, Goto
  <2>2. ConsoleLockInv' /\ SleepInv'
    BY <2>1 DEF ConsoleLockInv, SleepInv, ConsoleTypeOK, input
  <2> QED  BY <1>1, <2>1, <2>2 DEF ConsoleTypeOK
<1>5. CASE ReadSleep(p)
  <2>1. UNCHANGED input /\ pc[p] = "sleep" /\ lock' = Nobody /\ pc' = [pc EXCEPT ![p] = "asleep"]
    BY <1>5 DEF ReadSleep, Goto
  <2>2. ConsoleLockInv' /\ SleepInv'
    BY <2>1 DEF ConsoleLockInv, SleepInv, ConsoleTypeOK, input
  <2> QED  BY <1>1, <2>1, <2>2 DEF ConsoleTypeOK
<1>6. CASE ReaderKilled(p)
  <2>1. /\ UNCHANGED input /\ lock' = lock
        /\ pc' = [pc EXCEPT ![p] = IF pc[p] = "asleep" THEN "enter" ELSE pc[p]]
    BY <1>6 DEF ReaderKilled, Goto
  <2>2. ConsoleLockInv' /\ SleepInv'
    BY <2>1 DEF ConsoleLockInv, SleepInv, ConsoleTypeOK, input
  <2> QED  BY <1>1, <2>1, <2>2 DEF ConsoleTypeOK
<1>7. CASE ReadChar(p)
  <2>1. /\ pc[p] = "loop" /\ r # w /\ buf' = buf /\ w' = w /\ e' = e
        /\ r' = r \/ r' = Inc(r)
        /\ \/ lock' = Nobody /\ pc' = [pc EXCEPT ![p] = "user"]
           \/ lock' = lock /\ pc' = pc
    BY <1>7 DEF ReadChar, Return, Goto
  <2>2. /\ lock' \in Reader \cup {Nobody}
        /\ pc' \in [Reader -> {"user", "enter", "loop", "sleep", "asleep"}]
        /\ ConsoleLockInv'
    BY <2>1 DEF ConsoleLockInv, ConsoleTypeOK
  <2>3. SleepInv'
    <3>1. \A q \in Reader : pc[q] \notin {"sleep", "asleep"}  BY <2>1 DEF SleepInv
    <3> QED  BY <2>1, <3>1 DEF SleepInv, ConsoleTypeOK
  <2>4. CASE r' = r
    <3>1. UNCHANGED input  BY <2>1, <2>4 DEF input
    <3> QED  BY <1>1, <2>2, <2>3, <3>1
  <2>5. CASE r' = Inc(r)
    <3>1. /\ buf \in Ring /\ r \in Index /\ w \in Index /\ e \in Index  BY DEF ConsoleTypeOK
    <3>2. Inc(r) \in Index /\ Dist(Inc(r), w) = Dist(r, w) - 1 /\ Dist(r, w) > 0
      BY <2>1, <3>1, DistStep
    <3>3. ConsoleTypeOK'  BY <2>1, <2>2, <2>5, <3>1, <3>2 DEF ConsoleTypeOK
    <3>4. RingInv'
      <4>1. Dist(r, w)' = Dist(r, w) - 1 /\ Dist(w, e)' = Dist(w, e)
        BY <2>1, <2>5, <3>2 DEF Dist
      <4>2. Dist(r, w) \in Nat /\ Dist(w, e) \in Nat /\ INPUT_BUF \in Nat  BY RingDistances
      <4>3. (Dist(r, w) - 1) + Dist(w, e) < INPUT_BUF  BY <4>2 DEF RingInv
      <4> QED  BY <4>1, <4>2, <4>3 DEF RingInv
    <3>5. Chars(buf, r, w) # <<>> /\ Chars(buf, Inc(r), w) = Tail(Chars(buf, r, w))
      BY <2>1, <3>1, RingGet
    <3>6. Between(r, w) = Chars(buf, r, w) /\ Between(w, e)' = Between(w, e)
      BY <2>1, BetweenChars DEF Between
    <3>7. Between(r, w)' = Chars(buf, Inc(r), w)  BY <2>1, <2>5, <3>1, <3>2, BetweenChars
    <3>8. Input!Take  BY <3>5, <3>6, <3>7 DEF Input!Take
    <3> QED  BY <2>2, <2>3, <3>3, <3>4, <3>8 DEF Input!Next
  <2> QED  BY <2>1, <2>4, <2>5
<1> QED  BY <1>2, <1>3, <1>4, <1>5, <1>6, <1>7 DEF ReaderStep

\* One byte of the keyboard.
LEMMA KbdKeyInv ==
  ASSUME KeyInv, kbdintr
  PROVE  KeyInv' /\ \E c \in Char \cup {NoChar} : consoleintr(c)
<1>1. /\ bytes # <<>> /\ bytes' = Tail(bytes) /\ held' = held
      /\ shift' = ShiftAfter(Head(bytes))
      /\ consoleintr(IF Head(bytes)[1] = "press" THEN charcode(Head(bytes)[2], shift) ELSE NoChar)
  BY DEF kbdintr
<1>2. PICK b \in KeyCode : Follows(b) /\ (bytes = <<b>> \/ bytes = <<<<"E0">>, b>>)
  BY <1>1 DEF KeyInv
<1>3. CASE bytes = <<<<"E0">>, b>>
  <2>1. Head(bytes) = <<"E0">> /\ Tail(bytes) = <<b>>  BY <1>3
  <2>2. Head(bytes)[1] = "E0"  BY <2>1
  <2>3. consoleintr(NoChar)  BY <1>1, <2>2
  <2>4. shift' = shift \cup {"E0ESC"}  BY <1>1, <2>2 DEF ShiftAfter
  <2>5. Follows(b)'  BY <1>1, <1>2, <2>4 DEF Follows
  <2> QED  BY <1>1, <2>1, <2>3, <2>5 DEF KeyInv
<1>4. CASE bytes = <<b>>
  <2>1. Head(bytes) = b /\ Tail(bytes) = <<>>  BY <1>4
  <2>2. CASE b = <<"release", "ctl">>
    <3>1. b[1] = "release" /\ b[2] = "ctl"  BY <2>2
    <3>2. shift' = shift \ {"CTL", "E0ESC"}  BY <1>1, <2>1, <3>1 DEF ShiftAfter, shiftcode
    <3>3. consoleintr(NoChar)  BY <1>1, <2>1, <3>1
    <3> QED  BY <1>1, <2>1, <3>2, <3>3 DEF KeyInv
  <2>3. CASE b = <<"press", "ctl">>
    <3>1. b[1] = "press" /\ b[2] = "ctl" /\ held # {}  BY <1>2, <2>3 DEF Follows
    <3>2. shift' = (shift \ {"E0ESC"}) \cup {"CTL"}
      BY <1>1, <2>1, <3>1 DEF ShiftAfter, shiftcode
    <3>3. consoleintr(NoChar)  BY <1>1, <2>1, <3>1 DEF charcode
    <3> QED  BY <1>1, <2>1, <3>1, <3>2, <3>3 DEF KeyInv
  <2>4. CASE b \notin {<<"release", "ctl">>, <<"press", "ctl">>}
    <3>1. /\ b[1] = "press" /\ b[2] \in {"d", "u", "nl", "bs"}
          /\ "CTL" \in shift => held # {}
      BY <1>2, <2>4 DEF Follows, KeyCode
    <3>2. shift' = shift \ {"E0ESC"}  BY <1>1, <2>1, <3>1 DEF ShiftAfter, shiftcode
    <3>3. charcode(b[2], shift) \in Char \cup {NoChar}  BY <3>1 DEF charcode, Char, NoChar
    <3>4. consoleintr(charcode(b[2], shift))  BY <1>1, <2>1, <3>1
    <3> QED  BY <1>1, <2>1, <3>1, <3>2, <3>3, <3>4 DEF KeyInv
  <2> QED  BY <2>2, <2>3, <2>4
<1> QED  BY <1>2, <1>3, <1>4

\* A key is pressed or released.
LEMMA KeyPressInv ==
  ASSUME KeyInv, Key
  PROVE  KeyInv'
<1>1. bytes = <<>> /\ shift' = shift /\ ("CTL" \in shift => held # {})
  BY DEF Key, KeyInv
<1>2. ASSUME NEW k \in {"d", "u", "nl", "bs"}, bytes' = <<<<"press", k>>>>, held' = held
      PROVE  KeyInv'
  <2>1. <<"press", k>> \in KeyCode /\ <<"press", k>> # <<"press", "ctl">>  BY DEF KeyCode
  <2>2. Follows(<<"press", k>>)'  BY <1>1, <1>2, <2>1 DEF Follows
  <2> QED  BY <1>2, <2>1, <2>2 DEF KeyInv
<1>3. ASSUME NEW k \in {"left", "right"},
             LET b == <<IF k \in held THEN "release" ELSE "press", "ctl">>
             IN /\ bytes' = IF k = "right" THEN <<<<"E0">>, b>> ELSE <<b>>
                /\ held' = IF k \in held THEN held \ {k} ELSE held \cup {k}
      PROVE  KeyInv'
  <2>1. ASSUME NEW b \in {<<"release", "ctl">>, <<"press", "ctl">>},
               b = <<"release", "ctl">> \/ held' # {},
               bytes' = <<b>> \/ bytes' = <<<<"E0">>, b>>
        PROVE  KeyInv'
    <3>1. b \in KeyCode /\ Follows(b)'  BY <2>1 DEF KeyCode, Follows
    <3> QED  BY <2>1, <3>1 DEF KeyInv
  <2>2. CASE k \in held
    <3>1. bytes' = <<<<"release", "ctl">>>> \/ bytes' = <<<<"E0">>, <<"release", "ctl">>>>
      BY <1>3, <2>2
    <3> QED  BY <2>1, <3>1
  <2>3. CASE k \notin held
    <3>1. /\ bytes' = <<<<"press", "ctl">>>> \/ bytes' = <<<<"E0">>, <<"press", "ctl">>>>
          /\ held' # {}
      BY <1>3, <2>3
    <3> QED  BY <2>1, <3>1
  <2> QED  BY <2>2, <2>3
<1> QED  BY <1>2, <1>3 DEF Key

LEMMA ConsoleStep ==
  ASSUME ConsoleInv, [ConsoleNext]_consoleVars
  PROVE  ConsoleInv' /\ [Input!Next]_<<Between(r, w), Between(w, e)>>
<1> USE DEF ConsoleInv
<1>1. ASSUME NEW c \in Char \cup {NoChar}, consoleintr(c), KeyInv'
      PROVE  ConsoleInv' /\ [Input!Next]_<<Between(r, w), Between(w, e)>>
  BY <1>1, ConsoleintrInv
<1>2. CASE uartintr
  <2>1. PICK c \in Char : consoleintr(c) /\ UNCHANGED keyboard  BY <1>2 DEF uartintr
  <2>2. KeyInv'  BY <2>1 DEF keyboard, KeyInv, Follows
  <2> QED  BY <1>1, <2>1, <2>2
<1>3. CASE kbdintr  BY <1>1, <1>3, KbdKeyInv
<1>4. ASSUME UNCHANGED <<input, readers>>, KeyInv'
      PROVE  ConsoleInv' /\ [Input!Next]_<<Between(r, w), Between(w, e)>>
  <2>1. ConsoleTypeOK' /\ ConsoleLockInv' /\ SleepInv'
    BY <1>4 DEF input, readers, ConsoleTypeOK, ConsoleLockInv, SleepInv
  <2>2. RingInv' /\ UNCHANGED <<Between(r, w), Between(w, e)>>  BY <1>4, SameInput
  <2> QED  BY <1>4, <2>1, <2>2
<1>5. CASE Key
  <2>1. UNCHANGED <<input, readers>>  BY <1>5 DEF Key
  <2>2. KeyInv'  BY <1>5, KeyPressInv
  <2> QED  BY <1>4, <2>1, <2>2
<1>6. ASSUME NEW p \in Reader, ReaderStep(p)
      PROVE  ConsoleInv' /\ [Input!Next]_<<Between(r, w), Between(w, e)>>
  <2>1. UNCHANGED keyboard
    BY <1>6 DEF ReaderStep, consoleread, ReadEnter, ReadWait, ReadSleep, ReadChar,
       ReaderKilled
  <2>2. KeyInv'  BY <2>1 DEF keyboard, KeyInv, Follows
  <2> QED  BY <1>6, <2>2, ReaderStepInv
<1>7. CASE UNCHANGED consoleVars
  <2>1. UNCHANGED <<input, readers>> /\ UNCHANGED keyboard  BY <1>7 DEF consoleVars
  <2>2. KeyInv'  BY <2>1 DEF keyboard, KeyInv, Follows
  <2> QED  BY <1>4, <2>1, <2>2
<1> QED  BY <1>2, <1>3, <1>5, <1>6, <1>7 DEF ConsoleNext

\* The console's invariant: the lock, the ring's indices, the sleepers and the
\* keyboard driver's shift state.
THEOREM ConsoleInvariant == ConsoleSpec => []ConsoleInv
<1>1. ConsoleInit => ConsoleInv  BY ConsoleInitInv
<1>2. ConsoleInv /\ [ConsoleNext]_consoleVars => ConsoleInv'  BY ConsoleStep
<1> QED  BY <1>1, <1>2, PTL DEF ConsoleSpec

\* No reader misses a line and the ring never hangs, for every number of
\* readers and every size of the ring (consoleread, consoleintr).
THEOREM InputAlwaysWakes == ConsoleSpec => []InputWakes
<1>1. ConsoleInv => InputWakes
  <2> SUFFICES ASSUME ConsoleInv PROVE InputWakes  OBVIOUS
  <2>1. (e - r) % Wrap = Dist(r, w) + Dist(w, e)  BY RingDistances DEF ConsoleInv
  <2>2. (e - r) % Wrap = INPUT_BUF => r # w  BY <2>1 DEF ConsoleInv, RingInv
  <2> QED  BY <2>2 DEF ConsoleInv, SleepInv, InputWakes
<1> QED  BY <1>1, ConsoleInvariant, PTL

\* The keyboard driver follows the control keys, for every sequence of keys
\* (kbdgetc).
THEOREM KeysAreFollowed == ConsoleSpec => []KeysFollowed
<1>1. ConsoleInv => KeysFollowed  BY DEF ConsoleInv, KeyInv, KeysFollowed
<1> QED  BY <1>1, ConsoleInvariant, PTL

\* The console's input is a line buffer, for every number of readers, every size
\* of the ring and every range of its indices that the size divides.
THEOREM InputIsLineBuffer == ConsoleSpec => IsLineBuffer
<1>1. ConsoleInit => Input!Init  BY ConsoleInitInv
<1>2. ConsoleInv /\ [ConsoleNext]_consoleVars => [Input!Next]_<<Between(r, w), Between(w, e)>>
  BY ConsoleStep
<1> QED  BY <1>1, <1>2, ConsoleInvariant, PTL DEF ConsoleSpec, IsLineBuffer, Input!Spec

=============================================================================
