------------------------------- MODULE Clock -------------------------------
(***************************************************************************)
(* Time: the counter ticks that the timer interrupt of CPU 0 advances      *)
(* (trap.c), and the processes that wait for it in sys_sleep() (sysproc.c).*)
(*                                                                         *)
(* ticks is unsigned and wraps at TickWrap, and sys_sleep() compares an    *)
(* unsigned difference with the int it was given: a negative number of     *)
(* ticks is a very large one.                                              *)
(***************************************************************************)
EXTENDS Integers

CONSTANTS Sleeper,          \* processes that call sleep(n)
          Mortal,           \* those that somebody may kill()
          Unlocked,         \* tickslock is free
          Cpu,              \* CPUs, among them 0
          Duration,         \* arguments of sleep()
          TickWrap          \* unsigned integers wrap here

ASSUME ClockAssumption ==
  /\ Unlocked \notin Sleeper /\ Mortal \subseteq Sleeper /\ 0 \in Cpu
  /\ TickWrap \in Nat \ {0}
  /\ Duration \subseteq Int /\ \A d \in Duration : d > -TickWrap /\ d < TickWrap

VARIABLES
  ticks,
  tickslock,  \* the process that holds it, or Unlocked
  at,         \* where each process is in sys_sleep()
  n,          \* its argument
  ticks0,     \* its local variable
  marked,     \* processes with p->killed set
  elapsed     \* the timer periods since each process read ticks0

clockVars == <<ticks, tickslock, at, n, ticks0, marked, elapsed>>

ClockInit ==
  /\ ticks \in 0 .. TickWrap - 1
  /\ tickslock = Unlocked
  /\ at = [p \in Sleeper |-> "user"]
  /\ n = [p \in Sleeper |-> 0] /\ ticks0 = [p \in Sleeper |-> 0]
  /\ marked = {}
  /\ elapsed = [p \in Sleeper |-> 0]

Move(p, l) == at' = [at EXCEPT ![p] = l]

\* Faulty variant of TickWakes.
NobodyWoken == at

\* wakeup(&ticks).
TickWakes == [p \in Sleeper |-> IF at[p] = "asleep" THEN "wake" ELSE at[p]]

\* A timer interrupt on CPU c; only CPU 0 counts, and wakes everybody.  The
\* counter does not come round before a process that is due gets to look at it.
Timer(c) ==
  IF c # 0 THEN UNCHANGED clockVars
  ELSE /\ tickslock = Unlocked
       /\ \A p \in Sleeper : at[p] # "user" => elapsed[p] < TickWrap - 1
       /\ ticks' = (ticks + 1) % TickWrap
       /\ at' = TickWakes
       /\ elapsed' = [p \in Sleeper |-> IF at[p] = "user" THEN 0 ELSE elapsed[p] + 1]
       /\ UNCHANGED <<tickslock, n, ticks0, marked>>

\* sys_sleep(): acquire(&tickslock), ticks0 = ticks.
sys_sleep(p) ==
  /\ at[p] = "user" /\ p \notin marked /\ tickslock = Unlocked
  /\ \E d \in Duration : n' = [n EXCEPT ![p] = d]
  /\ tickslock' = p
  /\ ticks0' = [ticks0 EXCEPT ![p] = ticks]
  /\ elapsed' = [elapsed EXCEPT ![p] = 0]
  /\ Move(p, "loop")
  /\ UNCHANGED <<ticks, marked>>

\* Faulty variant of Due: a comparison that does not survive the wrap.
DueAbsolute(p) == ticks >= ticks0[p] + n[p]

\* The loop's test, negated: both sides are unsigned.
Due(p) == (ticks - ticks0[p]) % TickWrap >= n[p] % TickWrap

\* The loop's tests: the time is over, or killed, or sleep() in the next step.
SleepTest(p) ==
  /\ at[p] = "loop"
  /\ IF Due(p) \/ p \in marked
     THEN Move(p, "user") /\ tickslock' = Unlocked
     ELSE Move(p, "sleep") /\ UNCHANGED tickslock
  /\ UNCHANGED <<ticks, n, ticks0, marked, elapsed>>

\* sleep(): asleep, and tickslock is free.
TickSleep(p) ==
  /\ at[p] = "sleep"
  /\ Move(p, "asleep") /\ tickslock' = Unlocked
  /\ UNCHANGED <<ticks, n, ticks0, marked, elapsed>>

\* sleep() returns with the lock.
TickWake(p) ==
  /\ at[p] = "wake" /\ tickslock = Unlocked
  /\ Move(p, "loop") /\ tickslock' = p
  /\ UNCHANGED <<ticks, n, ticks0, marked, elapsed>>

\* kill().
SleeperKilled(p) ==
  /\ p \in Mortal \ marked
  /\ marked' = marked \cup {p}
  /\ Move(p, IF at[p] = "asleep" THEN "wake" ELSE at[p])
  /\ UNCHANGED <<ticks, tickslock, n, ticks0, elapsed>>

SleepStep(p) == SleepTest(p) \/ TickSleep(p) \/ TickWake(p)

ClockNext ==
  \/ \E c \in Cpu : Timer(c)
  \/ \E p \in Sleeper : sys_sleep(p) \/ SleepStep(p) \/ SleeperKilled(p)

ClockSpec == ClockInit /\ [][ClockNext]_clockVars

\* CPU 0's timer keeps going, and the kernel runs a process that can go on; it
\* gets tickslock in the end, and so does the interrupt handler, which spins.
ClockFairness ==
  /\ SF_clockVars(Timer(0))
  /\ \A p \in Sleeper : SF_clockVars(SleepStep(p))

-----------------------------------------------------------------------------
(* Properties *)

\* A process that sys_sleep() lets go has waited for its n timer periods, or
\* was killed, also when ticks wraps meanwhile; with a negative n it has waited
\* for TickWrap + n.
SleptLongEnough ==
  [][\A p \in Sleeper : at[p] = "loop" /\ at'[p] = "user" =>
       p \in marked \/ elapsed[p] >= n[p] % TickWrap]_clockVars

\* Every sys_sleep() returns, a killed one too although the kill may come
\* between the test and sleep(): the next tick wakes everybody.
SleepReturns == \A p \in Sleeper : at[p] = "loop" ~> at[p] = "user"

=============================================================================
