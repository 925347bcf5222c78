------------------------------ MODULE Console ------------------------------
(***************************************************************************)
(* The console (console.c): the ring in which the interrupt handlers edit  *)
(* a line, the processes that read it, and the keyboard driver (kbd.c),    *)
(* whose characters arrive as they do from the serial line (uart.c).       *)
(*                                                                         *)
(* An interrupt handler holds cons.lock from beginning to end and is one   *)
(* step per character.  A reader holds it except while it is asleep; kill()*)
(* does not need it.  The indices are unsigned and wrap at Wrap.           *)
(***************************************************************************)
EXTENDS Integers, Sequences

CONSTANTS Reader,           \* processes that read the console
          Killable,         \* those that somebody may kill()
          Nobody,           \* cons.lock is free
          INPUT_BUF,
          Wrap,             \* unsigned indices wrap here
          MaxRead           \* bound: n of a read()

ASSUME ConsoleAssumption ==
  /\ Nobody \notin Reader /\ Killable \subseteq Reader
  /\ INPUT_BUF \in Nat \ {0} /\ Wrap \in Nat
  /\ Wrap % INPUT_BUF = 0 /\ Wrap > INPUT_BUF
  /\ MaxRead \in Nat

\* What a character means to consoleintr(): ordinary ones, newline, ^D, ^U,
\* backspace and ^P.
Char == {"x", "nl", "^D", "^U", "bs", "^P"}
NoChar == "0"

VARIABLES
  buf, r, w, e,   \* input
  lock,           \* the reader that holds cons.lock, or Nobody
  pc,             \* where each reader is in consoleread()
  left,           \* its n, and
  target,         \*   its target
  killed,
  shift,          \* kbdgetc's static variable
  bytes,          \* what the keyboard has sent and kbdgetc() has not read
  held            \* the control keys that are down

input == <<buf, r, w, e>>
readers == <<lock, pc, left, target, killed>>
keyboard == <<shift, bytes, held>>
consoleVars == <<input, readers, keyboard>>

ConsoleInit ==
  /\ buf = [k \in 0 .. INPUT_BUF - 1 |-> NoChar]
  /\ r = 0 /\ w = 0 /\ e = 0
  /\ lock = Nobody
  /\ pc = [p \in Reader |-> "user"]
  /\ left = [p \in Reader |-> 0] /\ target = [p \in Reader |-> 0]
  /\ killed = {}
  /\ shift = {} /\ bytes = <<>> /\ held = {}

Inc(i) == (i + 1) % Wrap

\* The characters of the ring from index i up to j.
Between(i, j) == [k \in 1 .. (j - i) % Wrap |-> buf[((i + k - 1) % Wrap) % INPUT_BUF]]

-----------------------------------------------------------------------------
(* Interrupts *)

\* wakeup(&input.r).
Woken == [p \in Reader |-> IF pc[p] = "asleep" THEN "enter" ELSE pc[p]]

\* ^U: m characters go, back to the last newline.
KillLength(m) ==
  LET line == Between(w, e)
      stay == Len(line) - m
  IN /\ stay > 0 => line[stay] = "nl"
     /\ \A k \in stay + 1 .. Len(line) : line[k] # "nl"

Backspace(n) ==
  /\ e' = (e - n) % Wrap
  /\ UNCHANGED <<buf, r, w, pc>>

\* Faulty variant of EndsLine: a full ring without a newline is not handed on.
EndsAtNewline(c, ne) == c \in {"nl", "^D"}

\* The line that ends before index ne is handed to the readers.
EndsLine(c, ne) == c \in {"nl", "^D"} \/ ne = (r + INPUT_BUF) % Wrap

Store(c) ==
  /\ (e - r) % Wrap < INPUT_BUF
  /\ buf' = [buf EXCEPT ![e % INPUT_BUF] = c]
  /\ e' = Inc(e)
  /\ IF EndsLine(c, Inc(e)) THEN w' = Inc(e) /\ pc' = Woken ELSE UNCHANGED <<w, pc>>
  /\ UNCHANGED r

\* consoleintr() for one character; ^P only prints.
consoleintr(c) ==
  /\ lock = Nobody
  /\ \/ c = "^U" /\ \E m \in 0 .. (e - w) % Wrap : KillLength(m) /\ Backspace(m)
     \/ c = "bs" /\ e # w /\ Backspace(1)
     \/ c \notin {"^U", "bs", "^P", NoChar} /\ Store(c)
     \/ /\ \/ c \in {"^P", NoChar} \/ (c = "bs" /\ e = w)
           \/ c \notin {"^U", "bs"} /\ (e - r) % Wrap >= INPUT_BUF
        /\ UNCHANGED <<input, pc>>
  /\ UNCHANGED <<lock, left, target, killed>>

uartintr == \E c \in Char : consoleintr(c) /\ UNCHANGED keyboard

\* normalmap and ctlmap (shiftmap and CAPSLOCK only turn letters into others);
\* with E0 a key stands for another, without a character here.
charcode(k, sh) ==
  IF k = "ctl" \/ "E0ESC" \in sh THEN NoChar
  ELSE CASE k = "d" -> IF "CTL" \in sh THEN "^D" ELSE "x"
         [] k = "u" -> IF "CTL" \in sh THEN "^U" ELSE "x"
         [] k = "bs" -> IF "CTL" \in sh THEN NoChar ELSE "bs"
         [] OTHER -> k

shiftcode(k) == IF k = "ctl" THEN {"CTL"} ELSE {}

\* Faulty variant of ShiftAfter: the E0 escape survives the release of a key.
EscapeSticks(b) ==
  CASE b[1] = "E0" -> shift \cup {"E0ESC"}
    [] b[1] = "release" -> shift \ shiftcode(b[2])
    [] b[1] = "press" -> (shift \ {"E0ESC"}) \cup shiftcode(b[2])

ShiftAfter(b) ==
  CASE b[1] = "E0" -> shift \cup {"E0ESC"}
    [] b[1] = "release" -> shift \ (shiftcode(b[2]) \cup {"E0ESC"})
    [] b[1] = "press" -> (shift \ {"E0ESC"}) \cup shiftcode(b[2])

\* kbdintr(): kbdgetc() of one byte, and consoleintr() of its character.
kbdintr ==
  /\ bytes # <<>>
  /\ LET b == Head(bytes)
     IN /\ shift' = ShiftAfter(b)
        /\ consoleintr(IF b[1] = "press" THEN charcode(b[2], shift) ELSE NoChar)
  /\ bytes' = Tail(bytes)
  /\ UNCHANGED held

\* The keyboard (external): a key is pressed, or a control key released.  The
\* right control key is the left one's code after an E0 byte.
Key ==
  /\ bytes = <<>>
  /\ \/ \E k \in {"d", "u", "nl", "bs"} : bytes' = <<<<"press", k>>>> /\ UNCHANGED held
     \/ \E k \in {"left", "right"} :
          LET b == <<IF k \in held THEN "release" ELSE "press", "ctl">>
          IN /\ bytes' = IF k = "right" THEN <<<<"E0">>, b>> ELSE <<b>>
             /\ held' = IF k \in held THEN held \ {k} ELSE held \cup {k}
  /\ UNCHANGED <<input, readers, shift>>

-----------------------------------------------------------------------------
(* consoleread() *)

Goto(p, l) == pc' = [pc EXCEPT ![p] = l]

consoleread(p) ==
  /\ pc[p] = "user" /\ p \notin killed
  /\ \E n \in 1 .. MaxRead :
       /\ left' = [left EXCEPT ![p] = n] /\ target' = [target EXCEPT ![p] = n]
  /\ Goto(p, "enter")
  /\ UNCHANGED <<input, lock, killed, keyboard>>

\* acquire(&cons.lock), at the start and after sleep().
ReadEnter(p) ==
  /\ pc[p] = "enter" /\ lock = Nobody
  /\ lock' = p
  /\ Goto(p, "loop")
  /\ UNCHANGED <<input, left, target, killed, keyboard>>

Return(p) == lock' = Nobody /\ Goto(p, "user")

\* Nothing to read: give up if killed, or sleep() in the next step.
ReadWait(p) ==
  /\ pc[p] = "loop" /\ r = w
  /\ IF p \in killed THEN Return(p) ELSE Goto(p, "sleep") /\ UNCHANGED lock
  /\ UNCHANGED <<input, left, target, killed, keyboard>>

ReadSleep(p) ==
  /\ pc[p] = "sleep"
  /\ lock' = Nobody
  /\ Goto(p, "asleep")
  /\ UNCHANGED <<input, left, target, killed, keyboard>>

\* One character; ^D after other characters is left for the next read().
ReadChar(p) ==
  /\ pc[p] = "loop" /\ r # w
  /\ LET c == buf[r % INPUT_BUF]
         n == IF c = "^D" THEN left[p] ELSE left[p] - 1
     IN /\ r' = IF c = "^D" /\ left[p] < target[p] THEN r ELSE Inc(r)
        /\ left' = [left EXCEPT ![p] = n]
        /\ IF c \in {"^D", "nl"} \/ n = 0 THEN Return(p) ELSE UNCHANGED <<lock, pc>>
  /\ UNCHANGED <<buf, w, e, target, killed, keyboard>>

\* kill(): wakes a process that is asleep by now.
ReaderKilled(p) ==
  /\ p \in Killable \ killed
  /\ killed' = killed \cup {p}
  /\ Goto(p, IF pc[p] = "asleep" THEN "enter" ELSE pc[p])
  /\ UNCHANGED <<input, lock, left, target, keyboard>>

ReaderStep(p) ==
  \/ consoleread(p) \/ ReadEnter(p) \/ ReadWait(p) \/ ReadSleep(p)
  \/ ReadChar(p) \/ ReaderKilled(p)

ConsoleNext ==
  \/ uartintr \/ kbdintr \/ Key
  \/ \E p \in Reader : ReaderStep(p)

ConsoleSpec == ConsoleInit /\ [][ConsoleNext]_consoleVars

-----------------------------------------------------------------------------
(* Properties *)

Input == INSTANCE LineBuffer WITH
  Char <- Char, EndOfLine <- {"nl", "^D"}, Capacity <- INPUT_BUF,
  queue <- Between(r, w), line <- Between(w, e)

\* The ring is a line buffer: editing never reaches a line that was handed on,
\* a full ring is handed on, and characters are read in order, also when the
\* indices wrap and readers take turns (consoleintr, consoleread).
IsLineBuffer == Input!Spec

\* No wakeup is lost: while nobody is inside consoleread(), a reader is asleep
\* only if there is nothing to read; and a ring that takes no more characters
\* has something to read, so that input never hangs.
InputWakes ==
  /\ lock = Nobody /\ r # w => \A p \in Reader : pc[p] # "asleep"
  /\ (e - r) % Wrap = INPUT_BUF => r # w

\* Once the keyboard's bytes are read, the driver does not think that a control
\* key is down when none is, nor that an E0 byte is pending, however left and
\* right control keys overlap (kbdgetc).
KeysFollowed ==
  bytes = <<>> => /\ "CTL" \in shift => held # {}
                  /\ "E0ESC" \notin shift

=============================================================================
