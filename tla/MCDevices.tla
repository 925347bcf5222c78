----------------------------- MODULE MCDevices -----------------------------
(***************************************************************************)
(* Console, Clock and Shell share nothing, so one of them is explored at a *)
(* time; and the console's characters come from the serial line or from    *)
(* the keyboard.                                                           *)
(***************************************************************************)
EXTENDS Console, Clock, Shell
CONSTANTS q1, q2
TwoProcs == {q1, q2}
Durations == {-1, 0, 1, 2}
VARIABLE part
Init ==
  /\ part \in {"serial", "keyboard", "clock", "shell"}
  /\ ConsoleInit
  /\ ClockInit /\ (part # "clock" => ticks = 0)
  /\ ShellInit /\ (part # "shell" => line = <<>>)
Serial == uartintr \/ \E p \in Reader : ReaderStep(p)
Keyboard == kbdintr \/ Key \/ \E p \in Reader \ Killable : ReaderStep(p)
Next ==
  \/ part = "serial" /\ Serial /\ UNCHANGED <<clockVars, shellVars, part>>
  \/ part = "keyboard" /\ Keyboard /\ UNCHANGED <<clockVars, shellVars, part>>
  \/ part = "clock" /\ ClockNext /\ UNCHANGED <<consoleVars, shellVars, part>>
  \/ part = "shell" /\ Shell /\ UNCHANGED <<consoleVars, clockVars, part>>
Spec ==
  /\ Init /\ [][Next]_<<consoleVars, clockVars, shellVars, part>>
  /\ (part = "clock" => ClockFairness)
=============================================================================
