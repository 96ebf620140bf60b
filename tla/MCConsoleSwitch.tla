--------------------------- MODULE MCConsoleSwitch ---------------------------
(* Instances of ConsoleSwitch for TLC: three consoles, the silent one may   *)
(* be moved between two of them.                                            *)
EXTENDS ConsoleSwitch

CONSTANTS t1, t8, t16

MCVT == {t1, t8, t16}
MCTtyChoices == {t8, t16}
MCTwoVT == {t1, t16}

\* Console switches by users, while painting goes on, 'set tty silent' moves
\* the silent tty, and 'exit'.
MoveInputs == {"chvt", "f2", "tty", "evdev", "paint", "exit"}
\* What the liveness properties are checked under: no user who switches the
\* console for ever, which would keep the signal thread from ending.
LiveInputs == {"f2", "mode", "ttyv", "exit", "staysilent", "term"}
=============================================================================
