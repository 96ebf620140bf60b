--------------------------- MODULE MCDaemonThreads ---------------------------
(* Instances of DaemonThreads for TLC.  Two monitor identities let a        *)
(* cancelled monitor and its successor run side by side; with one, the      *)
(* successor starts when its predecessor has died.                          *)
EXTENDS DaemonThreads, TLC

CONSTANTS m1, m2

MCMonitors == {m1, m2}
MCOneMonitor == {m1}
MonitorSymmetry == Permutations(MCMonitors)

\* What changes the theme, and the rest.  'progress' and 'log' access the
\* theme without a mutex as 'set message' does, 'paint' does less than
\* 'repaint'.
ThemeCommands == {"repaint", "theme", "message", "svc", "tty", "exit"}
MonitorCommands == {"svc", "tty", "evdev", "exit"}
ConsoleCommands == MonitorCommands \union {"repaint", "effects", "mode", "vtty", "gpm"}
AllKeys == {"F2", "F3"}
OneKey == {"F2"}
F3Key == {"F3"}
=============================================================================
