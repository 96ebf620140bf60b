CONSTANTS
  m1 = m1
  m2 = m2
  None = None
  Monitors <- MCMonitors
  Commands <- ConsoleCommands
  Autoverbose = FALSE
  Keys <- AllKeys
  ExecText = TRUE
SYMMETRY MonitorSymmetry
SPECIFICATION Spec
INVARIANTS
  OnlyKnownRaces
  OneMonitor
CHECK_DEADLOCK FALSE
