CONSTANTS
  m1 = m1
  m2 = m2
  None = None
  Monitors <- MCOneMonitor
  Commands <- ThemeCommands
  Autoverbose = TRUE
  Keys <- F3Key
  ExecText = FALSE
SPECIFICATION Spec
INVARIANTS
  MutexDiscipline
  OnlyKnownRaces
  NoDeadlock
CHECK_DEADLOCK FALSE
