CONSTANTS
  m1 = m1
  m2 = m2
  None = None
  Monitors <- MCOneMonitor
  Commands <- MonitorCommands
  Autoverbose = FALSE
  Keys <- OneKey
  ExecText = FALSE
SPECIFICATION FairSpec
PROPERTY
  CommandReturns
CHECK_DEADLOCK FALSE
