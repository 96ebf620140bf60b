CONSTANTS
  None = None
  Services <- MCServices
  Listed <- MCServices
  Rank <- MCRank
  Waiters <- MCWaiters
  XService = "xdm"
  Max = 12
  VonErr = TRUE
  Lag = 0
SPECIFICATION Spec
INVARIANTS
  ServiceShown
  HandledOnce
  BootEndsClean
PROPERTY
  ProgressForward
CHECK_DEADLOCK FALSE
