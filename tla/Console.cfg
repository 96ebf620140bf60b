\* The silent tty moves between two of three consoles.
CONSTANTS
  t1 = t1
  t8 = t8
  t16 = t16
  NoVT = NoVT
  VT <- MCVT
  Silent0 = t16
  Verbose0 = t1
  TtyChoices <- MCTtyChoices
  Inputs <- MoveInputs
  KdGraphics = TRUE
  Autoverbose = FALSE
  MaxTries = 2
SPECIFICATION Spec
INVARIANTS
  ModeFollowsConsole
  PaintsOnlySilentTty
  ReleaseIsAnnounced
  ConsoleNotStuck
