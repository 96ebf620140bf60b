CONSTANTS
  t1 = t1
  t8 = t8
  t16 = t16
  NoVT = NoVT
  VT <- MCTwoVT
  Silent0 = t16
  Verbose0 = t1
  TtyChoices <- MCTwoVT
  Inputs <- LiveInputs
  KdGraphics = FALSE
  Autoverbose = FALSE
  MaxTries = 2
SPECIFICATION FairSpec
INVARIANT
  TypeOK
PROPERTIES
  ReleaseIsAnswered
  SetModeReturns
  ExitTerminates
CHECK_DEADLOCK FALSE
