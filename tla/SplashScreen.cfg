\* An icon that fades in and out and a panel that fades in.
CONSTANTS
  Objs <- MCObjs
  Kind <- MCKind
  SvcState <- MCSvc
  Textbox <- MCTextbox
  Blendin <- PanelToo
  Blendout <- IconFades
  States <- MCStates
  Values <- MCValues
  MaxRequests = 3
  FreedReads <- Both
SPECIFICATION Spec
INVARIANTS StaleIsMarked SettledAsWanted
PROPERTY NoFlicker
CHECK_DEADLOCK FALSE
