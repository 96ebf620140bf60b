\* Once the requests stop the screen shows what was asked for.
CONSTANTS
  Objs <- MCObjs
  Kind <- MCKind
  SvcState <- MCSvc
  Textbox <- MCTextbox
  Blendin <- IconFades
  Blendout <- IconFades
  States <- MCStates
  Values <- MCValues
  MaxRequests = 3
  FreedReads <- Both
SPECIFICATION FairSpec
PROPERTY EventuallyAsAsked
CHECK_DEADLOCK FALSE
