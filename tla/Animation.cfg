CONSTANTS
  Kind <- MCKind
  OfService <- MCOfService
  Frames <- MCFrames
  FrameDelay <- MCFrameDelay
  MaxProgress = 2
  MaxDelay = 4
  MaxRequests = 4
SPECIFICATION Spec
INVARIANT ShownIsCurrent
PROPERTIES NotTooEarly AnimationsGoOn
