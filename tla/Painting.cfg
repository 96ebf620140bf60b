\* Painting in parts, seen as single changes of the marked cells.
CONSTANTS
  XRes = 3
  YRes = 2
  PMax = 2
  Theme <- MCTheme
  PaintRects <- MCPaintRects
  MaxRequests = 3
SPECIFICATION FairSpec
INVARIANTS TypeOK PassedApart ScreenShowsBuffer
PROPERTIES CoverageKept PaintsAsAsked PaintEnds
CHECK_DEADLOCK FALSE
