SPECIFICATION Spec
CONSTANTS
  XdmaRows = 2
  RealRows = 3
  Zero = zero
  Beyond = beyond
  MaxTurns = 5
  MaxEnds = 3
  MaxErrors = 1
  BarFits = {TRUE, FALSE}
INVARIANT
  FramesFresh
PROPERTY
  FramesKeepComing
CHECK_DEADLOCK FALSE
