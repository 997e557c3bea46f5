SPECIFICATION FairSpec
CONSTANTS
  c1 = c1
  c2 = c2
  Calls = {c1, c2}
  Ioctl = ioctl
  None = none
  MaxChunks = 3
  MaxStarts = 2
  Setups <- All
INVARIANTS
  HwRunsTheHead
  CompletedWhenMoved
PROPERTIES
  EveryIocbCompletes
  MeasurementEnds
CHECK_DEADLOCK FALSE
